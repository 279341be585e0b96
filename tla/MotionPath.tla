----------------------------- MODULE MotionPath -----------------------------
(***************************************************************************)
(* The motion path: local teleoperation, the remote command's output and   *)
(* the drive adapter, and the wheels.  Each behaviour runs one part, so    *)
(* that the inputs of the others stay still:                               *)
(*    "takeover"  controller against autonomy: teleop, authority, mux;     *)
(*    "keyboard"  controller against keyboard in the teleop node;          *)
(*    "manual"    a browser's demand through adapter and authority;        *)
(*    "speed"     the adapter's speed controller;                          *)
(*    "wheels"    commands, watchdog, encoder and reversal.                *)
(* Timers are due once in each tick of 50 ms.                              *)
(***************************************************************************)
EXTENDS CommandOutput, DriveAdapter, SpeedLoop, Wheels

CONSTANTS
    MotionParts       \* the parts that are run

VARIABLES part, due

motionVars == <<teleopVars, outputVars, adapterVars, speedVars, wheelVars, part, due>>

Timers ==
    [p \in {"takeover", "keyboard", "manual", "speed", "wheels"} |->
       CASE p = "takeover" -> {"teleop", "supervision"}
         [] p = "keyboard" -> {"teleop"}
         [] p = "wheels" -> {"watchdog", "encoder"}
         [] OTHER -> {}]

Init ==
    /\ TeleopInit /\ OutputInit /\ AdapterInit /\ SpeedInit /\ WheelInit
    /\ part \in MotionParts /\ due = {}

Runs(timer) == timer \in due /\ due' = due \ {timer}
Still == UNCHANGED <<part, due>>

-----------------------------------------------------------------------------
(* The takeover part.  A joy message that begins a takeover begins it for  *)
(* every grant so far.                                                     *)
TakeoverJoy(manual, throttle) ==
    /\ OnJoy(manual, FALSE, FALSE, throttle)
    /\ granted' = IF teleop'.takeovers > teleop.takeovers THEN Engaged(granted) ELSE granted
    /\ UNCHANGED <<local, grant, gate, status, mask, cmd>>

TakeoverTimer(joy_over, brake_over) ==
    /\ Runs("teleop") /\ UNCHANGED <<part, voided>>
    /\ IF teleop.up
       THEN /\ status = NoStatus /\ PublishCmd(keys, joy_over, FALSE, brake_over)
            /\ status' = Published(teleop'.in, keys').status
            /\ MuxTeleop(Published(teleop'.in, keys'))
            /\ UNCHANGED <<local, grant, gate, granted>>
       ELSE UNCHANGED <<teleop, keys, outputVars>>

(* Controller, process and RUN release act at the end of a tick, after its *)
(* timers; RUN may be pressed at any moment.                               *)
Takeover ==
    \/ /\ due = {} /\ status = NoStatus /\ Still
       /\ \/ \E manual \in BOOLEAN : TakeoverJoy(manual, "forward")
          \/ (TeleopDies \/ (teleop.process = 1 /\ TeleopStarts)) /\ UNCHANGED outputVars
          \/ \E w, m \in BOOLEAN : Revoke(w, m) /\ UNCHANGED teleopVars
    \/ \E j, b \in BOOLEAN : TakeoverTimer(j, b)
    \/ \E open, w, m \in BOOLEAN :
         \/ OnLocalControl(open, w, m) /\ UNCHANGED teleopVars /\ Still
         \/ \E over \in BOOLEAN : OnSupervisionTimer(over, open, w, m)
              /\ Runs("supervision") /\ UNCHANGED <<teleopVars, part>>
    \/ (LoseStatus \/ Grant) /\ UNCHANGED teleopVars /\ Still
    \/ \E m \in BOOLEAN : OnRawAutonomy(m) /\ UNCHANGED teleopVars /\ Still

-----------------------------------------------------------------------------
(* The keyboard part: on_keyboard publishes at once what brakes. *)
KeyboardTimer(k0, j, k, b) == PublishCmd(k0, j, k, b) /\ UNCHANGED outputVars

OnKeyboard(throttle, brake, suppress, valid) ==
    /\ teleop.up
    /\ voided' = (voided /\ ~(valid /\ (throttle = "zero" \/ brake)))
    /\ LET k0 == KeyboardAfter(throttle, brake, suppress, valid)
       IN  IF (valid /\ brake) \/ (~valid /\ ~suppress)
           THEN \E j, b \in BOOLEAN : KeyboardTimer(k0, j, FALSE, b)
           ELSE keys' = k0 /\ UNCHANGED <<teleop, outputVars>>

(* A message that is not well formed. *)
OnBadKeyboard ==
    teleop.up /\ keys' = Invalidated([keys EXCEPT !.age = 0])
    /\ UNCHANGED <<teleop, voided, outputVars>>

Keyboard ==
    \/ \E manual, fixed, suppress \in BOOLEAN : due = {} /\
         OnJoy(manual, fixed, suppress, "forward") /\ UNCHANGED outputVars /\ Still
    \/ \E j, k, b \in BOOLEAN : teleop.up /\ KeyboardTimer(keys, j, k, b)
         /\ Runs("teleop") /\ UNCHANGED <<part, voided>>
    \/ \E brake, suppress, valid \in BOOLEAN, throttle \in {"zero", "forward"} :
         OnKeyboard(throttle, brake, suppress, valid) /\ Still
    \/ OnBadKeyboard /\ Still

-----------------------------------------------------------------------------
WheelsPart ==
    \/ \E throttle \in Throttles : OnCmd(throttle) /\ Still
    \/ (OnEncoderState \/ StopMotor \/ KillMotor \/ StartMotor) /\ Still
    \/ (RecordEdge \/ ComeToRest \/ ReaderFails \/ RestartEncoder) /\ Still
    \/ "encoder" \in due /\ PublishWindow /\ Still
    \/ \E over \in BOOLEAN :
         \/ Watchdog(over) /\ Runs("watchdog") /\ UNCHANGED part
         \/ TakeMeasurement(over) /\ Runs("encoder") /\ UNCHANGED part

Tick ==
    /\ due = {} /\ due' = Timers[part] /\ part \notin {"manual", "speed"}
    /\ IF part = "wheels" THEN OlderWheels /\ UNCHANGED <<teleopVars, outputVars>>
       ELSE /\ teleop' = [teleop EXCEPT !.in = OlderIn(@)] /\ keys' = OlderKeys(keys)
            /\ IF part = "takeover" THEN OlderOutput ELSE UNCHANGED outputVars
            /\ UNCHANGED <<voided, wheelVars>>
    /\ UNCHANGED <<part, adapterVars, speedVars>>

Next ==
    \/ part = "takeover" /\ Takeover /\ UNCHANGED <<adapterVars, speedVars, wheelVars>>
    \/ part = "keyboard" /\ Keyboard /\ UNCHANGED <<adapterVars, speedVars, wheelVars>>
    \/ part = "manual" /\ AdapterNext /\ Still
         /\ UNCHANGED <<teleopVars, outputVars, speedVars, wheelVars>>
    \/ part = "speed" /\ SpeedNext /\ Still
         /\ UNCHANGED <<teleopVars, outputVars, adapterVars, wheelVars>>
    \/ part = "wheels" /\ WheelsPart
         /\ UNCHANGED <<teleopVars, outputVars, adapterVars, speedVars>>
    \/ Tick

Spec == Init /\ [][Next]_motionVars

-----------------------------------------------------------------------------
(* What a takeover ended stays ended: no command of a grant from before a  *)
(* takeover reached the mux moves the car after it, though the status may  *)
(* be lost and the teleop node may die at once; and no keys that were held *)
(* when the controller took over do (_on_local_control,                    *)
(* _on_supervision_timer, _disarm_held_keyboard_motion).                   *)
TakeoverIsNotUndone ==
    /\ cmd.from = "autonomy" /\ cmd.moves => cmd.grant > cmd.overridden
    /\ ~(voided /\ ActiveMode(teleop.in, keys) = "keyboard_motion")

(* Remote motion ends within three ticks of the moment a takeover begins   *)
(* at the controller, even one too short to be seen in any status.         *)
RemoteYieldsInTime == cmd.waited <= YieldTicks
=============================================================================
