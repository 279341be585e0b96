------------------------------- MODULE Wheels -------------------------------
(***************************************************************************)
(* The motor driver (motor_node.py), the wheel encoder (encoder_state.py,  *)
(* encoder_node.py) and the wheel between them.                            *)
(*                                                                         *)
(* Time goes in ticks of 50 ms, the period of the motor's watchdog and of  *)
(* the encoder's samples.  A sample takes at most MaxDelay ticks.  The     *)
(* wheel turns when it gives edges no more than three ticks apart.  Duty   *)
(* is on or off; steering, edge rates and the direction that the encoder   *)
(* writes into its samples (any direction, in SpeedLoop) are left out.     *)
(* The motor process ends by stop() or is killed, the encoder's line       *)
(* reader may fail while the process lives on, and the encoder process may *)
(* be replaced.                                                            *)
(***************************************************************************)
EXTENDS Integers

VARIABLES
    motor,     \* MotorNode and its PWM and DIR outputs
    encoder,   \* EncoderState, its line reader and the publication under way
    sample,    \* /wheel/encoder_state: the message under way
    wheel,     \* the wheel: turning, for how many ticks, ticks since its last edge
    newest     \* history: the last command this motor process was given

wheelVars == <<motor, encoder, sample, wheel, newest>>

CommandTimeout == 4        \* CMD_TIMEOUT_S: 0.2 s
StationaryTimeout == 4     \* stationary_timeout_sec: 0.2 s
MaxDelay == 1              \* bound: ticks a sample is under way
MaxTurning == 2            \* bound: ticks of turning told apart

Directions == {"forward", "reverse"}

IsOver(is_over, age, limit) == (is_over => age >= limit) /\ (~is_over => age <= limit)
AtMost(age, limit) == IF age < limit THEN age ELSE limit

NoCommand == [throttle |-> "zero", age |-> 0]
NoSample == [stationary |-> FALSE, blind |-> "no", age |-> -1]
Stopped(up, age) ==
    [up |-> up, dir |-> "forward", duty |-> FALSE, pending |-> "none", timed_out |-> FALSE,
     age |-> age]

(* A new EncoderState: without an edge, age counts the ticks since the     *)
(* state began (lost = "start") or lost its edges ("clock").               *)
FreshEncoder ==
    [reader |-> TRUE, edge |-> FALSE, age |-> 0, lost |-> "start",
     window |-> "none"]

(* MotorNode.__init__ with initialize_pwm: duty zero first, also of a      *)
(* channel found running; DIR is requested as forward.                     *)
WheelInit ==
    /\ motor = Stopped(TRUE, 0)
    /\ encoder = FreshEncoder /\ sample = NoSample
    /\ wheel = [turning |-> FALSE, for |-> 0, gap |-> 0]
    /\ newest = NoCommand

-----------------------------------------------------------------------------
(* _set_motor: a reversal waits with the duty off. *)
SetMotor(m, throttle) ==
    CASE throttle = "zero" -> [m EXCEPT !.pending = "none", !.duty = FALSE]
      [] throttle = m.dir -> [m EXCEPT !.pending = "none", !.duty = TRUE]
      [] OTHER -> [m EXCEPT !.pending = throttle, !.duty = FALSE]

(* on_cmd *)
OnCmd(throttle) ==
    /\ motor.up
    /\ motor' = [SetMotor(motor, throttle) EXCEPT !.age = 0, !.timed_out = FALSE]
    /\ newest' = [throttle |-> throttle, age |-> 0]
    /\ UNCHANGED <<encoder, sample, wheel>>

(* _watchdog *)
Watched(m) == [m EXCEPT !.pending = "none", !.duty = FALSE, !.timed_out = TRUE]

Watchdog(over) ==
    /\ motor.up => IsOver(over, motor.age, CommandTimeout)
    /\ motor' = IF motor.up /\ over THEN Watched(motor) ELSE motor
    /\ UNCHANGED <<encoder, sample, wheel, newest>>

(* Mutant of MayReverse: any sample after the request will do. *)
MayReverseOnAny(s) == motor.pending # "none"

(* _on_encoder_state *)
MayReverse(s) == s.stationary /\ motor.pending # "none"

OnEncoderState ==
    /\ sample # NoSample /\ sample' = NoSample
    /\ motor' = IF motor.up /\ MayReverse(sample)
                THEN [motor EXCEPT !.dir = motor.pending, !.pending = "none", !.duty = TRUE]
                ELSE motor
    /\ UNCHANGED <<encoder, wheel, newest>>

(* The end of the process leaves the outputs. *)
Ended(duty) == [Stopped(FALSE, 0) EXCEPT !.dir = motor.dir, !.duty = duty]

(* stop *)
StopMotor ==
    /\ motor.up /\ motor' = Ended(FALSE) /\ newest' = NoCommand
    /\ UNCHANGED <<encoder, sample, wheel>>

(* The process is killed: the PWM channel keeps its duty. *)
KillMotor ==
    /\ motor.up /\ motor' = Ended(motor.duty) /\ newest' = NoCommand
    /\ UNCHANGED <<encoder, sample, wheel>>

(* Mutant of StartMotor: a channel found running keeps its duty. *)
StartMotorHot ==
    /\ ~motor.up /\ motor' = [Stopped(TRUE, 0) EXCEPT !.duty = motor.duty]
    /\ UNCHANGED <<encoder, sample, wheel, newest>>

(* A new process: initialize_pwm writes duty zero first. *)
StartMotor ==
    /\ ~motor.up /\ motor' = Stopped(TRUE, 0)
    /\ UNCHANGED <<encoder, sample, wheel, newest>>

-----------------------------------------------------------------------------
(* The wheel gives an edge, and record_edge keeps it.  One that is kept    *)
(* between the clock reading of a publication and its measurement is later *)
(* than that reading.                                                      *)
RecordEdge ==
    /\ encoder' = IF encoder.reader
                  THEN [encoder EXCEPT !.edge = TRUE, !.age = 0,
                          !.window = IF @ = "read" THEN "late" ELSE @]
                  ELSE encoder
    /\ wheel' = [wheel EXCEPT !.turning = TRUE, !.gap = 0]
    /\ UNCHANGED <<motor, sample, newest>>

(* The wheel comes to rest: no more edges. *)
ComeToRest ==
    /\ wheel.turning /\ wheel' = [turning |-> FALSE, for |-> 0, gap |-> 0]
    /\ UNCHANGED <<motor, encoder, sample, newest>>

(* _read_events ends with an exception: the timer goes on. *)
ReaderFails ==
    /\ encoder.reader /\ encoder' = [encoder EXCEPT !.reader = FALSE]
    /\ UNCHANGED <<motor, sample, wheel, newest>>

RestartEncoder ==
    encoder' = FreshEncoder /\ UNCHANGED <<motor, sample, wheel, newest>>

(* _publish_window: the clock is read before the lock is taken. *)
PublishWindow ==
    /\ encoder.window = "none" /\ encoder' = [encoder EXCEPT !.window = "read"]
    /\ UNCHANGED <<motor, sample, wheel, newest>>

(* History: why the encoder cannot know whether the wheel turns; "no" when *)
(* it can.                                                                 *)
Blind ==
    IF ~encoder.reader THEN "reader"
    ELSE IF encoder.window = "late" THEN "clock"
    ELSE IF ~encoder.edge /\ encoder.age < StationaryTimeout THEN encoder.lost ELSE "no"

(* take_measurement and the publication.  A reading older than the last    *)
(* edge makes it forget its edges.  A sample is dropped when the next one  *)
(* comes first.                                                            *)
TakeMeasurement(gap_over) ==
    LET late == encoder.window = "late"
        stationary == late \/ ~encoder.edge \/ gap_over
    IN  /\ encoder.window # "none"
        /\ encoder.edge => IsOver(gap_over, encoder.age, StationaryTimeout)
        /\ encoder' = [encoder EXCEPT !.window = "none", !.edge = @ /\ ~late,
                         !.age = IF late THEN 0 ELSE @,
                         !.lost = IF late THEN "clock" ELSE @]
        /\ sample' = [stationary |-> stationary, blind |-> Blind, age |-> 0]
        /\ UNCHANGED <<motor, wheel, newest>>

(* One tick: an edge of a turning wheel has come in time. *)
OlderWheels ==
    /\ wheel.turning => wheel.gap < StationaryTimeout - 1
    /\ sample.age < MaxDelay
    /\ motor' = IF motor.up THEN [motor EXCEPT !.age = AtMost(@ + 1, CommandTimeout + 1)]
                ELSE motor
    /\ encoder' = [encoder EXCEPT !.age = AtMost(@ + 1, StationaryTimeout + 1)]
    /\ sample' = IF sample = NoSample THEN sample ELSE [sample EXCEPT !.age = @ + 1]
    /\ wheel' = IF wheel.turning
                THEN [wheel EXCEPT !.for = AtMost(@ + 1, MaxTurning), !.gap = @ + 1]
                ELSE wheel
    /\ newest' = IF newest.throttle = "zero" THEN newest
                 ELSE [newest EXCEPT !.age = AtMost(@ + 1, CommandTimeout + 2)]

-----------------------------------------------------------------------------
(* A driver that runs drives the motor only in the direction of the newest *)
(* command it was given itself, and only while that command is young       *)
(* enough for the watchdog: neither a reversal that waited for rest, nor a *)
(* command from before a timeout or a restart, nor the duty that a killed  *)
(* driver has left on, drives it later (_set_motor, _on_encoder_state,     *)
(* _watchdog, initialize_pwm).                                             *)
DutyFollowsCommand ==
    motor.up /\ motor.duty => /\ newest.throttle = motor.dir
                             /\ newest.age <= CommandTimeout + 1

(* The direction of a running driver changes only when the wheel rests, or *)
(* began to turn after the sample was taken that showed it at rest, unless *)
(* that sample was taken blind: by an encoder whose reader had failed, or  *)
(* that had begun anew or forgotten its edges less than the timeout ago    *)
(* (_on_encoder_state, take_measurement, record_edge).                     *)
ReversesAtRest ==
    [][motor.up /\ motor'.dir # motor.dir /\ motor'.up
         => sample.blind # "no" \/ wheel.for <= MaxDelay]_wheelVars
=============================================================================
