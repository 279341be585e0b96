-------------------------- MODULE MotionPathProofs --------------------------
(***************************************************************************)
(* Proofs about the motion path: the motor driver follows the newest       *)
(* command and reverses at rest, the speed controller integrates no period *)
(* it has held or counted, a takeover at the controller ends remote motion *)
(* in time and for good, and the authority passes on only conversions of   *)
(* the demand it knows, for any bounds and any limits of the controller.   *)
(***************************************************************************)
EXTENDS MotionPath, TLAPS, FiniteSetTheorems, SequenceTheorems

-----------------------------------------------------------------------------
(* Wheels. *)

Turns == Directions \cup {"none"}
Losses == {"start", "clock"}
Windows == {"none", "read", "late"}
Doubts == Losses \cup {"no", "reader"}

WheelTypes ==
    /\ motor \in [up : BOOLEAN, dir : Directions, duty : BOOLEAN, pending : Turns,
                  timed_out : BOOLEAN, age : Nat]
    /\ encoder \in [reader : BOOLEAN, edge : BOOLEAN, age : Nat, lost : Losses,
                    window : Windows]
    /\ sample \in [stationary : BOOLEAN, blind : Doubts, age : -1 .. MaxDelay]
    /\ wheel \in [turning : BOOLEAN, for : Nat, gap : Nat]
    /\ newest \in [throttle : Throttles, age : Nat]

(* A running driver that drives, or waits to, does so for the newest       *)
(* command, and the watchdog has counted that command's age.               *)
DriverHeeds ==
    /\ motor.up /\ motor.duty => newest.throttle = motor.dir
    /\ motor.pending # "none" => motor.up /\ newest.throttle = motor.pending
    /\ (motor.up /\ motor.duty) \/ motor.pending # "none" =>
         /\ part = "wheels" /\ newest.age = motor.age
         /\ motor.age <= CommandTimeout + 1
         /\ "watchdog" \notin due => motor.age <= CommandTimeout

(* A wheel that turns has given an edge of late, and an encoder that reads *)
(* has counted no more ticks since than there were; a wheel that a sample  *)
(* under way shows at rest, unless it was taken blind, has not turned for  *)
(* longer than the sample is old.                                          *)
SampleHolds ==
    /\ wheel.turning => wheel.gap < StationaryTimeout
    /\ wheel.turning /\ encoder.reader => encoder.age <= wheel.gap
    /\ ~wheel.turning => wheel.for = 0
    /\ sample.stationary /\ sample.blind = "no" => wheel.for <= sample.age

(* What the steps of driver, encoder and wheel preserve together. *)
WheelIInv == WheelTypes /\ DriverHeeds /\ SampleHolds

(* The driver starts stopped, with no sample and a wheel at rest. *)
LEMMA WheelsBegin == Init => WheelIInv
  BY DEF Init, WheelInit, WheelIInv, WheelTypes, DriverHeeds, SampleHolds, Stopped, NoSample,
     NoCommand, FreshEncoder, Directions, Turns, Losses, Windows, Doubts, Throttles, MaxDelay,
     CommandTimeout, StationaryTimeout

(* A command, accepted or left to wait for rest, is the newest. *)
LEMMA CommandHeeded ==
    ASSUME WheelIInv, part = "wheels", NEW throttle \in Throttles, OnCmd(throttle), Still
    PROVE  WheelIInv'
<1> USE DEF Directions, Turns, Throttles, MaxDelay, CommandTimeout, StationaryTimeout
<1>1. motor' \in [up : BOOLEAN, dir : Directions, duty : BOOLEAN, pending : Turns,
                  timed_out : BOOLEAN, age : Nat]
  <2>1. CASE throttle = "zero"
    <3>0. SetMotor(motor, throttle) = [motor EXCEPT !.pending = "none", !.duty = FALSE]
      BY <2>1 DEF SetMotor, WheelIInv, WheelTypes
    <3>1. motor' = [motor EXCEPT !.pending = "none", !.duty = FALSE, !.age = 0,
                                 !.timed_out = FALSE]
      BY <3>0 DEF OnCmd
    <3> QED
      BY <3>1 DEF WheelIInv, WheelTypes
  <2>2. CASE throttle # "zero" /\ throttle = motor.dir
    <3>0. SetMotor(motor, throttle) = [motor EXCEPT !.pending = "none", !.duty = TRUE]
      BY <2>2 DEF SetMotor, WheelIInv, WheelTypes
    <3>1. motor' = [motor EXCEPT !.pending = "none", !.duty = TRUE, !.age = 0,
                                 !.timed_out = FALSE]
      BY <3>0 DEF OnCmd
    <3> QED
      BY <3>1 DEF WheelIInv, WheelTypes
  <2>3. CASE throttle # "zero" /\ throttle # motor.dir
    <3>0. SetMotor(motor, throttle) = [motor EXCEPT !.pending = throttle, !.duty = FALSE]
      BY <2>3 DEF SetMotor, WheelIInv, WheelTypes
    <3>1. motor' = [motor EXCEPT !.pending = throttle, !.duty = FALSE, !.age = 0,
                                 !.timed_out = FALSE]
      BY <3>0 DEF OnCmd
    <3>2. throttle \in Turns
      BY <2>3
    <3> QED
      BY <3>1, <3>2 DEF WheelIInv, WheelTypes
  <2> QED
    BY <2>1, <2>2, <2>3
<1>2. WheelTypes'
  BY <1>1 DEF OnCmd, WheelIInv, WheelTypes
<1>3. DriverHeeds'
  BY DEF OnCmd, SetMotor, WheelIInv, WheelTypes, DriverHeeds, Still
<1>4. SampleHolds'
  BY DEF OnCmd, WheelIInv, SampleHolds
<1> QED
  BY <1>2, <1>3, <1>4 DEF WheelIInv

(* The driver's other steps keep what it drives for, or end it. *)
LEMMA DriverSteps ==
    ASSUME WheelIInv, part = "wheels", Still,
           OnEncoderState \/ StopMotor \/ KillMotor \/ StartMotor
    PROVE  WheelIInv'
<1> USE DEF Directions, Turns, Losses, Windows, Doubts, Throttles, MaxDelay, CommandTimeout,
       StationaryTimeout
<1>1. CASE OnEncoderState
  <2>1. WheelTypes'
    <3>1. CASE motor.up /\ MayReverse(sample)
      <4>1. motor.pending \in Directions
        BY <3>1 DEF MayReverse, WheelIInv, WheelTypes
      <4>2. motor' = [motor EXCEPT !.dir = motor.pending, !.pending = "none", !.duty = TRUE]
        BY <1>1, <3>1 DEF OnEncoderState
      <4>3. motor' \in [up : BOOLEAN, dir : Directions, duty : BOOLEAN, pending : Turns,
                        timed_out : BOOLEAN, age : Nat]
        BY <4>1, <4>2 DEF WheelIInv, WheelTypes
      <4> QED
        BY <1>1, <4>3 DEF OnEncoderState, NoSample, WheelIInv, WheelTypes
    <3>2. CASE ~(motor.up /\ MayReverse(sample))
      BY <1>1, <3>2 DEF OnEncoderState, NoSample, WheelIInv, WheelTypes
    <3> QED
      BY <3>1, <3>2
  <2>2. DriverHeeds'
    <3>1. CASE motor.up /\ MayReverse(sample)
      BY <1>1, <3>1 DEF OnEncoderState, MayReverse, WheelIInv, WheelTypes, DriverHeeds, Still
    <3>2. CASE ~(motor.up /\ MayReverse(sample))
      BY <1>1, <3>2 DEF OnEncoderState, WheelIInv, DriverHeeds, Still
    <3> QED
      BY <3>1, <3>2
  <2>3. SampleHolds'
    BY <1>1 DEF OnEncoderState, NoSample, WheelIInv, SampleHolds
  <2> QED
    BY <2>1, <2>2, <2>3 DEF WheelIInv
<1>2. CASE StopMotor \/ KillMotor
  <2>1. PICK duty \in BOOLEAN : /\ motor' = Ended(duty) /\ newest' = NoCommand
                                /\ UNCHANGED <<encoder, sample, wheel>>
    BY <1>2 DEF StopMotor, KillMotor, WheelIInv, WheelTypes
  <2>2. /\ motor' \in [up : BOOLEAN, dir : Directions, duty : BOOLEAN, pending : Turns,
                       timed_out : BOOLEAN, age : Nat]
        /\ ~motor'.up /\ motor'.pending = "none"
    BY <2>1 DEF Ended, Stopped, WheelIInv, WheelTypes
  <2> QED
    BY <2>1, <2>2 DEF NoCommand, WheelIInv, WheelTypes, DriverHeeds, SampleHolds
<1>3. CASE StartMotor
  BY <1>3 DEF StartMotor, Stopped, WheelIInv, WheelTypes, DriverHeeds, SampleHolds, Still
<1> QED
  BY <1>1, <1>2, <1>3

(* The watchdog ends what has grown too old before the next tick. *)
LEMMA WatchdogSteps ==
    ASSUME WheelIInv, part = "wheels", NEW over \in BOOLEAN, Watchdog(over),
           Runs("watchdog"), UNCHANGED part
    PROVE  WheelIInv'
<1> USE DEF Directions, Turns, Throttles, MaxDelay, CommandTimeout, StationaryTimeout
<1>1. WheelTypes'
  BY DEF Watchdog, Watched, WheelIInv, WheelTypes
<1>2. DriverHeeds'
  BY DEF Watchdog, Watched, IsOver, WheelIInv, WheelTypes, DriverHeeds, Runs
<1>3. SampleHolds'
  BY DEF Watchdog, WheelIInv, SampleHolds
<1> QED
  BY <1>1, <1>2, <1>3 DEF WheelIInv

(* The encoder and the wheel leave the driver alone. *)
LEMMA EncoderSteps ==
    ASSUME WheelIInv, part = "wheels",
           \/ (RecordEdge \/ ComeToRest \/ ReaderFails \/ RestartEncoder) /\ Still
           \/ PublishWindow /\ Still
           \/ \E over \in BOOLEAN : TakeMeasurement(over) /\ Runs("encoder") /\ UNCHANGED part
    PROVE  WheelIInv'
<1> USE DEF Directions, Turns, Losses, Windows, Doubts, Throttles, MaxDelay, CommandTimeout,
       StationaryTimeout
<1>1. CASE (ReaderFails \/ PublishWindow \/ RestartEncoder) /\ Still
  <2>1. /\ encoder' \in [reader : BOOLEAN, edge : BOOLEAN, age : Nat, lost : Losses,
                         window : Windows]
        /\ encoder'.reader => encoder'.age = 0 \/ (encoder.reader /\ encoder'.age = encoder.age)
    <3>2. CASE ReaderFails
      BY <3>2 DEF ReaderFails, WheelIInv, WheelTypes
    <3>3. CASE PublishWindow
      BY <3>3 DEF PublishWindow, WheelIInv, WheelTypes
    <3>4. CASE RestartEncoder
      BY <3>4 DEF RestartEncoder, FreshEncoder
    <3> QED
      BY <1>1, <3>2, <3>3, <3>4
  <2>2. UNCHANGED <<motor, sample, wheel, newest, part, due>>
    BY <1>1 DEF ReaderFails, PublishWindow, RestartEncoder, Still
  <2>3. WheelTypes'
    BY <2>1, <2>2 DEF WheelIInv, WheelTypes
  <2>4. DriverHeeds'
    BY <2>2 DEF WheelIInv, DriverHeeds
  <2>5. SampleHolds'
    BY <2>1, <2>2 DEF WheelIInv, WheelTypes, SampleHolds
  <2> QED
    BY <2>3, <2>4, <2>5 DEF WheelIInv
<1>2. CASE ComeToRest /\ Still
  <2>1. WheelTypes'
    BY <1>2 DEF ComeToRest, WheelIInv, WheelTypes
  <2>2. DriverHeeds' /\ SampleHolds'
    BY <1>2 DEF ComeToRest, Still, WheelIInv, WheelTypes, DriverHeeds, SampleHolds
  <2> QED
    BY <2>1, <2>2 DEF WheelIInv
<1>3. CASE RecordEdge /\ Still
  <2>1. /\ wheel' = [wheel EXCEPT !.turning = TRUE, !.gap = 0]
        /\ UNCHANGED <<motor, sample, newest>>
    BY <1>3 DEF RecordEdge
  <2>2. /\ encoder' \in [reader : BOOLEAN, edge : BOOLEAN, age : Nat, lost : Losses,
                         window : Windows]
        /\ encoder'.reader = encoder.reader
        /\ encoder'.reader => encoder'.age = 0
    <3>1. CASE ~encoder.reader
      BY <1>3, <3>1 DEF RecordEdge, WheelIInv, WheelTypes
    <3>2. CASE encoder.reader
      <4> DEFINE late == IF encoder.window = "read" THEN "late" ELSE encoder.window
      <4>1. late \in Windows
        BY DEF WheelIInv, WheelTypes
      <4>2. encoder' = [encoder EXCEPT !.edge = TRUE, !.age = 0, !.window = late]
        BY <1>3, <3>2 DEF RecordEdge
      <4> HIDE DEF late
      <4> QED
        BY <4>1, <4>2 DEF WheelIInv, WheelTypes
    <3> QED
      BY <3>1, <3>2
  <2>3. WheelTypes'
    BY <2>1, <2>2 DEF WheelIInv, WheelTypes
  <2>4. DriverHeeds'
    BY <1>3, <2>1 DEF Still, WheelIInv, DriverHeeds
  <2>5. SampleHolds'
    <3>1. wheel'.turning /\ wheel'.gap = 0 /\ wheel'.for = wheel.for
      BY <2>1 DEF WheelIInv, WheelTypes
    <3> QED
      BY <2>1, <2>2, <3>1 DEF WheelIInv, WheelTypes, SampleHolds
  <2> QED
    BY <2>3, <2>4, <2>5 DEF WheelIInv
<1>4. ASSUME NEW over \in BOOLEAN, TakeMeasurement(over), Runs("encoder"), UNCHANGED part
      PROVE  WheelIInv'
  <2> DEFINE late == encoder.window = "late"
             rests == late \/ ~encoder.edge \/ over
             since == IF late THEN 0 ELSE encoder.age
             lost == IF late THEN "clock" ELSE encoder.lost
  <2>0. /\ encoder' = [encoder EXCEPT !.window = "none", !.edge = encoder.edge /\ ~late,
                                      !.age = since, !.lost = lost]
        /\ sample' = [stationary |-> rests, blind |-> Blind, age |-> 0]
        /\ UNCHANGED <<motor, wheel, newest>>
    BY <1>4 DEF TakeMeasurement
  <2>1. /\ rests \in BOOLEAN /\ since \in Nat /\ since <= encoder.age
        /\ lost \in Losses /\ (encoder.edge /\ ~late) \in BOOLEAN
    BY DEF WheelIInv, WheelTypes
  <2>2. Blind \in Doubts
    BY DEF Blind, WheelIInv, WheelTypes
  <2>3. rests /\ Blind = "no" => ~wheel.turning
    BY <1>4 DEF Blind, TakeMeasurement, IsOver, WheelIInv, WheelTypes, SampleHolds
  <2>4. WheelTypes'
    <3>1. PICK kept \in BOOLEAN : kept = (encoder.edge /\ ~late)
      BY <2>1
    <3> HIDE DEF rests, since, lost, late
    <3>2. encoder' \in [reader : BOOLEAN, edge : BOOLEAN, age : Nat, lost : Losses,
                        window : Windows]
      BY <2>0, <2>1, <3>1 DEF WheelIInv, WheelTypes
    <3>3. sample' \in [stationary : BOOLEAN, blind : Doubts, age : -1 .. MaxDelay]
      BY <2>0, <2>1, <2>2
    <3> QED
      BY <2>0, <3>2, <3>3 DEF WheelIInv, WheelTypes
  <2>5. DriverHeeds'
    BY <1>4, <2>0 DEF Runs, WheelIInv, DriverHeeds
  <2>6. SampleHolds'
    <3> HIDE DEF rests, since, lost, late
    <3>1. /\ encoder'.age = since /\ encoder'.reader = encoder.reader
          /\ sample'.stationary = rests /\ sample'.blind = Blind /\ sample'.age = 0
      BY <2>0, <2>1 DEF WheelIInv, WheelTypes
    <3> QED
      BY <2>0, <2>1, <2>3, <3>1 DEF WheelIInv, WheelTypes, SampleHolds
  <2> QED
    BY <2>4, <2>5, <2>6 DEF WheelIInv
<1> QED
  BY <1>1, <1>2, <1>3, <1>4

(* Time passes only when the watchdog has run. *)
LEMMA WheelsGrowOlder ==
    ASSUME WheelIInv, Tick
    PROVE  WheelIInv'
<1> USE DEF Directions, Turns, Losses, Windows, Doubts, Throttles, MaxDelay, CommandTimeout,
       StationaryTimeout
<1>1. CASE part = "wheels"
  <2>1. OlderWheels /\ due = {} /\ "watchdog" \in due' /\ part' = part
    BY <1>1 DEF Tick, Timers
  <2>2. WheelTypes'
    <3>1. motor' \in [up : BOOLEAN, dir : Directions, duty : BOOLEAN, pending : Turns,
                      timed_out : BOOLEAN, age : Nat]
      BY <2>1 DEF OlderWheels, AtMost, WheelIInv, WheelTypes
    <3>2. /\ encoder' \in [reader : BOOLEAN, edge : BOOLEAN, age : Nat, lost : Losses,
                           window : Windows]
          /\ sample' \in [stationary : BOOLEAN, blind : Doubts, age : -1 .. MaxDelay]
      BY <2>1 DEF OlderWheels, AtMost, NoSample, WheelIInv, WheelTypes
    <3>3. wheel' \in [turning : BOOLEAN, for : Nat, gap : Nat]
      <4>1. wheel \in [turning : BOOLEAN, for : Nat, gap : Nat]
        BY DEF WheelIInv, WheelTypes
      <4>2. AtMost(wheel.for + 1, MaxTurning) \in Nat /\ wheel.gap + 1 \in Nat
        BY <4>1 DEF AtMost, MaxTurning
      <4>3. PICK longer \in Nat, later \in Nat :
              wheel' = wheel \/ wheel' = [wheel EXCEPT !.for = longer, !.gap = later]
        BY <2>1, <4>2 DEF OlderWheels
      <4> QED
        BY <4>1, <4>3
    <3>4. newest' \in [throttle : Throttles, age : Nat]
      BY <2>1 DEF OlderWheels, AtMost, WheelIInv, WheelTypes
    <3> QED
      BY <3>1, <3>2, <3>3, <3>4 DEF WheelTypes
  <2>3. DriverHeeds'
    BY <2>1, <1>1 DEF OlderWheels, AtMost, WheelIInv, WheelTypes, DriverHeeds
  <2>4. SampleHolds'
    BY <2>1 DEF OlderWheels, AtMost, NoSample, MaxTurning, WheelIInv, WheelTypes, SampleHolds
  <2> QED
    BY <2>2, <2>3, <2>4 DEF WheelIInv
<1>2. CASE part # "wheels"
  BY <1>2 DEF Tick, wheelVars, WheelIInv, WheelTypes, DriverHeeds, SampleHolds
<1> QED
  BY <1>1, <1>2

(* Every step of the motion path keeps the invariant of the wheels. *)
LEMMA WheelsStep ==
    ASSUME WheelIInv, [Next]_motionVars
    PROVE  WheelIInv'
<1>1. CASE part = "wheels" /\ WheelsPart
  BY <1>1, CommandHeeded, DriverSteps, WatchdogSteps, EncoderSteps DEF WheelsPart
<1>2. CASE Tick
  BY <1>2, WheelsGrowOlder
<1>3. ASSUME part # "wheels", UNCHANGED <<wheelVars, part>>
      PROVE  WheelIInv'
  BY <1>3 DEF wheelVars, WheelIInv, WheelTypes, DriverHeeds, SampleHolds
<1>4. CASE part = "takeover" /\ Takeover /\ UNCHANGED wheelVars
  BY <1>3, <1>4 DEF Takeover, TakeoverTimer, Still
<1>5. CASE part = "keyboard" /\ Keyboard /\ UNCHANGED wheelVars
  BY <1>3, <1>5 DEF Keyboard, Still
<1>6. CASE part \in {"manual", "speed"} /\ Still /\ UNCHANGED wheelVars
  BY <1>3, <1>6 DEF Still
<1>7. CASE UNCHANGED motionVars
  BY <1>7 DEF motionVars, wheelVars, WheelIInv, WheelTypes, DriverHeeds, SampleHolds
<1> QED
  BY <1>1, <1>2, <1>4, <1>5, <1>6, <1>7 DEF Next

(* The invariant of driver, encoder and wheel. *)
THEOREM WheelsInductive == Spec => []WheelIInv
<1>1. Init => WheelIInv
  BY WheelsBegin
<1>2. WheelIInv /\ [Next]_motionVars => WheelIInv'
  BY WheelsStep
<1> QED
  BY <1>1, <1>2, PTL DEF Spec

(* A running driver drives the motor only for the newest command and only  *)
(* while it is young, whatever watchdog, encoder, kills and restarts do    *)
(* (_set_motor, _on_encoder_state, _watchdog, initialize_pwm).             *)
THEOREM DutyIsOfCommand == Spec => []DutyFollowsCommand
<1>1. WheelIInv => DutyFollowsCommand
  BY DEF WheelIInv, WheelTypes, DriverHeeds, DutyFollowsCommand, CommandTimeout
<1> QED
  BY <1>1, WheelsInductive, PTL

(* The direction of a running driver changes only at rest, as far as a     *)
(* sample that was not taken blind can show it (_on_encoder_state,         *)
(* take_measurement).                                                      *)
THEOREM ReversalIsAtRest == Spec => ReversesAtRest
<1>1. ASSUME WheelIInv, [Next]_motionVars
      PROVE  [motor.up /\ motor'.dir # motor.dir /\ motor'.up 
                => sample.blind # "no" \/ wheel.for <= MaxDelay]_wheelVars
  <2> SUFFICES ASSUME motor.up, motor'.dir # motor.dir, motor'.up
               PROVE  sample.blind # "no" \/ wheel.for <= MaxDelay
    OBVIOUS
  <2> USE DEF WheelIInv, WheelTypes
  <2>1. CASE OnEncoderState
    <3>1. sample.stationary
      BY <2>1 DEF OnEncoderState, MayReverse
    <3> QED
      BY <1>1, <3>1 DEF SampleHolds, MaxDelay
  <2>2. CASE WheelsPart /\ ~OnEncoderState
    <3>1. ASSUME NEW throttle \in Throttles, OnCmd(throttle)
          PROVE  motor'.dir = motor.dir
      BY <1>1, <3>1 DEF OnCmd, SetMotor
    <3>2. ASSUME NEW over \in BOOLEAN, Watchdog(over)
          PROVE  motor'.dir = motor.dir
      <4>1. CASE motor.up /\ over
        BY <1>1, <3>2, <4>1 DEF Watchdog, Watched
      <4>2. CASE ~(motor.up /\ over)
        BY <3>2, <4>2 DEF Watchdog
      <4> QED
        BY <4>1, <4>2
    <3>3. ~StopMotor /\ ~KillMotor /\ ~StartMotor
      BY <1>1 DEF StopMotor, KillMotor, StartMotor, Ended, Stopped
    <3>4. RecordEdge \/ ComeToRest \/ ReaderFails \/ RestartEncoder
            \/ PublishWindow => motor' = motor
      BY DEF RecordEdge, ComeToRest, ReaderFails, RestartEncoder, PublishWindow
    <3>5. ASSUME NEW over \in BOOLEAN, TakeMeasurement(over)
          PROVE  motor' = motor
      BY <3>5 DEF TakeMeasurement
    <3> QED
      BY <2>2, <3>1, <3>2, <3>3, <3>4, <3>5 DEF WheelsPart
  <2>3. CASE Tick
    <3>1. OlderWheels => motor'.dir = motor.dir
      BY <1>1 DEF OlderWheels
    <3> QED
      BY <2>3, <3>1 DEF Tick, wheelVars
  <2>4. CASE UNCHANGED wheelVars
    BY <2>4 DEF wheelVars
  <2> QED
    BY <1>1, <2>1, <2>2, <2>3, <2>4 DEF Next, motionVars
<1> QED
  BY <1>1, WheelsInductive, PTL DEF Spec, ReversesAtRest

-----------------------------------------------------------------------------
(* The speed controller. *)

Times == -1 .. MaxTime
SampleTimes == [stamp : Int, at : Times]
Periods == 1 .. MaxTime

Loops ==
    [command : {"none", "zero", "forward", "reverse"}, sample : SampleTimes,
     previous : SampleTimes, direction : Turns, spinning : BOOLEAN, output : Int, mux : Int,
     integrator : Int]
Lessons ==
    [periods : SUBSET Periods, skipped : SUBSET Periods, held : SUBSET Periods, last : Times,
     cycles : Int, length : Int, amount : Int, stepped : BOOLEAN]

SpeedTypes == loop \in Loops /\ learned \in Lessons

(* A sample time that is there was taken, and its stamp is right while the *)
(* clock is.                                                               *)
IsTaken(s) ==
    /\ s = NoSampleTime \/ s.at >= 0
    /\ ~learned.stepped => s.stamp = s.at

(* The controller remembers a sample no older than anything learned or     *)
(* skipped, or none; and all of that lies before the last cycle.           *)
LearnsOnce ==
    /\ IsTaken(loop.sample) /\ IsTaken(loop.previous)
    /\ learned.last <= loop.sample.at /\ loop.previous.at <= loop.sample.at
    /\ \A p \in learned.periods \cup learned.skipped :
         p <= learned.last /\ (loop.previous # NoSampleTime => p <= loop.previous.at)

(* What was held is over and has not been integrated. *)
HeldIsOpen == \A p \in learned.held : p <= learned.last /\ p \notin learned.periods

(* What the controller's steps preserve together. *)
SpeedIInv == SpeedTypes /\ LearnsOnce /\ HeldIsOpen /\ FrozenTimeStaysOut

(* The controller starts with nothing learned. *)
LEMMA SpeedBegins == SpeedConstants /\ Init => SpeedIInv
<1> SUFFICES ASSUME SpeedConstants, Init
             PROVE  SpeedIInv
  OBVIOUS
<1>1. NoSampleTime \in SampleTimes
  BY DEF SpeedConstants, NoSampleTime, SampleTimes, Times
<1>2. SpeedTypes
  BY <1>1
     DEF SpeedConstants, Init, SpeedInit, SpeedTypes, Loops, Lessons, Turns, Directions,
         NoOutput, Times
<1>3. LearnsOnce
  BY DEF Init, SpeedInit, LearnsOnce, IsTaken, NoSampleTime
<1>4. FrozenTimeStaysOut
  BY FS_EmptySet DEF SpeedConstants, Init, SpeedInit, FrozenTimeStaysOut
<1>5. HeldIsOpen
  BY DEF Init, SpeedInit, HeldIsOpen
<1> QED
  BY <1>2, <1>3, <1>4, <1>5 DEF SpeedIInv

(* What a brake leaves of the controller's state. *)
LEMMA BrakeFields ==
    ASSUME NEW l \in Loops, NEW z \in Int, NEW b \in BOOLEAN
    PROVE  LET braked == [l EXCEPT !.spinning = b, !.output = z]
           IN  /\ braked \in Loops /\ braked.sample = l.sample
               /\ braked.previous = l.previous
  BY DEF Loops

(* Commands, mux output and gains change neither what was learned nor      *)
(* when.                                                                   *)
LEMMA SpeedInputs ==
    ASSUME SpeedConstants, SpeedIInv,
           \/ \E command \in {"none", "zero", "forward", "reverse"} : UpdateCommand(command)
           \/ \E own \in BOOLEAN : UpdateMuxOutput(own)
           \/ SetIntegralGain
    PROVE  SpeedIInv'
<1> DEFINE Keeps(before) ==
             loop' \in Loops /\ loop'.sample = loop.sample /\ loop'.previous = before
<1>1. learned' = learned
  BY DEF UpdateCommand, UpdateMuxOutput, SetIntegralGain
<1>2. ASSUME NEW command \in {"none", "zero", "forward", "reverse"}, UpdateCommand(command)
      PROVE  Keeps(loop.previous)
  BY <1>2 DEF UpdateCommand, SpeedIInv, SpeedTypes, Loops
<1>3. ASSUME NEW own \in BOOLEAN, UpdateMuxOutput(own)
      PROVE  Keeps(loop.previous)
  <2>1. Foreign \in Int
    BY DEF Foreign, SpeedConstants
  <2>2. PICK heard \in Int : loop' = [loop EXCEPT !.mux = heard]
    BY <1>3, <2>1 DEF UpdateMuxOutput, SpeedIInv, SpeedTypes, Loops
  <2> QED
    BY <2>2 DEF SpeedIInv, SpeedTypes, Loops
<1>4. ASSUME SetIntegralGain
      PROVE  Keeps(NoSampleTime)
  <2>1. NoSampleTime \in SampleTimes
    BY DEF NoSampleTime, SampleTimes, Times, SpeedConstants
  <2>2. PICK z \in Int : z = 0
    OBVIOUS
  <2>3. loop' = [loop EXCEPT !.integrator = z, !.previous = NoSampleTime]
    BY <1>4, <2>2 DEF SetIntegralGain
  <2>4. loop \in Loops
    BY DEF SpeedIInv, SpeedTypes
  <2> HIDE DEF NoSampleTime
  <2>5. loop' \in Loops
    BY <2>1, <2>3, <2>4 DEF Loops
  <2>6. loop'.sample = loop.sample /\ loop'.previous = NoSampleTime
    BY <2>3, <2>4 DEF Loops
  <2> QED
    BY <2>5, <2>6
<1>5. Keeps(loop.previous) \/ Keeps(NoSampleTime)
  BY <1>2, <1>3, <1>4
<1>6. LearnsOnce'
  <2>1. CASE Keeps(loop.previous)
    BY <1>1, <2>1 DEF SpeedIInv, LearnsOnce, IsTaken
  <2>2. CASE Keeps(NoSampleTime)
    <3>1. NoSampleTime.at <= loop.sample.at /\ NoSampleTime.stamp = NoSampleTime.at
      BY DEF NoSampleTime, SpeedIInv, SpeedTypes, Loops, SampleTimes, Times, SpeedConstants
    <3> QED
      BY <1>1, <2>2, <3>1 DEF SpeedIInv, LearnsOnce, IsTaken
  <2> QED
    BY <1>5, <2>1, <2>2
<1> QED
  BY <1>1, <1>5, <1>6 DEF SpeedIInv, SpeedTypes, HeldIsOpen, FrozenTimeStaysOut

(* A sample is later than the one before, whatever its stamp. *)
LEMMA SamplesComeInOrder ==
    ASSUME SpeedConstants, SpeedIInv, NEW at \in 0 .. MaxTime, NEW lag \in ClockLags,
           NEW direction \in {"forward", "reverse"}, UpdateEncoder(at, lag, direction)
    PROVE  SpeedIInv'
<1> DEFINE taken == [stamp |-> at - lag, at |-> at]
<1>1. /\ taken \in SampleTimes /\ taken.at = at /\ taken.stamp = at - lag
      /\ direction \in Turns /\ lag \in Int
  BY DEF SampleTimes, Times, Turns, Directions, SpeedConstants
<1>2. loop' = [loop EXCEPT !.sample = taken, !.direction = direction] /\ at > loop.sample.at
  BY DEF UpdateEncoder
<1>3. PICK off \in BOOLEAN : /\ off = (learned.stepped \/ lag # 0)
                             /\ learned' = [learned EXCEPT !.stepped = off]
  BY DEF UpdateEncoder
<1> HIDE DEF taken
<1>4. loop' \in Loops /\ loop'.sample = taken /\ loop'.previous = loop.previous
  BY <1>1, <1>2 DEF SpeedIInv, SpeedTypes, Loops
<1>5. /\ learned' \in Lessons /\ learned'.last = learned.last
      /\ learned'.periods = learned.periods /\ learned'.skipped = learned.skipped
      /\ learned'.held = learned.held /\ learned'.stepped = off
  BY <1>3 DEF SpeedIInv, SpeedTypes, Lessons
<1>6. /\ learned'.length = learned.length /\ learned'.amount = learned.amount
      /\ learned'.cycles = learned.cycles
  BY <1>3 DEF SpeedIInv, SpeedTypes, Lessons
<1>7. LearnsOnce'
  <2>1. loop.sample.at \in Int /\ loop.previous.at \in Int /\ learned.last \in Int
    BY DEF SpeedIInv, SpeedTypes, Loops, Lessons, SampleTimes, Times
  <2>2. ~off => ~learned.stepped /\ lag = 0
    BY <1>3 DEF SpeedIInv, SpeedTypes, Lessons
  <2>3. taken.at >= 0 /\ (~off => taken.stamp = taken.at)
    BY <1>1, <2>2
  <2> QED
    BY <1>1, <1>2, <1>4, <1>5, <2>1, <2>2, <2>3 DEF SpeedIInv, LearnsOnce, IsTaken
<1>8. FrozenTimeStaysOut'
  BY <1>3, <1>5, <1>6 DEF SpeedIInv, FrozenTimeStaysOut
<1> QED
  BY <1>4, <1>5, <1>7, <1>8 DEF SpeedIInv, SpeedTypes, HeldIsOpen

(* The periods after a time are later than all that was learned or skipped *)
(* up to then.                                                             *)
LEMMA SinceIsLater ==
    ASSUME SpeedConstants, SpeedIInv, NEW from \in Times
    PROVE  /\ Since(from) \in SUBSET Periods
           /\ \A p \in Since(from) : p > from /\ p <= loop.sample.at
  BY DEF Since, SpeedIInv, SpeedTypes, Loops, SampleTimes, Times, Periods, SpeedConstants

(* Cycles that brake or are silent learn nothing and forget nothing. *)
LEMMA HoldsStill ==
    ASSUME SpeedConstants, SpeedIInv, Brake \/ Silence
    PROVE  SpeedIInv'
<1>1. loop' \in Loops /\ loop'.sample = loop.sample /\ loop'.previous = loop.previous
  <2>1. CASE Brake
    <3>1. loop' = [loop EXCEPT !.spinning = FALSE, !.output = 0] /\ 0 \in Int
      BY <2>1 DEF Brake
    <3> QED
      BY <3>1, BrakeFields, FALSE \in BOOLEAN DEF SpeedIInv, SpeedTypes
  <2>2. CASE Silence
    BY <2>2 DEF Silence, SpeedIInv, SpeedTypes, Loops
  <2> QED
    BY <2>1, <2>2
<1>2. learned.last \in Times /\ loop.sample.at \in Times
  BY DEF SpeedIInv, SpeedTypes, Loops, Lessons, SampleTimes
<1>3. PICK more \in SUBSET Periods :
        /\ learned' = [learned EXCEPT !.held = more, !.last = loop.sample.at]
        /\ more = learned.held \cup Since(learned.last)
  <2>1. learned.held \cup Since(learned.last) \in SUBSET Periods
    BY <1>2, SinceIsLater DEF SpeedIInv, SpeedTypes, Lessons
  <2>2. learned' = [learned EXCEPT !.held = learned.held \cup Since(learned.last),
                                   !.last = loop.sample.at]
    BY DEF Brake, Silence, Hold
  <2> QED
    BY <2>1, <2>2
<1>4. /\ learned' \in Lessons /\ learned'.last = loop.sample.at /\ learned'.held = more
      /\ learned'.periods = learned.periods /\ learned'.skipped = learned.skipped
      /\ learned'.stepped = learned.stepped
  BY <1>2, <1>3 DEF SpeedIInv, SpeedTypes, Lessons
<1>5. /\ learned'.length = learned.length /\ learned'.amount = learned.amount
      /\ learned'.cycles = learned.cycles
  BY <1>3 DEF SpeedIInv, SpeedTypes, Lessons
<1>6. LearnsOnce'
  <2>1. /\ IsTaken(loop.sample)' /\ IsTaken(loop.previous)'
        /\ learned'.last <= loop'.sample.at /\ loop'.previous.at <= loop'.sample.at
    BY <1>1, <1>2, <1>4 DEF SpeedIInv, LearnsOnce, IsTaken, Times
  <2>2. ASSUME NEW p \in learned'.periods \cup learned'.skipped
        PROVE  p <= learned'.last /\ (loop'.previous # NoSampleTime => p <= loop'.previous.at)
    <3>1. p \in Int /\ p <= learned.last /\ learned.last <= loop.sample.at
      BY <1>4, <2>2 DEF SpeedIInv, SpeedTypes, Lessons, Periods, LearnsOnce
    <3> QED
      BY <1>1, <1>2, <1>4, <2>2, <3>1 DEF SpeedIInv, LearnsOnce, Times
  <2> QED
    BY <2>1, <2>2 DEF LearnsOnce
<1>7. FrozenTimeStaysOut'
  BY <1>4, <1>5 DEF SpeedIInv, FrozenTimeStaysOut
<1>8. HeldIsOpen'
  <2>1. \A p \in Since(learned.last) : p <= loop.sample.at /\ p > learned.last
    BY <1>2, SinceIsLater
  <2>2. ASSUME NEW p \in learned.held
        PROVE  p \in Int /\ p <= learned.last /\ p \notin learned.periods
    BY <2>2 DEF SpeedIInv, SpeedTypes, Lessons, Periods, HeldIsOpen
  <2>3. \A p \in learned.periods : p \in Int /\ p <= learned.last
    BY DEF SpeedIInv, SpeedTypes, Lessons, Periods, LearnsOnce
  <2>4. learned.last <= loop.sample.at
    BY DEF SpeedIInv, LearnsOnce
  <2> QED
    BY <1>2, <1>3, <1>4, <2>1, <2>2, <2>3, <2>4 DEF HeldIsOpen, Times
<1> QED
  BY <1>1, <1>4, <1>6, <1>7, <1>8 DEF SpeedIInv, SpeedTypes

(* How many periods come after one time and up to another. *)
LEMMA IntervalCount ==
    ASSUME NEW a \in Int, NEW b \in Int, a <= b
    PROVE  IsFiniteSet(a + 1 .. b) /\ Cardinality(a + 1 .. b) = b - a
<1>1. a + 1 \in Int
  OBVIOUS
<1>2. /\ IsFiniteSet(a + 1 .. b)
      /\ Cardinality(a + 1 .. b) = IF a + 1 > b THEN 0 ELSE b - (a + 1) + 1
  BY <1>1, FS_Interval
<1>3. (IF a + 1 > b THEN 0 ELSE b - (a + 1) + 1) = b - a
  OBVIOUS
<1> QED
  BY <1>2, <1>3

(* The periods since the remembered sample are as many as have passed, and *)
(* later than all that was learned or skipped before.                      *)
LEMMA IntervalIsNew ==
    ASSUME SpeedConstants, SpeedIInv, loop.previous # NoSampleTime
    PROVE  /\ IsFiniteSet(Since(loop.previous.at))
           /\ Cardinality(Since(loop.previous.at)) = loop.sample.at - loop.previous.at
           /\ Since(loop.previous.at) \cap (learned.periods \cup learned.skipped) = {}
<1> DEFINE from == loop.previous.at
           upto == loop.sample.at
<1>1. from \in 0 .. MaxTime /\ upto \in Times /\ from <= upto /\ MaxTime \in Int
  BY DEF SpeedConstants, SpeedIInv, SpeedTypes, Loops, SampleTimes, Times, LearnsOnce, IsTaken
<1>2. Since(from) = from + 1 .. upto
  BY <1>1 DEF Since, Times
<1>3. /\ IsFiniteSet(from + 1 .. upto)
      /\ Cardinality(from + 1 .. upto) = upto - from
  <2>1. from \in Int /\ upto \in Int
    BY <1>1 DEF Times
  <2> HIDE DEF from, upto
  <2> QED
    BY <1>1, <2>1, IntervalCount
<1>4. ASSUME NEW p \in learned.periods \cup learned.skipped
      PROVE  p \in Int /\ p <= from
  BY <1>4 DEF SpeedIInv, SpeedTypes, Lessons, Periods, LearnsOnce
<1>5. Since(from) \cap (learned.periods \cup learned.skipped) = {}
  BY <1>1, <1>2, <1>4 DEF Times
<1> QED
  BY <1>2, <1>3, <1>5

(* A driving cycle learns an interval that begins where the remembered     *)
(* sample was taken, or skips all that was held and everything since.      *)
LEMMA DrivesOnce ==
    ASSUME SpeedConstants, SpeedIInv, loop.command \in {"forward", "reverse"},
           NEW error \in {-1, 1}, NEW feedback, NEW spin, NEW heard \in BOOLEAN,
           Drive(error, feedback, spin, heard)
    PROVE  SpeedIInv'
<1> DEFINE fresh == feedback # "old"
           spins == spin # "none"
           wheelspin == spin = "long"
           integrates == LoopIsClosed(feedback, wheelspin, heard) /\ ValidDt /\ ~WindsUp(error)
           integrator == IF integrates THEN Candidate(error) ELSE loop.integrator
           effort == Clamp(0, OutputMax, Feedforward + (IF fresh THEN error ELSE 0) + integrator)
           now == loop.sample.at
           before == loop.previous.at
           dt == loop.sample.stamp - loop.previous.stamp
<1>1. loop' = [loop EXCEPT !.integrator = integrator, !.spinning = spins,
                 !.previous = loop.sample, !.output = Signed(loop.command, effort)]
  BY DEF Drive, Reference
<1>2. learned' = IF integrates
                 THEN [learned EXCEPT !.periods = learned.periods \cup Since(before),
                         !.held = {}, !.last = now, !.cycles = learned.cycles + 1,
                         !.length = learned.length + now - before,
                         !.amount = learned.amount + loop.sample.stamp - loop.previous.stamp]
                 ELSE Skip
  BY DEF Drive
<1>0. /\ now \in Times /\ before \in Times /\ learned.last \in Times /\ dt \in Int
      /\ loop.sample.stamp \in Int /\ loop.previous.stamp \in Int /\ loop.sample \in SampleTimes
  BY DEF SpeedIInv, SpeedTypes, Loops, Lessons, SampleTimes
<1>3. integrator \in Int /\ Signed(loop.command, effort) \in Int
  <2>1. Candidate(error) \in Int
    <3>1. loop.integrator \in Int /\ IntegratorBound \in Int
      BY DEF SpeedConstants, SpeedIInv, SpeedTypes, Loops
    <3>2. error * dt \in Int
      BY <1>0
    <3> QED
      BY <3>1, <3>2 DEF Candidate, Clamp
  <2>2. integrator \in Int
    BY <2>1 DEF SpeedIInv, SpeedTypes, Loops
  <2> HIDE DEF integrator
  <2>3. effort \in Int
    BY <2>2 DEF Clamp, SpeedConstants
  <2> QED
    BY <2>2, <2>3 DEF Signed
<1>4. integrates => loop.previous # NoSampleTime /\ dt >= 1 /\ dt <= MaxIntegrationDt
  BY <1>0 DEF ValidDt, SpeedConstants
<1>5. spins \in BOOLEAN
  OBVIOUS
<1> HIDE DEF integrator, integrates, effort, spins
<1>6. /\ loop' \in Loops
      /\ loop'.previous = loop.sample /\ loop'.sample = loop.sample
  BY <1>0, <1>1, <1>3, <1>5 DEF SpeedIInv, SpeedTypes, Loops
<1>7. CASE integrates
  <2>1. /\ IsFiniteSet(Since(before)) /\ Cardinality(Since(before)) = now - before
        /\ Since(before) \cap (learned.periods \cup learned.skipped) = {}
    BY <1>4, <1>7, IntervalIsNew
  <2>2. /\ Since(before) \in SUBSET Periods
        /\ \A p \in Since(before) : p <= now
    BY <1>0, SinceIsLater
  <2>3. /\ learned'.periods = learned.periods \cup Since(before)
        /\ learned'.skipped = learned.skipped /\ learned'.last = now
        /\ learned'.stepped = learned.stepped /\ learned'.held = {}
    BY <1>2, <1>7 DEF SpeedIInv, SpeedTypes, Lessons
  <2>4. /\ learned'.length = learned.length + now - before
        /\ learned'.amount = learned.amount + loop.sample.stamp - loop.previous.stamp
        /\ learned'.cycles = learned.cycles + 1
    BY <1>2, <1>7 DEF SpeedIInv, SpeedTypes, Lessons
  <2>5. learned' \in Lessons
    <3>1. learned.periods \cup Since(before) \in SUBSET Periods
      BY <2>2 DEF SpeedIInv, SpeedTypes, Lessons
    <3>2. /\ learned.cycles + 1 \in Int /\ learned.length + now - before \in Int
          /\ learned.amount + loop.sample.stamp - loop.previous.stamp \in Int
      BY <1>0 DEF Times, SpeedIInv, SpeedTypes, Lessons
    <3>3. PICK P \in SUBSET Periods, c \in Int, l \in Int, a \in Int :
            learned' = [learned EXCEPT !.periods = P, !.held = {}, !.last = now, !.cycles = c,
                                       !.length = l, !.amount = a]
      BY <1>2, <1>7, <3>1, <3>2
    <3> HIDE DEF now
    <3> QED
      BY <1>0, <3>3 DEF SpeedIInv, SpeedTypes, Lessons
  <2>6. Cardinality(learned'.periods) = Cardinality(learned.periods) + (now - before)
    <3>1. IsFiniteSet(learned.periods)
      <4>1. IsFiniteSet(Periods)
        BY FS_Interval DEF SpeedConstants, Periods
      <4> QED
        BY <4>1, FS_Subset DEF SpeedIInv, SpeedTypes, Lessons
    <3>2. learned.periods \cap Since(before) = {}
      BY <2>1
    <3>3. Cardinality(learned.periods \cup Since(before))
            = Cardinality(learned.periods) + Cardinality(Since(before)) - 0
      BY <2>1, <3>1, <3>2, FS_Union, FS_EmptySet
    <3>4. Cardinality(learned.periods) \in Int /\ Cardinality(Since(before)) \in Int
      BY <2>1, <3>1, FS_CardinalityType
    <3> QED
      BY <2>1, <2>3, <3>3, <3>4
  <2>7. FrozenTimeStaysOut'
    <3>1. learned'.periods \cap learned'.skipped = {}
      BY <2>1, <2>3 DEF SpeedIInv, FrozenTimeStaysOut
    <3>2. learned'.length = Cardinality(learned'.periods)
      BY <1>0, <2>4, <2>6 DEF SpeedIInv, SpeedTypes, Lessons, Times, FrozenTimeStaysOut
    <3>3. ~learned'.stepped => learned'.amount = learned'.length
      BY <1>0, <2>3, <2>4
         DEF SpeedIInv, SpeedTypes, Lessons, Times, LearnsOnce, IsTaken, FrozenTimeStaysOut
    <3>4. learned'.amount \in learned'.cycles .. learned'.cycles * MaxIntegrationDt
      <4>1. learned.cycles \in Int /\ learned.amount \in Int /\ MaxIntegrationDt \in Int
        BY DEF SpeedConstants, SpeedIInv, SpeedTypes, Lessons
      <4>2. /\ learned.cycles * MaxIntegrationDt \in Int
            /\ (learned.cycles + 1) * MaxIntegrationDt
                 = learned.cycles * MaxIntegrationDt + MaxIntegrationDt
        BY <4>1
      <4>3. /\ learned.amount >= learned.cycles
            /\ learned.amount <= learned.cycles * MaxIntegrationDt
        BY <4>1, <4>2 DEF SpeedIInv, FrozenTimeStaysOut
      <4>4. learned'.amount = learned.amount + dt
        BY <1>0, <2>4, <4>1
      <4> HIDE DEF dt
      <4> QED
        BY <1>0, <1>4, <1>7, <2>4, <4>1, <4>2, <4>3, <4>4
    <3> QED
      BY <3>1, <3>2, <3>3, <3>4 DEF FrozenTimeStaysOut
  <2>8. LearnsOnce'
    <3>1. /\ IsTaken(loop.sample)' /\ IsTaken(loop.previous)'
          /\ learned'.last <= loop'.sample.at /\ loop'.previous.at <= loop'.sample.at
      BY <1>0, <1>6, <2>3 DEF SpeedIInv, LearnsOnce, IsTaken, Times
    <3>2. ASSUME NEW p \in learned'.periods \cup learned'.skipped
          PROVE  p <= now
      <4>1. CASE p \in Since(before)
        BY <2>2, <4>1
      <4>2. CASE p \in learned.periods \cup learned.skipped
        BY <1>0, <4>2 DEF SpeedIInv, SpeedTypes, Lessons, Periods, LearnsOnce, Times
      <4> QED
        BY <2>3, <3>2, <4>1, <4>2
    <3> QED
      BY <1>6, <2>3, <3>1, <3>2 DEF LearnsOnce
  <2> QED
    BY <1>6, <2>3, <2>5, <2>7, <2>8 DEF SpeedIInv, SpeedTypes, HeldIsOpen
<1>8. CASE ~integrates
  <2> DEFINE lost == learned.held \cup Since(learned.last)
  <2>1. lost \in SUBSET Periods /\ \A p \in lost : p <= now /\ p \notin learned.periods
    <3>1. /\ Since(learned.last) \in SUBSET Periods
          /\ \A p \in Since(learned.last) : p <= now /\ p > learned.last
      BY <1>0, SinceIsLater
    <3>2. \A p \in learned.periods : p \in Int /\ p <= learned.last
      BY DEF SpeedIInv, SpeedTypes, Lessons, Periods, LearnsOnce
    <3>3. /\ learned.held \in SUBSET Periods /\ learned.last <= now
          /\ \A p \in learned.held : p <= learned.last /\ p \notin learned.periods
      BY DEF SpeedIInv, SpeedTypes, Lessons, HeldIsOpen, LearnsOnce
    <3> QED
      BY <1>0, <3>1, <3>2, <3>3 DEF Times, Periods
  <2>2. learned' = [learned EXCEPT !.skipped = learned.skipped \cup lost, !.held = {},
                                   !.last = now]
    BY <1>2, <1>8 DEF Skip, Hold, SpeedIInv, SpeedTypes, Lessons
  <2> HIDE DEF lost
  <2>3. /\ learned'.periods = learned.periods /\ learned'.last = now /\ learned'.held = {}
        /\ learned'.skipped = learned.skipped \cup lost
        /\ learned'.stepped = learned.stepped
    BY <2>2 DEF SpeedIInv, SpeedTypes, Lessons
  <2>4. /\ learned'.length = learned.length /\ learned'.amount = learned.amount
        /\ learned'.cycles = learned.cycles
    BY <2>2 DEF SpeedIInv, SpeedTypes, Lessons
  <2>5. learned' \in Lessons
    <3>1. learned.skipped \cup lost \in SUBSET Periods
      BY <2>1 DEF SpeedIInv, SpeedTypes, Lessons
    <3>2. PICK P \in SUBSET Periods :
            learned' = [learned EXCEPT !.skipped = P, !.held = {}, !.last = now]
      BY <2>2, <3>1
    <3> HIDE DEF now
    <3> QED
      BY <1>0, <3>2 DEF SpeedIInv, SpeedTypes, Lessons
  <2>6. LearnsOnce'
    <3>1. /\ IsTaken(loop.sample)' /\ IsTaken(loop.previous)'
          /\ learned'.last <= loop'.sample.at /\ loop'.previous.at <= loop'.sample.at
      BY <1>0, <1>6, <2>3 DEF SpeedIInv, LearnsOnce, IsTaken, Times
    <3>2. ASSUME NEW p \in learned'.periods \cup learned'.skipped
          PROVE  p <= now
      <4>1. CASE p \in lost
        BY <2>1, <4>1
      <4>2. CASE p \in learned.periods \cup learned.skipped
        BY <1>0, <4>2 DEF SpeedIInv, SpeedTypes, Lessons, Periods, LearnsOnce, Times
      <4> QED
        BY <2>3, <3>2, <4>1, <4>2
    <3> QED
      BY <1>6, <2>3, <3>1, <3>2 DEF LearnsOnce
  <2>7. FrozenTimeStaysOut'
    BY <2>1, <2>3, <2>4 DEF SpeedIInv, FrozenTimeStaysOut
  <2> QED
    BY <1>6, <2>3, <2>5, <2>6, <2>7 DEF SpeedIInv, SpeedTypes, HeldIsOpen
<1> QED
  BY <1>7, <1>8

(* Every step of the motion path keeps the controller's invariant. *)
LEMMA SpeedStep ==
    ASSUME SpeedConstants, SpeedIInv, [Next]_motionVars
    PROVE  SpeedIInv'
<1>1. CASE SpeedNext
  <2>1. CASE Step
    BY <2>1, HoldsStill, DrivesOnce DEF Step
  <2> QED
    BY <1>1, <2>1, SpeedInputs, SamplesComeInOrder DEF SpeedNext
<1>2. CASE UNCHANGED speedVars
  BY <1>2
     DEF speedVars, SpeedIInv, SpeedTypes, LearnsOnce, IsTaken, HeldIsOpen, FrozenTimeStaysOut
<1> QED
  BY <1>1, <1>2 DEF Next, Tick, motionVars

(* No period that a driving cycle left out, frozen or held by a brake or a *)
(* silence before it, is made up for, none is integrated twice and none    *)
(* counts backwards or more than MaxIntegrationDt, for any feedforward,    *)
(* limits, bounds and steps of the clock (_integration_dt,                 *)
(* _integrator_freeze_reason, _brake, _silence).                           *)
THEOREM FrozenTimeIsLost == Spec => []FrozenTimeStaysOut
<1>1. Init => SpeedIInv
  BY SpeedConstants, SpeedBegins
<1>2. SpeedIInv /\ [Next]_motionVars => SpeedIInv'
  BY SpeedConstants, SpeedStep
<1>3. SpeedIInv => FrozenTimeStaysOut
  BY DEF SpeedIInv
<1> QED
  BY <1>1, <1>2, <1>3, PTL DEF Spec

-----------------------------------------------------------------------------
(* Takeovers.  The authority learns of one by a status that may be lost;   *)
(* until it has, its own watch and the mask of the mux bound what an old   *)
(* grant can do.                                                           *)

(* Controls and keyboard have their fields. *)
HasControls(i) ==
    i = [live |-> i.live, joy_age |-> i.joy_age, manual |-> i.manual, fixed |-> i.fixed,
         suppress |-> i.suppress, inhibited |-> i.inhibited, throttle |-> i.throttle,
         active |-> i.active, selected |-> i.selected, braking |-> i.braking,
         brake_age |-> i.brake_age]
HasKeys(k) ==
    k = [valid |-> k.valid, age |-> k.age, brake |-> k.brake, throttle |-> k.throttle,
         motion |-> k.motion, ready |-> k.ready, armed |-> k.armed, suppress |-> k.suppress,
         suppress_armed |-> k.suppress_armed, rearm |-> k.rearm]

(* The takeover reported is the one the controls ask for, and keys that a  *)
(* takeover has voided are neither armed nor ready to be.                  *)
Reports(i) == HasControls(i) /\ i.active \in BOOLEAN /\ (i.active <=> Taken(i))
Void(k) == k.armed = FALSE /\ k.ready = FALSE

TeleopIInv ==
    /\ teleop = [process |-> teleop.process, takeovers |-> teleop.takeovers, up |-> teleop.up,
                 in |-> teleop.in]
    /\ teleop.process \in Nat /\ teleop.takeovers \in Nat
    /\ Reports(teleop.in) /\ HasKeys(keys)
    /\ voided => Void(keys)

Locals == [process : Nat, takeovers : Nat, active : BOOLEAN, known : BOOLEAN, age : Nat]
Commands == [from : {"none", "autonomy", "teleop"}, grant : Nat, moves : BOOLEAN, waited : Nat,
             overridden : Nat]
Statuses == [process : Nat, takeovers : Nat, active : BOOLEAN]

OutputTypes ==
    /\ local \in Locals /\ cmd \in Commands /\ status \in Statuses
    /\ mask \in Nat /\ granted \in Seq(Nat)
    /\ grant \in 0 .. Len(granted) /\ cmd.overridden <= Len(granted)

(* The authority is behind: it knows an earlier takeover than the last. *)
Behind ==
    \/ local.process < teleop.process
    \/ local.process = teleop.process /\ local.takeovers < teleop.takeovers

(* A status is read before the controls change again, and the takeover     *)
(* that the authority knows of is the last one, seen to its end, or an     *)
(* earlier one.                                                            *)
StatusIsPresent ==
    /\ status # NoStatus =>
         /\ "teleop" \notin due
         /\ status = [process |-> teleop.process, takeovers |-> teleop.takeovers,
                      active |-> teleop.in.active]
    /\ local.known => \/ Behind
                      \/ /\ local.process = teleop.process /\ local.takeovers = teleop.takeovers
                         /\ teleop.in.active => local.active

(* The watch of the authority: silence is noticed in the third tick. *)
SilenceIsCounted ==
    local.known /\ ~local.active =>
        /\ local.age <= LocalControlTimeout + 1
        /\ "supervision" \notin due => local.age <= LocalControlTimeout
        /\ "teleop" \in due => local.age >= 1

(* A grant that a takeover has begun under, or that a takeover's command   *)
(* has overridden, is left for no longer than the authority hears nothing: *)
(* the status that it will hear is of another takeover.                    *)
GrantIsShort ==
    grant # 0 =>
        /\ local.known /\ ~local.active
        /\ grant <= cmd.overridden => Behind /\ mask < local.age
        /\ granted[grant] # Unengaged => Behind /\ granted[grant] <= local.age

CommandYields ==
    /\ cmd.from = "autonomy" /\ cmd.moves => cmd.grant > cmd.overridden
    /\ cmd.waited <= YieldTicks

TakeoverIInv ==
    /\ TeleopIInv /\ OutputTypes /\ CommandYields
    /\ part = "takeover" => StatusIsPresent /\ SilenceIsCounted /\ GrantIsShort

-----------------------------------------------------------------------------
(* The teleoperation node. *)

(* The controls before any message: nothing is taken over. *)
LEMMA IdleFields ==
    HasControls(Idle) /\ Idle.active = FALSE /\ Idle.manual = FALSE /\ Idle.fixed = FALSE
BY DEF HasControls, Idle

(* The keyboard before any message is void. *)
LEMMA NoKeysFields ==
    HasKeys(NoKeys) /\ Void(NoKeys)
BY DEF HasKeys, NoKeys, Void

(* The keyboard after each of the operators that change it. *)
LEMMA DisarmedFields ==
    ASSUME NEW k, HasKeys(k)
    PROVE  /\ HasKeys(Disarmed(k))
           /\ k.motion => Void(Disarmed(k))
           /\ Void(k) => Void(Disarmed(k))
BY DEF HasKeys, Disarmed, Void

(* _invalidate_keyboard leaves keys void. *)
LEMMA InvalidatedFields ==
    ASSUME NEW k, HasKeys(k)
    PROVE  HasKeys(Invalidated(k)) /\ Void(Invalidated(k))
<1> DEFINE j == Invalidated(k)
<1>1. j = [k EXCEPT !.valid = FALSE, !.armed = FALSE, !.ready = FALSE, !.suppress_armed = FALSE]
  BY DEF Invalidated
<1> HIDE DEF j
<1>2. HasKeys(j) /\ Void(j)
  BY <1>1 DEF HasKeys, Void
<1> QED
  BY <1>2 DEF j

(* on_joy: a takeover that begins is a new one, and voids the keys held. *)
LEMMA JoyStep ==
    ASSUME TeleopIInv, NEW manual \in BOOLEAN, NEW fixed \in BOOLEAN, NEW suppress \in BOOLEAN,
           NEW throttle, OnJoy(manual, fixed, suppress, throttle)
    PROVE  /\ TeleopIInv' /\ teleop'.process = teleop.process
           /\ teleop'.takeovers = teleop.takeovers =>
                 (teleop'.in.active => teleop.in.active)
           /\ teleop'.takeovers \in {teleop.takeovers, teleop.takeovers + 1}
<1> DEFINE in == [teleop.in EXCEPT !.live = TRUE, !.joy_age = 0, !.manual = manual,
                    !.fixed = fixed, !.suppress = suppress, !.throttle = throttle,
                    !.active = manual \/ fixed,
                    !.inhibited = fixed /\ (@ \/ manual)]
           begins == Taken(in) /\ ~teleop.in.active
<1>1. PICK active \in BOOLEAN : active = (manual \/ fixed)
  OBVIOUS
<1>2. PICK inhibited : inhibited = (fixed /\ (teleop.in.inhibited \/ manual))
  OBVIOUS
<1>3. in = [teleop.in EXCEPT !.live = TRUE, !.joy_age = 0, !.manual = manual,
              !.fixed = fixed, !.suppress = suppress, !.throttle = throttle,
              !.active = active, !.inhibited = inhibited]
  BY <1>1, <1>2
<1>4. /\ teleop' = [teleop EXCEPT !.in = in, !.takeovers = IF begins THEN @ + 1 ELSE @]
      /\ IF Taken(in) \/ suppress
         THEN /\ keys' = [Disarmed(keys) EXCEPT !.suppress_armed = FALSE, !.rearm = FALSE]
              /\ voided' = keys.motion
         ELSE UNCHANGED <<keys, voided>>
  BY DEF OnJoy
<1> HIDE DEF in
<1>5. HasControls(in) /\ in.manual = manual /\ in.fixed = fixed /\ in.active = active
  BY <1>3 DEF TeleopIInv, Reports, HasControls
<1>6. Reports(in)
  BY <1>1, <1>5 DEF Reports, Taken
<1>7. begins <=> in.active /\ ~teleop.in.active
  BY <1>6 DEF Reports
<1> HIDE DEF begins
<1>8. /\ teleop' = [process |-> teleop'.process, takeovers |-> teleop'.takeovers,
                    up |-> teleop'.up, in |-> teleop'.in]
      /\ teleop'.process = teleop.process /\ teleop'.in = in
      /\ teleop'.takeovers = IF begins THEN teleop.takeovers + 1 ELSE teleop.takeovers
  BY <1>4 DEF TeleopIInv
<1>9. HasKeys(keys') /\ (voided' => Void(keys'))
  <2>1. CASE UNCHANGED <<keys, voided>>
    BY <2>1 DEF TeleopIInv
  <2>2. CASE /\ keys' = [Disarmed(keys) EXCEPT !.suppress_armed = FALSE, !.rearm = FALSE]
             /\ voided' = keys.motion
    <3>1. HasKeys(Disarmed(keys)) /\ (keys.motion => Void(Disarmed(keys)))
      BY DisarmedFields DEF TeleopIInv
    <3> DEFINE d == Disarmed(keys)
    <3>2. HasKeys(d) /\ (keys.motion => Void(d))
      BY <3>1
    <3> HIDE DEF d
    <3>3. keys' = [d EXCEPT !.suppress_armed = FALSE, !.rearm = FALSE]
      BY <2>2 DEF d
    <3>4. HasKeys(keys') /\ (Void(d) => Void(keys'))
      BY <3>2, <3>3 DEF HasKeys, Void
    <3> QED
      BY <2>2, <3>2, <3>4
  <2> QED
    BY <1>4, <2>1, <2>2
<1>10. teleop'.process \in Nat /\ teleop'.takeovers \in Nat
  BY <1>8 DEF TeleopIInv
<1>11. TeleopIInv'
  BY <1>6, <1>8, <1>9, <1>10 DEF TeleopIInv, Reports, Void, HasControls, HasKeys, Taken
<1>12. teleop.takeovers + 1 # teleop.takeovers
  BY DEF TeleopIInv
<1> QED
  BY <1>7, <1>8, <1>11, <1>12

(* publish_cmd, also at the end of on_keyboard: inputs expire, a takeover  *)
(* may end, none begins.                                                   *)
LEMMA PublishStep ==
    ASSUME TeleopIInv, NEW k0, HasKeys(k0), voided' => Void(k0),
           NEW j, NEW k, NEW b, PublishCmd(k0, j, k, b)
    PROVE  /\ TeleopIInv' /\ teleop'.process = teleop.process
           /\ teleop'.takeovers = teleop.takeovers
           /\ teleop'.in.active => teleop.in.active
<1> DEFINE i == ExpiredIn(teleop.in, j)
           kk == ExpiredKeys(teleop.in, k0, j, k)
<1>1. /\ Reports(i) /\ (i.active => teleop.in.active)
  <2>1. CASE i = teleop.in
    BY <2>1 DEF TeleopIInv
  <2>2. CASE i = [Idle EXCEPT !.selected = teleop.in.selected, !.braking = teleop.in.braking,
                              !.brake_age = teleop.in.brake_age]
    <3>1. HasControls(i) /\ i.manual = FALSE /\ i.fixed = FALSE /\ i.active = FALSE
      BY <2>2, IdleFields DEF HasControls
    <3> QED
      BY <3>1 DEF Reports, Taken
  <2> QED
    BY <2>1, <2>2 DEF ExpiredIn
<1>2. HasKeys(kk) /\ (voided' => Void(kk))
  <2> DEFINE kept == IF teleop.in.live /\ j THEN Disarmed(k0) ELSE k0
  <2>1. HasKeys(kept) /\ (Void(k0) => Void(kept))
    BY DisarmedFields
  <2>2. kk = IF kept.valid /\ k THEN Invalidated(kept) ELSE kept
    BY DEF ExpiredKeys
  <2> HIDE DEF kept, kk
  <2>3. HasKeys(kk) /\ (Void(kept) => Void(kk))
    BY <2>1, <2>2, InvalidatedFields
  <2> QED
    BY <2>1, <2>3
<1>3. /\ keys' = kk
      /\ \E selected, braking, age :
            teleop' = [teleop EXCEPT !.in = [i EXCEPT !.selected = selected, !.braking = braking,
                                                      !.brake_age = age]]
  BY DEF PublishCmd
<1> HIDE DEF i, kk
<1>4. PICK in : /\ teleop' = [teleop EXCEPT !.in = in] /\ HasControls(in)
                /\ in.manual = i.manual /\ in.fixed = i.fixed /\ in.active = i.active
  <2>1. PICK selected, braking, age :
           teleop' = [teleop EXCEPT !.in = [i EXCEPT !.selected = selected, !.braking = braking,
                                                     !.brake_age = age]]
    BY <1>3
  <2>2. QED
    <3> DEFINE in == [i EXCEPT !.selected = selected, !.braking = braking, !.brake_age = age]
    <3>1. teleop' = [teleop EXCEPT !.in = in]
      BY <2>1
    <3>2. in = [i EXCEPT !.selected = selected, !.braking = braking, !.brake_age = age]
      OBVIOUS
    <3> HIDE DEF in
    <3>3. /\ HasControls(in) /\ in.manual = i.manual /\ in.fixed = i.fixed
          /\ in.active = i.active
      BY <1>1, <3>2 DEF Reports, HasControls
    <3> QED
      BY <3>1, <3>3
<1>5. Reports(in)
  BY <1>1, <1>4 DEF Reports, Taken
<1>6. /\ teleop' = [process |-> teleop'.process, takeovers |-> teleop'.takeovers,
                    up |-> teleop'.up, in |-> teleop'.in]
      /\ teleop'.process = teleop.process /\ teleop'.in = in
      /\ teleop'.takeovers = teleop.takeovers
  BY <1>4 DEF TeleopIInv
<1>7. TeleopIInv'
  BY <1>2, <1>3, <1>5, <1>6 DEF TeleopIInv, Reports, Void, HasControls, HasKeys, Taken
<1> QED
  BY <1>1, <1>4, <1>6, <1>7

(* The process ends, or another begins. *)
LEMMA LifeStep ==
    ASSUME TeleopIInv, TeleopDies \/ TeleopStarts
    PROVE  /\ TeleopIInv' /\ teleop'.process \in {teleop.process, teleop.process + 1}
           /\ teleop'.process = teleop.process =>
                 teleop'.takeovers = teleop.takeovers /\ teleop'.in = teleop.in
<1>1. CASE TeleopDies
  <2>1. /\ teleop' = [process |-> teleop'.process, takeovers |-> teleop'.takeovers,
                      up |-> teleop'.up, in |-> teleop'.in]
        /\ teleop'.process = teleop.process /\ teleop'.in = teleop.in
        /\ teleop'.takeovers = teleop.takeovers /\ UNCHANGED <<keys, voided>>
    BY <1>1 DEF TeleopDies, TeleopIInv
  <2>2. TeleopIInv'
    BY <2>1 DEF TeleopIInv, Reports, Void, HasControls, HasKeys, Taken
  <2> QED
    BY <2>1, <2>2
<1>2. CASE TeleopStarts
  <2>1. /\ teleop' = [process |-> teleop'.process, takeovers |-> teleop'.takeovers,
                      up |-> teleop'.up, in |-> teleop'.in]
        /\ teleop'.process = teleop.process + 1 /\ teleop'.in = Idle
        /\ teleop'.takeovers = 0 /\ keys' = NoKeys
    BY <1>2 DEF TeleopStarts
  <2>2. Reports(Idle) /\ HasKeys(NoKeys) /\ Void(NoKeys)
    BY IdleFields, NoKeysFields DEF Reports, Taken
  <2>3. TeleopIInv'
    BY <2>1, <2>2 DEF TeleopIInv, Reports, Void, HasControls, HasKeys, Taken
  <2>4. teleop.process + 1 # teleop.process
    BY DEF TeleopIInv
  <2> QED
    BY <2>1, <2>3, <2>4
<1> QED
  BY <1>1, <1>2

(* A tick changes ages only. *)
LEMMA OlderStep ==
    ASSUME TeleopIInv, teleop' = [teleop EXCEPT !.in = OlderIn(@)], keys' = OlderKeys(keys),
           UNCHANGED voided
    PROVE  /\ TeleopIInv' /\ teleop'.process = teleop.process
           /\ teleop'.takeovers = teleop.takeovers /\ teleop'.in.active = teleop.in.active
<1>1. PICK joy, brake :
         OlderIn(teleop.in) = [teleop.in EXCEPT !.joy_age = joy, !.brake_age = brake]
  BY DEF OlderIn
<1>2. PICK age : OlderKeys(keys) = [keys EXCEPT !.age = age]
  BY DEF OlderKeys
<1>3. /\ teleop' = [process |-> teleop'.process, takeovers |-> teleop'.takeovers,
                    up |-> teleop'.up, in |-> teleop'.in]
      /\ teleop'.process = teleop.process /\ teleop'.in = OlderIn(teleop.in)
      /\ teleop'.takeovers = teleop.takeovers
  BY DEF TeleopIInv
<1> DEFINE in == OlderIn(teleop.in)
<1>4. /\ HasControls(in) /\ in.manual = teleop.in.manual /\ in.fixed = teleop.in.fixed
      /\ in.active = teleop.in.active
  BY <1>1 DEF TeleopIInv, Reports, HasControls
<1>5. Reports(in)
  BY <1>4 DEF TeleopIInv, Reports, Taken
<1>6. HasKeys(keys') /\ (voided' => Void(keys'))
  BY <1>2 DEF TeleopIInv, HasKeys, Void
<1> HIDE DEF in
<1>7. TeleopIInv'
  BY <1>3, <1>5, <1>6 DEF TeleopIInv, Reports, Void, HasControls, HasKeys, Taken, in
<1> QED
  BY <1>3, <1>4, <1>7 DEF in

(* on_keyboard: of keys that a takeover has voided, only a message without *)
(* motion makes ready ones.                                                *)
LEMMA SuppressingFields ==
    ASSUME HasKeys(keys), NEW brake, NEW suppress
    PROVE  /\ HasKeys(Suppressing(brake, suppress))
           /\ Void(keys) => Void(Suppressing(brake, suppress))
<1> DEFINE k == Suppressing(brake, suppress)
<1>1. PICK armed, rearm : k = [keys EXCEPT !.suppress_armed = armed, !.rearm = rearm]
  <2>1. keys = [keys EXCEPT !.suppress_armed = keys.suppress_armed, !.rearm = keys.rearm]
    BY DEF HasKeys
  <2>2. [keys EXCEPT !.rearm = TRUE]
          = [keys EXCEPT !.suppress_armed = keys.suppress_armed, !.rearm = TRUE]
    BY DEF HasKeys
  <2> QED
    BY <2>1, <2>2 DEF Suppressing
<1> HIDE DEF k
<1>2. HasKeys(k) /\ (Void(keys) => Void(k))
  BY <1>1 DEF HasKeys, Void
<1> QED
  BY <1>2 DEF k

(* Motion keys that stay held arm nothing that was void. *)
LEMMA TypedFields ==
    ASSUME NEW k, HasKeys(k), NEW throttle, NEW brake, NEW suppress
    PROVE  /\ HasKeys(Typed(k, throttle, brake, suppress))
           /\ Void(k) /\ throttle # "zero" /\ ~brake =>
                Void(Typed(k, throttle, brake, suppress))
<1> DEFINE moves == throttle # "zero" /\ ~brake
           pressed == moves /\ ~k.motion /\ k.ready
           j == Typed(k, throttle, brake, suppress)
<1>1. PICK motion : motion = moves
  OBVIOUS
<1>2. PICK ready : ready = IF ~moves THEN TRUE ELSE IF pressed THEN FALSE ELSE k.ready
  OBVIOUS
<1>3. PICK armed \in BOOLEAN : armed = (moves /\ (k.armed \/ pressed))
  OBVIOUS
<1>4. j = [k EXCEPT !.valid = TRUE, !.brake = brake, !.throttle = throttle, !.motion = motion,
                    !.suppress = suppress, !.ready = ready, !.armed = armed]
  BY <1>1, <1>2, <1>3 DEF Typed
<1> HIDE DEF j
<1>5. HasKeys(j) /\ j.ready = ready /\ j.armed = armed
  BY <1>4 DEF HasKeys
<1>6. Void(k) /\ moves => ready = FALSE /\ armed = FALSE
  BY <1>2, <1>3 DEF Void
<1> QED
  BY <1>5, <1>6 DEF Void, j

(* The keyboard after a message, well formed, valid or not. *)
LEMMA KeyboardFields ==
    ASSUME HasKeys(keys), NEW throttle, NEW brake, NEW suppress, NEW valid
    PROVE  /\ HasKeys(KeyboardAfter(throttle, brake, suppress, valid))
           /\ Void(keys) /\ ~(valid /\ (throttle = "zero" \/ brake)) =>
                Void(KeyboardAfter(throttle, brake, suppress, valid))
<1> DEFINE s == Suppressing(brake, suppress)
           k == [s EXCEPT !.age = 0]
           silent == [k EXCEPT !.valid = FALSE, !.suppress = TRUE]
<1>1. HasKeys(s) /\ (Void(keys) => Void(s))
  BY SuppressingFields
<1>2. k = [s EXCEPT !.age = 0]
  OBVIOUS
<1>3. silent = [k EXCEPT !.valid = FALSE, !.suppress = TRUE]
  OBVIOUS
<1>4. KeyboardAfter(throttle, brake, suppress, valid) =
        IF valid THEN Typed(k, throttle, brake, suppress)
        ELSE IF suppress THEN silent ELSE Invalidated(k)
  BY DEF KeyboardAfter
<1> HIDE DEF s, k, silent
<1>5. HasKeys(k) /\ (Void(keys) => Void(k))
  BY <1>1, <1>2 DEF HasKeys, Void
<1>6. HasKeys(silent) /\ (Void(k) => Void(silent))
  BY <1>3, <1>5 DEF HasKeys, Void
<1>7. CASE valid
  BY <1>4, <1>5, <1>7, TypedFields
<1>8. CASE ~valid /\ suppress
  BY <1>4, <1>5, <1>6, <1>8
<1>9. CASE ~valid /\ ~suppress
  BY <1>4, <1>5, <1>9, InvalidatedFields
<1> QED
  BY <1>7, <1>8, <1>9

(* Every step of the keyboard part keeps voided keys void. *)
LEMMA KeyboardStep ==
    ASSUME TeleopIInv, Keyboard \/ (part = "keyboard" /\ Tick)
    PROVE  TeleopIInv' /\ UNCHANGED outputVars
<1>1. CASE \E manual, fixed, suppress \in BOOLEAN : due = {} /\
             OnJoy(manual, fixed, suppress, "forward") /\ UNCHANGED outputVars /\ Still
  BY <1>1, JoyStep
<1>2. CASE \E j, k, b \in BOOLEAN : teleop.up /\ KeyboardTimer(keys, j, k, b)
             /\ Runs("teleop") /\ UNCHANGED <<part, voided>>
  <2>1. PICK j, k, b \in BOOLEAN : KeyboardTimer(keys, j, k, b) /\ UNCHANGED voided
    BY <1>2
  <2>2. HasKeys(keys) /\ (voided' => Void(keys))
    BY <2>1 DEF TeleopIInv
  <2> QED
    BY <2>1, <2>2, PublishStep DEF KeyboardTimer
<1>3. CASE \E brake, suppress, valid \in BOOLEAN, throttle \in {"zero", "forward"} :
             OnKeyboard(throttle, brake, suppress, valid) /\ Still
  <2>1. PICK brake \in BOOLEAN, suppress \in BOOLEAN, valid \in BOOLEAN,
             throttle \in {"zero", "forward"} : OnKeyboard(throttle, brake, suppress, valid)
    BY <1>3
  <2> DEFINE k0 == KeyboardAfter(throttle, brake, suppress, valid)
  <2>2. HasKeys(k0) /\ (voided' => Void(k0))
    <3>1. voided' => voided /\ ~(valid /\ (throttle = "zero" \/ brake))
      BY <2>1 DEF OnKeyboard
    <3> QED
      BY <3>1, KeyboardFields DEF TeleopIInv
  <2>3. \/ \E j, b \in BOOLEAN : KeyboardTimer(k0, j, FALSE, b)
        \/ keys' = k0 /\ UNCHANGED <<teleop, outputVars>>
    BY <2>1 DEF OnKeyboard
  <2> HIDE DEF k0
  <2>4. CASE \E j, b \in BOOLEAN : KeyboardTimer(k0, j, FALSE, b)
    BY <2>2, <2>4, PublishStep DEF KeyboardTimer
  <2>5. CASE keys' = k0 /\ UNCHANGED <<teleop, outputVars>>
    BY <2>2, <2>5 DEF TeleopIInv, Reports, Void, HasControls, HasKeys, Taken
  <2> QED
    BY <2>3, <2>4, <2>5
<1>4. CASE OnBadKeyboard /\ Still
  <2> DEFINE k == [keys EXCEPT !.age = 0]
  <2>1. k = [keys EXCEPT !.age = 0]
    OBVIOUS
  <2>2. keys' = Invalidated(k) /\ UNCHANGED <<teleop, voided, outputVars>>
    BY <1>4 DEF OnBadKeyboard
  <2> HIDE DEF k
  <2>3. HasKeys(k)
    BY <2>1 DEF TeleopIInv, HasKeys
  <2>4. HasKeys(keys') /\ Void(keys')
    BY <2>2, <2>3, InvalidatedFields
  <2> QED
    BY <2>2, <2>4 DEF TeleopIInv, Reports, Void, HasControls, HasKeys, Taken
<1>5. CASE part = "keyboard" /\ Tick
  <2>1. /\ teleop' = [teleop EXCEPT !.in = OlderIn(@)] /\ keys' = OlderKeys(keys)
        /\ UNCHANGED voided /\ UNCHANGED outputVars
    BY <1>5 DEF Tick
  <2> QED
    BY <2>1, OlderStep
<1> QED
  BY <1>1, <1>2, <1>3, <1>4, <1>5 DEF Keyboard

-----------------------------------------------------------------------------
(* The authority's output and the mux. *)

(* What the authority knows, with one field changed. *)
LEMMA LocalFields ==
    ASSUME local \in Locals
    PROVE  /\ \A active \in BOOLEAN :
                /\ [local EXCEPT !.active = active] \in Locals
                /\ [local EXCEPT !.active = active].process = local.process
                /\ [local EXCEPT !.active = active].takeovers = local.takeovers
                /\ [local EXCEPT !.active = active].active = active
                /\ [local EXCEPT !.active = active].known = local.known
                /\ [local EXCEPT !.active = active].age = local.age
           /\ \A age \in Nat :
                /\ [local EXCEPT !.age = age] \in Locals
                /\ [local EXCEPT !.age = age].process = local.process
                /\ [local EXCEPT !.age = age].takeovers = local.takeovers
                /\ [local EXCEPT !.age = age].active = local.active
                /\ [local EXCEPT !.age = age].known = local.known
                /\ [local EXCEPT !.age = age].age = age
BY DEF Locals

(* The fields of what the authority knows. *)
LEMMA LocalTypes ==
    ASSUME local \in Locals
    PROVE  /\ local.process \in Nat /\ local.takeovers \in Nat /\ local.active \in BOOLEAN
           /\ local.known \in BOOLEAN /\ local.age \in Nat
BY DEF Locals

(* The fields of a command. *)
LEMMA CommandTypes ==
    ASSUME NEW c \in Commands
    PROVE  /\ c.grant \in Nat /\ c.moves \in BOOLEAN /\ c.waited \in Nat /\ c.overridden \in Nat
BY DEF Commands

(* A message that brakes is of no grant. *)
LEMMA ApplyStep ==
    ASSUME OutputTypes, CommandYields, NEW g, NEW open, NEW window_over, NEW mask_over,
           Apply(g, open, window_over, mask_over)
    PROVE  /\ grant' = g /\ mask' = mask /\ cmd' \in Commands
           /\ cmd'.overridden = cmd.overridden /\ CommandYields'
<1>1. grant' = g /\ mask' = mask /\ (cmd' = RemoteMessage(FALSE) \/ cmd' = cmd)
  BY DEF Apply, MuxRemote
<1>2. cmd.overridden \in Nat
  BY CommandTypes DEF OutputTypes
<1>3. CASE cmd' = RemoteMessage(FALSE)
  <2>1. cmd' = [from |-> "autonomy", grant |-> 0, moves |-> FALSE,
                overridden |-> cmd.overridden, waited |-> 0]
    BY <1>3 DEF RemoteMessage
  <2>2. cmd' \in Commands
    BY <1>2, <2>1 DEF Commands
  <2> QED
    BY <1>1, <2>1, <2>2 DEF CommandYields, YieldTicks
<1>4. CASE cmd' = cmd
  BY <1>1, <1>4 DEF OutputTypes, CommandYields
<1> QED
  BY <1>1, <1>3, <1>4

(* Ages of the grants, when a takeover begins and in each tick. *)
LEMMA EngagedFields ==
    ASSUME granted \in Seq(Nat)
    PROVE  /\ Engaged(granted) \in Seq(Nat) /\ Len(Engaged(granted)) = Len(granted)
           /\ \A g \in 1 .. Len(granted) :
                Engaged(granted)[g] = IF granted[g] = Unengaged THEN 0 ELSE granted[g]
<1>1. /\ DOMAIN granted = 1 .. Len(granted) /\ Len(granted) \in Nat
      /\ \A g \in 1 .. Len(granted) : granted[g] \in Nat
  OBVIOUS
<1>2. /\ DOMAIN Engaged(granted) = 1 .. Len(granted)
      /\ \A g \in 1 .. Len(granted) :
           Engaged(granted)[g] = IF granted[g] = Unengaged THEN 0 ELSE granted[g]
  BY <1>1 DEF Engaged
<1>3. Engaged(granted) \in [1 .. Len(granted) -> Nat]
  BY <1>1 DEF Engaged
<1>4. Engaged(granted) \in Seq(Nat)
  BY <1>1, <1>3, SeqDef
<1> QED
  BY <1>1, <1>2, <1>4, LenProperties

(* A tick ages every grant that a takeover has begun under. *)
LEMMA OlderGrants ==
    ASSUME granted \in Seq(Nat),
           granted' = [g \in DOMAIN granted |->
                         IF granted[g] > YieldTicks THEN granted[g] ELSE granted[g] + 1]
    PROVE  /\ granted' \in Seq(Nat) /\ Len(granted') = Len(granted)
           /\ \A g \in 1 .. Len(granted) :
                granted'[g] = IF granted[g] > YieldTicks THEN granted[g] ELSE granted[g] + 1
<1>1. /\ DOMAIN granted = 1 .. Len(granted) /\ Len(granted) \in Nat
      /\ \A g \in 1 .. Len(granted) : granted[g] \in Nat
  OBVIOUS
<1>2. /\ DOMAIN granted' = 1 .. Len(granted)
      /\ \A g \in 1 .. Len(granted) :
           granted'[g] = IF granted[g] > YieldTicks THEN granted[g] ELSE granted[g] + 1
  BY <1>1
<1>3. granted' \in [1 .. Len(granted) -> Nat]
  BY <1>1
<1>4. granted' \in Seq(Nat)
  BY <1>1, <1>3, SeqDef
<1> QED
  BY <1>1, <1>2, <1>4, LenProperties

-----------------------------------------------------------------------------
(* The takeover: one lemma for each of its actions. *)

(* The controls' steps: the status they will report is of no earlier       *)
(* takeover, so an authority that is behind stays behind.                  *)
LEMMA BehindStays ==
    ASSUME TeleopIInv, TeleopIInv', local \in Locals, UNCHANGED local, Behind,
           \/ teleop'.process > teleop.process
           \/ teleop'.process = teleop.process /\ teleop'.takeovers >= teleop.takeovers
    PROVE  Behind'
BY LocalTypes DEF TeleopIInv, Behind

(* on_joy: a takeover begins under every grant, and the authority is behind it. *)
LEMMA TakeoverJoyStep ==
    ASSUME TakeoverIInv, part = "takeover", due = {}, status = NoStatus, Still,
           NEW manual \in BOOLEAN, TakeoverJoy(manual, "forward")
    PROVE  TakeoverIInv'
<1>1. /\ TeleopIInv' /\ teleop'.process = teleop.process
      /\ teleop'.takeovers = teleop.takeovers => (teleop'.in.active => teleop.in.active)
      /\ teleop'.takeovers \in {teleop.takeovers, teleop.takeovers + 1}
  BY JoyStep DEF TakeoverIInv, TakeoverJoy
<1>2. teleop.process \in Nat /\ teleop.takeovers \in Nat
  BY DEF TakeoverIInv, TeleopIInv
<1>3. /\ granted' = IF teleop'.takeovers > teleop.takeovers THEN Engaged(granted) ELSE granted
      /\ UNCHANGED <<local, grant, status, mask, cmd, part, due>>
  BY DEF TakeoverJoy, Still
<1>4. /\ granted' \in Seq(Nat) /\ Len(granted') = Len(granted)
      /\ \A g \in 1 .. Len(granted) :
            \/ granted'[g] = granted[g]
            \/ granted'[g] = 0 /\ teleop'.takeovers = teleop.takeovers + 1
  BY <1>1, <1>2, <1>3, EngagedFields DEF TakeoverIInv, OutputTypes
<1>5. OutputTypes' /\ CommandYields' /\ SilenceIsCounted'
  BY <1>3, <1>4 DEF TakeoverIInv, OutputTypes, CommandYields, SilenceIsCounted
<1>6. /\ local \in Locals /\ local.process \in Nat /\ local.takeovers \in Nat
      /\ local.age \in Nat
  BY LocalTypes DEF TakeoverIInv, OutputTypes
<1>7. Behind => Behind'
  BY <1>1, <1>2, <1>3, <1>6, BehindStays DEF TakeoverIInv
<1>8. local.known /\ teleop'.takeovers = teleop.takeovers + 1 => Behind'
  BY <1>1, <1>2, <1>3, <1>6 DEF TakeoverIInv, StatusIsPresent, Behind
<1>9. StatusIsPresent'
  BY <1>1, <1>2, <1>3, <1>7, <1>8 DEF TakeoverIInv, StatusIsPresent
<1>10. GrantIsShort'
  <2>1. SUFFICES ASSUME grant # 0 PROVE GrantIsShort'
    BY <1>3 DEF GrantIsShort
  <2>2. grant \in 1 .. Len(granted) /\ granted[grant] \in Nat
    BY <2>1 DEF TakeoverIInv, OutputTypes
  <2>3. /\ local.known /\ ~local.active
        /\ grant <= cmd.overridden => Behind /\ mask < local.age
        /\ granted[grant] # Unengaged => Behind /\ granted[grant] <= local.age
    BY <2>1 DEF TakeoverIInv, GrantIsShort
  <2>4. granted'[grant] # Unengaged => Behind' /\ granted'[grant] <= local.age
    BY <1>4, <1>6, <1>7, <1>8, <2>2, <2>3
  <2> QED
    BY <1>3, <1>7, <2>3, <2>4 DEF GrantIsShort
<1> QED
  BY <1>1, <1>3, <1>5, <1>9, <1>10 DEF TakeoverIInv

(* Another process's status is of another takeover. *)
LEMMA TakeoverLifeStep ==
    ASSUME TakeoverIInv, part = "takeover", due = {}, status = NoStatus, Still,
           TeleopDies \/ TeleopStarts, UNCHANGED outputVars
    PROVE  TakeoverIInv'
<1>1. /\ TeleopIInv' /\ teleop'.process \in {teleop.process, teleop.process + 1}
      /\ teleop'.process = teleop.process =>
            teleop'.takeovers = teleop.takeovers /\ teleop'.in = teleop.in
  BY LifeStep DEF TakeoverIInv
<1>2. teleop.process \in Nat /\ teleop.takeovers \in Nat
  BY DEF TakeoverIInv, TeleopIInv
<1>3. UNCHANGED <<local, grant, status, mask, cmd, granted, part, due>>
  BY DEF outputVars, Still
<1>4. OutputTypes' /\ CommandYields' /\ SilenceIsCounted'
  BY <1>3 DEF TakeoverIInv, OutputTypes, CommandYields, SilenceIsCounted
<1>5. local \in Locals /\ local.process \in Nat /\ local.takeovers \in Nat
  BY LocalTypes DEF TakeoverIInv, OutputTypes
<1>6. Behind => Behind'
  BY <1>1, <1>2, <1>3, <1>5, BehindStays DEF TakeoverIInv
<1>7. local.known /\ teleop'.process = teleop.process + 1 => Behind'
  BY <1>1, <1>2, <1>3, <1>5 DEF TakeoverIInv, StatusIsPresent, Behind
<1>8. StatusIsPresent'
  BY <1>1, <1>2, <1>3, <1>6, <1>7 DEF TakeoverIInv, StatusIsPresent
<1>9. GrantIsShort'
  BY <1>3, <1>6 DEF TakeoverIInv, GrantIsShort
<1> QED
  BY <1>1, <1>3, <1>4, <1>8, <1>9 DEF TakeoverIInv

(* publish_cmd masks the remote input; by then the authority has waited a  *)
(* tick for the status that comes with it.                                 *)
LEMMA TakeoverTimerStep ==
    ASSUME TakeoverIInv, part = "takeover", NEW j \in BOOLEAN, NEW b \in BOOLEAN,
           TakeoverTimer(j, b)
    PROVE  TakeoverIInv'
<1>1. "teleop" \in due /\ due' = due \ {"teleop"} /\ UNCHANGED <<part, voided>>
  BY DEF TakeoverTimer, Runs
<1>2. CASE ~teleop.up
  <2>1. /\ UNCHANGED <<teleop, keys, voided, local, grant, status, mask, cmd, granted, part>>
    BY <1>1, <1>2 DEF TakeoverTimer, outputVars
  <2>2. TeleopIInv'
    BY <2>1 DEF TakeoverIInv, TeleopIInv, Reports, Void, HasControls, HasKeys, Taken
  <2>3. OutputTypes' /\ CommandYields' /\ GrantIsShort' /\ (Behind <=> Behind')
    BY <2>1 DEF TakeoverIInv, OutputTypes, CommandYields, GrantIsShort, Behind
  <2>4. StatusIsPresent' /\ SilenceIsCounted'
    BY <1>1, <2>1, <2>3 DEF TakeoverIInv, StatusIsPresent, SilenceIsCounted
  <2> QED
    BY <2>1, <2>2, <2>3, <2>4 DEF TakeoverIInv
<1>3. CASE teleop.up
  <2> DEFINE p == Published(teleop'.in, keys')
  <2>1. /\ status = NoStatus /\ PublishCmd(keys, j, FALSE, b)
        /\ status' = p.status /\ MuxTeleop(p) /\ UNCHANGED <<local, grant, granted>>
    BY <1>3 DEF TakeoverTimer
  <2>2. HasKeys(keys) /\ (voided' => Void(keys))
    BY <1>1 DEF TakeoverIInv, TeleopIInv
  <2>3. /\ TeleopIInv' /\ teleop'.process = teleop.process
        /\ teleop'.takeovers = teleop.takeovers /\ (teleop'.in.active => teleop.in.active)
    BY <2>1, <2>2, PublishStep DEF TakeoverIInv
  <2>4. /\ p.status = [process |-> teleop.process, takeovers |-> teleop.takeovers,
                       active |-> teleop'.in.active]
        /\ p.takeover => Taken(teleop'.in)
    BY DEF Published
  <2> HIDE DEF p
  <2>5. p.takeover => teleop.in.active
    BY <2>3, <2>4 DEF TeleopIInv, Reports
  <2>6. /\ local \in Locals /\ local.process \in Nat /\ local.takeovers \in Nat
        /\ local.active \in BOOLEAN /\ local.age \in Nat
    BY LocalTypes DEF TakeoverIInv, OutputTypes
  <2>7. Behind <=> Behind'
    BY <2>1, <2>3 DEF Behind
  <2>8. status' \in Statuses
    BY <2>1, <2>3, <2>4 DEF TeleopIInv, Reports, Statuses
  <2>9. StatusIsPresent'
    BY <1>1, <2>1, <2>3, <2>4, <2>7 DEF TakeoverIInv, StatusIsPresent
  <2>10. SilenceIsCounted'
    BY <1>1, <2>1 DEF TakeoverIInv, SilenceIsCounted
  <2>11. CASE ~p.sent
    <3>1. UNCHANGED <<mask, cmd>>
      BY <2>1, <2>11 DEF MuxTeleop
    <3>2. OutputTypes' /\ CommandYields' /\ GrantIsShort'
      BY <2>1, <2>7, <2>8, <3>1 DEF TakeoverIInv, OutputTypes, CommandYields, GrantIsShort
    <3> QED
      BY <1>1, <2>3, <2>9, <2>10, <3>2 DEF TakeoverIInv
  <2>12. CASE p.sent
    <3>1. PICK moves \in BOOLEAN : moves = (p.command # "zero")
      OBVIOUS
    <3>2. PICK overridden :
             overridden = IF p.takeover THEN Len(granted) ELSE cmd.overridden
      OBVIOUS
    <3>3. mask' = 0 /\ cmd' = [from |-> "teleop", grant |-> 0, moves |-> moves, waited |-> 0,
                               overridden |-> overridden]
      BY <2>1, <2>12, <3>1, <3>2 DEF MuxTeleop
    <3>4. overridden \in Nat /\ overridden <= Len(granted)
      BY <3>2, CommandTypes DEF TakeoverIInv, OutputTypes
    <3>5. cmd' \in Commands
      BY <3>3, <3>4 DEF Commands
    <3>6. OutputTypes' /\ CommandYields'
      BY <2>1, <2>6, <2>8, <3>3, <3>4, <3>5
      DEF TakeoverIInv, OutputTypes, CommandYields, YieldTicks
    <3>7. GrantIsShort'
      <4>1. SUFFICES ASSUME grant # 0 PROVE GrantIsShort'
        BY <2>1 DEF GrantIsShort
      <4>2. /\ local.known /\ ~local.active
            /\ grant <= cmd.overridden => Behind
            /\ granted[grant] # Unengaged => Behind /\ granted[grant] <= local.age
        BY <4>1 DEF TakeoverIInv, GrantIsShort
      <4>3. 0 < local.age
        BY <1>1, <2>6, <4>2 DEF TakeoverIInv, SilenceIsCounted
      <4>4. p.takeover => Behind
        BY <2>5, <4>2 DEF TakeoverIInv, StatusIsPresent
      <4>5. grant <= overridden => Behind
        BY <3>2, <4>2, <4>4
      <4>6. cmd'.overridden = overridden
        BY <3>3
      <4> QED
        BY <2>1, <2>7, <3>3, <4>2, <4>3, <4>5, <4>6 DEF GrantIsShort
    <3> QED
      BY <1>1, <2>3, <2>9, <2>10, <3>6, <3>7 DEF TakeoverIInv
  <2> QED
    BY <2>11, <2>12
<1> QED
  BY <1>2, <1>3

(* What a step of the authority alone leaves of the controls' facts. *)
LEMMA ControlsStill ==
    ASSUME TeleopIInv, UNCHANGED teleopVars
    PROVE  TeleopIInv'
BY DEF TeleopIInv, teleopVars, Reports, Void, HasControls, HasKeys, Taken

(* The status is of the present takeover: a grant that one began under is  *)
(* of another.                                                             *)
LEMMA LocalControlStep ==
    ASSUME TakeoverIInv, part = "takeover", NEW open, NEW w, NEW m, OnLocalControl(open, w, m),
           UNCHANGED teleopVars, Still
    PROVE  TakeoverIInv'
<1> DEFINE ends == IsNewIdentity(status) \/ status.active
<1>1. /\ status # NoStatus /\ status' = NoStatus
      /\ local' = [process |-> status.process, takeovers |-> status.takeovers,
                   active |-> status.active, known |-> TRUE, age |-> 0]
      /\ Apply(IF ends THEN 0 ELSE grant, open, w, m)
      /\ UNCHANGED <<granted, teleop, part, due>>
  BY DEF OnLocalControl, teleopVars, Still
<1>2. /\ grant' = IF ends THEN 0 ELSE grant
      /\ mask' = mask /\ cmd' \in Commands /\ cmd'.overridden = cmd.overridden /\ CommandYields'
  BY <1>1, ApplyStep DEF TakeoverIInv
<1>3. /\ "teleop" \notin due
      /\ status.process = teleop.process /\ status.takeovers = teleop.takeovers
      /\ status.active = teleop.in.active /\ status \in Statuses
  BY <1>1 DEF TakeoverIInv, StatusIsPresent, OutputTypes
<1>4. status.process \in Nat /\ status.takeovers \in Nat /\ status.active \in BOOLEAN
  BY <1>3 DEF Statuses
<1>5. local' \in Locals /\ NoStatus \in Statuses
  BY <1>1, <1>4 DEF Locals, Statuses, NoStatus
<1>6. /\ local'.process = teleop.process /\ local'.takeovers = teleop.takeovers
      /\ local'.active = teleop.in.active /\ local'.known = TRUE /\ local'.age = 0
  BY <1>1, <1>3
<1>7. OutputTypes'
  BY <1>1, <1>2, <1>5 DEF TakeoverIInv, OutputTypes
<1>8. StatusIsPresent' /\ SilenceIsCounted'
  BY <1>1, <1>3, <1>6 DEF StatusIsPresent, SilenceIsCounted, LocalControlTimeout
<1>9. GrantIsShort'
  <2>1. SUFFICES ASSUME grant' # 0 PROVE GrantIsShort'
    BY DEF GrantIsShort
  <2>2. grant' = grant /\ ~ends
    BY <1>2, <2>1
  <2>3. /\ status.active = FALSE
        /\ local.process = teleop.process /\ local.takeovers = teleop.takeovers
    BY <1>3, <1>4, <2>2 DEF IsNewIdentity
  <2>4. ~Behind
    BY <1>3, <1>4, <2>3 DEF Behind
  <2>5. ~(grant <= cmd.overridden) /\ granted[grant] = Unengaged
    BY <2>1, <2>2, <2>4 DEF TakeoverIInv, GrantIsShort
  <2> HIDE DEF ends
  <2> QED
    BY <1>1, <1>2, <1>3, <1>6, <2>2, <2>3, <2>5 DEF GrantIsShort
<1>10. TeleopIInv'
  BY ControlsStill DEF TakeoverIInv
<1> QED
  BY <1>2, <1>7, <1>8, <1>9, <1>10 DEF TakeoverIInv

(* Silence ends the grant no later than in its third tick. *)
LEMMA SupervisionStep ==
    ASSUME TakeoverIInv, part = "takeover", NEW over \in BOOLEAN, NEW open, NEW w, NEW m,
           OnSupervisionTimer(over, open, w, m), Runs("supervision"),
           UNCHANGED <<teleopVars, part>>
    PROVE  TakeoverIInv'
<1>1. PICK missing \in BOOLEAN : missing = (~local.active /\ (~local.known \/ over))
  OBVIOUS
<1>2. /\ local \in Locals /\ local.process \in Nat /\ local.takeovers \in Nat
      /\ local.active \in BOOLEAN /\ local.known \in BOOLEAN /\ local.age \in Nat
  BY LocalTypes DEF TakeoverIInv, OutputTypes
<1>3. PICK active \in BOOLEAN : active = (local.active \/ missing)
  BY <1>1
<1>4. /\ local' = [local EXCEPT !.active = active]
      /\ Apply(IF missing THEN 0 ELSE grant, open, w, m)
      /\ UNCHANGED <<status, granted, teleop, part>>
      /\ "supervision" \in due /\ due' = due \ {"supervision"}
  BY <1>1, <1>3 DEF OnSupervisionTimer, Runs, teleopVars
<1>5. /\ grant' = IF missing THEN 0 ELSE grant
      /\ mask' = mask /\ cmd' \in Commands /\ cmd'.overridden = cmd.overridden /\ CommandYields'
  BY <1>4, ApplyStep DEF TakeoverIInv
<1>6. /\ local' \in Locals
      /\ local'.process = local.process /\ local'.takeovers = local.takeovers
      /\ local'.active = active /\ local'.known = local.known /\ local'.age = local.age
  BY <1>2, <1>4, LocalFields
<1>7. OutputTypes'
  BY <1>4, <1>5, <1>6 DEF TakeoverIInv, OutputTypes
<1>8. Behind <=> Behind'
  BY <1>4, <1>6 DEF Behind
<1>9. StatusIsPresent'
  <2>1. local.active => active
    BY <1>3
  <2> QED
    BY <1>4, <1>6, <1>8, <2>1 DEF TakeoverIInv, StatusIsPresent
<1>10. local.known /\ ~active => ~over /\ ~local.active
  BY <1>1, <1>2, <1>3
<1>11. local.known /\ ~active => local.age <= LocalControlTimeout
  BY <1>10 DEF OnSupervisionTimer, Missing, OverIf, Over
<1>12. SilenceIsCounted'
  BY <1>2, <1>4, <1>6, <1>10, <1>11 DEF TakeoverIInv, SilenceIsCounted, LocalControlTimeout
<1>13. GrantIsShort'
  <2>1. SUFFICES ASSUME grant' # 0 PROVE GrantIsShort'
    BY DEF GrantIsShort
  <2>2. grant' = grant /\ ~missing
    BY <1>5, <2>1
  <2>3. active = local.active
    BY <1>2, <1>3, <2>2
  <2> QED
    BY <1>4, <1>5, <1>6, <1>8, <2>2, <2>3 DEF TakeoverIInv, GrantIsShort
<1>14. TeleopIInv'
  BY ControlsStill DEF TakeoverIInv
<1> QED
  BY <1>4, <1>5, <1>7, <1>9, <1>12, <1>13, <1>14 DEF TakeoverIInv

(* RUN pressed, RUN released, and a status lost. *)
LEMMA GrantStep ==
    ASSUME TakeoverIInv, part = "takeover", Grant, UNCHANGED teleopVars, Still
    PROVE  TakeoverIInv'
<1>1. /\ local.known /\ ~local.active /\ grant = 0
      /\ granted' = Append(granted, Unengaged) /\ grant' = Len(granted')
      /\ UNCHANGED <<local, status, mask, cmd, teleop, part, due>>
  BY DEF Grant, teleopVars, Still
<1>2. Unengaged \in Nat
  BY DEF Unengaged, YieldTicks
<1>3. /\ granted' \in Seq(Nat) /\ Len(granted') = Len(granted) + 1
      /\ granted'[grant'] = Unengaged /\ Len(granted) \in Nat
  BY <1>1, <1>2 DEF TakeoverIInv, OutputTypes
<1>4. cmd.overridden \in Nat /\ cmd.overridden <= Len(granted)
  BY CommandTypes DEF TakeoverIInv, OutputTypes
<1>5. OutputTypes' /\ CommandYields'
  BY <1>1, <1>3, <1>4 DEF TakeoverIInv, OutputTypes, CommandYields
<1>6. StatusIsPresent' /\ SilenceIsCounted'
  BY <1>1 DEF TakeoverIInv, StatusIsPresent, SilenceIsCounted, Behind
<1>7. ~(grant' <= cmd.overridden)
  BY <1>1, <1>3, <1>4
<1>8. GrantIsShort'
  BY <1>1, <1>3, <1>7 DEF GrantIsShort
<1>9. TeleopIInv'
  BY ControlsStill DEF TakeoverIInv
<1> QED
  BY <1>5, <1>6, <1>8, <1>9 DEF TakeoverIInv

(* RUN released: no grant is left. *)
LEMMA RevokeStep ==
    ASSUME TakeoverIInv, part = "takeover", NEW w, NEW m, Revoke(w, m),
           UNCHANGED teleopVars, Still
    PROVE  TakeoverIInv'
<1>1. Apply(0, FALSE, w, m) /\ UNCHANGED <<local, status, granted, teleop, part, due>>
  BY DEF Revoke, teleopVars, Still
<1>2. /\ grant' = 0 /\ mask' = mask /\ cmd' \in Commands /\ cmd'.overridden = cmd.overridden
      /\ CommandYields'
  BY <1>1, ApplyStep DEF TakeoverIInv
<1>3. OutputTypes' /\ GrantIsShort'
  BY <1>1, <1>2 DEF TakeoverIInv, OutputTypes, GrantIsShort
<1>4. StatusIsPresent' /\ SilenceIsCounted'
  BY <1>1 DEF TakeoverIInv, StatusIsPresent, SilenceIsCounted, Behind
<1>5. TeleopIInv'
  BY ControlsStill DEF TakeoverIInv
<1> QED
  BY <1>2, <1>3, <1>4, <1>5 DEF TakeoverIInv

(* A status lost leaves the authority as it is, its silence counted. *)
LEMMA LoseStatusStep ==
    ASSUME TakeoverIInv, part = "takeover", LoseStatus, UNCHANGED teleopVars, Still
    PROVE  TakeoverIInv'
<1>1. status' = NoStatus /\ UNCHANGED <<local, grant, mask, cmd, granted, teleop, part, due>>
  BY DEF LoseStatus, teleopVars, Still
<1>2. NoStatus \in Statuses
  BY DEF NoStatus, Statuses
<1>3. OutputTypes' /\ CommandYields'
  BY <1>1, <1>2 DEF TakeoverIInv, OutputTypes, CommandYields
<1>4. StatusIsPresent' /\ SilenceIsCounted' /\ GrantIsShort'
  BY <1>1 DEF TakeoverIInv, StatusIsPresent, SilenceIsCounted, GrantIsShort, Behind
<1>5. TeleopIInv'
  BY ControlsStill DEF TakeoverIInv
<1> QED
  BY <1>3, <1>4, <1>5 DEF TakeoverIInv

(* A sample is passed on only under a grant that no takeover's command has *)
(* overridden: the mask of that command is younger than the silence that   *)
(* would have ended the grant.                                             *)
LEMMA RawAutonomyStep ==
    ASSUME TakeoverIInv, part = "takeover", NEW m \in BOOLEAN, OnRawAutonomy(m),
           UNCHANGED teleopVars, Still
    PROVE  TakeoverIInv'
<1>1. /\ grant # 0 /\ MuxRemote(TRUE, m) /\ mask' = mask
      /\ UNCHANGED <<local, grant, status, granted, teleop, part, due>>
  BY DEF OnRawAutonomy, MuxRemote, teleopVars, Still
<1>2. /\ local \in Locals /\ local.age \in Nat
  BY LocalTypes DEF TakeoverIInv, OutputTypes
<1>3. /\ local.known /\ ~local.active
      /\ grant <= cmd.overridden => mask < local.age
      /\ granted[grant] # Unengaged => granted[grant] <= local.age
  BY <1>1 DEF TakeoverIInv, GrantIsShort
<1>4. local.age <= 3
  BY <1>2, <1>3 DEF TakeoverIInv, SilenceIsCounted, LocalControlTimeout
<1>5. grant \in Nat /\ grant \in 1 .. Len(granted) /\ granted[grant] \in Nat /\ mask \in Nat
  BY <1>1 DEF TakeoverIInv, OutputTypes
<1>6. cmd \in Commands /\ cmd.overridden \in Nat /\ cmd.overridden <= Len(granted)
  BY CommandTypes DEF TakeoverIInv, OutputTypes
<1>7. cmd' \in Commands /\ cmd'.overridden = cmd.overridden /\ CommandYields'
  <2>1. CASE ~m
    BY <1>1, <1>6, <2>1 DEF TakeoverIInv, MuxRemote, CommandYields
  <2>2. CASE m
    <3>1. PICK waited : waited = IF granted[grant] # Unengaged THEN granted[grant] ELSE 0
      OBVIOUS
    <3>2. cmd' = [from |-> "autonomy", grant |-> grant, moves |-> TRUE,
                  overridden |-> cmd.overridden, waited |-> waited]
      BY <1>1, <2>2, <3>1 DEF MuxRemote, RemoteMessage
    <3>3. waited \in Nat /\ waited <= YieldTicks
      BY <1>2, <1>3, <1>4, <1>5, <3>1 DEF YieldTicks
    <3>4. mask >= 3
      BY <1>1, <2>2 DEF MuxRemote, Over, MuxTimeout
    <3>5. grant > cmd.overridden
      BY <1>2, <1>3, <1>4, <1>5, <1>6, <3>4
    <3>6. cmd' \in Commands
      BY <1>5, <1>6, <3>2, <3>3 DEF Commands
    <3> QED
      BY <3>2, <3>3, <3>5, <3>6 DEF CommandYields
  <2> QED
    BY <2>1, <2>2
<1>8. OutputTypes' /\ GrantIsShort'
  BY <1>1, <1>7 DEF TakeoverIInv, OutputTypes, GrantIsShort, Behind
<1>9. StatusIsPresent' /\ SilenceIsCounted'
  BY <1>1 DEF TakeoverIInv, StatusIsPresent, SilenceIsCounted, Behind
<1>10. TeleopIInv'
  BY ControlsStill DEF TakeoverIInv
<1> QED
  BY <1>7, <1>8, <1>9, <1>10 DEF TakeoverIInv

(* A tick: mask, silence and the age of an engaged grant grow together. *)
LEMMA TakeoverTickStep ==
    ASSUME TakeoverIInv, part = "takeover", Tick
    PROVE  TakeoverIInv'
<1>1. /\ due = {} /\ due' = {"teleop", "supervision"} /\ UNCHANGED part
      /\ teleop' = [teleop EXCEPT !.in = OlderIn(@)] /\ keys' = OlderKeys(keys)
      /\ UNCHANGED voided /\ OlderOutput
  BY DEF Tick, Timers
<1>2. /\ TeleopIInv' /\ teleop'.process = teleop.process
      /\ teleop'.takeovers = teleop.takeovers /\ teleop'.in.active = teleop.in.active
  BY <1>1, OlderStep DEF TakeoverIInv
<1>3. /\ local \in Locals /\ local.process \in Nat /\ local.takeovers \in Nat
      /\ local.active \in BOOLEAN /\ local.known \in BOOLEAN /\ local.age \in Nat
  BY LocalTypes DEF TakeoverIInv, OutputTypes
<1>4. local.known /\ ~local.active => local.age <= 2
  BY <1>1 DEF TakeoverIInv, SilenceIsCounted, LocalControlTimeout
<1>5. PICK age : age = IF local.known /\ ~local.active
                       THEN Older(local.age, LocalControlTimeout) ELSE 0
  OBVIOUS
<1>6. age \in Nat /\ (local.known /\ ~local.active => age = local.age + 1)
  BY <1>3, <1>4, <1>5 DEF Older, LocalControlTimeout
<1>7. /\ local' = [local EXCEPT !.age = age] /\ mask' = Older(mask, MuxTimeout)
      /\ granted' = [g \in DOMAIN granted |->
                       IF granted[g] > YieldTicks THEN granted[g] ELSE granted[g] + 1]
      /\ status = NoStatus /\ UNCHANGED <<grant, status, cmd>>
  BY <1>1, <1>5 DEF OlderOutput
<1>8. /\ local' \in Locals
      /\ local'.process = local.process /\ local'.takeovers = local.takeovers
      /\ local'.active = local.active /\ local'.known = local.known /\ local'.age = age
  BY <1>3, <1>6, <1>7, LocalFields
<1>9. mask \in Nat /\ mask' \in Nat /\ (mask <= 2 => mask' = mask + 1)
  BY <1>7 DEF TakeoverIInv, OutputTypes, Older, MuxTimeout
<1>10. /\ granted' \in Seq(Nat) /\ Len(granted') = Len(granted)
       /\ \A g \in 1 .. Len(granted) :
            granted'[g] = IF granted[g] > YieldTicks THEN granted[g] ELSE granted[g] + 1
  BY <1>7, OlderGrants DEF TakeoverIInv, OutputTypes
<1>11. OutputTypes' /\ CommandYields'
  BY <1>7, <1>8, <1>9, <1>10 DEF TakeoverIInv, OutputTypes, CommandYields
<1>12. Behind <=> Behind'
  BY <1>2, <1>8 DEF Behind
<1>13. StatusIsPresent'
  BY <1>2, <1>7, <1>8, <1>12 DEF TakeoverIInv, StatusIsPresent
<1>14. SilenceIsCounted'
  <2>1. "supervision" \in due'
    BY <1>1
  <2> QED
    BY <1>3, <1>4, <1>6, <1>8, <2>1 DEF SilenceIsCounted, LocalControlTimeout
<1>15. GrantIsShort'
  <2>1. SUFFICES ASSUME grant # 0 PROVE GrantIsShort'
    BY <1>7 DEF GrantIsShort
  <2>2. grant \in 1 .. Len(granted) /\ granted[grant] \in Nat
    BY <2>1 DEF TakeoverIInv, OutputTypes
  <2>3. /\ local.known /\ ~local.active
        /\ grant <= cmd.overridden => Behind /\ mask < local.age
        /\ granted[grant] # Unengaged => Behind /\ granted[grant] <= local.age
    BY <2>1 DEF TakeoverIInv, GrantIsShort
  <2>4. mask < local.age => mask' < age
    BY <1>3, <1>4, <1>6, <1>9, <2>3
  <2>5. granted'[grant] # Unengaged => Behind /\ granted'[grant] <= age
    BY <1>3, <1>4, <1>6, <1>10, <2>2, <2>3 DEF Unengaged, YieldTicks
  <2> QED
    BY <1>7, <1>8, <1>12, <2>3, <2>4, <2>5 DEF GrantIsShort
<1> QED
  BY <1>1, <1>2, <1>11, <1>13, <1>14, <1>15 DEF TakeoverIInv

-----------------------------------------------------------------------------
(* The invariant holds at the start: no grant, no command. *)
LEMMA TakeoverInit ==
    Init => TakeoverIInv
<1> SUFFICES ASSUME Init PROVE TakeoverIInv
  OBVIOUS
<1>1. TeleopIInv
  <2>1. /\ teleop = [process |-> 1, takeovers |-> 0, up |-> TRUE, in |-> Idle]
        /\ keys = NoKeys /\ voided = FALSE
    BY DEF Init, TeleopInit
  <2> QED
    BY <2>1, IdleFields, NoKeysFields DEF TeleopIInv, Reports, Taken
<1>2. /\ local = [process |-> 0, takeovers |-> 0, active |-> FALSE, known |-> FALSE, age |-> 0]
      /\ grant = 0 /\ granted = <<>> /\ status = NoStatus /\ mask = 4
      /\ cmd = [from |-> "none", grant |-> 0, moves |-> FALSE, waited |-> 0, overridden |-> 0]
  BY DEF Init, OutputInit, MuxTimeout
<1>3. /\ local \in Locals /\ cmd \in Commands /\ status \in Statuses
  BY <1>2 DEF Locals, Commands, Statuses, NoStatus
<1>4. granted \in Seq(Nat) /\ Len(granted) = 0
  BY <1>2
<1>5. OutputTypes
  BY <1>2, <1>3, <1>4 DEF OutputTypes
<1>6. CommandYields
  BY <1>2 DEF CommandYields, YieldTicks
<1>7. StatusIsPresent /\ SilenceIsCounted /\ GrantIsShort
  BY <1>2 DEF StatusIsPresent, SilenceIsCounted, GrantIsShort
<1> QED
  BY <1>1, <1>5, <1>6, <1>7 DEF TakeoverIInv

(* A step that leaves the output alone, in a part without takeovers. *)
LEMMA OutputStill ==
    ASSUME TakeoverIInv, TeleopIInv', UNCHANGED outputVars, part # "takeover", part' = part
    PROVE  TakeoverIInv'
BY DEF TakeoverIInv, OutputTypes, CommandYields, outputVars

(* The actions of the takeover part, in the order of Takeover. *)
LEMMA TakeoverPartStep ==
    ASSUME TakeoverIInv, part = "takeover", Takeover
    PROVE  TakeoverIInv'
<1>1. CASE \E manual \in BOOLEAN :
             due = {} /\ status = NoStatus /\ Still /\ TakeoverJoy(manual, "forward")
  BY <1>1, TakeoverJoyStep
<1>2. CASE /\ due = {} /\ status = NoStatus /\ Still
           /\ (TeleopDies \/ (teleop.process = 1 /\ TeleopStarts)) /\ UNCHANGED outputVars
  BY <1>2, TakeoverLifeStep
<1>3. CASE \E w, m \in BOOLEAN : Revoke(w, m) /\ UNCHANGED teleopVars /\ Still
  BY <1>3, RevokeStep
<1>4. CASE \E j, b \in BOOLEAN : TakeoverTimer(j, b)
  BY <1>4, TakeoverTimerStep
<1>5. CASE \E open, w, m \in BOOLEAN :
             OnLocalControl(open, w, m) /\ UNCHANGED teleopVars /\ Still
  BY <1>5, LocalControlStep
<1>6. CASE \E open, w, m, over \in BOOLEAN : OnSupervisionTimer(over, open, w, m)
             /\ Runs("supervision") /\ UNCHANGED <<teleopVars, part>>
  BY <1>6, SupervisionStep
<1>7. CASE LoseStatus /\ UNCHANGED teleopVars /\ Still
  BY <1>7, LoseStatusStep
<1>8. CASE Grant /\ UNCHANGED teleopVars /\ Still
  BY <1>8, GrantStep
<1>9. CASE \E m \in BOOLEAN : OnRawAutonomy(m) /\ UNCHANGED teleopVars /\ Still
  BY <1>9, RawAutonomyStep
<1> QED
  BY <1>1, <1>2, <1>3, <1>4, <1>5, <1>6, <1>7, <1>8, <1>9 DEF Takeover

(* Every step of the motion path keeps the invariant. *)
LEMMA TakeoverNext ==
    TakeoverIInv /\ [Next]_motionVars => TakeoverIInv'
<1> SUFFICES ASSUME TakeoverIInv, [Next]_motionVars PROVE TakeoverIInv'
  OBVIOUS
<1>1. CASE part = "takeover" /\ Takeover
  BY <1>1, TakeoverPartStep
<1>2. CASE part = "takeover" /\ Tick
  BY <1>2, TakeoverTickStep
<1>3. CASE part = "keyboard" /\ (Keyboard \/ Tick)
  <2>1. part' = part
    BY <1>3 DEF Keyboard, Still, Tick
  <2>2. TeleopIInv' /\ UNCHANGED outputVars
    BY <1>3, KeyboardStep DEF TakeoverIInv
  <2>3. part # "takeover"
    BY <1>3
  <2> QED
    BY <2>1, <2>2, <2>3, OutputStill
<1>4. CASE part \notin {"takeover", "keyboard"} /\ UNCHANGED <<teleopVars, outputVars, part>>
  BY <1>4, ControlsStill, OutputStill DEF TakeoverIInv
<1>5. CASE UNCHANGED motionVars
  <2>1. UNCHANGED teleopVars /\ UNCHANGED <<local, grant, status, mask, cmd, granted, teleop,
                                            part, due>>
    BY <1>5 DEF motionVars, outputVars, teleopVars
  <2>2. TeleopIInv'
    BY <2>1, ControlsStill DEF TakeoverIInv
  <2> QED
    BY <2>1, <2>2 DEF TakeoverIInv, OutputTypes, CommandYields, StatusIsPresent,
       SilenceIsCounted, GrantIsShort, Behind
<1>6. CASE Next
  <2>1. CASE Tick /\ part \notin {"takeover", "keyboard"}
    <3>1. part' = part
      BY <2>1 DEF Tick
    <3>2. CASE part = "wheels"
      BY <1>4, <2>1, <3>2 DEF Tick
    <3>3. CASE part # "wheels"
      <4>1. /\ teleop' = [teleop EXCEPT !.in = OlderIn(@)] /\ keys' = OlderKeys(keys)
            /\ UNCHANGED voided /\ UNCHANGED outputVars
        BY <2>1, <3>3 DEF Tick
      <4>2. TeleopIInv'
        BY <4>1, OlderStep DEF TakeoverIInv
      <4> QED
        BY <2>1, <3>1, <4>1, <4>2, OutputStill
    <3> QED
      BY <3>2, <3>3
  <2>2. CASE ~Tick
    <3>1. CASE part = "manual" /\ Still /\ UNCHANGED <<teleopVars, outputVars>>
      BY <1>4, <3>1 DEF Still
    <3>2. CASE part = "speed" /\ Still /\ UNCHANGED <<teleopVars, outputVars>>
      BY <1>4, <3>2 DEF Still
    <3>3. CASE part = "wheels" /\ WheelsPart /\ UNCHANGED <<teleopVars, outputVars>>
      <4>1. UNCHANGED part
        BY <3>3 DEF WheelsPart, Still
      <4> QED
        BY <1>4, <3>3, <4>1
    <3> QED
      BY <1>1, <1>3, <1>6, <2>2, <3>1, <3>2, <3>3 DEF Next
  <2> QED
    BY <1>2, <1>3, <2>1, <2>2
<1> QED
  BY <1>5, <1>6

(* The invariant of the takeover holds for any bounds: what the authority  *)
(* knows of local control is the last takeover or an earlier one, and a    *)
(* grant that a takeover has begun under is left for no longer than the    *)
(* authority hears nothing (_on_local_control, _on_supervision_timer).     *)
THEOREM TakeoverInductive ==
    Spec => []TakeoverIInv
<1>1. Init => TakeoverIInv
  BY TakeoverInit
<1>2. TakeoverIInv /\ [Next]_motionVars => TakeoverIInv'
  BY TakeoverNext
<1> QED
  BY <1>1, <1>2, PTL DEF Spec

(* Neither a command of a grant that a takeover has overridden nor keys    *)
(* held from before a takeover move the car, though the status may be lost *)
(* and the teleop node may die (_on_local_control, twist_mux's mask,       *)
(* _disarm_held_keyboard_motion).                                          *)
THEOREM TakeoversStand ==
    Spec => []TakeoverIsNotUndone
<1>1. TakeoverIInv => TakeoverIsNotUndone
  <2> SUFFICES ASSUME TakeoverIInv PROVE TakeoverIsNotUndone
    OBVIOUS
  <2>1. ActiveMode(teleop.in, keys) = "keyboard_motion" => keys.armed
    BY DEF ActiveMode
  <2>2. ~(voided /\ ActiveMode(teleop.in, keys) = "keyboard_motion")
    BY <2>1 DEF TakeoverIInv, TeleopIInv, Void
  <2> QED
    BY <2>2 DEF TakeoverIInv, CommandYields, TakeoverIsNotUndone
<1> QED
  BY <1>1, TakeoverInductive, PTL

(* Remote motion has ended three ticks after a takeover begins: the mask   *)
(* of the command or the authority's silence watch ends it first           *)
(* (local_control_timeout_sec).                                            *)
THEOREM RemoteYields ==
    Spec => []RemoteYieldsInTime
<1>1. TakeoverIInv => RemoteYieldsInTime
  BY DEF TakeoverIInv, CommandYields, RemoteYieldsInTime
<1> QED
  BY <1>1, TakeoverInductive, PTL
-----------------------------------------------------------------------------
(***************************************************************************)
(* The way of a manual demand.  A demand is told from all others by its    *)
(* sequence number and the web process that counted it; messages name      *)
(* neither process, so the lease generation and the restarts decide.       *)
(***************************************************************************)
Origins == [authority : Nat, web : Nat, sequence : Nat, epoch : Int]

(* m is a demand that was made, converted or not: it is no newer than the  *)
(* process that counted it and than the lease it was made under; within a  *)
(* lease that lasts it is the owner's; and with the number of the demand   *)
(* in place, from the same web process, it is that demand.                 *)
Made(m) ==
    /\ m.sequence \in Nat /\ m.generation \in Nat /\ m.of \in Origins
    /\ m.sequence = m.of.sequence
    /\ m.of.web \in 1 .. web.process /\ m.of.authority \in 1 .. authority.process
    /\ m.of.web = web.process => m.sequence <= web.sequence
    /\ m.of.authority = authority.process =>
         /\ m.generation <= authority.generation
         /\ m.generation = authority.generation => m.of.web = authority.owner
    /\ authority.demand # 0 /\ m.sequence = authority.demand /\ m.of.web = authority.of.web =>
         m.of = authority.of

Carried(a) ==
    [sequence |-> a.provenance[1], generation |-> a.provenance[2],
     epoch |-> a.provenance[3], of |-> a.command]

Demanded ==
    [active : {TRUE}, of : Origins, sequence : Nat, generation : Nat, epoch : Nat]
Conversions == [sequence : Nat, generation : Nat, epoch : Nat, of : Origins]

AdapterTypes ==
    /\ authority \in [process : Nat, generation : Nat, owner : Nat, epoch : Nat, demand : Nat,
                      asserted : BOOLEAN, of : Origins]
    /\ web \in [process : Nat, sequence : Nat] /\ runtime \in Nat
    /\ adapter \in [manual : BOOLEAN, provenance : Seq(Nat), command : Origins]

(* At most one of the two processes is not the first; the demand in place  *)
(* is the owner's.                                                         *)
DemandInPlace ==
    /\ authority.process > 0 /\ web.process > 0 /\ authority.process + web.process <= 3
    /\ authority.owner <= web.process
    /\ authority.demand # 0 =>
         /\ authority.owner > 0 /\ authority.of.web = authority.owner
         /\ authority.of.sequence = authority.demand
         /\ authority.of.web = web.process => authority.demand <= web.sequence

DemandsMade ==
    /\ demands \in Seq({[active |-> FALSE]} \cup {m \in Demanded : Made(m)})
    /\ converted \in Seq({m \in Conversions : Made(m)})
    /\ adapter.manual => Carried(adapter) \in Conversions /\ Made(Carried(adapter))

AdapterIInv == AdapterTypes /\ DemandInPlace /\ DemandsMade

(* Neither the absence of a demand nor Nav2 has an origin of its own. *)
LEMMA NoOrigins == Nothing \in Origins /\ Nav \in Origins
  BY DEF Nothing, Nav, Origins

(* The first state. *)
LEMMA AdapterBegins == Init => AdapterIInv
<1> SUFFICES ASSUME AdapterInit PROVE AdapterIInv
  BY DEF Init
<1> USE DEF AdapterInit, NewAuthority
<1>1. Nothing \in Origins
  BY NoOrigins
<1>2. AdapterTypes
  <2>1. <<>> \in Seq(Nat)
    OBVIOUS
  <2> QED
    BY <1>1, <2>1 DEF AdapterTypes
<1>3. DemandInPlace
  BY DEF DemandInPlace
<1>4. DemandsMade
  BY DEF DemandsMade
<1> QED
  BY <1>2, <1>3, <1>4 DEF AdapterIInv

(* Withdrawing sends at most a message without a demand, and changes no    *)
(* more of the authority than that it asserts none.                        *)
LEMMA WithdrawFields ==
    ASSUME NEW a, Withdraw(a),
           a \in [process : Nat, generation : Nat, owner : Nat, epoch : Nat, demand : Nat,
                  asserted : BOOLEAN, of : Origins]
    PROVE  /\ authority' \in [process : Nat, generation : Nat, owner : Nat, epoch : Nat,
                              demand : Nat, asserted : BOOLEAN, of : Origins]
           /\ authority'.process = a.process /\ authority'.generation = a.generation
           /\ authority'.owner = a.owner /\ authority'.epoch = a.epoch
           /\ authority'.demand = a.demand /\ authority'.of = a.of
           /\ demands' = demands \/ demands' = Append(demands, [active |-> FALSE])
  BY DEF Withdraw

(* A demand that the adapter holds stays made. *)
LEMMA CarriedStays ==
    ASSUME adapter.manual => Carried(adapter) \in Conversions /\ Made(Carried(adapter)),
           UNCHANGED adapter, \A m : Made(m) => Made(m)'
    PROVE  (adapter.manual => Carried(adapter) \in Conversions /\ Made(Carried(adapter)))'
<1>1. adapter' = adapter
  OBVIOUS
<1>2. adapter.manual => Made(Carried(adapter))'
  <2>1. SUFFICES ASSUME adapter.manual PROVE Made(Carried(adapter))'
    OBVIOUS
  <2>2. PICK m : m = Carried(adapter)
    OBVIOUS
  <2>3. Made(m)'
    BY <2>1, <2>2
  <2> QED
    BY <1>1, <2>2, <2>3 DEF Made, Carried
<1> QED
  BY <1>1, <1>2 DEF Carried, Conversions, Origins

(* What was made stays made when a step leaves the messages alone, but for *)
(* a withdrawal.                                                           *)
LEMMA MessagesStay ==
    ASSUME DemandsMade, UNCHANGED <<adapter, converted>>,
           demands' = demands \/ demands' = Append(demands, [active |-> FALSE]),
           \A m : Made(m) => Made(m)'
    PROVE  DemandsMade'
<1> DEFINE D == {[active |-> FALSE]} \cup {m \in Demanded : Made(m)}
           E == {[active |-> FALSE]} \cup {m \in Demanded : Made(m)'}
           C == {m \in Conversions : Made(m)}
           F == {m \in Conversions : Made(m)'}
<1>1. demands \in Seq(D) /\ converted \in Seq(C)
  BY DEF DemandsMade
<1>2. D \subseteq E /\ C \subseteq F /\ [active |-> FALSE] \in E
  OBVIOUS
<1> HIDE DEF D, E, C, F
<1>3. demands \in Seq(E) /\ converted \in Seq(F)
  BY <1>1, <1>2, SeqMonotonic
<1>4. demands' \in Seq(E) /\ converted' \in Seq(F)
  BY <1>2, <1>3
<1>5. (adapter.manual => Carried(adapter) \in Conversions /\ Made(Carried(adapter)))'
  BY CarriedStays DEF DemandsMade
<1> QED
  BY <1>4, <1>5 DEF DemandsMade, E, F, Demanded, Conversions, Origins

(* The lease is acquired. *)
LEMMA AcquireStep ==
    ASSUME AdapterIInv, AcquireLease
    PROVE  AdapterIInv'
<1> USE DEF AdapterIInv, AdapterTypes, DemandInPlace, AcquireLease
<1>1. /\ authority'.process = authority.process /\ authority'.owner = web.process
      /\ authority'.generation = authority.generation + 1
      /\ authority'.demand = authority.demand /\ authority'.of = authority.of
      /\ web'.process = web.process /\ web'.sequence = web.sequence + 1
  <2>1. /\ authority'.process = authority.process /\ authority'.owner = web.process
        /\ authority'.generation = authority.generation + 1
    OBVIOUS
  <2>2. authority'.demand = authority.demand /\ authority'.of = authority.of
    OBVIOUS
  <2>3. web'.process = web.process /\ web'.sequence = web.sequence + 1
    OBVIOUS
  <2> QED
    BY <2>1, <2>2, <2>3
<1>2. AdapterTypes'
  <2>1. /\ authority.generation + 1 \in Nat /\ web.sequence + 1 \in Nat
        /\ web.process \in Nat
    OBVIOUS
  <2>2. authority' \in [process : Nat, generation : Nat, owner : Nat, epoch : Nat,
                        demand : Nat, asserted : BOOLEAN, of : Origins]
    BY <2>1
  <2>3. web' \in [process : Nat, sequence : Nat]
    BY <2>1
  <2> QED
    BY <2>2, <2>3
<1>3. authority.demand = 0
  OBVIOUS
<1>4. DemandInPlace'
  BY <1>1, <1>3
<1>5. \A m : Made(m) => Made(m)'
  BY <1>1, <1>3 DEF Made
<1>6. DemandsMade'
  BY <1>5, MessagesStay
<1> QED
  BY <1>2, <1>4, <1>6

(* Manual control ends: the lease is lost, the demand is, or the runtime   *)
(* is another one.                                                         *)
LEMMA EndManualStep ==
    ASSUME AdapterIInv, LoseLease \/ OnManualInactive \/ OnModeState
    PROVE  AdapterIInv'
<1> DEFINE a == EndManual(authority)
           A == [process : Nat, generation : Nat, owner : Nat, epoch : Nat, demand : Nat,
                 asserted : BOOLEAN, of : Origins]
<1>1. authority \in A /\ Nothing \in Origins
  BY NoOrigins DEF AdapterIInv, AdapterTypes
<1>2. /\ a \in A /\ a.demand = 0 /\ a.process = authority.process
      /\ a.generation = authority.generation /\ a.owner = authority.owner
      /\ a.epoch = authority.epoch
  BY <1>1 DEF EndManual
<1> HIDE DEF a
<1>3. \E b \in A : /\ Withdraw(b) /\ b.demand = 0 /\ b.process = authority.process
                   /\ \/ b.generation = authority.generation /\ b.owner = authority.owner
                      \/ b.generation = authority.generation + 1 /\ b.owner = 0
  <2>1. CASE LoseLease
    <3> DEFINE b == [a EXCEPT !.owner = 0, !.generation = @ + 1]
    <3>1. Withdraw(b)
      BY <2>1 DEF LoseLease, a
    <3>2. b.generation = authority.generation + 1 /\ b.owner = 0
      BY <1>2
    <3>3. b.demand = 0 /\ b.process = authority.process
      BY <1>2
    <3>4. b \in A
      <4>1. a.generation + 1 \in Nat /\ 0 \in Nat
        BY <1>2
      <4> QED
        BY <1>2, <4>1
    <3> QED
      BY <3>1, <3>2, <3>3, <3>4
  <2>2. CASE OnManualInactive
    BY <1>2, <2>2 DEF OnManualInactive, a
  <2>3. CASE OnModeState
    <3> DEFINE b == [a EXCEPT !.epoch = runtime]
    <3>1. Withdraw(b)
      BY <2>3 DEF OnModeState, a
    <3>2. /\ b \in A /\ b.demand = 0 /\ b.process = authority.process
          /\ b.generation = authority.generation /\ b.owner = authority.owner
      BY <1>2 DEF AdapterIInv, AdapterTypes
    <3> QED
      BY <3>1, <3>2
  <2> QED
    BY <2>1, <2>2, <2>3
<1>4. PICK b \in A : /\ Withdraw(b) /\ b.demand = 0 /\ b.process = authority.process
                     /\ \/ b.generation = authority.generation /\ b.owner = authority.owner
                        \/ b.generation = authority.generation + 1 /\ b.owner = 0
  BY <1>3
<1>5. /\ authority' \in A /\ authority'.process = authority.process /\ authority'.demand = 0
      /\ \/ /\ authority'.generation = authority.generation
            /\ authority'.owner = authority.owner
         \/ authority'.generation = authority.generation + 1 /\ authority'.owner = 0
      /\ demands' = demands \/ demands' = Append(demands, [active |-> FALSE])
  BY <1>4, WithdrawFields
<1>6. UNCHANGED <<web, runtime, adapter, converted>>
  BY DEF LoseLease, OnManualInactive, OnModeState
<1>7. AdapterTypes' /\ DemandInPlace'
  BY <1>1, <1>5, <1>6 DEF AdapterIInv, AdapterTypes, DemandInPlace
<1>8. \A m : Made(m) => Made(m)'
  BY <1>1, <1>5, <1>6 DEF Made
<1>9. DemandsMade'
  BY <1>5, <1>6, <1>8, MessagesStay DEF AdapterIInv
<1> QED
  BY <1>7, <1>9 DEF AdapterIInv

(* The owner demands. *)
LEMMA ManualActiveStep ==
    ASSUME AdapterIInv, OnManualActive
    PROVE  AdapterIInv'
<1> DEFINE A == [process : Nat, generation : Nat, owner : Nat, epoch : Nat, demand : Nat,
                 asserted : BOOLEAN, of : Origins]
           n == web.sequence + 1
           o == [authority |-> authority.process, web |-> web.process, sequence |-> n,
                 epoch |-> authority.epoch]
           d == [active |-> TRUE, of |-> o, sequence |-> n,
                 generation |-> authority.generation, epoch |-> authority.epoch]
<1>1. /\ authority \in A /\ web \in [process : Nat, sequence : Nat]
      /\ authority.owner = web.process
  BY DEF AdapterIInv, AdapterTypes, OnManualActive
<1>2. n \in Nat /\ n # 0 /\ o \in Origins
  BY <1>1 DEF Origins
<1>3. /\ web' \in [process : Nat, sequence : Nat]
      /\ web'.process = web.process /\ web'.sequence = n
  BY <1>1, <1>2 DEF OnManualActive
<1>4. authority' = [authority EXCEPT !.demand = n, !.asserted = TRUE, !.of = o]
  BY <1>1, <1>3 DEF OnManualActive, Origin
<1>5. authority'.of = o
  BY <1>1, <1>4
<1>6. demands' = Append(demands, d)
  BY <1>3, <1>5 DEF OnManualActive
<1>7. UNCHANGED <<runtime, adapter, converted>>
  BY DEF OnManualActive
<1>8. /\ o.authority = authority.process /\ o.web = web.process /\ o.sequence = n
      /\ d \in Demanded /\ d.of = o /\ d.sequence = n
      /\ d.generation = authority.generation
  BY <1>1, <1>2 DEF Demanded
<1> HIDE DEF o, d
<1>9. /\ authority' \in A /\ authority'.process = authority.process
      /\ authority'.generation = authority.generation
      /\ authority'.owner = authority.owner /\ authority'.demand = n
  BY <1>1, <1>2, <1>4
<1>10. AdapterTypes'
  BY <1>3, <1>7, <1>9 DEF AdapterIInv, AdapterTypes
<1>11. DemandInPlace'
  BY <1>1, <1>2, <1>3, <1>5, <1>8, <1>9 DEF AdapterIInv, DemandInPlace
<1>12. \A m : Made(m) => Made(m)'
  BY <1>1, <1>2, <1>3, <1>5, <1>8, <1>9 DEF Made
<1>13. PICK made : made = d
  OBVIOUS
<1>14. Made(made)'
  <2>1. PICK p : p = o
    OBVIOUS
  <2>2. /\ made.of = p /\ made.sequence = n /\ made.generation = authority.generation
        /\ p \in Origins /\ p.authority = authority.process /\ p.web = web.process
        /\ p.sequence = n /\ authority'.of = p
    BY <1>2, <1>5, <1>8, <1>13, <2>1
  <2> QED
    BY <1>1, <1>2, <1>3, <1>9, <2>2 DEF Made, AdapterIInv, DemandInPlace
<1>15. DemandsMade'
  <2> DEFINE D == {[active |-> FALSE]} \cup {m \in Demanded : Made(m)}
             E == {[active |-> FALSE]} \cup {m \in Demanded : Made(m)'}
             C == {m \in Conversions : Made(m)}
             F == {m \in Conversions : Made(m)'}
  <2>1. demands \in Seq(D) /\ converted \in Seq(C)
    BY DEF AdapterIInv, DemandsMade
  <2>2. D \subseteq E /\ C \subseteq F
    BY <1>12
  <2>3. d \in E
    BY <1>8, <1>13, <1>14
  <2> HIDE DEF D, E, C, F
  <2>4. demands \in Seq(E) /\ converted \in Seq(F)
    BY <2>1, <2>2, SeqMonotonic
  <2>5. demands' \in Seq(E) /\ converted' \in Seq(F)
    BY <1>6, <1>7, <2>3, <2>4
  <2>6. (adapter.manual => Carried(adapter) \in Conversions /\ Made(Carried(adapter)))'
    BY <1>7, <1>12, CarriedStays DEF AdapterIInv, DemandsMade
  <2> QED
    BY <2>5, <2>6 DEF DemandsMade, E, F, Demanded, Conversions, Origins
<1> QED
  BY <1>10, <1>11, <1>15 DEF AdapterIInv

(* The authority, the web process or the runtime is another one. *)
LEMMA AdapterRestarts ==
    ASSUME AdapterIInv, RestartAuthority \/ RestartWeb \/ ChangeRuntime
    PROVE  AdapterIInv'
<1>1. Nothing \in Origins
  BY NoOrigins
<1>2. UNCHANGED <<adapter, demands, converted>>
  BY DEF RestartAuthority, RestartWeb, ChangeRuntime
<1>3. CASE RestartAuthority
  <2>1. /\ authority'.process = authority.process + 1 /\ authority'.owner = 0
        /\ authority'.demand = 0 /\ authority'.generation = 0 /\ UNCHANGED <<web, runtime>>
    BY <1>3 DEF RestartAuthority, NewAuthority
  <2>2. AdapterTypes'
    <3>1. authority.process + 1 \in Nat
      BY DEF AdapterIInv, AdapterTypes
    <3>2. authority' \in [process : Nat, generation : Nat, owner : Nat, epoch : Nat,
                          demand : Nat, asserted : BOOLEAN, of : Origins]
      BY <1>1, <1>3, <3>1 DEF RestartAuthority, NewAuthority
    <3> QED
      BY <1>2, <2>1, <3>2 DEF AdapterIInv, AdapterTypes
  <2>3. authority.process + web.process = 2
    BY <1>3 DEF RestartAuthority, Restarts, AdapterIInv, AdapterTypes
  <2>4. DemandInPlace'
    BY <2>1, <2>3 DEF AdapterIInv, AdapterTypes, DemandInPlace
  <2>5. \A m : Made(m) => Made(m)'
    BY <2>1 DEF Made, AdapterIInv, AdapterTypes
  <2> QED
    BY <1>2, <2>2, <2>4, <2>5, MessagesStay DEF AdapterIInv
<1>4. CASE RestartWeb
  <2>1. /\ web'.process = web.process + 1 /\ web'.sequence = 0
        /\ UNCHANGED <<authority, runtime>>
    BY <1>4 DEF RestartWeb
  <2>2. AdapterTypes'
    <3>1. web.process + 1 \in Nat
      BY DEF AdapterIInv, AdapterTypes
    <3>2. web' \in [process : Nat, sequence : Nat]
      BY <1>4, <3>1 DEF RestartWeb
    <3> QED
      BY <1>2, <2>1, <3>2 DEF AdapterIInv, AdapterTypes
  <2>3. authority.process + web.process = 2
    BY <1>4 DEF RestartWeb, Restarts, AdapterIInv, AdapterTypes
  <2>4. DemandInPlace'
    BY <2>1, <2>3 DEF AdapterIInv, AdapterTypes, DemandInPlace
  <2>5. \A m : Made(m) => Made(m)'
    BY <2>1 DEF Made, AdapterIInv, AdapterTypes
  <2> QED
    BY <1>2, <2>2, <2>4, <2>5, MessagesStay DEF AdapterIInv
<1>5. CASE ChangeRuntime
  <2>1. UNCHANGED <<authority, web>> /\ runtime' = runtime + 1
    BY <1>5 DEF ChangeRuntime
  <2>2. AdapterTypes' /\ DemandInPlace'
    BY <1>2, <2>1 DEF AdapterIInv, AdapterTypes, DemandInPlace
  <2>3. \A m : Made(m) => Made(m)'
    BY <2>1 DEF Made
  <2> QED
    BY <1>2, <2>2, <2>3, MessagesStay DEF AdapterIInv
<1> QED
  BY <1>3, <1>4, <1>5

(* The adapter selects and converts, the authority takes what it converted. *)
LEMMA ConversionSteps ==
    ASSUME AdapterIInv, OnCommand \/ OnManualDemand \/ Publish \/ OnRawManual
    PROVE  AdapterIInv'
<1> DEFINE D == {[active |-> FALSE]} \cup {m \in Demanded : Made(m)}
           C == {m \in Conversions : Made(m)}
<1>1. UNCHANGED <<authority, web, runtime>>
  BY DEF OnCommand, OnManualDemand, Publish, OnRawManual
<1>2. /\ demands \in Seq(D) /\ converted \in Seq(C)
      /\ adapter.manual => Carried(adapter) \in C
      /\ adapter \in [manual : BOOLEAN, provenance : Seq(Nat), command : Origins]
  BY DEF AdapterIInv, DemandsMade, AdapterTypes
<1>3. ASSUME NEW S, NEW s \in Seq(S), s # <<>>
      PROVE  Head(s) \in S /\ Tail(s) \in Seq(S)
  BY <1>3
<1>4. Nothing \in Origins /\ Nav \in Origins
  BY NoOrigins
<1>5. /\ demands' \in Seq(D) /\ converted' \in Seq(C)
      /\ adapter'.manual => Carried(adapter') \in C
      /\ adapter' \in [manual : BOOLEAN, provenance : Seq(Nat), command : Origins]
  <2>1. CASE OnCommand
    <3>1. adapter' = [adapter EXCEPT !.command = Nav] /\ ~adapter.manual
      BY <2>1 DEF OnCommand
    <3> HIDE DEF C, D
    <3>2. /\ ~adapter'.manual
          /\ adapter' \in [manual : BOOLEAN, provenance : Seq(Nat), command : Origins]
      BY <1>2, <1>4, <3>1
    <3> QED
      BY <1>2, <2>1, <3>2 DEF OnCommand
  <2>2. CASE OnManualDemand
    <3>1. Head(demands) \in D /\ demands' \in Seq(D)
      <4> HIDE DEF D
      <4> QED
        BY <1>2, <1>3, <2>2 DEF OnManualDemand
    <3>2. adapter' = Selected(Head(demands)) /\ UNCHANGED converted
      BY <2>2 DEF OnManualDemand
    <3>3. PICK m \in D : m = Head(demands)
      BY <3>1
    <3>4. CASE m = [active |-> FALSE]
      <4>1. adapter' = [manual |-> FALSE, provenance |-> <<>>, command |-> Nothing]
        BY <3>2, <3>3, <3>4 DEF Selected
      <4>2. <<>> \in Seq(Nat)
        OBVIOUS
      <4>3. /\ ~adapter'.manual
            /\ adapter' \in [manual : BOOLEAN, provenance : Seq(Nat), command : Origins]
        BY <1>4, <4>1, <4>2
      <4> HIDE DEF C, D
      <4> QED
        BY <1>2, <3>1, <3>2, <4>3
    <3>5. CASE m \in Demanded /\ Made(m)
      <4>1. /\ m.active /\ m.sequence \in Nat /\ m.generation \in Nat /\ m.epoch \in Nat
            /\ m.of \in Origins
        BY <3>5 DEF Demanded
      <4>2. adapter' = [manual |-> TRUE, provenance |-> <<m.sequence, m.generation, m.epoch>>,
                        command |-> m.of]
        BY <3>2, <3>3, <4>1 DEF Selected
      <4>3. <<m.sequence, m.generation, m.epoch>> \in Seq(Nat)
        BY <4>1
      <4>4. adapter' \in [manual : BOOLEAN, provenance : Seq(Nat), command : Origins]
        BY <4>1, <4>2, <4>3
      <4>5. Carried(adapter') = [sequence |-> m.sequence, generation |-> m.generation,
                                 epoch |-> m.epoch, of |-> m.of]
        BY <4>2 DEF Carried
      <4> DEFINE c == [sequence |-> m.sequence, generation |-> m.generation,
                       epoch |-> m.epoch, of |-> m.of]
      <4>6. /\ c \in Conversions /\ c.sequence = m.sequence
            /\ c.generation = m.generation /\ c.of = m.of
        BY <4>1 DEF Conversions
      <4> HIDE DEF c
      <4>7. Made(c)
        BY <3>5, <4>6 DEF Made
      <4>8. Carried(adapter') \in C
        BY <4>5, <4>6, <4>7 DEF c
      <4> HIDE DEF C, D
      <4> QED
        BY <1>2, <3>1, <3>2, <4>4, <4>8
    <3> QED
      BY <3>3, <3>4, <3>5
  <2>3. CASE Publish
    <3>1. /\ converted' = Append(converted, Carried(adapter)) /\ adapter.manual
          /\ UNCHANGED <<adapter, demands>>
      BY <2>3 DEF Publish, Carried
    <3> HIDE DEF C, D
    <3> QED
      BY <1>2, <3>1
  <2>4. CASE OnRawManual
    <3> HIDE DEF C, D
    <3> QED
      BY <1>2, <1>3, <2>4 DEF OnRawManual
  <2> QED
    BY <2>1, <2>2, <2>3, <2>4
<1>6. \A m : Made(m)' <=> Made(m)
  BY <1>1 DEF Made
<1>7. DemandsMade'
  <2> DEFINE E == {[active |-> FALSE]} \cup {m \in Demanded : Made(m)'}
             F == {m \in Conversions : Made(m)'}
  <2>1. D = E /\ C = F
    BY <1>6
  <2>2. /\ demands' \in Seq(E) /\ converted' \in Seq(F)
        /\ adapter'.manual => Carried(adapter') \in F
    BY <1>5, <2>1
  <2>3. (adapter.manual => Carried(adapter) \in Conversions /\ Made(Carried(adapter)))'
    <3>1. SUFFICES ASSUME adapter'.manual
                   PROVE  Carried(adapter') \in Conversions /\ Made(Carried(adapter))'
      OBVIOUS
    <3>2. PICK m : m = Carried(adapter')
      OBVIOUS
    <3>3. m \in Conversions /\ Made(m)'
      BY <2>2, <3>1, <3>2
    <3> QED
      BY <3>2, <3>3 DEF Made
  <2> QED
    BY <2>2, <2>3 DEF DemandsMade, Demanded, Conversions, Origins
<1>8. AdapterTypes' /\ DemandInPlace'
  BY <1>1, <1>5 DEF AdapterIInv, AdapterTypes, DemandInPlace
<1> QED
  BY <1>7, <1>8 DEF AdapterIInv

(* The adapter moves only in its own part of the motion path. *)
LEMMA AdapterStep ==
    ASSUME AdapterIInv, [Next]_motionVars
    PROVE  AdapterIInv'
<1>1. AdapterNext \/ UNCHANGED adapterVars
  BY DEF Next, motionVars, Tick
<1>2. CASE AdapterNext
  BY <1>2, AcquireStep, EndManualStep, ManualActiveStep, AdapterRestarts, ConversionSteps
     DEF AdapterNext
<1>3. CASE UNCHANGED adapterVars
  <2>1. UNCHANGED <<authority, web, runtime, adapter, demands, converted>>
    BY <1>3 DEF adapterVars
  <2>2. AdapterTypes' /\ DemandInPlace'
    BY <2>1 DEF AdapterIInv, AdapterTypes, DemandInPlace
  <2>3. \A m : Made(m) => Made(m)'
    BY <2>1 DEF Made
  <2> QED
    BY <2>1, <2>2, <2>3, MessagesStay DEF AdapterIInv
<1> QED
  BY <1>1, <1>2, <1>3

(* Every demand on its way, selected or converted, is known for what it is *)
(* by its number, its lease and the restarts there have been.              *)
THEOREM DemandsAreMade == Spec => []AdapterIInv
<1>1. Init => AdapterIInv
  BY AdapterBegins
<1>2. AdapterIInv /\ [Next]_motionVars => AdapterIInv'
  BY AdapterStep
<1> QED
  BY <1>1, <1>2, PTL DEF Spec

(* The sequence number, the lease generation and the epoch are enough to   *)
(* tell the demand in place from any other.                                *)
LEMMA CurrentIsInPlace ==
    ASSUME AdapterIInv, NEW m, Made(m), IsCurrentDemand(m)
    PROVE  m.of = authority.of
<1> USE DEF AdapterIInv, AdapterTypes, DemandInPlace, IsCurrentDemand, Made
<1>1. m.of.web = authority.of.web
  <2>1. CASE m.of.authority = authority.process
    BY <2>1
  <2>2. CASE m.of.authority # authority.process
    <3>1. /\ m.of.authority \in 1 .. authority.process /\ m.of.web \in 1 .. web.process
          /\ authority.process \in Nat /\ web.process \in Nat
          /\ authority.process + web.process <= 3
      OBVIOUS
    <3>2. web.process = 1
      BY <2>2, <3>1
    <3>3. m.of.web = 1 /\ authority.owner = 1
      BY <3>1, <3>2
    <3> QED
      BY <3>3
  <2> QED
    BY <2>1, <2>2
<1> QED
  BY <1>1

(* What the authority passes on towards the wheels is the demand in place, *)
(* for any number of demands, leases, epochs and messages on their way,    *)
(* with a restart of authority or web process at any moment                *)
(* (_on_raw_manual, receive_raw_manual).                                   *)
THEOREM ConversionsAreCurrent == Spec => ConvertedIsCurrent
<1>1. ASSUME AdapterIInv, [Next]_motionVars, Len(converted') < Len(converted),
             forwarded' # Nothing
      PROVE  forwarded' = authority.of
  <2> DEFINE C == {m \in Conversions : Made(m)}
  <2>1. converted \in Seq(C)
    BY <1>1 DEF AdapterIInv, DemandsMade
  <2>2. AdapterNext \/ UNCHANGED adapterVars
    BY <1>1 DEF Next, motionVars, Tick
  <2>3. converted' # converted
    <3>1. Len(converted) \in Nat
      BY <2>1, LenProperties
    <3> QED
      BY <1>1, <3>1
  <2>4. OnRawManual \/ Publish
    BY <2>2, <2>3
       DEF AdapterNext, adapterVars, AcquireLease, LoseLease, OnManualActive,
           OnManualInactive, OnModeState, OnCommand, OnManualDemand, RestartAuthority,
           RestartWeb, ChangeRuntime
  <2>5. ~Publish
    <3>1. ASSUME NEW e, NEW s, s \in Seq(C), e \in C PROVE Len(Append(s, e)) = Len(s) + 1
      BY <3>1
    <3>2. SUFFICES ASSUME Publish PROVE FALSE
      OBVIOUS
    <3>3. converted' = Append(converted, Carried(adapter)) /\ Carried(adapter) \in C
      BY <1>1, <3>2 DEF Publish, Carried, AdapterIInv, DemandsMade
    <3>4. Len(converted) \in Nat
      BY <2>1, LenProperties
    <3> HIDE DEF C
    <3>5. Len(converted') = Len(converted) + 1
      BY <2>1, <3>1, <3>3
    <3> QED
      BY <1>1, <3>4, <3>5
  <2>6. converted # <<>> /\ forwarded' = IF IsCurrentDemand(Head(converted))
                                         THEN Head(converted).of ELSE Nothing
    BY <2>4, <2>5 DEF OnRawManual
  <2>7. Head(converted) \in C
    <3> HIDE DEF C
    <3> QED
      BY <2>1, <2>6
  <2>8. PICK m \in C : m = Head(converted)
    BY <2>7
  <2>9. IsCurrentDemand(m) /\ forwarded' = m.of
    BY <1>1, <2>6, <2>8
  <2> QED
    BY <1>1, <2>8, <2>9, CurrentIsInPlace
<1>2. AdapterIInv /\ [Next]_motionVars =>
        [Len(converted') < Len(converted) /\ forwarded' # Nothing
           => forwarded' = authority.of]_adapterVars
  BY <1>1
<1> QED
  BY <1>2, DemandsAreMade, PTL DEF Spec, ConvertedIsCurrent

=============================================================================
