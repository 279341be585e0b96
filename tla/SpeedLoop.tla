------------------------------ MODULE SpeedLoop ------------------------------
(***************************************************************************)
(* The speed controller of the drive adapter (drive_adapter.py): silence,  *)
(* brake, or feedforward with a proportional term and a bounded integral   *)
(* that learns only while the loop is closed.  Subscriptions and the timer *)
(* run on one thread, in any order.                                        *)
(*                                                                         *)
(* Stamps of encoder samples count sample periods of the clock, which may  *)
(* step; a sample also carries, as history, when it was taken.  Effort is  *)
(* in units of what one period of error adds.  Receive times become        *)
(* choices: anything may have become too old when the timer looks at it.   *)
(* Steering and the diagnostic texts are left out.                         *)
(***************************************************************************)
EXTENDS Integers, FiniteSets

CONSTANTS
    MaxTime,          \* bound: times of encoder samples
    ClockLags,        \* bound: how far stamps may be behind
    MaxIntegrationDt, \* MAX_INTEGRATION_DT_SEC, in stamps
    IntegratorBound,  \* integrator_bound
    Feedforward,      \* linear_feedforward of the speed commanded
    OutputMax         \* output_max

ASSUME SpeedConstants ==
    /\ {MaxTime, MaxIntegrationDt, IntegratorBound, Feedforward, OutputMax} \subseteq Nat
    /\ ClockLags \subseteq Int /\ Feedforward <= OutputMax

VARIABLES
    loop,       \* DriveAdapter
    learned     \* history: the periods integrated, skipped and held

speedVars == <<loop, learned>>

NoSampleTime == [stamp |-> -1, at |-> -1]
NoOutput == OutputMax + 1      \* no value of an output
Foreign == OutputMax + 2       \* a value the adapter did not offer

(* History.  Periods are integrated by a driving cycle (periods, in so     *)
(* many cycles, counting length in time and amount in stamps) or skipped   *)
(* by one; held are those since the last driving cycle in which the loop   *)
(* braked or was silent, which the next one makes up for or skips.  last   *)
(* is the time of the sample that the last cycle had, and stepped whether  *)
(* a stamp was ever off.                                                   *)
SpeedInit ==
    /\ loop = [command |-> "none", sample |-> NoSampleTime, previous |-> NoSampleTime,
               direction |-> "none", spinning |-> FALSE, output |-> NoOutput,
               mux |-> NoOutput, integrator |-> 0]
    /\ learned = [periods |-> {}, skipped |-> {}, held |-> {}, last |-> -1,
                  cycles |-> 0, length |-> 0, amount |-> 0, stepped |-> FALSE]

-----------------------------------------------------------------------------
(* Inputs. *)

(* update_command, update_manual_command; "none" is invalidate_command and *)
(* "zero" also a value that is not finite.                                 *)
UpdateCommand(command) ==
    /\ loop.command # command /\ loop' = [loop EXCEPT !.command = command]
    /\ UNCHANGED learned

(* update_encoder: samples come in the order they were taken, with         *)
(* whatever the clock showed.                                              *)
UpdateEncoder(at, lag, direction) ==
    /\ at > loop.sample.at
    /\ loop' = [loop EXCEPT !.sample = [stamp |-> at - lag, at |-> at],
                            !.direction = direction]
    /\ learned' = [learned EXCEPT !.stepped = @ \/ lag # 0]

(* The mux passes on the adapter's command, or another one. *)
UpdateMuxOutput(own) ==
    /\ loop' = [loop EXCEPT !.mux = IF own THEN loop.output ELSE Foreign]
    /\ UNCHANGED learned

(* set_live_parameters with an integral gain, which is not zero here. *)
SetIntegralGain ==
    /\ loop' = [loop EXCEPT !.integrator = 0, !.previous = NoSampleTime]
    /\ UNCHANGED learned

-----------------------------------------------------------------------------
(* step *)

Clamp(low, high, x) == IF x < low THEN low ELSE IF x > high THEN high ELSE x

(* _integration_dt, before it moves on to the present sample. *)
ValidDt ==
    /\ NoSampleTime \notin {loop.sample, loop.previous}
    /\ loop.sample.stamp - loop.previous.stamp \in 1..MaxIntegrationDt

(* _integrator_freeze_reason: none.  The feedback is fresh, the wheels     *)
(* grip and turn the way commanded, and the mux passed on what was offered *)
(* last.                                                                   *)
LoopIsClosed(feedback, wheelspin, heard) ==
    /\ feedback = "recent" /\ ~wheelspin /\ loop.direction = loop.command
    /\ heard /\ NoOutput \notin {loop.output, loop.mux} /\ loop.output = loop.mux

Candidate(error) ==
    Clamp(-IntegratorBound, IntegratorBound,
          loop.integrator + error * (loop.sample.stamp - loop.previous.stamp))

(* The candidate would drive a saturated output farther. *)
WindsUp(error) ==
    LET raw == Feedforward + error + Candidate(error)
    IN  (raw > OutputMax /\ error > 0) \/ (raw < 0 /\ error < 0)

Signed(command, effort) == IF command = "reverse" THEN -effort ELSE effort

(* Mutant of Reference: a cycle that is frozen keeps the older sample. *)
ReferenceKept(integrates) ==
    IF integrates \/ loop.previous = NoSampleTime THEN loop.sample ELSE loop.previous

(* _integration_dt: every cycle moves on to the present sample. *)
Reference(integrates) == loop.sample

(* The periods after a time up to the present sample. *)
Since(time) == {p \in 1..MaxTime : time < p /\ p <= loop.sample.at}

(* History of a cycle that does not integrate; of a driving one, which     *)
(* leaves out what was held for good.                                      *)
Hold == [learned EXCEPT !.held = @ \cup Since(learned.last), !.last = loop.sample.at]
Skip == [Hold EXCEPT !.skipped = @ \cup Hold.held, !.held = {}]

(* A cycle with a command to move.  Feedback that is not recent is not     *)
(* integrated; it is fresh enough for the other term, and to see the       *)
(* wheels spin, for a while longer.  A spin is long only if it went on.    *)
Drive(error, feedback, spin, heard) ==
    LET fresh == feedback # "old"
        wheelspin == spin = "long"
        integrates == LoopIsClosed(feedback, wheelspin, heard) /\ ValidDt /\ ~WindsUp(error)
        integrator == IF integrates THEN Candidate(error) ELSE loop.integrator
        effort == Clamp(0, OutputMax, Feedforward + (IF fresh THEN error ELSE 0) + integrator)
    IN  /\ (spin # "none" => fresh) /\ (wheelspin => loop.spinning)
        /\ loop' = [loop EXCEPT !.integrator = integrator, !.spinning = (spin # "none"),
                      !.previous = Reference(integrates),
                      !.output = Signed(loop.command, effort)]
        /\ learned' =
             IF integrates
             THEN [learned EXCEPT !.periods = @ \cup Since(loop.previous.at), !.held = {},
                     !.last = loop.sample.at, !.cycles = @ + 1,
                     !.length = @ + loop.sample.at - loop.previous.at,
                     !.amount = @ + loop.sample.stamp - loop.previous.stamp]
             ELSE Skip

(* _brake: zero effort is offered, the integral is kept and so is the      *)
(* sample of the last driving cycle (ZERO_COMMAND, INVALID_COMMAND).       *)
Brake ==
    /\ loop' = [loop EXCEPT !.spinning = FALSE, !.output = 0]
    /\ learned' = Hold

(* _silence (NO_COMMAND) *)
Silence ==
    /\ loop' = [loop EXCEPT !.spinning = FALSE]
    /\ learned' = Hold

Step ==
    \/ Silence
    \/ loop.command = "zero" /\ Brake
    \/ /\ loop.command \in {"forward", "reverse"}
       /\ \E error \in {-1, 1}, feedback \in {"recent", "fresh", "old"},
             spin \in {"none", "brief", "long"}, heard \in BOOLEAN :
            Drive(error, feedback, spin, heard)

SpeedNext ==
    \/ \E command \in {"none", "zero", "forward", "reverse"} : UpdateCommand(command)
    \/ \E at \in 0..MaxTime, lag \in ClockLags, direction \in {"forward", "reverse"} :
         UpdateEncoder(at, lag, direction)
    \/ \E own \in BOOLEAN : UpdateMuxOutput(own)
    \/ SetIntegralGain
    \/ Step

-----------------------------------------------------------------------------
(* Time is integrated once, or lost: no period that a driving cycle left   *)
(* out (another command selected, wheels spinning or turning the other     *)
(* way, feedback old, too long a gap) is made up for later, and neither is *)
(* one of a brake or a silence that the first driving cycle after it left  *)
(* out; whatever samples, commands, gains and steps of the clock come in   *)
(* between.  While the clock is right the integral counts as much time as  *)
(* has passed; a clock that steps never makes it count backwards, nor a    *)
(* brake or a silence more than MaxIntegrationDt a cycle                   *)
(* (_integration_dt, _integrator_freeze_reason, _brake, _silence).         *)
FrozenTimeStaysOut ==
    /\ learned.periods \cap learned.skipped = {}
    /\ learned.length = Cardinality(learned.periods)
    /\ ~learned.stepped => learned.amount = learned.length
    /\ learned.amount \in learned.cycles .. learned.cycles * MaxIntegrationDt
=============================================================================
