------------------------------- MODULE Teleop -------------------------------
(***************************************************************************)
(* The local teleoperation node (teleop_node.py): a controller and a       *)
(* keyboard, one command stream, and the status by which the command       *)
(* authority learns of a takeover.                                         *)
(*                                                                         *)
(* Time goes in ticks of 50 ms, the period of publish_cmd.  A duration of  *)
(* T ticks may be over once T ticks are counted and is over after T + 1.   *)
(* Commands are their sign; the set point of R1 is above zero; steering    *)
(* and the D-pad are left out.                                             *)
(***************************************************************************)
EXTENDS Naturals, Sequences

CONSTANTS MaxTakeovers    \* bound: takeovers begun and restarts

ASSUME TeleopConstants == MaxTakeovers \in Nat

VARIABLES
    teleop,    \* TeleopNode: controller, command and status
    keys,      \* TeleopNode: keyboard
    voided     \* history: the keys held were pressed before the last takeover message

teleopVars == <<teleop, keys, voided>>

InputTimeout == 3      \* controller_timeout, keyboard_state_timeout: 0.15 s
ReleaseBrake == 7      \* release_brake_duration: 0.35 s

Over(is_over, age, limit) == (is_over => age >= limit) /\ (~is_over => age <= limit)
OverIf(runs, is_over, age, limit) == IF runs THEN Over(is_over, age, limit) ELSE ~is_over
Older(age, limit) == IF age > limit THEN age ELSE age + 1

Throttles == {"zero", "forward", "reverse"}

Idle ==
    [live |-> FALSE, joy_age |-> 0, manual |-> FALSE, fixed |-> FALSE, suppress |-> FALSE,
     inhibited |-> FALSE, throttle |-> "zero", active |-> FALSE, selected |-> FALSE,
     braking |-> FALSE, brake_age |-> 0]
NoKeys ==
    [valid |-> FALSE, age |-> 0, brake |-> FALSE, throttle |-> "zero", motion |-> FALSE,
     ready |-> FALSE, armed |-> FALSE, suppress |-> FALSE, suppress_armed |-> FALSE,
     rearm |-> TRUE]

(* process, takeovers: the identity of the status. *)
TeleopInit ==
    /\ teleop = [process |-> 1, takeovers |-> 0, up |-> TRUE, in |-> Idle]
    /\ keys = NoKeys /\ voided = FALSE

-----------------------------------------------------------------------------
(* Mutant of Disarmed: keys that are held stay armed. *)
DisarmedNever(k) == k

(* _disarm_held_keyboard_motion *)
Disarmed(k) == IF k.motion THEN [k EXCEPT !.armed = FALSE, !.ready = FALSE] ELSE k

(* _invalidate_keyboard *)
Invalidated(k) ==
    [k EXCEPT !.valid = FALSE, !.armed = FALSE, !.ready = FALSE, !.suppress_armed = FALSE]

Taken(i) == i.manual \/ i.fixed

(* on_joy: a takeover that begins has a number of its own. *)
OnJoy(manual, fixed, suppress, throttle) ==
    LET in == [teleop.in EXCEPT !.live = TRUE, !.joy_age = 0, !.manual = manual,
                 !.fixed = fixed, !.suppress = suppress, !.throttle = throttle,
                 !.active = manual \/ fixed,
                 !.inhibited = fixed /\ (@ \/ manual)]
        begins == Taken(in) /\ ~teleop.in.active
    IN  /\ teleop.up /\ (begins => teleop.takeovers + teleop.process <= MaxTakeovers)
        /\ teleop' = [teleop EXCEPT !.in = in, !.takeovers = IF begins THEN @ + 1 ELSE @]
        /\ IF Taken(in) \/ suppress
           THEN /\ keys' = [Disarmed(keys) EXCEPT !.suppress_armed = FALSE, !.rearm = FALSE]
                /\ voided' = keys.motion
           ELSE UNCHANGED <<keys, voided>>

(* The keyboard after a well-formed message: brake and suppress, then, if  *)
(* the sender holds it valid, the motion keys.                             *)
Suppressing(brake, suppress) ==
    IF brake THEN [keys EXCEPT !.suppress_armed = FALSE, !.rearm = TRUE]
    ELSE IF ~suppress THEN [keys EXCEPT !.rearm = TRUE]
    ELSE IF keys.rearm THEN [keys EXCEPT !.suppress_armed = TRUE, !.rearm = FALSE]
    ELSE keys

Typed(k, throttle, brake, suppress) ==
    LET motion == throttle # "zero" /\ ~brake
        pressed == motion /\ ~k.motion /\ k.ready
    IN  [k EXCEPT !.valid = TRUE, !.brake = brake, !.throttle = throttle, !.motion = motion,
                  !.suppress = suppress,
                  !.ready = IF ~motion THEN TRUE ELSE IF pressed THEN FALSE ELSE @,
                  !.armed = motion /\ (@ \/ pressed)]

KeyboardAfter(throttle, brake, suppress, valid) ==
    LET k == [Suppressing(brake, suppress) EXCEPT !.age = 0]
    IN  IF valid THEN Typed(k, throttle, brake, suppress)
        ELSE IF suppress THEN [k EXCEPT !.valid = FALSE, !.suppress = TRUE]
        ELSE Invalidated(k)

-----------------------------------------------------------------------------
(* publish_cmd. *)

(* _expire_inputs *)
ExpiredIn(i, joy_over) == IF i.live /\ joy_over
    THEN [Idle EXCEPT !.selected = i.selected, !.braking = i.braking, !.brake_age = i.brake_age]
    ELSE i
ExpiredKeys(i, k, joy_over, keys_over) ==
    LET kept == IF i.live /\ joy_over THEN Disarmed(k) ELSE k
    IN  IF kept.valid /\ keys_over THEN Invalidated(kept) ELSE kept

ActiveMode(i, k) ==
    CASE i.manual -> "manual"
      [] ~i.manual /\ i.fixed -> "fixed_throttle"
      [] ~Taken(i) /\ i.suppress -> "suppress"
      [] ~Taken(i) /\ ~i.suppress /\ k.valid /\ k.brake -> "keyboard_brake"
      [] ~Taken(i) /\ ~i.suppress /\ ~(k.valid /\ k.brake) /\ k.suppress /\ k.suppress_armed
           -> "suppress"
      [] OTHER -> IF ~Taken(i) /\ k.valid /\ k.motion /\ k.armed THEN "keyboard_motion"
                  ELSE "none"

Selecting == {"manual", "fixed_throttle", "keyboard_brake", "keyboard_motion"}

CommandOf(i, k) ==
    CASE ActiveMode(i, k) = "manual" -> i.throttle
      [] ActiveMode(i, k) = "fixed_throttle" ->
           IF i.throttle = "forward" /\ i.inhibited THEN "zero" ELSE i.throttle
      [] ActiveMode(i, k) = "keyboard_motion" -> k.throttle
      [] OTHER -> "zero"

(* What is published: a command when one is selected or during the brake   *)
(* after the last, and always the status.                                  *)
Published(i, k) ==
    [sent |-> i.selected \/ i.braking,
     command |-> IF i.selected THEN CommandOf(i, k) ELSE "zero",
     takeover |-> Taken(i) /\ i.selected,
     status |-> [process |-> teleop.process, takeovers |-> teleop.takeovers,
                 active |-> i.active]]

(* The brake: begun when the selection ends, ended by its time or by the   *)
(* next selection.                                                         *)
PublishCmd(k0, joy_over, keys_over, brake_over) ==
    LET i == ExpiredIn(teleop.in, joy_over)
        k == ExpiredKeys(teleop.in, k0, joy_over, keys_over)
        selected == ActiveMode(i, k) \in Selecting
        released == i.selected /\ ~selected
        braking == ~selected /\ (released \/ (i.braking /\ ~brake_over))
    IN  /\ teleop.up
        /\ OverIf(teleop.in.live, joy_over, teleop.in.joy_age, InputTimeout)
        /\ OverIf(k0.valid, keys_over, k0.age, InputTimeout)
        /\ OverIf(teleop.in.braking, brake_over, teleop.in.brake_age, ReleaseBrake)
        /\ teleop' = [teleop EXCEPT !.in =
             [i EXCEPT !.selected = selected, !.braking = braking,
                       !.brake_age = IF braking /\ ~released THEN @ ELSE 0]]
        /\ keys' = k

(* The process dies and comes back as another. *)
TeleopDies ==
    teleop.up /\ teleop' = [teleop EXCEPT !.up = FALSE] /\ UNCHANGED <<keys, voided>>

TeleopStarts ==
    /\ ~teleop.up
    /\ teleop' = [process |-> teleop.process + 1, takeovers |-> 0, up |-> TRUE, in |-> Idle]
    /\ keys' = NoKeys /\ UNCHANGED voided

(* One tick. *)
OlderIn(i) ==
    [i EXCEPT !.joy_age = IF i.live THEN Older(@, InputTimeout) ELSE @,
              !.brake_age = IF i.braking THEN Older(@, ReleaseBrake) ELSE @]
OlderKeys(k) == [k EXCEPT !.age = IF k.valid THEN Older(@, InputTimeout) ELSE @]
=============================================================================
