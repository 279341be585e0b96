------------------------ MODULE PaddockStateMachine ------------------------
(***************************************************************************)
(* The pure reducer of the Paddock authority (state_machine.py): one       *)
(* operator per Event of transition(), from a PaddockState to the next.    *)
(*                                                                         *)
(* A client id and a lease id always travel and are compared together, so  *)
(* the pair is one session; None is the pair of empty strings.  The        *)
(* effects of a Transition are left out: CommandSupervisor, the only       *)
(* caller, uses the state alone.                                           *)
(*                                                                         *)
(* Two history fields are not in the code: run_by and goal.by record the   *)
(* lease generation in which RUN was pressed and the goal was selected.    *)
(***************************************************************************)
EXTENDS Integers

CONSTANTS
    Sessions,   \* (client id, lease id) pairs
    Maps,       \* names of autonomy maps
    Poses,      \* goal poses
    None        \* an empty string: no session, no map

ASSUME PaddockConstants == None \notin Sessions \cup Maps \cup Poses

Modes == {"IDLE", "MAPPING", "AUTONOMY"}
NoGoal == [map |-> None, pose |-> None, by |-> 0]

PaddockState ==
    [ mode : Modes, accepted_mode_request_id : Nat, active_autonomy_map : Maps \cup {None},
      lease : Sessions \cup {None}, lease_generation : Nat,
      dualsense_active : BOOLEAN, run_held : BOOLEAN, run_by : Nat,
      run_blocked_until_release : BOOLEAN, manual_active : BOOLEAN,
      goal : [map : Maps, pose : Poses, by : Nat] \cup {NoGoal},
      navigation_active : BOOLEAN ]

-----------------------------------------------------------------------------
lease_active(s) == s.lease # None

(* The complete Paddock autonomy interlock decision. *)
autonomy_permitted(s) ==
    /\ s.mode = "AUTONOMY"
    /\ lease_active(s)
    /\ s.run_held
    /\ ~s.run_blocked_until_release
    /\ ~s.dualsense_active
    /\ s.goal # NoGoal

authority(s) ==
    CASE s.mode = "IDLE" -> "NONE"
      [] s.mode # "IDLE" /\ s.dualsense_active -> "DUALSENSE"
      [] s.mode # "IDLE" /\ ~s.dualsense_active /\ lease_active(s) /\ s.manual_active
            -> "PADDOCK_MANUAL"
      [] OTHER -> IF autonomy_permitted(s) THEN "PADDOCK_AUTONOMY" ELSE "NONE"

(* Mutant of Disarm: manual control is forgotten. *)
DisarmKeepsManual(s) ==
    [s EXCEPT !.run_held = FALSE, !.run_blocked_until_release = FALSE,
              !.navigation_active = FALSE]

(* What STOP, a lost lease and every change of runtime have in common. *)
Disarm(s) ==
    [s EXCEPT !.run_held = FALSE, !.run_blocked_until_release = FALSE,
              !.manual_active = FALSE, !.navigation_active = FALSE]

(* Event.RESTART: a PaddockState with every field at its default but the   *)
(* selected map.                                                           *)
Restarted(map) ==
    [ mode |-> "IDLE", accepted_mode_request_id |-> 0, active_autonomy_map |-> map,
      lease |-> None, lease_generation |-> 0, dualsense_active |-> FALSE,
      run_held |-> FALSE, run_by |-> 0, run_blocked_until_release |-> FALSE,
      manual_active |-> FALSE, goal |-> NoGoal, navigation_active |-> FALSE ]

AcquireLease(s, session) ==
    IF lease_active(s) THEN s
    ELSE [s EXCEPT !.lease = session, !.lease_generation = @ + 1,
                   !.accepted_mode_request_id = 0]

(* Mutant of LoseLease: the goal outlives the lease it was selected under. *)
LoseLeaseKeepsGoal(s) ==
    IF ~lease_active(s) THEN s
    ELSE [Disarm(s) EXCEPT !.lease = None, !.lease_generation = @ + 1]

(* Event.RELEASE_LEASE and Event.LOSE_LEASE, from the owner. *)
LoseLease(s) ==
    IF ~lease_active(s) THEN s
    ELSE [Disarm(s) EXCEPT !.lease = None, !.lease_generation = @ + 1, !.goal = NoGoal]

DualsenseActive(s) ==
    IF s.dualsense_active THEN s
    ELSE [s EXCEPT !.dualsense_active = TRUE, !.run_blocked_until_release = s.run_held,
                   !.manual_active = FALSE, !.navigation_active = FALSE]

(* Mutant of DualsenseInactive: the end of a takeover unblocks RUN. *)
DualsenseInactiveRearms(s) ==
    [s EXCEPT !.dualsense_active = FALSE, !.run_blocked_until_release = FALSE]

DualsenseInactive(s) == [s EXCEPT !.dualsense_active = FALSE]

RequestMode(s, mode, id) ==
    IF ~lease_active(s) \/ id <= s.accepted_mode_request_id THEN s
    ELSE IF mode = s.mode THEN [s EXCEPT !.accepted_mode_request_id = id]
    ELSE [Disarm(s) EXCEPT !.mode = mode, !.accepted_mode_request_id = id, !.goal = NoGoal]

(* The goal is always made on the active map (CommandSupervisor). *)
SelectGoal(s, pose) ==
    IF ~lease_active(s) \/ s.mode # "AUTONOMY" \/ s.active_autonomy_map = None THEN s
    ELSE LET t == [s EXCEPT !.goal = [map |-> s.active_autonomy_map, pose |-> pose,
                                      by |-> s.lease_generation]]
         IN  [t EXCEPT !.navigation_active = autonomy_permitted(t)]

RunPress(s) ==
    IF ~lease_active(s) \/ s.run_held THEN s
    ELSE LET t == [s EXCEPT !.run_held = TRUE, !.run_by = s.lease_generation,
                            !.run_blocked_until_release = s.dualsense_active]
         IN  [t EXCEPT !.navigation_active = @ \/ autonomy_permitted(t)]

RunRelease(s) ==
    IF ~lease_active(s) \/ (~s.run_held /\ ~s.run_blocked_until_release) THEN s
    ELSE [s EXCEPT !.run_held = FALSE, !.run_blocked_until_release = FALSE,
                   !.navigation_active = FALSE]

Stop(s) == IF lease_active(s) THEN Disarm(s) ELSE s

ManualActive(s) ==
    IF ~lease_active(s) \/ s.mode = "IDLE" \/ s.dualsense_active THEN s
    ELSE [Disarm(s) EXCEPT !.manual_active = TRUE]

ManualInactive(s) == IF lease_active(s) THEN [s EXCEPT !.manual_active = FALSE] ELSE s

-----------------------------------------------------------------------------
(***************************************************************************)
(* What every reachable PaddockState satisfies.                            *)
(***************************************************************************)

(* The reducer keeps no independent opinion of the mission: navigation is  *)
(* active exactly while the interlock permits autonomy, whatever order     *)
(* RUN, takeover, goal, mode and lease events come in.                     *)
NavigationMatchesPermit(s) == s.navigation_active = autonomy_permitted(s)

(* RUN and the goal belong to the lease that is active now, and the goal   *)
(* to the map that is loaded now: nothing survives a change of owner.      *)
GrantsOfCurrentLease(s) ==
    /\ s.run_held => lease_active(s) /\ s.run_by = s.lease_generation
    /\ s.manual_active => lease_active(s)
    /\ s.goal # NoGoal => /\ lease_active(s)
                          /\ s.goal.by = s.lease_generation
                          /\ s.goal.map = s.active_autonomy_map
                          /\ s.mode = "AUTONOMY"

(* Local control always blocks a RUN that is held through it. *)
TakeoverBlocksRun(s) ==
    /\ s.dualsense_active /\ s.run_held => s.run_blocked_until_release
    /\ s.run_blocked_until_release => s.run_held

=============================================================================
