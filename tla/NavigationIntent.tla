-------------------------- MODULE NavigationIntent --------------------------
(***************************************************************************)
(* The navigation half of CommandAuthorityNode (_sync_navigation,          *)
(* _on_navigation_state, _on_mode and the motion permit of _apply)         *)
(* composed with the mission runtime, the mode supervisor and the AUTONOMY *)
(* unit that runs the mission runtime and Nav2.                            *)
(*                                                                         *)
(* Of the command supervisor only its contract is used: navigation is      *)
(* active only with a goal, and a goal exists only on the map of a runtime *)
(* that is AUTONOMY, stable and ready (CommandSupervisor, GrantsAreCurrent;*)
(* proved in CommandSupervisorProofs).  Within it the goal and the grant   *)
(* change in any way an operator, a takeover or a lapse may change them.   *)
(*                                                                         *)
(* Requests are reliable and in order; of the NavigationStates, kept at    *)
(* depth one, only the state is read.                                      *)
(***************************************************************************)
EXTENDS MissionRuntime, Sequences

CONSTANTS
    MaxRevision,     \* bound: goals of the first authority process, one less for
                     \* each process after it
    MaxLives,        \* bound: authority processes and epochs together
    MaxEffort,       \* bound: those and dispatches together
    MaxRequests,     \* bound: navigation requests in flight
    MaxStates        \* bound: navigation states in flight

ASSUME NavigationConstants ==
    {MaxRevision, MaxLives, MaxEffort, MaxRequests, MaxStates} \subseteq Nat

VARIABLES
    mode_state,   \* the last ModeState, and whether the unit was started since the
                  \* transition began
    auth,         \* the navigation fields of CommandAuthorityNode
    requests,     \* NavigationRequests on their way
    states,       \* NavigationStates on their way
    published     \* the state the runtime published last

navVars == <<missionVars, mode_state, auth, requests, states, published>>

(* What MaxLives and MaxEffort bound. *)
Lives == auth.process + mode_state.epoch
Effort == runtime.action_generation + Lives

NoGoal == [map |-> None, pose |-> None]
Goals == [map : Maps, pose : Poses]

(* The authority of the given process number.  nav_motion_ok stands for    *)
(* _nav_action_active and its age: the last state was ACTIVE and is fresh. *)
FreshAuthority(n) ==
    [ process |-> n, runtime_epoch |-> 0, map |-> None, ready |-> FALSE,
      mission_revision |-> 0, nav_last_goal_key |-> NoGoal,
      nav_last_dispatch_active |-> FALSE, nav_motion_ok |-> FALSE ]

Requests ==
    [operation : {"SELECT"}, mission : Missions]
        \cup [operation : {"DISPATCH", "CANCEL"}, mission : {NoMission}]

NavigationTypeOK ==
    /\ MissionTypeOK
    /\ mode_state \in [ epoch : Nat, map : Maps \cup {None}, stable : BOOLEAN,
                        started : BOOLEAN ]
    /\ auth \in [ process : Nat, runtime_epoch : Nat, map : Maps \cup {None},
                  ready : BOOLEAN, mission_revision : Nat,
                  nav_last_goal_key : Goals \cup {NoGoal},
                  nav_last_dispatch_active : BOOLEAN, nav_motion_ok : BOOLEAN ]
    /\ requests \in Seq(Requests)
    /\ states \in Seq(MissionStates)
    /\ published \in MissionStates

NavigationInit ==
    /\ MissionInit
    /\ mode_state = [epoch |-> 0, map |-> None, stable |-> FALSE, started |-> FALSE]
    /\ auth = FreshAuthority(1)
    /\ requests = <<>>
    /\ states = <<"IDLE">>
    /\ published = "IDLE"

-----------------------------------------------------------------------------
(***************************************************************************)
(* The authority.                                                          *)
(***************************************************************************)

Plain(operation) == <<[operation |-> operation, mission |-> NoMission]>>

(* _sync_navigation, for the authority a and a snapshot with this goal and *)
(* this grant: a changed goal comes first, then an edge of the grant.      *)
GoalRequests(a, goal) ==
    IF goal = a.nav_last_goal_key THEN <<>>
    ELSE IF goal = NoGoal THEN Plain("CANCEL")
    ELSE <<[operation |-> "SELECT",
            mission |-> [by |-> a.process, revision |-> a.mission_revision + 1,
                         epoch |-> a.runtime_epoch, map |-> goal.map, pose |-> goal.pose]]>>

GrantRequests(a, active) ==
    IF active /\ ~a.nav_last_dispatch_active THEN Plain("DISPATCH")
    ELSE IF ~active /\ a.nav_last_dispatch_active THEN Plain("CANCEL")
    ELSE <<>>

(* Mutant of SyncNavigation: every goal gets the same revision. *)
SyncNavigationSameRevision(a, goal, active) ==
    /\ auth' = [a EXCEPT !.nav_last_goal_key = goal, !.nav_last_dispatch_active = active]
    /\ requests' = requests \o GoalRequests(a, goal) \o GrantRequests(a, active)
    /\ Len(requests') <= MaxRequests

SyncNavigation(a, goal, active) ==
    /\ auth' = [a EXCEPT !.mission_revision =
                             IF goal \notin {NoGoal, a.nav_last_goal_key} THEN @ + 1 ELSE @,
                         !.nav_last_goal_key = goal,
                         !.nav_last_dispatch_active = active]
    /\ requests' = requests \o GoalRequests(a, goal) \o GrantRequests(a, active)
    /\ auth'.mission_revision + auth'.process <= MaxRevision + 1
    /\ Len(requests') <= MaxRequests

(* Any input of the supervisor but a ModeState. *)
SupervisorInput(goal, active) ==
    /\ goal # NoGoal => auth.ready /\ goal.map = auth.map
    /\ active => goal # NoGoal
    /\ SyncNavigation(auth, goal, active)
    /\ UNCHANGED <<missionVars, mode_state, states, published>>

(* A runtime that is not ready, a first ready one and another map disarm.  *)
(* A stable runtime may be reported ready or not at any time.              *)
OnMode(ready) ==
    LET changed == ~ready \/ ~auth.ready \/ mode_state.map # auth.map
        a == [auth EXCEPT !.runtime_epoch = mode_state.epoch, !.map = mode_state.map,
                          !.ready = ready]
    IN  /\ ready => mode_state.stable
        /\ SyncNavigation(a, IF changed THEN NoGoal ELSE auth.nav_last_goal_key,
                             auth.nav_last_dispatch_active /\ ~changed)
        /\ UNCHANGED <<missionVars, mode_state, states, published>>

OnNavigationState ==
    /\ states # <<>>
    /\ auth' = [auth EXCEPT !.nav_motion_ok = (Head(states) = "ACTIVE")]
    /\ states' = Tail(states)
    /\ UNCHANGED <<missionVars, mode_state, requests, published>>

(* No NavigationState for longer than the timeout. *)
NavigationStateExpires ==
    /\ auth.nav_motion_ok
    /\ auth' = [auth EXCEPT !.nav_motion_ok = FALSE]
    /\ UNCHANGED <<missionVars, mode_state, requests, states, published>>

(* The motion permit of _apply, as far as navigation decides it. *)
Permitted == auth.nav_last_dispatch_active /\ auth.nav_motion_ok

(* systemd restarts the authority; the last NavigationState is latched. *)
AuthorityRestart ==
    /\ Lives < MaxLives /\ Effort < MaxEffort
    /\ auth' = FreshAuthority(auth.process + 1)
    /\ states' = <<published>>
    /\ UNCHANGED <<missionVars, mode_state, requests, published>>

-----------------------------------------------------------------------------
(***************************************************************************)
(* The mission runtime and its topics.                                     *)
(***************************************************************************)

(* _publish_state: a new state joins the ones that are not yet read or     *)
(* replaces them.                                                          *)
Send(s) ==
    /\ published' = s
    /\ \/ states' = <<s>>
       \/ Len(states) < MaxStates /\ states' = Append(states, s)

PublishState ==
    IF runtime'.state = published THEN UNCHANGED <<states, published>> ELSE Send(runtime'.state)

Handled == PublishState /\ UNCHANGED <<mode_state, auth, requests>>

OnRequest ==
    /\ requests # <<>>
    /\ \/ Head(requests).operation # "DISPATCH"
       \/ Effort < MaxEffort
    /\ CASE Head(requests).operation = "SELECT" -> OnSelect(Head(requests).mission)
         [] Head(requests).operation = "DISPATCH" -> OnDispatch
         [] Head(requests).operation = "CANCEL" -> OnCancel
    /\ requests' = Tail(requests)
    /\ PublishState
    /\ UNCHANGED <<mode_state, auth>>

ModeStateReceived ==
    OnModeState([epoch |-> mode_state.epoch, map |-> mode_state.map], mode_state.stable) /\ Handled

OdometryReceived == \E posture \in Postures : OnOdometry(posture) /\ Handled

GoalAnswered == \E accepted \in BOOLEAN : GoalResponse(accepted) /\ Handled

(* on_feedback publishes nothing. *)
FeedbackReceived ==
    /\ \E generation \in 1 .. MaxEffort : Feedback(generation)
    /\ UNCHANGED <<mode_state, auth, requests, states, published>>

ResultReceived == ResultCallback /\ Handled

CancelAnswered == CancelCallback /\ Handled

Tick == MissionTick /\ Handled

Heartbeat ==
    /\ Send(runtime.state)
    /\ UNCHANGED <<missionVars, mode_state, auth, requests>>

Nav2Step ==
    /\ Nav2Accept \/ Nav2Cancel \/ \E status \in Terminal : Nav2Finish(status)
    /\ UNCHANGED <<mode_state, auth, requests, states, published>>

-----------------------------------------------------------------------------
(***************************************************************************)
(* The mode supervisor and the AUTONOMY unit.                              *)
(***************************************************************************)
BeginTransition ==
    /\ mode_state.stable
    /\ mode_state' = [mode_state EXCEPT !.stable = FALSE, !.started = FALSE]
    /\ UNCHANGED <<missionVars, auth, requests, states, published>>

(* Stopping and starting a unit takes seconds: the authority has seen the  *)
(* transition by then.  Requests to a process that is gone are lost.       *)
StartUnit ==
    /\ ~mode_state.stable
    /\ ~auth.ready
    /\ mode_state' = [mode_state EXCEPT !.started = TRUE]
    /\ UnitRestart
    /\ requests' = <<>>
    /\ Send("IDLE")
    /\ UNCHANGED auth

(* A runtime gets its epoch when it is found complete. *)
EndTransition(map) ==
    /\ ~mode_state.stable /\ mode_state.started
    /\ Lives < MaxLives /\ Effort < MaxEffort
    /\ mode_state' = [epoch |-> mode_state.epoch + 1, map |-> map, stable |-> TRUE,
                      started |-> TRUE]
    /\ UNCHANGED <<missionVars, auth, requests, states, published>>

-----------------------------------------------------------------------------
NavigationNext ==
    \/ \E goal \in Goals \cup {NoGoal}, active \in BOOLEAN : SupervisorInput(goal, active)
    \/ \E ready \in BOOLEAN : OnMode(ready)
    \/ OnNavigationState
    \/ NavigationStateExpires
    \/ AuthorityRestart
    \/ OnRequest
    \/ ModeStateReceived
    \/ OdometryReceived
    \/ GoalAnswered
    \/ FeedbackReceived
    \/ ResultReceived
    \/ CancelAnswered
    \/ Tick
    \/ Heartbeat
    \/ Nav2Step
    \/ BeginTransition
    \/ StartUnit
    \/ \E map \in Maps : EndTransition(map)

NavigationSpec == NavigationInit /\ [][NavigationNext]_navVars

-----------------------------------------------------------------------------
(* Nothing is on its way to the authority or to the mission runtime. *)
Settled ==
    /\ requests = <<>> /\ states = <<>>
    /\ runtime.autonomy_ok = mode_state.stable
    /\ mode_state.stable => runtime.key = [epoch |-> mode_state.epoch, map |-> mode_state.map]

(* Autonomous output that stays open once all messages have arrived is     *)
(* driven by a Nav2 action toward the goal the authority holds: whatever   *)
(* was selected, cancelled and dispatched before, _apply never keeps       *)
(* forwarding the commands of another goal's action.                       *)
MotionIsSelected ==
    Settled /\ Permitted => /\ nav2.mission.map = auth.nav_last_goal_key.map
                            /\ nav2.mission.pose = auth.nav_last_goal_key.pose

(* The same as long as the first authority process lives. *)
FirstMotionIsSelected == auth.process = 1 => MotionIsSelected

=============================================================================
