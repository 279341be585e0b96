--------------------------- MODULE MissionRuntime ---------------------------
(***************************************************************************)
(* The one owner of Nav2 actions (navigation_runtime.py): the object that  *)
(* holds the mission, the node around it with its futures and its tick,    *)
(* and Nav2 as the node sees it.                                           *)
(*                                                                         *)
(* runtime is one record holding the fields of both objects; a handler is  *)
(* an action, and an operator that calls Nav2 yields the set of records it *)
(* may leave, one for each thing the call can do.  Reason texts, statuses  *)
(* and error codes are reported only and left out.  The node runs on one   *)
(* thread, so a handler is atomic.                                         *)
(*                                                                         *)
(* A pose is the posture of the robot up to the redispatch tolerances, a   *)
(* retry time may or may not have come when the tick looks at it, and the  *)
(* residual cancel of the first dispatch is one of the reasons for which   *)
(* Nav2 may cancel a goal.                                                 *)
(***************************************************************************)
EXTENDS Integers

CONSTANTS
    MaxCancelAttempts,   \* MAX_CANCEL_ATTEMPTS
    Maps,                \* names of autonomy maps
    Poses,               \* goal poses
    Postures,            \* robot postures that are materially different
    None                 \* an empty string or a field that is not set

ASSUME MissionConstants ==
    /\ MaxCancelAttempts \in Nat \ {0}
    /\ None \notin Maps \cup Poses \cup Postures

VARIABLES
    runtime,   \* NavigationRuntimeNode and its MissionRuntime
    nav2       \* the goal Nav2 accepted last

missionVars == <<runtime, nav2>>

(* A mission id is a fresh uuid: the authority process that drew it and    *)
(* the revision it drew it for.                                            *)
Missions == [by : Nat, revision : Nat, epoch : Nat, map : Maps, pose : Poses]
NoMission == [by |-> 0, revision |-> 0, epoch |-> 0, map |-> None, pose |-> None]
MissionId(m) == <<m.by, m.revision>>
MissionIds == Nat \X Nat
NoId == <<0, 0>>

Sends == [generation : Nat, mission : Missions \cup {NoMission}]
NoSend == [generation |-> 0, mission |-> NoMission]
Keys == [epoch : Nat, map : Maps \cup {None}]
NoKey == [epoch |-> 0, map |-> None]
Failures == [id : MissionIds, robot_pose : Postures \cup {None}]
NoFailure == [id |-> NoId, robot_pose |-> None]

MissionStates == {"IDLE", "DISPATCHING", "ACTIVE", "CANCELING",
                  "SUCCEEDED", "FAILED", "CANCELED"}
Underway == {"DISPATCHING", "ACTIVE", "CANCELING"}
Terminal == {"succeeded", "canceled", "aborted"}

Runtimes ==
    [ autonomy_ok : BOOLEAN, key : Keys, mission : Missions \cup {NoMission},
      mission_valid : BOOLEAN, state : MissionStates, action_generation : Nat,
      goal_uuid : BOOLEAN, inflight : BOOLEAN, cancel_requested : BOOLEAN,
      max_revision : Nat, robot_pose : Postures \cup {None},
      failed_dispatch : Failures, inflight_mission_id : MissionIds,
      pending_send : Sends, send_future : Sends, goal_handle : Nat,
      result_future : Nat, cancel_future : BOOLEAN,
      cancel_attempts : 0 .. MaxCancelAttempts ]

(* A process that has just started. *)
FreshRuntime ==
    [ autonomy_ok |-> FALSE, key |-> NoKey, mission |-> NoMission,
      mission_valid |-> FALSE, state |-> "IDLE", action_generation |-> 0,
      goal_uuid |-> FALSE, inflight |-> FALSE, cancel_requested |-> FALSE,
      max_revision |-> 0, robot_pose |-> None, failed_dispatch |-> NoFailure,
      inflight_mission_id |-> NoId, pending_send |-> NoSend, send_future |-> NoSend,
      goal_handle |-> 0, result_future |-> 0, cancel_future |-> FALSE,
      cancel_attempts |-> 0 ]

NoAction == [generation |-> 0, mission |-> NoMission, status |-> "none"]

MissionTypeOK ==
    /\ runtime \in Runtimes
    /\ nav2 \in [generation : Nat, mission : Missions \cup {NoMission},
                 status : {"none", "executing", "canceling"} \cup Terminal]

MissionInit == runtime = FreshRuntime /\ nav2 = NoAction

-----------------------------------------------------------------------------
(***************************************************************************)
(* The reducers of MissionRuntime, on the record r.                        *)
(***************************************************************************)

is_current(r, generation) == generation = r.action_generation /\ r.inflight

BeginCancel(r) == [r EXCEPT !.cancel_requested = TRUE, !.state = "CANCELING"]

(* The mission is revoked and its action, if there is one, canceled. *)
Invalidate(r) ==
    LET cleared == [r EXCEPT !.mission_valid = FALSE, !.mission = NoMission,
                             !.failed_dispatch = NoFailure]
    IN  IF r.inflight THEN BeginCancel(cleared)
        ELSE IF r.state \in Underway THEN [cleared EXCEPT !.state = "IDLE"]
        ELSE cleared

(* Does observe_runtime revoke the mission? *)
Revokes(r, key, ok) ==
    \/ ok /\ r.key # NoKey /\ key # r.key
    \/ ~ok /\ r.autonomy_ok

ObserveRuntime(r, key, ok) ==
    LET seen == IF Revokes(r, key, ok) THEN Invalidate(r) ELSE r
    IN  [seen EXCEPT !.autonomy_ok = ok, !.key = IF ok THEN key ELSE @]

(* The epoch and the map must be the runtime's, and the revision new. *)
SelectAccepted(r, m) ==
    /\ r.autonomy_ok
    /\ m.epoch = r.key.epoch
    /\ r.key.map # None => m.map = r.key.map
    /\ m.revision > r.max_revision

(* Mutant of Select: the action of the mission before is left alone. *)
SelectKeepsAction(r, m) ==
    IF ~SelectAccepted(r, m) THEN r
    ELSE [r EXCEPT !.max_revision = m.revision, !.mission = m,
                   !.mission_valid = TRUE, !.failed_dispatch = NoFailure]

Select(r, m) ==
    IF ~SelectAccepted(r, m) THEN r
    ELSE LET freed == IF r.inflight THEN BeginCancel(r) ELSE [r EXCEPT !.state = "IDLE"]
         IN  [freed EXCEPT !.max_revision = m.revision, !.mission = m,
                           !.mission_valid = TRUE, !.failed_dispatch = NoFailure]

(* The robot has not moved since this mission last failed. *)
IdenticalRedispatchFailure(r) ==
    /\ r.failed_dispatch # NoFailure
    /\ r.mission # NoMission
    /\ r.failed_dispatch.id = MissionId(r.mission)
    /\ r.robot_pose # None
    /\ r.failed_dispatch.robot_pose = r.robot_pose

DispatchAccepted(r) ==
    /\ r.mission_valid /\ r.mission # NoMission
    /\ ~r.inflight /\ r.state # "CANCELING"
    /\ r.autonomy_ok
    /\ r.mission.epoch = r.key.epoch
    /\ ~IdenticalRedispatchFailure(r)

(* A mission of a superseded epoch is dropped when its turn comes. *)
DispatchSuperseded(r) ==
    /\ r.mission_valid /\ r.mission # NoMission
    /\ ~r.inflight /\ r.state # "CANCELING"
    /\ r.autonomy_ok
    /\ r.mission.epoch # r.key.epoch

Dispatch(r) ==
    IF DispatchSuperseded(r)
    THEN [r EXCEPT !.mission = NoMission, !.mission_valid = FALSE]
    ELSE IF ~DispatchAccepted(r) THEN r
    ELSE [r EXCEPT !.action_generation = @ + 1, !.inflight = TRUE,
                   !.inflight_mission_id = MissionId(r.mission),
                   !.cancel_requested = FALSE, !.goal_uuid = FALSE,
                   !.state = "DISPATCHING",
                   !.pending_send = [generation |-> r.action_generation + 1,
                                     mission |-> r.mission]]

Cancel(r) ==
    IF r.inflight THEN BeginCancel(r)
    ELSE IF r.state \in Underway THEN [r EXCEPT !.state = "IDLE"]
    ELSE r

(* Mutant of OnGoalResponse: a cancel asked for before the acceptance is   *)
(* forgotten.                                                              *)
OnGoalResponseForgetsCancel(r, generation, accepted) ==
    IF ~is_current(r, generation) THEN r
    ELSE IF ~accepted
    THEN [r EXCEPT !.inflight = FALSE, !.inflight_mission_id = NoId, !.state = "FAILED"]
    ELSE [r EXCEPT !.goal_uuid = TRUE, !.state = "ACTIVE"]

OnGoalResponse(r, generation, accepted) ==
    IF ~is_current(r, generation) THEN r
    ELSE IF ~accepted
    THEN [r EXCEPT !.inflight = FALSE, !.inflight_mission_id = NoId, !.state = "FAILED"]
    ELSE [r EXCEPT !.goal_uuid = TRUE,
                   !.state = IF r.cancel_requested THEN "CANCELING" ELSE "ACTIVE"]

(* Mutant of OnFeedback: the generation is not compared. *)
OnFeedbackOfAny(r, generation) ==
    IF r.inflight /\ r.state = "DISPATCHING" THEN [r EXCEPT !.state = "ACTIVE"] ELSE r

OnFeedback(r, generation) ==
    IF is_current(r, generation) /\ r.state = "DISPATCHING"
    THEN [r EXCEPT !.state = "ACTIVE"] ELSE r

(* Mutant of OnResult: a failure is charged to the mission bound now. *)
OnResultBlamesBound(r, generation, status) ==
    IF ~is_current(r, generation) THEN r
    ELSE [r EXCEPT !.inflight = FALSE, !.inflight_mission_id = NoId,
                   !.cancel_requested = FALSE, !.goal_uuid = FALSE,
                   !.state = CASE status = "succeeded" -> "SUCCEEDED"
                               [] status = "canceled" -> "CANCELED"
                               [] OTHER -> "FAILED",
                   !.failed_dispatch =
                       IF status \in {"succeeded", "canceled"} \/ r.robot_pose = None
                       THEN NoFailure
                       ELSE [id |-> MissionId(r.mission), robot_pose |-> r.robot_pose]]

(* A failure is remembered for the mission that was sent, not for the one  *)
(* that may have been selected since.                                      *)
OnResult(r, generation, status) ==
    IF ~is_current(r, generation) THEN r
    ELSE [r EXCEPT !.inflight = FALSE, !.inflight_mission_id = NoId,
                   !.cancel_requested = FALSE, !.goal_uuid = FALSE,
                   !.state = CASE status = "succeeded" -> "SUCCEEDED"
                               [] status = "canceled" -> "CANCELED"
                               [] OTHER -> "FAILED",
                   !.failed_dispatch =
                       IF status \in {"succeeded", "canceled"} THEN NoFailure
                       ELSE IF r.inflight_mission_id # NoId /\ r.robot_pose # None
                       THEN [id |-> r.inflight_mission_id, robot_pose |-> r.robot_pose]
                       ELSE @]

-----------------------------------------------------------------------------
(***************************************************************************)
(* The node: calls to Nav2 and what is left of them.                       *)
(***************************************************************************)

(* The goal is sent, or held while the server is not ready, or the call    *)
(* raises and counts as a rejection.                                       *)
PumpSend(r) ==
    LET command == r.pending_send
        taken == [r EXCEPT !.pending_send = NoSend]
    IN  IF command = NoSend THEN {r}
        ELSE IF ~is_current(r, command.generation) \/ r.state = "CANCELING" THEN {taken}
        ELSE IF r.goal_handle # 0 \/ r.send_future # NoSend THEN {r}
        ELSE {r, [taken EXCEPT !.send_future = command],
              OnGoalResponse(taken, command.generation, FALSE)}

(* Mutant of PumpCancel: the attempts are not counted against the limit. *)
PumpCancelForEver(r) ==
    IF r.goal_handle = 0 \/ r.cancel_future THEN {r}
    ELSE {[r EXCEPT !.cancel_attempts = @ + 1],
          [r EXCEPT !.cancel_attempts = @ + 1, !.cancel_future = TRUE]}

(* One more attempt, which may raise. *)
PumpCancel(r) ==
    IF r.goal_handle = 0 \/ r.cancel_future \/ r.cancel_attempts >= MaxCancelAttempts
    THEN {r}
    ELSE {[r EXCEPT !.cancel_attempts = @ + 1],
          [r EXCEPT !.cancel_attempts = @ + 1, !.cancel_future = TRUE]}

(* A canceled action that Nav2 never heard of is over. *)
ResolveUndeliveredCancel(r) ==
    IF /\ r.state = "CANCELING" /\ r.inflight
       /\ r.pending_send = NoSend /\ r.send_future = NoSend
       /\ r.goal_handle = 0 /\ ~r.cancel_future
    THEN OnResult(r, r.action_generation, "canceled")
    ELSE r

(* Mutant of AfterCommands: a cancel that Nav2 never hears of stays open. *)
AfterCommandsUnresolved(r) ==
    IF r.state = "CANCELING" THEN [r EXCEPT !.pending_send = NoSend] ELSE r

(* The end of _run_commands. *)
AfterCommands(r) ==
    IF r.state = "CANCELING"
    THEN ResolveUndeliveredCancel([r EXCEPT !.pending_send = NoSend])
    ELSE r

(* _run_commands for a reduction that began a cancel, or did not. *)
RunCancel(r, began) ==
    {AfterCommands(c) : c \in IF began /\ r.goal_uuid
                              THEN PumpCancel([r EXCEPT !.cancel_attempts = 0])
                              ELSE {r}}

RunSend(r) == {AfterCommands(s) : s \in PumpSend(r)}

(* The result is asked for, or the call raises and the tick asks again. *)
RequestResult(r) ==
    IF r.goal_handle # 0 /\ r.result_future = 0 /\ r.inflight
    THEN {r, [r EXCEPT !.result_future = r.action_generation]}
    ELSE {r}

ClearActionFutures(r) ==
    [r EXCEPT !.goal_handle = 0, !.send_future = NoSend, !.result_future = 0,
              !.cancel_future = FALSE, !.cancel_attempts = 0]

-----------------------------------------------------------------------------
(***************************************************************************)
(* Handlers.                                                               *)
(***************************************************************************)

OnModeState(key, ok) ==
    /\ runtime' \in RunCancel(ObserveRuntime(runtime, key, ok),
                              runtime.inflight /\ Revokes(runtime, key, ok))
    /\ UNCHANGED nav2

OnSelect(m) ==
    /\ runtime' \in RunCancel(Select(runtime, m),
                              runtime.inflight /\ SelectAccepted(runtime, m))
    /\ UNCHANGED nav2

OnDispatch ==
    /\ runtime' \in IF DispatchAccepted(runtime) THEN RunSend(Dispatch(runtime))
                    ELSE {AfterCommands(Dispatch(runtime))}
    /\ UNCHANGED nav2

OnCancel ==
    /\ runtime' \in RunCancel(Cancel(runtime), runtime.inflight)
    /\ UNCHANGED nav2

OnOdometry(posture) ==
    /\ runtime' = [runtime EXCEPT !.robot_pose = posture]
    /\ UNCHANGED nav2

(* The send future is done: Nav2 accepted the goal, or refused it, or the  *)
(* answer is lost and taken for a refusal.                                 *)
GoalResponse(accepted) ==
    LET generation == runtime.send_future.generation
        answered == OnGoalResponse([runtime EXCEPT !.send_future = NoSend],
                                   generation, accepted)
        held == IF accepted /\ is_current(answered, generation)
                THEN [answered EXCEPT !.goal_handle = generation] ELSE answered
        cancels == accepted /\ is_current(held, generation) /\ held.cancel_requested
    IN  /\ runtime.send_future # NoSend
        /\ accepted => nav2.generation = generation
        /\ runtime' \in IF accepted
                        THEN UNION {RequestResult(c) : c \in RunCancel(held, cancels)}
                        ELSE {held}
        /\ UNCHANGED nav2

(* A feedback message of any goal this process ever had. *)
Feedback(generation) ==
    /\ generation <= nav2.generation
    /\ runtime' = OnFeedback(runtime, generation)
    /\ UNCHANGED nav2

ResultCallback ==
    /\ runtime.result_future # 0
    /\ \/ /\ nav2.generation = runtime.goal_handle
          /\ nav2.status \in Terminal
          /\ runtime' = ClearActionFutures(
                            OnResult([runtime EXCEPT !.result_future = 0],
                                     runtime.result_future, nav2.status))
       \/ runtime' = [runtime EXCEPT !.result_future = 0]   \* the request failed
    /\ UNCHANGED nav2

(* Accepted, refused or failed: only the time of the next attempt differs. *)
CancelCallback ==
    /\ runtime.cancel_future
    /\ runtime' = [runtime EXCEPT !.cancel_future = FALSE]
    /\ UNCHANGED nav2

TickCancel(r) ==
    IF r.state = "CANCELING"
    THEN {ResolveUndeliveredCancel(c) : c \in {r} \cup PumpCancel(r)}
    ELSE {r}

MissionTick ==
    /\ runtime' \in UNION {RequestResult(c) :
                           c \in UNION {TickCancel(s) : s \in PumpSend(runtime)}}
    /\ UNCHANGED nav2

(* The AUTONOMY unit is started again: a new process and a new Nav2. *)
UnitRestart == runtime' = FreshRuntime /\ nav2' = NoAction

-----------------------------------------------------------------------------
(***************************************************************************)
(* Nav2.                                                                   *)
(***************************************************************************)

(* A new goal takes the place of the one before. *)
Nav2Accept ==
    /\ runtime.send_future # NoSend
    /\ nav2.generation # runtime.send_future.generation
    /\ nav2' = [generation |-> runtime.send_future.generation,
                mission |-> runtime.send_future.mission, status |-> "executing"]
    /\ UNCHANGED runtime

Nav2Cancel ==
    /\ runtime.cancel_future
    /\ nav2.status = "executing"
    /\ nav2' = [nav2 EXCEPT !.status = "canceling"]
    /\ UNCHANGED runtime

Nav2Finish(status) ==
    /\ nav2.status \in {"executing", "canceling"}
    /\ nav2' = [nav2 EXCEPT !.status = status]
    /\ UNCHANGED runtime

-----------------------------------------------------------------------------
(***************************************************************************)
(* The node under every request, mode and answer its environment may give  *)
(* it.  A stable AUTONOMY always has a map.                                *)
(***************************************************************************)
MissionNext ==
    \/ \E key \in Keys, ok \in BOOLEAN : (ok => key.map # None) /\ OnModeState(key, ok)
    \/ \E m \in Missions : OnSelect(m)
    \/ OnDispatch
    \/ OnCancel
    \/ \E posture \in Postures : OnOdometry(posture)
    \/ \E accepted \in BOOLEAN : GoalResponse(accepted)
    \/ \E generation \in Nat : Feedback(generation)
    \/ ResultCallback
    \/ CancelCallback
    \/ MissionTick
    \/ UnitRestart
    \/ Nav2Accept
    \/ Nav2Cancel
    \/ \E status \in Terminal : Nav2Finish(status)

MissionSpec == MissionInit /\ [][MissionNext]_missionVars

-----------------------------------------------------------------------------
(* An action that is reported as under way (DISPATCHING or ACTIVE, the     *)
(* only states in which output may open) is an action for the mission that *)
(* is bound now, in the epoch and on the map the runtime has observed, and *)
(* no cancel has been asked for: on_feedback, on_goal_response and a late  *)
(* select, cancel or mode change cannot leave an older one reported.       *)
ActiveIsCurrent ==
    runtime.state \in {"DISPATCHING", "ACTIVE"} =>
        /\ runtime.inflight /\ ~runtime.cancel_requested
        /\ runtime.autonomy_ok /\ runtime.mission_valid
        /\ runtime.inflight_mission_id = MissionId(runtime.mission)
        /\ runtime.mission.epoch = runtime.key.epoch
        /\ runtime.mission.map = runtime.key.map

(* ACTIVE is reported only when Nav2 has accepted this very attempt, and   *)
(* with the poses of the mission that is bound: feedback or an acceptance  *)
(* of an earlier attempt never counts.                                     *)
ActiveIsAccepted ==
    runtime.state = "ACTIVE" =>
        /\ nav2.generation = runtime.action_generation
        /\ nav2.mission = runtime.mission

(* The attempt in flight is held by exactly one of the send that waits,    *)
(* the send future and the goal handle; with none in flight nothing is     *)
(* held.  An attempt that nothing holds would never end, and dispatch      *)
(* would be refused for ever; one held twice would be sent twice.          *)
InflightIsCarried ==
    /\ runtime.inflight =>
          \/ /\ runtime.pending_send.generation = runtime.action_generation
             /\ runtime.send_future = NoSend /\ runtime.goal_handle = 0
          \/ /\ runtime.send_future.generation = runtime.action_generation
             /\ runtime.pending_send = NoSend /\ runtime.goal_handle = 0
          \/ /\ runtime.goal_handle = runtime.action_generation
             /\ runtime.pending_send = NoSend /\ runtime.send_future = NoSend
    /\ ~runtime.inflight => /\ runtime.pending_send = NoSend
                            /\ runtime.send_future = NoSend
                            /\ runtime.goal_handle = 0
    /\ runtime.result_future # 0 => runtime.result_future = runtime.goal_handle
    /\ runtime.cancel_future => runtime.goal_handle # 0

(* The redispatch guard only ever blocks a mission that Nav2 has really    *)
(* tried: the failure of a mission that was superseded while in flight is  *)
(* not held against the one selected since.                                *)
OnlyTriedMissionsBlocked ==
    runtime.mission_valid /\ runtime.failed_dispatch.id = MissionId(runtime.mission)
        => nav2.mission = runtime.mission

(* Once a cancel is asked for, that attempt is never reported as under way *)
(* again: neither a late acceptance nor feedback nor another request       *)
(* revives it.                                                             *)
CanceledStaysDown ==
    [][runtime.inflight /\ runtime.cancel_requested
         /\ runtime'.action_generation = runtime.action_generation
       => runtime'.state \notin {"IDLE", "DISPATCHING", "ACTIVE"}]_missionVars

=============================================================================
