------------------------ MODULE MissionRuntimeProofs ------------------------
(***************************************************************************)
(* Proofs about the mission runtime, for any maps, poses and postures, any *)
(* number of epochs, missions and attempts, and any answers of Nav2.       *)
(***************************************************************************)
EXTENDS MissionRuntime, TLAPS

Actions == [generation : Nat, mission : Missions \cup {NoMission},
            status : {"none", "executing", "canceling"} \cup Terminal]

(* The state tells whether an attempt is in flight and being cancelled. *)
StateAgrees(r) ==
    /\ r.inflight <=> r.state \in Underway
    /\ r.state = "CANCELING" <=> (r.inflight /\ r.cancel_requested)
    /\ r.inflight => r.action_generation > 0

(* A mission is bound only to the epoch and the map the runtime is in. *)
MissionBound(r) ==
    /\ r.mission_valid <=> r.mission # NoMission
    /\ r.autonomy_ok => r.key.map # None
    /\ r.mission_valid => /\ r.autonomy_ok
                          /\ r.mission.epoch = r.key.epoch
                          /\ r.mission.map = r.key.map
                          /\ r.mission.revision > 0
    /\ r.state \in {"DISPATCHING", "ACTIVE"} =>
          r.mission_valid /\ r.inflight_mission_id = MissionId(r.mission)

(* InflightIsCarried, of a record. *)
Carried(r) ==
    /\ r.inflight =>
          \/ /\ r.pending_send.generation = r.action_generation
             /\ r.send_future = NoSend /\ r.goal_handle = 0
          \/ /\ r.send_future.generation = r.action_generation
             /\ r.pending_send = NoSend /\ r.goal_handle = 0
          \/ /\ r.goal_handle = r.action_generation
             /\ r.pending_send = NoSend /\ r.send_future = NoSend
    /\ ~r.inflight => r.pending_send = NoSend /\ r.send_future = NoSend /\ r.goal_handle = 0
    /\ r.result_future # 0 => r.result_future = r.goal_handle
    /\ r.cancel_future => r.goal_handle # 0

(* What Nav2 can have heard of the attempt in flight. *)
Heard(r, n) ==
    /\ n.generation <= r.action_generation
    /\ r.pending_send # NoSend => n.generation < r.action_generation
    /\ r.goal_handle # 0 => n.generation = r.goal_handle
    /\ r.state = "ACTIVE" => n.generation = r.action_generation

(* As long as the mission sent is the one bound, they have the same poses, *)
(* wherever the attempt is held.                                           *)
Tied(r, n) ==
    r.inflight /\ r.mission_valid /\ r.inflight_mission_id = MissionId(r.mission) =>
        /\ r.pending_send # NoSend => r.pending_send.mission = r.mission
        /\ r.send_future # NoSend => r.send_future.mission = r.mission
        /\ n.generation = r.action_generation => n.mission = r.mission

(* No id is newer than the newest revision. *)
Numbered(r) ==
    /\ r.mission.revision <= r.max_revision
    /\ r.inflight_mission_id[2] <= r.max_revision
    /\ r.failed_dispatch.id[2] <= r.max_revision

(* OnlyTriedMissionsBlocked, and that a failure held against the bound     *)
(* mission is of the mission in flight too.                                *)
Blamed(r, n) ==
    r.mission_valid /\ r.failed_dispatch.id = MissionId(r.mission) =>
        /\ n.mission = r.mission
        /\ r.inflight => r.inflight_mission_id = MissionId(r.mission)

MissionGood(r, n) ==
    /\ StateAgrees(r)
    /\ MissionBound(r)
    /\ Carried(r)
    /\ Heard(r, n)
    /\ Tied(r, n)
    /\ Numbered(r)
    /\ Blamed(r, n)

MissionIInv == MissionTypeOK /\ MissionGood(runtime, nav2)

(* Between two calls of one handler a canceled attempt may be held by      *)
(* nothing: its send has been dropped and the cancel is not yet resolved.  *)
Dropped(r) ==
    /\ r.inflight /\ r.state = "CANCELING"
    /\ r.pending_send = NoSend /\ r.send_future = NoSend /\ r.goal_handle = 0
    /\ r.result_future = 0 /\ ~r.cancel_future

Loose(r, n) ==
    /\ StateAgrees(r)
    /\ MissionBound(r)
    /\ Carried(r) \/ Dropped(r)
    /\ Heard(r, n)
    /\ Tied(r, n)
    /\ Numbered(r)
    /\ Blamed(r, n)

-----------------------------------------------------------------------------
(* Asking for a cancel only changes the state. *)
LEMMA BeginCancelGood ==
    ASSUME NEW r \in Runtimes, NEW n \in Actions, MissionGood(r, n), r.inflight
    PROVE  BeginCancel(r) \in Runtimes /\ MissionGood(BeginCancel(r), n)
  <1>1. BeginCancel(r) \in Runtimes
    BY DEF BeginCancel, Runtimes, MissionStates
  <1>2. StateAgrees(BeginCancel(r)) /\ MissionBound(BeginCancel(r))
    BY DEF BeginCancel, Runtimes, MissionGood, StateAgrees, MissionBound, Underway
  <1>3. Carried(BeginCancel(r)) /\ Heard(BeginCancel(r), n) /\ Tied(BeginCancel(r), n)
    BY DEF BeginCancel, Runtimes, MissionGood, Carried, Heard, Tied
  <1>4. Numbered(BeginCancel(r)) /\ Blamed(BeginCancel(r), n)
    BY DEF BeginCancel, Runtimes, MissionGood, Numbered, Blamed
  <1> QED BY <1>1, <1>2, <1>3, <1>4 DEF MissionGood

(* A runtime without a mission is good, whatever it was bound to. *)
LEMMA ClearedGood ==
    ASSUME NEW r \in Runtimes, NEW n \in Actions, MissionGood(r, n),
           r.state \notin {"DISPATCHING", "ACTIVE"}
    PROVE  LET cleared == [r EXCEPT !.mission_valid = FALSE, !.mission = NoMission,
                                    !.failed_dispatch = NoFailure]
           IN  cleared \in Runtimes /\ MissionGood(cleared, n)
  <1> DEFINE cleared == [r EXCEPT !.mission_valid = FALSE, !.mission = NoMission,
                                  !.failed_dispatch = NoFailure]
  <1>0. NoFailure \in Failures
    BY DEF NoFailure, Failures, NoId, MissionIds
  <1>1. cleared \in Runtimes
    BY <1>0 DEF Runtimes
  <1>2. StateAgrees(cleared) /\ MissionBound(cleared)
    BY DEF Runtimes, MissionGood, StateAgrees, MissionBound
  <1>3. Carried(cleared) /\ Heard(cleared, n) /\ Tied(cleared, n)
    BY DEF Runtimes, MissionGood, Carried, Heard, Tied
  <1>4. Numbered(cleared) /\ Blamed(cleared, n)
    BY DEF Runtimes, MissionGood, Numbered, Blamed, NoMission, NoFailure, NoId
  <1> QED BY <1>1, <1>2, <1>3, <1>4 DEF MissionGood

(* Revoking the mission cancels what is in flight for it. *)
LEMMA InvalidateGood ==
    ASSUME NEW r \in Runtimes, NEW n \in Actions, MissionGood(r, n)
    PROVE  Invalidate(r) \in Runtimes /\ MissionGood(Invalidate(r), n)
  <1>1. CASE r.inflight
    <2> DEFINE b == BeginCancel(r)
    <2>1. b \in Runtimes /\ MissionGood(b, n)
      BY <1>1, BeginCancelGood
    <2>2. b.state = "CANCELING"
      BY DEF BeginCancel, Runtimes
    <2>3. Invalidate(r) = [b EXCEPT !.mission_valid = FALSE, !.mission = NoMission,
                                    !.failed_dispatch = NoFailure]
      BY <1>1 DEF Invalidate, BeginCancel, Runtimes
    <2> HIDE DEF b
    <2> QED BY <2>1, <2>2, <2>3, ClearedGood
  <1>2. CASE ~r.inflight
    <2>1. r.state \notin Underway
      BY <1>2 DEF MissionGood, StateAgrees
    <2>2. Invalidate(r) = [r EXCEPT !.mission_valid = FALSE, !.mission = NoMission,
                                    !.failed_dispatch = NoFailure]
      BY <1>2, <2>1 DEF Invalidate
    <2> QED BY <2>1, <2>2, ClearedGood DEF Underway
  <1> QED BY <1>1, <1>2

(* A revoked mission is gone. *)
LEMMA InvalidateRevokes ==
    ASSUME NEW r \in Runtimes
    PROVE  /\ Invalidate(r).mission_valid = FALSE
           /\ Invalidate(r).mission = NoMission
           /\ Invalidate(r).key = r.key
           /\ Invalidate(r).autonomy_ok = r.autonomy_ok
           /\ Invalidate(r).inflight = r.inflight
  BY DEF Invalidate, BeginCancel, Runtimes

(* A runtime observed with another epoch or map, or without AUTONOMY, has  *)
(* no mission left that could disagree with what is observed.              *)
LEMMA ObserveGood ==
    ASSUME NEW r \in Runtimes, NEW n \in Actions, MissionGood(r, n),
           NEW key \in Keys, NEW ok \in BOOLEAN, ok => key.map # None
    PROVE  /\ ObserveRuntime(r, key, ok) \in Runtimes
           /\ MissionGood(ObserveRuntime(r, key, ok), n)
  <1> DEFINE seen == IF Revokes(r, key, ok) THEN Invalidate(r) ELSE r
             o == [seen EXCEPT !.autonomy_ok = ok, !.key = IF ok THEN key ELSE @]
  <1>1. seen \in Runtimes /\ MissionGood(seen, n)
    BY InvalidateGood
  <1>2. seen.key = r.key /\ seen.autonomy_ok = r.autonomy_ok
    BY InvalidateRevokes
  <1>3. Revokes(r, key, ok) => ~seen.mission_valid /\ seen.mission = NoMission
    BY InvalidateRevokes
  <1>4. ~Revokes(r, key, ok) => ok \/ ~seen.autonomy_ok
    BY <1>2 DEF Revokes, Runtimes
  <1>5. ~Revokes(r, key, ok) /\ ok => seen.key = NoKey \/ seen.key = key
    BY <1>2 DEF Revokes
  <1> HIDE DEF seen
  <1>6. o \in Runtimes
    BY <1>1 DEF Runtimes
  <1>7. StateAgrees(o)
    BY <1>1 DEF Runtimes, MissionGood, StateAgrees
  <1>8. MissionBound(o)
    BY <1>1, <1>3, <1>4, <1>5 DEF Runtimes, MissionGood, MissionBound, NoKey, Keys
  <1>9. Carried(o) /\ Heard(o, n) /\ Tied(o, n)
    BY <1>1 DEF Runtimes, MissionGood, Carried, Heard, Tied
  <1>10. Numbered(o) /\ Blamed(o, n)
    BY <1>1 DEF Runtimes, MissionGood, Numbered, Blamed
  <1>11. ObserveRuntime(r, key, ok) = o
    BY DEF ObserveRuntime, seen
  <1> QED BY <1>6, <1>7, <1>8, <1>9, <1>10, <1>11 DEF MissionGood

(* A mission that is accepted has an id no attempt and no failure can      *)
(* have, because its revision is new.                                      *)
LEMMA SelectGood ==
    ASSUME NEW r \in Runtimes, NEW n \in Actions, MissionGood(r, n), NEW m \in Missions
    PROVE  Select(r, m) \in Runtimes /\ MissionGood(Select(r, m), n)
  <1>1. CASE ~SelectAccepted(r, m)
    BY <1>1 DEF Select
  <1>2. CASE SelectAccepted(r, m)
    <2> DEFINE freed == IF r.inflight THEN BeginCancel(r) ELSE [r EXCEPT !.state = "IDLE"]
               t == [freed EXCEPT !.max_revision = m.revision, !.mission = m,
                                  !.mission_valid = TRUE, !.failed_dispatch = NoFailure]
    <2>0. NoFailure \in Failures /\ m # NoMission /\ m.revision \in Nat /\ m.map # None
      BY MissionConstants DEF NoFailure, Failures, NoId, MissionIds, Missions, NoMission
    <2>1. freed \in Runtimes
      BY BeginCancelGood DEF Runtimes, MissionStates
    <2>2. StateAgrees(freed) /\ Carried(freed) /\ Heard(freed, n) /\ Numbered(freed)
      <3>1. CASE r.inflight
        BY <3>1, BeginCancelGood DEF MissionGood
      <3>2. CASE ~r.inflight
        BY <3>2 DEF Runtimes, MissionGood, StateAgrees, Carried, Heard, Numbered, Underway
      <3> QED BY <3>1, <3>2
    <2>3. /\ freed.autonomy_ok = r.autonomy_ok /\ freed.key = r.key
          /\ freed.max_revision = r.max_revision
          /\ freed.state \notin {"DISPATCHING", "ACTIVE"}
          /\ freed.inflight => freed.state = "CANCELING"
      BY DEF BeginCancel, Runtimes
    <2>4. r.key.map # None /\ m.epoch = r.key.epoch /\ m.map = r.key.map
             /\ m.revision > r.max_revision /\ r.autonomy_ok
      BY <1>2 DEF SelectAccepted, MissionGood, MissionBound
    <2> HIDE DEF freed
    <2>5. t \in Runtimes
      BY <2>0, <2>1 DEF Runtimes
    <2>6. StateAgrees(t) /\ Carried(t) /\ Heard(t, n)
      BY <2>1, <2>2 DEF Runtimes, StateAgrees, Carried, Heard
    <2>7. m.revision > 0
      BY <2>0, <2>4 DEF Runtimes
    <2>8. MissionBound(t)
      BY <2>0, <2>1, <2>3, <2>4, <2>7 DEF Runtimes, MissionBound
    <2>9. t.inflight_mission_id # MissionId(m)
      BY <2>1, <2>2, <2>3, <2>4 DEF Runtimes, Numbered, MissionId, MissionIds
    <2>10. Tied(t, n)
      BY <2>1, <2>9 DEF Runtimes, Tied
    <2>11. Numbered(t)
      BY <2>0, <2>1, <2>2, <2>3, <2>4, <2>7
         DEF Runtimes, Numbered, NoFailure, NoId, MissionIds
    <2>12. Blamed(t, n)
      BY <2>1, <2>7 DEF Runtimes, Blamed, NoFailure, NoId, MissionId
    <2>13. Select(r, m) = t
      BY <1>2 DEF Select, freed
    <2> QED BY <2>5, <2>6, <2>8, <2>10, <2>11, <2>12, <2>13 DEF MissionGood
  <1> QED BY <1>1, <1>2

(* A dispatch starts an attempt of the mission that is bound.  Its second  *)
(* refusal cannot happen: a bound mission is of the current epoch.         *)
LEMMA DispatchGood ==
    ASSUME NEW r \in Runtimes, NEW n \in Actions, MissionGood(r, n)
    PROVE  Dispatch(r) \in Runtimes /\ MissionGood(Dispatch(r), n)
  <1>1. ~DispatchSuperseded(r)
    BY DEF DispatchSuperseded, MissionGood, MissionBound
  <1>2. CASE ~DispatchAccepted(r)
    BY <1>1, <1>2 DEF Dispatch
  <1>3. CASE DispatchAccepted(r)
    <2> DEFINE g == r.action_generation + 1
               t == [r EXCEPT !.action_generation = g, !.inflight = TRUE,
                              !.inflight_mission_id = MissionId(r.mission),
                              !.cancel_requested = FALSE, !.goal_uuid = FALSE,
                              !.state = "DISPATCHING",
                              !.pending_send = [generation |-> g, mission |-> r.mission]]
    <2>1. Dispatch(r) = t
      BY <1>1, <1>3 DEF Dispatch, Runtimes
    <2>2. /\ g \in Nat /\ g > 0 /\ r.mission \in Missions
          /\ n.generation \in Nat /\ n.generation < g
      BY <1>3 DEF DispatchAccepted, Runtimes, Actions, MissionGood, Heard
    <2>3. MissionId(r.mission) \in MissionIds
      BY <2>2 DEF MissionId, MissionIds, Missions
    <2>4. [generation |-> g, mission |-> r.mission] \in Sends
      BY <2>2 DEF Sends
    <2>5. [generation |-> g, mission |-> r.mission] # NoSend
      BY <2>2 DEF NoSend
    <2>6. ~r.inflight /\ r.mission_valid
      BY <1>3 DEF DispatchAccepted
    <2>7. r.send_future = NoSend /\ r.goal_handle = 0 /\ r.result_future = 0 /\ ~r.cancel_future
      BY <2>6 DEF Runtimes, MissionGood, Carried
    <2> HIDE DEF g
    <2>8. t \in Runtimes
      BY <2>2, <2>3, <2>4 DEF Runtimes, MissionStates
    <2>9. StateAgrees(t) /\ MissionBound(t)
      BY <2>2, <2>6 DEF Runtimes, MissionGood, StateAgrees, MissionBound, Underway
    <2>10. Carried(t) /\ Heard(t, n)
      BY <2>2, <2>5, <2>7 DEF Runtimes, Carried, Heard
    <2>11. Tied(t, n)
      BY <2>2, <2>7 DEF Runtimes, Tied
    <2>12. MissionId(r.mission)[2] = r.mission.revision
      BY DEF MissionId
    <2>13. Numbered(t) /\ Blamed(t, n)
      BY <2>12 DEF Runtimes, MissionGood, Numbered, Blamed
    <2> QED BY <2>1, <2>8, <2>9, <2>10, <2>11, <2>13 DEF MissionGood
  <1> QED BY <1>2, <1>3

(* With nothing in flight there is nothing to cancel and nothing to reset. *)
LEMMA CancelGood ==
    ASSUME NEW r \in Runtimes, NEW n \in Actions, MissionGood(r, n)
    PROVE  Cancel(r) \in Runtimes /\ MissionGood(Cancel(r), n)
  <1>1. CASE r.inflight
    BY <1>1, BeginCancelGood DEF Cancel
  <1>2. CASE ~r.inflight
    BY <1>2 DEF Cancel, MissionGood, StateAgrees
  <1> QED BY <1>1, <1>2

(* Clearing the futures leaves a record of the same kind. *)
LEMMA ClearedFuturesType ==
    ASSUME NEW r \in Runtimes
    PROVE  ClearActionFutures(r) \in Runtimes
  <1>1. 0 \in 0 .. MaxCancelAttempts /\ 0 \in Nat /\ NoSend \in Sends
    BY MissionConstants DEF NoSend, Sends
  <1> QED BY <1>1 DEF Runtimes, ClearActionFutures

(* The end of an attempt whose futures are cleared in the same handler.  A *)
(* failure is charged to the mission sent, which Nav2 then had.            *)
LEMMA EndedGood ==
    ASSUME NEW r \in Runtimes, NEW n \in Actions, Loose(r, n), r.inflight,
           r.pending_send = NoSend, NEW status \in Terminal,
           status # "canceled" => n.generation = r.action_generation,
           NEW t,
           t = ClearActionFutures(OnResult([r EXCEPT !.result_future = 0],
                                           r.action_generation, status))
    PROVE  t \in Runtimes /\ MissionGood(t, n)
  <1> DEFINE failed == IF status \in {"succeeded", "canceled"} THEN NoFailure
                       ELSE IF r.inflight_mission_id # NoId /\ r.robot_pose # None
                       THEN [id |-> r.inflight_mission_id, robot_pose |-> r.robot_pose]
                       ELSE r.failed_dispatch
             final == CASE status = "succeeded" -> "SUCCEEDED"
                        [] status = "canceled" -> "CANCELED"
                        [] OTHER -> "FAILED"
             q == [r EXCEPT !.result_future = 0]
             o == [q EXCEPT !.inflight = FALSE, !.inflight_mission_id = NoId,
                            !.cancel_requested = FALSE, !.goal_uuid = FALSE,
                            !.state = final, !.failed_dispatch = failed]
  <1>1. q \in Runtimes /\ t = ClearActionFutures(o)
    <2>1. q \in Runtimes
      BY DEF Runtimes
    <2>2. is_current(q, r.action_generation)
      BY DEF is_current, Runtimes
    <2>3. /\ q.inflight_mission_id = r.inflight_mission_id /\ q.robot_pose = r.robot_pose
          /\ q.failed_dispatch = r.failed_dispatch
      BY DEF Runtimes
    <2> HIDE DEF q
    <2>4. OnResult(q, r.action_generation, status) = o
      BY <2>1, <2>2, <2>3 DEF OnResult, Runtimes
    <2> QED BY <2>1, <2>4 DEF q
  <1>2. final \in {"SUCCEEDED", "CANCELED", "FAILED"}
    BY DEF Terminal
  <1>3. failed \in Failures /\ NoId \in MissionIds /\ NoSend \in Sends
    BY DEF Runtimes, Failures, NoFailure, NoId, MissionIds, NoSend, Sends
  <1>4. failed.id[2] <= r.max_revision
    BY DEF Runtimes, NoFailure, NoId, Loose, Numbered, MissionIds
  <1>5. ASSUME r.mission_valid, failed.id = MissionId(r.mission)
        PROVE  n.mission = r.mission
    <2>1. r.mission \in Missions /\ r.mission.revision > 0
      BY <1>5 DEF Runtimes, Loose, MissionBound
    <2>2. failed # NoFailure
      BY <1>5, <2>1 DEF NoFailure, NoId, MissionId
    <2>3. CASE failed = r.failed_dispatch
      BY <1>5, <2>3 DEF Loose, Blamed
    <2>4. CASE /\ failed = [id |-> r.inflight_mission_id, robot_pose |-> r.robot_pose]
               /\ status = "aborted"
      <3>1. r.inflight_mission_id = MissionId(r.mission)
        BY <1>5, <2>4
      <3> QED BY <1>5, <2>4, <3>1 DEF Loose, Tied
    <2> QED BY <2>2, <2>3, <2>4 DEF Terminal
  <1> HIDE DEF failed, final
  <1>6. /\ o \in Runtimes
        /\ o.inflight = FALSE /\ o.inflight_mission_id = NoId
        /\ o.cancel_requested = FALSE /\ o.state = final /\ o.failed_dispatch = failed
    <2>1. final \in MissionStates
      BY <1>2 DEF MissionStates
    <2> HIDE DEF q
    <2>2. o \in Runtimes
      BY <1>1, <1>3, <2>1 DEF Runtimes
    <2>3. /\ o.inflight = FALSE /\ o.inflight_mission_id = NoId
          /\ o.cancel_requested = FALSE /\ o.state = final /\ o.failed_dispatch = failed
      BY <1>1 DEF Runtimes
    <2> QED BY <2>2, <2>3
  <1>7. /\ o.pending_send = NoSend /\ o.action_generation = r.action_generation
        /\ o.autonomy_ok = r.autonomy_ok /\ o.key = r.key /\ o.mission = r.mission
        /\ o.mission_valid = r.mission_valid /\ o.max_revision = r.max_revision
    <2>1. /\ q.pending_send = NoSend /\ q.action_generation = r.action_generation
          /\ q.autonomy_ok = r.autonomy_ok /\ q.key = r.key /\ q.mission = r.mission
          /\ q.mission_valid = r.mission_valid /\ q.max_revision = r.max_revision
      BY DEF Runtimes
    <2> HIDE DEF q
    <2> QED BY <1>1, <2>1 DEF Runtimes
  <1> HIDE DEF o
  <1>8. /\ t \in Runtimes
        /\ t.inflight = FALSE /\ t.inflight_mission_id = NoId
        /\ t.cancel_requested = FALSE /\ t.state = final /\ t.failed_dispatch = failed
        /\ t.goal_handle = 0 /\ t.send_future = NoSend /\ t.result_future = 0
        /\ t.cancel_future = FALSE /\ t.pending_send = NoSend
        /\ t.autonomy_ok = r.autonomy_ok /\ t.key = r.key /\ t.mission = r.mission
        /\ t.mission_valid = r.mission_valid /\ t.max_revision = r.max_revision
        /\ t.action_generation = r.action_generation
    <2>2. t \in Runtimes
      BY <1>1, <1>6, ClearedFuturesType
    <2> HIDE DEF q
    <2>3. /\ t.inflight = o.inflight /\ t.inflight_mission_id = o.inflight_mission_id
          /\ t.cancel_requested = o.cancel_requested /\ t.state = o.state
          /\ t.failed_dispatch = o.failed_dispatch /\ t.pending_send = o.pending_send
      BY <1>1, <1>6 DEF Runtimes, ClearActionFutures
    <2>4. /\ t.goal_handle = 0 /\ t.send_future = NoSend /\ t.result_future = 0
          /\ t.cancel_future = FALSE
      BY <1>1, <1>6 DEF Runtimes, ClearActionFutures
    <2>5. /\ t.autonomy_ok = o.autonomy_ok /\ t.key = o.key /\ t.mission = o.mission
          /\ t.mission_valid = o.mission_valid /\ t.max_revision = o.max_revision
          /\ t.action_generation = o.action_generation
      BY <1>1, <1>6 DEF Runtimes, ClearActionFutures
    <2> QED BY <1>6, <1>7, <2>2, <2>3, <2>4, <2>5
  <1> HIDE DEF q
  <1>9. StateAgrees(t) /\ MissionBound(t)
    BY <1>2, <1>8 DEF Loose, StateAgrees, MissionBound, Underway
  <1>10. Carried(t) /\ Heard(t, n) /\ Tied(t, n)
    BY <1>2, <1>8 DEF Loose, Carried, Heard, Tied
  <1>11. Numbered(t)
    BY <1>4, <1>8 DEF Runtimes, Loose, Numbered, NoId
  <1>12. Blamed(t, n)
    BY <1>5, <1>8 DEF Blamed
  <1> QED BY <1>8, <1>9, <1>10, <1>11, <1>12 DEF MissionGood

(* Every good runtime is a loose one, and a loose one that holds its       *)
(* attempt is good.                                                        *)
LEMMA LooseIsGood ==
    ASSUME NEW r, NEW n
    PROVE  /\ MissionGood(r, n) => Loose(r, n)
           /\ Loose(r, n) /\ ~Dropped(r) => MissionGood(r, n)
  BY DEF MissionGood, Loose

(* A cancel that Nav2 never hears of ends the attempt. *)
LEMMA ResolveGood ==
    ASSUME NEW r \in Runtimes, NEW n \in Actions, Loose(r, n)
    PROVE  /\ ResolveUndeliveredCancel(r) \in Runtimes
           /\ MissionGood(ResolveUndeliveredCancel(r), n)
  <1> DEFINE t == [r EXCEPT !.inflight = FALSE, !.inflight_mission_id = NoId,
                            !.cancel_requested = FALSE, !.goal_uuid = FALSE,
                            !.state = "CANCELED", !.failed_dispatch = NoFailure]
             undelivered == /\ r.state = "CANCELING" /\ r.inflight
                            /\ r.pending_send = NoSend /\ r.send_future = NoSend
                            /\ r.goal_handle = 0 /\ ~r.cancel_future
  <1>1. CASE ~undelivered
    <2>1. ~Dropped(r)
      BY <1>1 DEF Dropped
    <2> QED BY <1>1, <2>1, LooseIsGood DEF ResolveUndeliveredCancel
  <1>2. CASE undelivered
    <2>1. ResolveUndeliveredCancel(r) = t
      <3>1. is_current(r, r.action_generation)
        BY <1>2 DEF is_current
      <3>2. OnResult(r, r.action_generation, "canceled") = t
        BY <3>1 DEF OnResult
      <3> QED BY <1>2, <3>2 DEF ResolveUndeliveredCancel
    <2>2. NoFailure \in Failures /\ NoId \in MissionIds
      BY DEF NoFailure, Failures, NoId, MissionIds
    <2>3. t \in Runtimes
      BY <2>2 DEF Runtimes, MissionStates
    <2>4. r.result_future = 0
      BY <1>2 DEF Loose, Carried, Dropped
    <2>5. StateAgrees(t) /\ MissionBound(t)
      BY DEF Runtimes, Loose, StateAgrees, MissionBound, Underway
    <2>6. Carried(t) /\ Heard(t, n) /\ Tied(t, n)
      BY <1>2, <2>4 DEF Runtimes, Loose, Carried, Heard, Tied
    <2>7. Numbered(t)
      BY DEF Runtimes, Loose, Numbered, NoFailure, NoId
    <2>8. Blamed(t, n)
      <3>1. r.mission_valid => MissionId(r.mission) # NoId
        BY DEF Loose, MissionBound, MissionId, NoId
      <3> QED BY <3>1 DEF Runtimes, Blamed, NoFailure
    <2> QED BY <2>1, <2>3, <2>5, <2>6, <2>7, <2>8 DEF MissionGood
  <1> QED BY <1>1, <1>2

(* A send that waits may be dropped from a canceled attempt. *)
LEMMA DropLoose ==
    ASSUME NEW r \in Runtimes, NEW n \in Actions, Loose(r, n), r.state = "CANCELING"
    PROVE  LET t == [r EXCEPT !.pending_send = NoSend]
           IN  t \in Runtimes /\ Loose(t, n)
  <1> DEFINE t == [r EXCEPT !.pending_send = NoSend]
  <1>1. t \in Runtimes
    <2>1. NoSend \in Sends
      BY DEF NoSend, Sends
    <2> QED BY <2>1 DEF Runtimes
  <1>2. r.inflight /\ (r.cancel_future => r.goal_handle # 0)
    BY DEF Loose, StateAgrees, Carried, Dropped
  <1>3. Carried(t) \/ Dropped(t)
    <2>1. CASE Dropped(r) \/ r.pending_send = NoSend
      BY <1>2, <2>1 DEF Runtimes, Loose, Carried, Dropped
    <2>2. CASE ~Dropped(r) /\ r.pending_send # NoSend
      <3>1. r.send_future = NoSend /\ r.goal_handle = 0 /\ r.result_future = 0
        BY <1>2, <2>2 DEF Loose, Carried
      <3> QED BY <1>2, <3>1 DEF Runtimes, Dropped
    <2> QED BY <2>1, <2>2
  <1>4. StateAgrees(t) /\ MissionBound(t) /\ Heard(t, n)
    BY DEF Runtimes, Loose, StateAgrees, MissionBound, Heard
  <1>5. Tied(t, n) /\ Numbered(t) /\ Blamed(t, n)
    BY DEF Runtimes, Loose, Tied, Numbered, Blamed
  <1> QED BY <1>1, <1>3, <1>4, <1>5 DEF Loose

(* The end of _run_commands leaves every attempt held by something. *)
LEMMA AfterCommandsGood ==
    ASSUME NEW r \in Runtimes, NEW n \in Actions, Loose(r, n)
    PROVE  AfterCommands(r) \in Runtimes /\ MissionGood(AfterCommands(r), n)
  <1>1. CASE r.state = "CANCELING"
    BY <1>1, DropLoose, ResolveGood DEF AfterCommands
  <1>2. CASE r.state # "CANCELING"
    BY <1>2, LooseIsGood DEF AfterCommands, Dropped
  <1> QED BY <1>1, <1>2

(* Asking Nav2 to cancel changes no more than the books of the cancel. *)
LEMMA PumpCancelLoose ==
    ASSUME NEW r \in Runtimes, NEW n \in Actions, Loose(r, n), NEW t \in PumpCancel(r)
    PROVE  t \in Runtimes /\ Loose(t, n)
  <1> DEFINE one == [r EXCEPT !.cancel_attempts = @ + 1]
             two == [r EXCEPT !.cancel_attempts = @ + 1, !.cancel_future = TRUE]
  <1>1. CASE t = r
    BY <1>1
  <1>2. CASE r.goal_handle # 0 /\ r.cancel_attempts < MaxCancelAttempts /\ t \in {one, two}
    <2>1. r.cancel_attempts + 1 \in 0 .. MaxCancelAttempts
      BY <1>2, MissionConstants DEF Runtimes
    <2>2. t \in Runtimes
      BY <1>2, <2>1 DEF Runtimes
    <2>3. StateAgrees(t) /\ MissionBound(t)
      BY <1>2 DEF Runtimes, Loose, StateAgrees, MissionBound
    <2>4. Carried(t)
      BY <1>2 DEF Runtimes, Loose, Carried, Dropped
    <2>5. Heard(t, n) /\ Tied(t, n)
      BY <1>2 DEF Runtimes, Loose, Heard, Tied
    <2>6. Numbered(t) /\ Blamed(t, n)
      BY <1>2 DEF Runtimes, Loose, Numbered, Blamed
    <2> QED BY <2>2, <2>3, <2>4, <2>5, <2>6 DEF Loose
  <1>3. r.cancel_attempts \in Int /\ MaxCancelAttempts \in Int
    BY MissionConstants DEF Runtimes
  <1> QED BY <1>1, <1>2, <1>3 DEF PumpCancel

(* An attempt that Nav2 refuses, or whose call raises, is over: nothing    *)
(* holds it any more and nothing is charged to its mission.                *)
LEMMA RefusedGood ==
    ASSUME NEW r \in Runtimes, NEW n \in Actions, MissionGood(r, n), r.inflight,
           r.goal_handle = 0
    PROVE  LET t == [r EXCEPT !.pending_send = NoSend, !.send_future = NoSend,
                              !.inflight = FALSE, !.inflight_mission_id = NoId,
                              !.state = "FAILED"]
           IN  t \in Runtimes /\ MissionGood(t, n)
  <1> DEFINE t == [r EXCEPT !.pending_send = NoSend, !.send_future = NoSend,
                            !.inflight = FALSE, !.inflight_mission_id = NoId,
                            !.state = "FAILED"]
  <1>1. NoSend \in Sends /\ NoId \in MissionIds
    BY DEF NoSend, Sends, NoId, MissionIds
  <1>2. t \in Runtimes
    BY <1>1 DEF Runtimes, MissionStates
  <1>3. StateAgrees(t) /\ MissionBound(t)
    BY DEF Runtimes, MissionGood, StateAgrees, MissionBound, Underway
  <1>4. Carried(t) /\ Heard(t, n) /\ Tied(t, n)
    BY DEF Runtimes, MissionGood, Carried, Heard, Tied
  <1>5. Numbered(t) /\ Blamed(t, n)
    BY DEF Runtimes, MissionGood, Numbered, Blamed, NoId
  <1> QED BY <1>2, <1>3, <1>4, <1>5 DEF MissionGood

(* The send that waits is sent, kept, dropped or refused, never twice. *)
LEMMA PumpSendLoose ==
    ASSUME NEW r \in Runtimes, NEW n \in Actions, MissionGood(r, n), NEW t \in PumpSend(r)
    PROVE  t \in Runtimes /\ Loose(t, n)
  <1> DEFINE command == r.pending_send
             taken == [r EXCEPT !.pending_send = NoSend]
             sent == [taken EXCEPT !.send_future = command]
             refused == OnGoalResponse(taken, command.generation, FALSE)
  <1>1. CASE t = r
    BY <1>1, LooseIsGood
  <1>2. CASE r.pending_send # NoSend /\ t # r
    <2>1. /\ r.inflight /\ r.pending_send.generation = r.action_generation
          /\ r.send_future = NoSend /\ r.goal_handle = 0
          /\ r.result_future = 0 /\ ~r.cancel_future
      BY <1>2 DEF Runtimes, MissionGood, Carried
    <2>2. is_current(r, command.generation)
      BY <2>1 DEF is_current
    <2>3. CASE r.state = "CANCELING"
      <3>1. t = taken
        BY <1>2, <2>2, <2>3 DEF PumpSend
      <3> QED BY <2>3, <3>1, LooseIsGood, DropLoose
    <2>4. CASE r.state # "CANCELING" /\ t = sent
      <3>0. NoSend \in Sends
        BY DEF NoSend, Sends
      <3>1. sent \in Runtimes
        BY <3>0 DEF Runtimes
      <3>2. StateAgrees(sent) /\ MissionBound(sent)
        BY DEF Runtimes, MissionGood, StateAgrees, MissionBound
      <3>3. Carried(sent)
        BY <2>1 DEF Runtimes, Carried
      <3>4. Heard(sent, n)
        BY DEF Runtimes, MissionGood, Heard
      <3>5. Tied(sent, n)
        BY DEF Runtimes, MissionGood, Tied
      <3>6. Numbered(sent) /\ Blamed(sent, n)
        BY DEF Runtimes, MissionGood, Numbered, Blamed
      <3> QED BY <2>4, <3>1, <3>2, <3>3, <3>4, <3>5, <3>6 DEF Loose
    <2>5. CASE r.state # "CANCELING" /\ t = refused
      <3>1. is_current(taken, command.generation)
        BY <2>2 DEF is_current, Runtimes
      <3>2. refused = [taken EXCEPT !.inflight = FALSE, !.inflight_mission_id = NoId,
                                    !.state = "FAILED"]
        BY <3>1 DEF OnGoalResponse
      <3>3. refused = [r EXCEPT !.pending_send = NoSend, !.send_future = NoSend,
                                !.inflight = FALSE, !.inflight_mission_id = NoId,
                                !.state = "FAILED"]
        BY <2>1, <3>2 DEF Runtimes
      <3> QED BY <2>1, <2>5, <3>3, RefusedGood, LooseIsGood
    <2> QED BY <1>2, <2>1, <2>2, <2>3, <2>4, <2>5 DEF PumpSend
  <1> QED BY <1>1, <1>2 DEF PumpSend

(* _run_commands for a reduction that cancels, and for a dispatch. *)
LEMMA RunCommandsGood ==
    ASSUME NEW r \in Runtimes, NEW n \in Actions, MissionGood(r, n)
    PROVE  /\ \A began \in BOOLEAN : \A t \in RunCancel(r, began) :
                 t \in Runtimes /\ MissionGood(t, n)
           /\ \A t \in RunSend(r) : t \in Runtimes /\ MissionGood(t, n)
  <1>1. ASSUME NEW began \in BOOLEAN, NEW t \in RunCancel(r, began)
        PROVE  t \in Runtimes /\ MissionGood(t, n)
    <2> DEFINE z == [r EXCEPT !.cancel_attempts = 0]
    <2>1. z \in Runtimes /\ Loose(z, n)
      <3>1. 0 \in 0 .. MaxCancelAttempts
        BY MissionConstants
      <3>2. z \in Runtimes
        BY <3>1 DEF Runtimes
      <3>3. StateAgrees(z) /\ MissionBound(z) /\ Carried(z)
        BY DEF Runtimes, MissionGood, StateAgrees, MissionBound, Carried
      <3>4. Heard(z, n) /\ Tied(z, n) /\ Numbered(z) /\ Blamed(z, n)
        BY DEF Runtimes, MissionGood, Heard, Tied, Numbered, Blamed
      <3> QED BY <3>2, <3>3, <3>4 DEF Loose
    <2>2. PICK c \in (IF began /\ r.goal_uuid THEN PumpCancel(z) ELSE {r}) :
               t = AfterCommands(c)
      BY <1>1 DEF RunCancel
    <2> HIDE DEF z
    <2>3. c \in Runtimes /\ Loose(c, n)
      BY <2>1, <2>2, PumpCancelLoose, LooseIsGood
    <2> QED BY <2>2, <2>3, AfterCommandsGood
  <1>2. ASSUME NEW t \in RunSend(r)
        PROVE  t \in Runtimes /\ MissionGood(t, n)
    <2>1. PICK c \in PumpSend(r) : t = AfterCommands(c)
      BY <1>2 DEF RunSend
    <2> QED BY <2>1, PumpSendLoose, AfterCommandsGood
  <1> QED BY <1>1, <1>2

(* The result asked for is that of the goal that is held. *)
LEMMA RequestResultGood ==
    ASSUME NEW r \in Runtimes, NEW n \in Actions, MissionGood(r, n),
           NEW t \in RequestResult(r)
    PROVE  t \in Runtimes /\ MissionGood(t, n)
  <1> DEFINE asked == [r EXCEPT !.result_future = r.action_generation]
  <1>1. CASE t = r
    BY <1>1
  <1>2. CASE r.goal_handle # 0 /\ r.inflight /\ t = asked
    <2>1. r.goal_handle = r.action_generation
      BY <1>2 DEF Runtimes, MissionGood, Carried
    <2>2. asked \in Runtimes
      BY DEF Runtimes
    <2>3. StateAgrees(asked) /\ MissionBound(asked) /\ Heard(asked, n)
      BY DEF Runtimes, MissionGood, StateAgrees, MissionBound, Heard
    <2>4. Carried(asked)
      BY <2>1 DEF Runtimes, MissionGood, Carried
    <2>5. Tied(asked, n) /\ Numbered(asked) /\ Blamed(asked, n)
      BY DEF Runtimes, MissionGood, Tied, Numbered, Blamed
    <2> QED BY <1>2, <2>2, <2>3, <2>4, <2>5 DEF MissionGood
  <1> QED BY <1>1, <1>2 DEF RequestResult

(* A request that has come back leaves the goal held. *)
LEMMA AnsweredGood ==
    ASSUME NEW r \in Runtimes, NEW n \in Actions, MissionGood(r, n)
    PROVE  /\ [r EXCEPT !.result_future = 0] \in Runtimes
           /\ MissionGood([r EXCEPT !.result_future = 0], n)
           /\ [r EXCEPT !.cancel_future = FALSE] \in Runtimes
           /\ MissionGood([r EXCEPT !.cancel_future = FALSE], n)
  <1> DEFINE a == [r EXCEPT !.result_future = 0]
             c == [r EXCEPT !.cancel_future = FALSE]
  <1>1. a \in Runtimes /\ c \in Runtimes
    BY DEF Runtimes
  <1>2. StateAgrees(a) /\ StateAgrees(c) /\ MissionBound(a) /\ MissionBound(c)
    BY DEF Runtimes, MissionGood, StateAgrees, MissionBound
  <1>3. Carried(a) /\ Carried(c) /\ Heard(a, n) /\ Heard(c, n)
    BY DEF Runtimes, MissionGood, Carried, Heard
  <1>4. Tied(a, n) /\ Tied(c, n)
    BY DEF Runtimes, MissionGood, Tied
  <1>5. Numbered(a) /\ Numbered(c) /\ Blamed(a, n) /\ Blamed(c, n)
    BY DEF Runtimes, MissionGood, Numbered, Blamed
  <1> QED BY <1>1, <1>2, <1>3, <1>4, <1>5 DEF MissionGood

(* Feedback of the attempt in flight finds it accepted. *)
LEMMA FeedbackGood ==
    ASSUME NEW r \in Runtimes, NEW n \in Actions, MissionGood(r, n),
           NEW generation \in Nat, generation <= n.generation
    PROVE  OnFeedback(r, generation) \in Runtimes /\ MissionGood(OnFeedback(r, generation), n)
  <1> DEFINE t == [r EXCEPT !.state = "ACTIVE"]
  <1>1. CASE ~(is_current(r, generation) /\ r.state = "DISPATCHING")
    BY <1>1 DEF OnFeedback
  <1>2. CASE is_current(r, generation) /\ r.state = "DISPATCHING"
    <2>1. n.generation = r.action_generation
      BY <1>2 DEF is_current, MissionGood, Heard, Runtimes, Actions
    <2>2. t \in Runtimes
      BY DEF Runtimes, MissionStates
    <2>3. StateAgrees(t) /\ MissionBound(t)
      BY <1>2 DEF Runtimes, MissionGood, StateAgrees, MissionBound, Underway
    <2>4. Carried(t) /\ Heard(t, n) /\ Tied(t, n)
      BY <2>1 DEF Runtimes, MissionGood, Carried, Heard, Tied
    <2>5. Numbered(t) /\ Blamed(t, n)
      BY DEF Runtimes, MissionGood, Numbered, Blamed
    <2> QED BY <1>2, <2>2, <2>3, <2>4, <2>5 DEF OnFeedback, MissionGood
  <1> QED BY <1>1, <1>2

(* An accepted goal is held by its handle, and is ACTIVE unless a cancel   *)
(* was asked for before the answer came.                                   *)
LEMMA AcceptedGood ==
    ASSUME NEW r \in Runtimes, NEW n \in Actions, MissionGood(r, n),
           r.send_future # NoSend, n.generation = r.action_generation
    PROVE  LET t == [r EXCEPT !.send_future = NoSend, !.goal_uuid = TRUE,
                              !.state = IF r.cancel_requested THEN "CANCELING" ELSE "ACTIVE",
                              !.goal_handle = r.action_generation]
           IN  t \in Runtimes /\ MissionGood(t, n)
  <1> DEFINE t == [r EXCEPT !.send_future = NoSend, !.goal_uuid = TRUE,
                            !.state = IF r.cancel_requested THEN "CANCELING" ELSE "ACTIVE",
                            !.goal_handle = r.action_generation]
  <1>1. /\ r.inflight /\ r.pending_send = NoSend /\ r.goal_handle = 0
        /\ r.result_future = 0 /\ ~r.cancel_future
    BY DEF Runtimes, MissionGood, Carried
  <1>2. NoSend \in Sends
    BY DEF NoSend, Sends
  <1>3. t \in Runtimes
    BY <1>2 DEF Runtimes, MissionStates
  <1>4. /\ r.action_generation > 0
        /\ ~r.cancel_requested => r.state \in {"DISPATCHING", "ACTIVE"}
    BY <1>1 DEF Runtimes, MissionGood, StateAgrees, Underway
  <1>5. StateAgrees(t)
    BY <1>1, <1>4 DEF Runtimes, StateAgrees, Underway
  <1>6. MissionBound(t)
    BY <1>4 DEF Runtimes, MissionGood, MissionBound
  <1>7. Carried(t) /\ Heard(t, n)
    BY <1>1, <1>4 DEF Runtimes, Carried, Heard
  <1>8. Tied(t, n)
    BY <1>1 DEF Runtimes, MissionGood, Tied
  <1>9. Numbered(t) /\ Blamed(t, n)
    BY DEF Runtimes, MissionGood, Numbered, Blamed
  <1> QED BY <1>3, <1>5, <1>6, <1>7, <1>8, <1>9 DEF MissionGood

(* The tick goes on with a cancel, or ends one that Nav2 never hears of.   *)
LEMMA TickCancelGood ==
    ASSUME NEW r \in Runtimes, NEW n \in Actions, Loose(r, n), NEW t \in TickCancel(r)
    PROVE  t \in Runtimes /\ MissionGood(t, n)
  <1>1. CASE r.state = "CANCELING"
    <2>1. PICK c \in {r} \cup PumpCancel(r) : t = ResolveUndeliveredCancel(c)
      BY <1>1 DEF TickCancel
    <2>2. c \in Runtimes /\ Loose(c, n)
      BY <2>1, PumpCancelLoose
    <2> QED BY <2>1, <2>2, ResolveGood
  <1>2. CASE r.state # "CANCELING"
    BY <1>2, LooseIsGood DEF TickCancel, Dropped
  <1> QED BY <1>1, <1>2

-----------------------------------------------------------------------------
(* Nav2 tells nothing of an attempt before it has accepted it, and then    *)
(* what it was sent.                                                       *)
LEMMA Nav2Good ==
    ASSUME MissionIInv, Nav2Accept \/ Nav2Cancel \/ \E status \in Terminal : Nav2Finish(status)
    PROVE  MissionIInv'
  <1>1. runtime' = runtime /\ runtime \in Runtimes /\ nav2 \in Actions
    BY DEF Nav2Accept, Nav2Cancel, Nav2Finish, MissionIInv, MissionTypeOK, Actions
  <1>2. CASE Nav2Accept
    <2> DEFINE r == runtime
    <2>1. /\ r.send_future # NoSend /\ r.send_future \in Sends
          /\ nav2'.generation = r.send_future.generation
          /\ nav2'.mission = r.send_future.mission
      BY <1>1, <1>2 DEF Nav2Accept, Runtimes
    <2>2. nav2' \in Actions
      BY <1>2, <2>1 DEF Nav2Accept, Actions, Sends
    <2>3. /\ r.inflight /\ r.pending_send = NoSend /\ r.goal_handle = 0
          /\ nav2'.generation = r.action_generation /\ r.action_generation \in Nat
      BY <1>1, <2>1 DEF MissionIInv, MissionGood, Carried, Runtimes
    <2>4. Heard(r, nav2')
      BY <2>3 DEF Heard
    <2>5. Tied(r, nav2') /\ Blamed(r, nav2')
      BY <2>1, <2>3 DEF MissionIInv, MissionGood, Tied, Blamed
    <2> QED BY <1>1, <2>2, <2>4, <2>5 DEF MissionIInv, MissionGood, MissionTypeOK, Actions
  <1>3. CASE Nav2Cancel \/ \E status \in Terminal : Nav2Finish(status)
    <2>1. /\ nav2'.generation = nav2.generation /\ nav2'.mission = nav2.mission
          /\ nav2' \in Actions
      BY <1>1, <1>3 DEF Nav2Cancel, Nav2Finish, Actions
    <2>2. Heard(runtime, nav2') /\ Tied(runtime, nav2') /\ Blamed(runtime, nav2')
      BY <2>1 DEF MissionIInv, MissionGood, Heard, Tied, Blamed
    <2> QED BY <1>1, <2>1, <2>2 DEF MissionIInv, MissionGood, MissionTypeOK, Actions
  <1> QED BY <1>2, <1>3

(* A process that has just started, beside a Nav2 that has. *)
LEMMA FreshGood == FreshRuntime \in Runtimes /\ NoAction \in Actions
                      /\ MissionGood(FreshRuntime, NoAction)
  <1>1. /\ NoKey \in Keys /\ NoFailure \in Failures /\ NoSend \in Sends
        /\ NoId \in MissionIds /\ 0 \in 0 .. MaxCancelAttempts
    BY MissionConstants DEF NoKey, Keys, NoFailure, Failures, NoSend, Sends, NoId, MissionIds
  <1>2. FreshRuntime \in Runtimes
    BY <1>1 DEF FreshRuntime, Runtimes, MissionStates
  <1>3. NoAction \in Actions
    BY DEF NoAction, Actions
  <1>4. StateAgrees(FreshRuntime) /\ MissionBound(FreshRuntime) /\ Carried(FreshRuntime)
    BY DEF FreshRuntime, StateAgrees, MissionBound, Carried, Underway
  <1>5. Heard(FreshRuntime, NoAction) /\ Tied(FreshRuntime, NoAction)
           /\ Blamed(FreshRuntime, NoAction)
    BY DEF FreshRuntime, NoAction, Heard, Tied, Blamed
  <1>6. Numbered(FreshRuntime)
    BY DEF FreshRuntime, Numbered, NoMission, NoId, NoFailure
  <1> QED BY <1>2, <1>3, <1>4, <1>5, <1>6 DEF MissionGood

(* The answer to a goal, with the cancel and the request for a result that *)
(* follow it in the same callback.                                         *)
LEMMA GoalResponseGood ==
    ASSUME MissionIInv, NEW accepted \in BOOLEAN, GoalResponse(accepted)
    PROVE  MissionIInv'
  <1> DEFINE r == runtime
             g == r.send_future.generation
             s == [r EXCEPT !.send_future = NoSend]
             answered == OnGoalResponse(s, g, accepted)
             held == IF accepted /\ is_current(answered, g)
                     THEN [answered EXCEPT !.goal_handle = g] ELSE answered
             cancels == accepted /\ is_current(held, g) /\ held.cancel_requested
  <1>1. r \in Runtimes /\ nav2 \in Actions /\ MissionGood(r, nav2)
    BY DEF MissionIInv, MissionTypeOK, Actions
  <1>2. r.send_future # NoSend /\ nav2' = nav2
    BY DEF GoalResponse
  <1>3. r.inflight /\ g = r.action_generation /\ r.goal_handle = 0 /\ r.pending_send = NoSend
    BY <1>1, <1>2 DEF Runtimes, MissionGood, Carried
  <1>4. is_current(s, g)
    BY <1>1, <1>3 DEF is_current, Runtimes
  <1>5. held \in Runtimes /\ MissionGood(held, nav2)
    <2>1. CASE accepted
      <3>1. nav2.generation = r.action_generation
        BY <1>3, <2>1 DEF GoalResponse
      <3>2. s.cancel_requested = r.cancel_requested
        BY <1>1 DEF Runtimes
      <3>3. answered = [s EXCEPT !.goal_uuid = TRUE,
                                 !.state = IF r.cancel_requested THEN "CANCELING"
                                           ELSE "ACTIVE"]
        BY <1>4, <2>1, <3>2 DEF OnGoalResponse
      <3>4. is_current(answered, g)
        BY <1>1, <1>3, <3>3 DEF is_current, Runtimes
      <3>5. held = [r EXCEPT !.send_future = NoSend, !.goal_uuid = TRUE,
                             !.state = IF r.cancel_requested THEN "CANCELING" ELSE "ACTIVE",
                             !.goal_handle = r.action_generation]
        BY <1>1, <1>3, <2>1, <3>3, <3>4 DEF Runtimes
      <3> QED BY <1>1, <1>2, <3>1, <3>5, AcceptedGood
    <2>2. CASE ~accepted
      <3>1. held = [s EXCEPT !.inflight = FALSE, !.inflight_mission_id = NoId,
                             !.state = "FAILED"]
        BY <1>4, <2>2 DEF OnGoalResponse
      <3> HIDE DEF held
      <3>2. held = [r EXCEPT !.pending_send = NoSend, !.send_future = NoSend,
                             !.inflight = FALSE, !.inflight_mission_id = NoId,
                             !.state = "FAILED"]
        BY <1>1, <1>3, <3>1 DEF Runtimes
      <3> QED BY <1>1, <1>3, <3>2, RefusedGood
    <2> QED BY <2>1, <2>2
  <1>6. cancels \in BOOLEAN
    BY DEF is_current
  <1>7. runtime' \in IF accepted THEN UNION {RequestResult(c) : c \in RunCancel(held, cancels)}
                     ELSE {held}
    BY DEF GoalResponse
  <1> HIDE DEF held, cancels
  <1>8. CASE accepted
    <2>1. PICK c \in RunCancel(held, cancels) : runtime' \in RequestResult(c)
      BY <1>7, <1>8
    <2>2. c \in Runtimes /\ MissionGood(c, nav2)
      BY <1>1, <1>5, <1>6, <2>1, RunCommandsGood
    <2>3. runtime' \in Runtimes /\ MissionGood(runtime', nav2)
      BY <1>1, <2>1, <2>2, RequestResultGood
    <2> QED BY <1>1, <1>2, <2>3 DEF MissionIInv, MissionTypeOK, Actions
  <1>9. CASE ~accepted
    BY <1>1, <1>2, <1>5, <1>7, <1>9 DEF MissionIInv, MissionTypeOK, Actions
  <1> QED BY <1>8, <1>9

(* Every step of the node and of Nav2 keeps the invariant. *)
LEMMA MissionStep == MissionIInv /\ [MissionNext]_missionVars => MissionIInv'
  <1> SUFFICES ASSUME MissionIInv, [MissionNext]_missionVars
               PROVE  MissionIInv'
    OBVIOUS
  <1> DEFINE r == runtime
             n == nav2
  <1>0. r \in Runtimes /\ n \in Actions /\ MissionGood(r, n)
    BY DEF MissionIInv, MissionTypeOK, Actions
  <1>a. ASSUME nav2' = nav2, runtime' \in Runtimes, MissionGood(runtime', n)
        PROVE  MissionIInv'
    BY <1>0, <1>a DEF MissionIInv, MissionTypeOK, Actions
  <1>1. ASSUME NEW key \in Keys, NEW ok \in BOOLEAN, ok => key.map # None,
               OnModeState(key, ok)
        PROVE  MissionIInv'
    <2> DEFINE began == r.inflight /\ Revokes(r, key, ok)
    <2>1. began \in BOOLEAN
      BY <1>0 DEF Runtimes, Revokes
    <2>2. nav2' = nav2 /\ runtime' \in RunCancel(ObserveRuntime(r, key, ok), began)
      BY <1>1 DEF OnModeState
    <2> HIDE DEF began
    <2>3. runtime' \in Runtimes /\ MissionGood(runtime', n)
      BY <1>0, <1>1, <2>1, <2>2, ObserveGood, RunCommandsGood
    <2> QED BY <1>a, <2>2, <2>3
  <1>2. ASSUME NEW m \in Missions, OnSelect(m)
        PROVE  MissionIInv'
    <2> DEFINE began == r.inflight /\ SelectAccepted(r, m)
    <2>1. began \in BOOLEAN
      BY <1>0 DEF Runtimes, SelectAccepted
    <2>2. nav2' = nav2 /\ runtime' \in RunCancel(Select(r, m), began)
      BY <1>2 DEF OnSelect
    <2> HIDE DEF began
    <2>3. runtime' \in Runtimes /\ MissionGood(runtime', n)
      BY <1>0, <2>1, <2>2, SelectGood, RunCommandsGood
    <2> QED BY <1>a, <2>2, <2>3
  <1>3. CASE OnDispatch
    <2>1. Dispatch(r) \in Runtimes /\ MissionGood(Dispatch(r), n)
      BY <1>0, DispatchGood
    <2>2. nav2' = nav2 /\ runtime' \in RunSend(Dispatch(r)) \cup {AfterCommands(Dispatch(r))}
      BY <1>3 DEF OnDispatch
    <2>3. runtime' \in Runtimes /\ MissionGood(runtime', n)
      BY <1>0, <2>1, <2>2, RunCommandsGood, AfterCommandsGood, LooseIsGood
    <2> QED BY <1>a, <2>2, <2>3
  <1>4. CASE OnCancel
    <2>1. nav2' = nav2 /\ runtime' \in RunCancel(Cancel(r), r.inflight) /\ r.inflight \in BOOLEAN
      BY <1>0, <1>4 DEF OnCancel, Runtimes
    <2>2. runtime' \in Runtimes /\ MissionGood(runtime', n)
      BY <1>0, <2>1, CancelGood, RunCommandsGood
    <2> QED BY <1>a, <2>1, <2>2
  <1>5. ASSUME NEW posture \in Postures, OnOdometry(posture)
        PROVE  MissionIInv'
    <2> DEFINE t == [r EXCEPT !.robot_pose = posture]
    <2>1. nav2' = nav2 /\ runtime' = t
      BY <1>5 DEF OnOdometry
    <2>2. t \in Runtimes
      BY <1>0, <1>5 DEF Runtimes
    <2>3. StateAgrees(t) /\ MissionBound(t) /\ Carried(t)
      BY <1>0 DEF Runtimes, MissionGood, StateAgrees, MissionBound, Carried
    <2>4. Heard(t, n) /\ Tied(t, n) /\ Numbered(t) /\ Blamed(t, n)
      BY <1>0 DEF Runtimes, MissionGood, Heard, Tied, Numbered, Blamed
    <2>5. MissionGood(t, n)
      BY <2>3, <2>4 DEF MissionGood
    <2> HIDE DEF t
    <2> QED BY <1>a, <2>1, <2>2, <2>5
  <1>6. ASSUME NEW accepted \in BOOLEAN, GoalResponse(accepted)
        PROVE  MissionIInv'
    BY <1>6, GoalResponseGood
  <1>7. ASSUME NEW generation \in Nat, Feedback(generation)
        PROVE  MissionIInv'
    <2>1. nav2' = nav2 /\ runtime' = OnFeedback(r, generation) /\ generation <= n.generation
      BY <1>7 DEF Feedback
    <2> QED BY <1>0, <1>a, <2>1, FeedbackGood
  <1>8. CASE ResultCallback
    <2>1. nav2' = nav2 /\ r.result_future # 0
      BY <1>8 DEF ResultCallback
    <2>2. CASE runtime' = [runtime EXCEPT !.result_future = 0]
      BY <1>0, <1>a, <2>1, <2>2, AnsweredGood
    <2>3. CASE /\ n.generation = r.goal_handle /\ n.status \in Terminal
               /\ runtime' = ClearActionFutures(OnResult([r EXCEPT !.result_future = 0],
                                                          r.result_future, n.status))
      <3>1. /\ r.inflight /\ r.result_future = r.action_generation
            /\ n.generation = r.action_generation /\ r.pending_send = NoSend
        BY <1>0, <2>1, <2>3 DEF Runtimes, MissionGood, Carried
      <3>2. runtime' = ClearActionFutures(OnResult([r EXCEPT !.result_future = 0],
                                                   r.action_generation, n.status))
        BY <2>3, <3>1
      <3>3. runtime' \in Runtimes /\ MissionGood(runtime', n)
        BY <1>0, <2>3, <3>1, <3>2, EndedGood, LooseIsGood
      <3> QED BY <1>a, <2>1, <3>3
    <2> QED BY <1>8, <2>2, <2>3 DEF ResultCallback
  <1>9. CASE CancelCallback
    <2>1. nav2' = nav2 /\ runtime' = [r EXCEPT !.cancel_future = FALSE]
      BY <1>9 DEF CancelCallback
    <2> QED BY <1>0, <1>a, <2>1, AnsweredGood
  <1>10. CASE MissionTick
    <2>1. PICK c \in UNION {TickCancel(s) : s \in PumpSend(r)} : runtime' \in RequestResult(c)
      BY <1>10 DEF MissionTick
    <2>2. PICK s \in PumpSend(r) : c \in TickCancel(s)
      BY <2>1
    <2>3. c \in Runtimes /\ MissionGood(c, n)
      BY <1>0, <2>2, PumpSendLoose, TickCancelGood
    <2>4. runtime' \in Runtimes /\ MissionGood(runtime', n) /\ nav2' = nav2
      BY <1>0, <1>10, <2>1, <2>3, RequestResultGood DEF MissionTick
    <2> QED BY <1>a, <2>4
  <1>11. CASE UnitRestart
    BY <1>11, FreshGood DEF UnitRestart, MissionIInv, MissionTypeOK, Actions
  <1>12. CASE Nav2Accept \/ Nav2Cancel \/ \E status \in Terminal : Nav2Finish(status)
    BY <1>12, Nav2Good
  <1>13. CASE UNCHANGED missionVars
    BY <1>0, <1>a, <1>13 DEF missionVars
  <1> QED
    BY <1>1, <1>2, <1>3, <1>4, <1>5, <1>6, <1>7, <1>8, <1>9, <1>10, <1>11, <1>12, <1>13
       DEF MissionNext

(* The inductive invariant holds in every behaviour of the mission         *)
(* runtime: in particular every attempt in flight is held by one carrier.  *)
THEOREM MissionIInvHolds == MissionSpec => []MissionIInv
  <1>1. MissionInit => MissionIInv
    BY FreshGood DEF MissionInit, MissionIInv, MissionTypeOK, Actions
  <1> QED BY <1>1, MissionStep, PTL DEF MissionSpec

(* MissionTypeOK: every field of the node keeps its type, and the cancel   *)
(* attempts their limit.                                                   *)
THEOREM MissionTyped == MissionSpec => []MissionTypeOK
  BY MissionIInvHolds, PTL DEF MissionIInv

(* ActiveIsCurrent, whatever the order of selects, cancels, mode changes   *)
(* and answers of Nav2.                                                    *)
THEOREM ActionsAreCurrent == MissionSpec => []ActiveIsCurrent
  <1>1. MissionIInv => ActiveIsCurrent
    BY DEF MissionIInv, MissionGood, StateAgrees, MissionBound, ActiveIsCurrent, Underway
  <1> QED BY <1>1, MissionIInvHolds, PTL

(* ActiveIsAccepted: the feedback and the answers of an earlier attempt    *)
(* never count for the present one.                                        *)
THEOREM ActionsAreAccepted == MissionSpec => []ActiveIsAccepted
  <1>1. MissionIInv => ActiveIsAccepted
    BY DEF MissionIInv, MissionGood, StateAgrees, MissionBound, Heard, Tied,
           ActiveIsAccepted, Underway
  <1> QED BY <1>1, MissionIInvHolds, PTL

(* InflightIsCarried: no attempt is lost by the node, and none sent twice. *)
THEOREM AttemptsAreCarried == MissionSpec => []InflightIsCarried
  <1>1. MissionIInv => InflightIsCarried
    BY DEF MissionIInv, MissionGood, Carried, InflightIsCarried
  <1> QED BY <1>1, MissionIInvHolds, PTL

(* OnlyTriedMissionsBlocked: a failure is charged to the mission sent.     *)
THEOREM BlameIsFair == MissionSpec => []OnlyTriedMissionsBlocked
  <1>1. MissionIInv => OnlyTriedMissionsBlocked
    BY DEF MissionIInv, MissionGood, Blamed, OnlyTriedMissionsBlocked
  <1> QED BY <1>1, MissionIInvHolds, PTL

-----------------------------------------------------------------------------
(* A runtime that reports its attempt as being canceled or as over. *)
Down(r) == r \in Runtimes /\ r.state \in {"CANCELING", "SUCCEEDED", "FAILED", "CANCELED"}

(* No call of the node to Nav2 brings an attempt up. *)
LEMMA CallsKeepDown ==
    ASSUME NEW r, Down(r)
    PROVE  /\ Down(ResolveUndeliveredCancel(r)) /\ Down(AfterCommands(r))
           /\ \A t \in PumpCancel(r) : Down(t)
           /\ \A t \in PumpSend(r) : Down(t)
           /\ \A t \in RequestResult(r) : Down(t)
           /\ \A began \in BOOLEAN : \A t \in RunCancel(r, began) : Down(t)
  <1> DEFINE quiet(q) == [q EXCEPT !.pending_send = NoSend]
  <1>0. /\ NoSend \in Sends /\ NoId \in MissionIds /\ 0 \in 0 .. MaxCancelAttempts
        /\ NoFailure \in Failures
    BY MissionConstants DEF NoSend, Sends, NoId, MissionIds, NoFailure, Failures
  <1>1. ASSUME NEW q, Down(q)
        PROVE  Down(ResolveUndeliveredCancel(q))
    <2> DEFINE t == [q EXCEPT !.inflight = FALSE, !.inflight_mission_id = NoId,
                              !.cancel_requested = FALSE, !.goal_uuid = FALSE,
                              !.state = "CANCELED", !.failed_dispatch = NoFailure]
    <2>1. OnResult(q, q.action_generation, "canceled") \in {q, t}
      BY DEF OnResult
    <2>2. ResolveUndeliveredCancel(q) \in {q, t}
      BY <2>1 DEF ResolveUndeliveredCancel
    <2>3. t \in Runtimes
      BY <1>0, <1>1 DEF Runtimes, MissionStates, Down
    <2>4. t.state = "CANCELED"
      BY <1>1 DEF Runtimes, Down
    <2> HIDE DEF t
    <2> QED BY <1>1, <2>2, <2>3, <2>4 DEF Down
  <1>2. ASSUME NEW q, Down(q)
        PROVE  Down(AfterCommands(q))
    <2>1. Down(quiet(q))
      BY <1>0, <1>2 DEF Runtimes, Down
    <2>2. AfterCommands(q) \in {q, ResolveUndeliveredCancel(quiet(q))}
      BY DEF AfterCommands
    <2> QED BY <1>1, <1>2, <2>1, <2>2
  <1>3. ASSUME NEW q, Down(q), NEW t \in PumpCancel(q)
        PROVE  Down(t)
    <2>1. CASE t = q
      BY <1>3, <2>1
    <2>2. CASE t # q
      <3>0. q.cancel_attempts \in 0 .. MaxCancelAttempts
        BY <1>3 DEF Runtimes, Down
      <3>1. /\ q.cancel_attempts < MaxCancelAttempts
            /\ t \in {[q EXCEPT !.cancel_attempts = @ + 1],
                      [q EXCEPT !.cancel_attempts = @ + 1, !.cancel_future = TRUE]}
        BY <1>3, <2>2, <3>0, MissionConstants DEF PumpCancel
      <3>2. q.cancel_attempts + 1 \in 0 .. MaxCancelAttempts
        BY <3>0, <3>1, MissionConstants
      <3> QED BY <1>3, <3>1, <3>2 DEF Runtimes, Down
    <2> QED BY <2>1, <2>2
  <1>4. ASSUME NEW t \in PumpSend(r)
        PROVE  Down(t)
    <2>0. Down(quiet(r)) /\ r.pending_send \in Sends
      BY <1>0 DEF Runtimes, Down
    <2> HIDE DEF quiet
    <2>1. CASE t = r
      BY <2>1
    <2>2. CASE t = quiet(r)
      BY <2>0, <2>2
    <2>3. CASE t = [quiet(r) EXCEPT !.send_future = r.pending_send]
      BY <2>0, <2>3 DEF Runtimes, Down
    <2>4. CASE t = OnGoalResponse(quiet(r), r.pending_send.generation, FALSE)
      <3>1. t \in {quiet(r), [quiet(r) EXCEPT !.inflight = FALSE, !.inflight_mission_id = NoId,
                                             !.state = "FAILED"]}
        BY <2>4 DEF OnGoalResponse
      <3> QED BY <1>0, <2>0, <3>1 DEF Runtimes, Down, MissionStates
    <2> QED BY <1>4, <2>1, <2>2, <2>3, <2>4 DEF PumpSend, quiet
  <1>5. ASSUME NEW t \in RequestResult(r)
        PROVE  Down(t)
    BY <1>5 DEF RequestResult, Runtimes, Down
  <1>6. ASSUME NEW began \in BOOLEAN, NEW t \in RunCancel(r, began)
        PROVE  Down(t)
    <2> DEFINE z == [r EXCEPT !.cancel_attempts = 0]
    <2>1. Down(z)
      BY <1>0 DEF Runtimes, Down
    <2>2. PICK c \in PumpCancel(z) \cup {r} : t = AfterCommands(c)
      BY <1>6 DEF RunCancel
    <2> HIDE DEF z
    <2> QED BY <1>2, <1>3, <2>1, <2>2
  <1> QED BY <1>1, <1>2, <1>3, <1>4, <1>5, <1>6

(* An attempt that is being canceled stays down in every step. *)
LEMMA CanceledStep ==
    ASSUME MissionIInv, [MissionNext]_missionVars,
           runtime.inflight, runtime.cancel_requested,
           runtime'.action_generation = runtime.action_generation
    PROVE  Down(runtime')
  <1> DEFINE r == runtime
  <1>a. runtime' \in Runtimes
    BY MissionStep DEF MissionIInv, MissionTypeOK
  <1>0. /\ r \in Runtimes /\ r.state = "CANCELING" /\ Down(r)
        /\ r.inflight = TRUE /\ r.action_generation > 0 /\ MissionGood(r, nav2)
    BY DEF MissionIInv, MissionTypeOK, MissionGood, StateAgrees, Down, Runtimes
  <1>1. ASSUME NEW q, Down(q), NEW began \in BOOLEAN, runtime' \in RunCancel(q, began)
        PROVE  Down(runtime')
    BY <1>1, CallsKeepDown
  <1>2. ASSUME NEW key \in Keys, NEW ok \in BOOLEAN, ok => key.map # None,
               OnModeState(key, ok)
        PROVE  Down(runtime')
    <2> DEFINE began == r.inflight /\ Revokes(r, key, ok)
               o == ObserveRuntime(r, key, ok)
    <2>1. began \in BOOLEAN
      BY <1>0 DEF Runtimes, Revokes
    <2>2. o \in Runtimes
      BY <1>0, <1>2, ObserveGood DEF MissionIInv, MissionTypeOK, Actions
    <2>3. Down(o)
      BY <1>0, <2>2 DEF ObserveRuntime, Invalidate, BeginCancel, Runtimes, Down
    <2>4. runtime' \in RunCancel(o, began)
      BY <1>2 DEF OnModeState
    <2> HIDE DEF began, o
    <2> QED BY <1>1, <2>1, <2>2, <2>3, <2>4
  <1>3. ASSUME NEW m \in Missions, OnSelect(m)
        PROVE  Down(runtime')
    <2> DEFINE began == r.inflight /\ SelectAccepted(r, m)
               o == Select(r, m)
    <2>1. began \in BOOLEAN
      BY <1>0 DEF Runtimes, SelectAccepted
    <2>2. o \in Runtimes
      BY <1>0, <1>3, SelectGood DEF MissionIInv, MissionTypeOK, Actions
    <2>3. Down(o)
      BY <1>0, <2>2 DEF Select, BeginCancel, Runtimes, Down
    <2>4. runtime' \in RunCancel(o, began)
      BY <1>3 DEF OnSelect
    <2> HIDE DEF began, o
    <2> QED BY <1>1, <2>1, <2>2, <2>3, <2>4
  <1>4. CASE OnDispatch
    <2>1. ~DispatchAccepted(r) /\ Dispatch(r) = r
      BY <1>0 DEF DispatchAccepted, DispatchSuperseded, Dispatch
    <2>2. runtime' = AfterCommands(r)
      BY <1>4, <2>1 DEF OnDispatch
    <2> QED BY <1>0, <2>2, CallsKeepDown
  <1>5. CASE OnCancel
    <2>1. Down(Cancel(r))
      BY <1>0 DEF Cancel, BeginCancel, Runtimes, Down
    <2>2. runtime' \in RunCancel(Cancel(r), r.inflight) /\ r.inflight \in BOOLEAN
      BY <1>0, <1>5 DEF OnCancel
    <2> QED BY <1>1, <2>1, <2>2
  <1>6. ASSUME NEW posture \in Postures, OnOdometry(posture)
        PROVE  Down(runtime')
    BY <1>a, <1>0, <1>6 DEF OnOdometry, Runtimes, Down
  <1>7. ASSUME NEW accepted \in BOOLEAN, GoalResponse(accepted)
        PROVE  Down(runtime')
    <2> DEFINE g == r.send_future.generation
               s == [r EXCEPT !.send_future = NoSend]
               answered == OnGoalResponse(s, g, accepted)
               held == IF accepted /\ is_current(answered, g)
                       THEN [answered EXCEPT !.goal_handle = g] ELSE answered
               cancels == accepted /\ is_current(held, g) /\ held.cancel_requested
    <2>1. Down(s) /\ s.cancel_requested = TRUE /\ g \in Nat
      <3>1. NoSend \in Sends /\ r.send_future \in Sends
        BY <1>0 DEF Runtimes, NoSend, Sends
      <3>2. g \in Nat
        BY <3>1 DEF Sends
      <3> QED BY <1>0, <3>1, <3>2 DEF Runtimes, Down
    <2>2. NoId \in MissionIds
      BY DEF NoId, MissionIds
    <2> HIDE DEF s
    <2>3. Down(answered)
      <3>1. answered \in {s, [s EXCEPT !.inflight = FALSE, !.inflight_mission_id = NoId,
                                       !.state = "FAILED"],
                             [s EXCEPT !.goal_uuid = TRUE, !.state = "CANCELING"]}
        BY <2>1 DEF OnGoalResponse
      <3>2. Down([s EXCEPT !.inflight = FALSE, !.inflight_mission_id = NoId,
                           !.state = "FAILED"])
        BY <2>1, <2>2 DEF Runtimes, Down, MissionStates
      <3>3. Down([s EXCEPT !.goal_uuid = TRUE, !.state = "CANCELING"])
        BY <2>1 DEF Runtimes, Down, MissionStates
      <3> HIDE DEF answered
      <3> QED BY <2>1, <3>1, <3>2, <3>3
    <2> HIDE DEF answered
    <2>4. Down(held)
      BY <2>1, <2>3 DEF Runtimes, Down
    <2>5. cancels \in BOOLEAN
      BY DEF is_current
    <2>6. runtime' \in IF accepted THEN UNION {RequestResult(c) : c \in RunCancel(held, cancels)}
                       ELSE {held}
      BY <1>7 DEF GoalResponse, s, answered
    <2> HIDE DEF held, cancels
    <2>7. CASE ~accepted
      BY <2>4, <2>6, <2>7
    <2>8. CASE accepted
      <3>1. PICK c \in RunCancel(held, cancels) : runtime' \in RequestResult(c)
        BY <2>6, <2>8
      <3>2. Down(c)
        BY <2>4, <2>5, <3>1, CallsKeepDown
      <3> QED BY <3>1, <3>2, CallsKeepDown
    <2> QED BY <2>7, <2>8
  <1>8. ASSUME NEW generation \in Nat, Feedback(generation)
        PROVE  Down(runtime')
    BY <1>0, <1>8 DEF Feedback, OnFeedback
  <1>9. CASE ResultCallback
    <2> DEFINE s == [r EXCEPT !.result_future = 0]
               o == OnResult(s, r.result_future, nav2.status)
    <2>1. Down(s)
      BY <1>0 DEF Runtimes, Down
    <2>2. runtime' \in {s, ClearActionFutures(o)}
      BY <1>9 DEF ResultCallback
    <2> HIDE DEF s
    <2>3. o = s \/ o.state \in {"SUCCEEDED", "CANCELED", "FAILED"}
      BY <2>1 DEF OnResult, Runtimes, Down
    <2>4. ClearActionFutures(o).state = o.state
      BY <2>1 DEF OnResult, ClearActionFutures, Runtimes, Down
    <2> QED BY <1>a, <2>1, <2>2, <2>3, <2>4 DEF Down
  <1>10. CASE CancelCallback
    BY <1>a, <1>0, <1>10 DEF CancelCallback, Runtimes, Down
  <1>11. CASE MissionTick
    <2>1. PICK c \in UNION {TickCancel(s) : s \in PumpSend(r)} : runtime' \in RequestResult(c)
      BY <1>11 DEF MissionTick
    <2>2. PICK s \in PumpSend(r) : c \in TickCancel(s)
      BY <2>1
    <2>3. Down(s)
      BY <1>0, <2>2, CallsKeepDown
    <2>4. Down(c)
      BY <2>2, <2>3, CallsKeepDown DEF TickCancel
    <2> QED BY <2>1, <2>4, CallsKeepDown
  <1>12. CASE UnitRestart
    BY <1>0, <1>12 DEF UnitRestart, FreshRuntime
  <1>13. CASE Nav2Accept \/ Nav2Cancel \/ \E status \in Terminal : Nav2Finish(status)
    BY <1>0, <1>13 DEF Nav2Accept, Nav2Cancel, Nav2Finish
  <1>14. CASE UNCHANGED missionVars
    BY <1>0, <1>14 DEF missionVars
  <1> QED
    BY <1>2, <1>3, <1>4, <1>5, <1>6, <1>7, <1>8, <1>9, <1>10, <1>11, <1>12, <1>13, <1>14
       DEF MissionNext

(* CanceledStaysDown: a cancel is never undone by what arrives after it.   *)
THEOREM CancelsAreFinal == MissionSpec => CanceledStaysDown
  <1>1. MissionIInv /\ [MissionNext]_missionVars
           => [runtime.inflight /\ runtime.cancel_requested
                 /\ runtime'.action_generation = runtime.action_generation
               => runtime'.state \notin {"IDLE", "DISPATCHING", "ACTIVE"}]_missionVars
    BY CanceledStep DEF Down
  <1> QED BY <1>1, MissionIInvHolds, PTL DEF MissionSpec, CanceledStaysDown

=============================================================================
