----------------------- MODULE NavigationIntentProofs -----------------------
(***************************************************************************)
(* The mission runtime inside its composition with the authority, the mode *)
(* supervisor and the topics is the mission runtime of MissionSpec: what   *)
(* is proved of that specification holds of the composition, for any       *)
(* bounds.  What the first authority process selected is what moves the    *)
(* car once every message has arrived.                                     *)
(***************************************************************************)
EXTENDS NavigationIntent, MissionRuntimeProofs, SequenceTheorems

(* The parts of NavigationTypeOK, and that a stable AUTONOMY has a map. *)
ModeTyped ==
    /\ mode_state \in [ epoch : Nat, map : Maps \cup {None}, stable : BOOLEAN,
                        started : BOOLEAN ]
    /\ mode_state.stable => mode_state.map # None

AuthTyped ==
    auth \in [ process : Nat, runtime_epoch : Nat, map : Maps \cup {None},
               ready : BOOLEAN, mission_revision : Nat,
               nav_last_goal_key : Goals \cup {NoGoal},
               nav_last_dispatch_active : BOOLEAN, nav_motion_ok : BOOLEAN ]

TopicsTyped ==
    /\ requests \in Seq(Requests)
    /\ states \in Seq(MissionStates)
    /\ published \in MissionStates

NavigationIInv == MissionIInv /\ ModeTyped /\ AuthTyped /\ TopicsTyped

-----------------------------------------------------------------------------
(* The requests of _sync_navigation are well formed: a SELECT names the    *)
(* process that drew it, a revision and the epoch the authority is in.     *)
LEMMA SyncTyped ==
    ASSUME NEW a \in [ process : Nat, runtime_epoch : Nat, map : Maps \cup {None},
                       ready : BOOLEAN, mission_revision : Nat,
                       nav_last_goal_key : Goals \cup {NoGoal},
                       nav_last_dispatch_active : BOOLEAN, nav_motion_ok : BOOLEAN ],
           NEW goal \in Goals \cup {NoGoal}, NEW active \in BOOLEAN,
           TopicsTyped, SyncNavigation(a, goal, active)
    PROVE  AuthTyped' /\ requests' \in Seq(Requests)
  <1>1. AuthTyped'
    <2> DEFINE revision == IF goal \notin {NoGoal, a.nav_last_goal_key}
                           THEN a.mission_revision + 1 ELSE a.mission_revision
    <2>1. revision \in Nat
      OBVIOUS
    <2>2. auth' = [a EXCEPT !.mission_revision = revision, !.nav_last_goal_key = goal,
                            !.nav_last_dispatch_active = active]
      BY DEF SyncNavigation
    <2> HIDE DEF revision
    <2> QED BY <2>1, <2>2 DEF AuthTyped
  <1>2. ASSUME NEW operation \in {"DISPATCH", "CANCEL"}
        PROVE  Plain(operation) \in Seq(Requests)
    BY <1>2 DEF Plain, Requests
  <1>3. GoalRequests(a, goal) \in Seq(Requests)
    <2>1. CASE goal \in {NoGoal, a.nav_last_goal_key}
      BY <1>2, <2>1 DEF GoalRequests
    <2>2. CASE goal \in Goals
      <3> DEFINE m == [by |-> a.process, revision |-> a.mission_revision + 1,
                       epoch |-> a.runtime_epoch, map |-> goal.map, pose |-> goal.pose]
      <3>1. m \in Missions
        BY <2>2 DEF Missions, Goals
      <3>2. [operation |-> "SELECT", mission |-> m] \in Requests
        BY <3>1 DEF Requests
      <3>3. GoalRequests(a, goal) \in {<<>>, Plain("CANCEL"),
                                       <<[operation |-> "SELECT", mission |-> m]>>}
        BY DEF GoalRequests
      <3>4. <<[operation |-> "SELECT", mission |-> m]>> \in Seq(Requests)
        BY <3>2
      <3>5. Plain("CANCEL") \in Seq(Requests) /\ <<>> \in Seq(Requests)
        BY <1>2
      <3> QED BY <3>3, <3>4, <3>5
    <2> QED BY <2>1, <2>2
  <1>4. GrantRequests(a, active) \in Seq(Requests)
    BY <1>2 DEF GrantRequests
  <1>5. requests \in Seq(Requests)
    BY DEF TopicsTyped
  <1>6. requests \o GoalRequests(a, goal) \in Seq(Requests)
    BY <1>3, <1>5
  <1>7. requests' \in Seq(Requests)
    BY <1>4, <1>6 DEF SyncNavigation
  <1> QED BY <1>1, <1>7

(* A published state is one of the runtime's. *)
LEMMA SendTyped ==
    ASSUME TopicsTyped, NEW s \in MissionStates, Send(s)
    PROVE  states' \in Seq(MissionStates) /\ published' \in MissionStates
  <1>1. <<s>> \in Seq(MissionStates) /\ Append(states, s) \in Seq(MissionStates)
    BY DEF TopicsTyped
  <1> QED BY <1>1 DEF Send

(* The same of a handler that publishes what it leaves. *)
LEMMA PublishTyped ==
    ASSUME TopicsTyped, MissionIInv', PublishState
    PROVE  states' \in Seq(MissionStates) /\ published' \in MissionStates
  <1>1. runtime'.state \in MissionStates
    BY DEF MissionIInv, MissionTypeOK, Runtimes
  <1>2. CASE UNCHANGED <<states, published>>
    BY <1>2 DEF TopicsTyped
  <1>3. CASE Send(runtime'.state)
    BY <1>1, <1>3, SendTyped
  <1> QED BY <1>2, <1>3 DEF PublishState

(* Every step of the composition is a step of the mission runtime or       *)
(* leaves it alone.                                                        *)
LEMMA MissionOfNavigation ==
    ASSUME NavigationIInv, [NavigationNext]_navVars
    PROVE  [MissionNext]_missionVars
  <1>1. CASE OnRequest
    <2> DEFINE q == Head(requests)
    <2>1. q \in Requests
      BY <1>1 DEF OnRequest, NavigationIInv, TopicsTyped
    <2>2. CASE q.operation = "SELECT"
      <3>1. q.mission \in Missions
        BY <2>1, <2>2 DEF Requests
      <3> QED BY <1>1, <2>2, <3>1 DEF OnRequest, MissionNext
    <2>3. CASE q.operation = "DISPATCH"
      BY <1>1, <2>3 DEF OnRequest, MissionNext
    <2>4. CASE q.operation = "CANCEL"
      BY <1>1, <2>4 DEF OnRequest, MissionNext
    <2> QED BY <2>1, <2>2, <2>3, <2>4 DEF Requests
  <1>2. CASE ModeStateReceived
    <2> DEFINE key == [epoch |-> mode_state.epoch, map |-> mode_state.map]
    <2>1. /\ key \in Keys /\ mode_state.stable \in BOOLEAN
          /\ mode_state.stable => key.map # None
      BY DEF NavigationIInv, ModeTyped, Keys
    <2>2. OnModeState(key, mode_state.stable)
      BY <1>2 DEF ModeStateReceived
    <2> HIDE DEF key
    <2> QED BY <2>1, <2>2 DEF MissionNext
  <1>3. CASE OdometryReceived \/ GoalAnswered \/ ResultReceived \/ CancelAnswered \/ Tick
    BY <1>3 DEF OdometryReceived, GoalAnswered, ResultReceived, CancelAnswered, Tick,
                MissionNext
  <1>4. CASE FeedbackReceived
    <2>1. PICK generation \in 1 .. MaxEffort : Feedback(generation)
      BY <1>4 DEF FeedbackReceived
    <2>2. generation \in Nat
      BY <2>1, NavigationConstants
    <2> QED BY <2>1, <2>2 DEF MissionNext
  <1>5. CASE Nav2Step
    BY <1>5 DEF Nav2Step, MissionNext
  <1>6. CASE StartUnit
    BY <1>6 DEF StartUnit, MissionNext
  <1>7. CASE \/ \E goal \in Goals \cup {NoGoal}, active \in BOOLEAN :
                   SupervisorInput(goal, active)
             \/ \E ready \in BOOLEAN : OnMode(ready)
    BY <1>7 DEF SupervisorInput, OnMode
  <1>8. CASE OnNavigationState \/ NavigationStateExpires \/ AuthorityRestart \/ Heartbeat
    BY <1>8 DEF OnNavigationState, NavigationStateExpires, AuthorityRestart, Heartbeat
  <1>9. CASE BeginTransition \/ \E map \in Maps : EndTransition(map)
    BY <1>9 DEF BeginTransition, EndTransition
  <1>10. CASE UNCHANGED navVars
    BY <1>10 DEF navVars
  <1> QED BY <1>1, <1>2, <1>3, <1>4, <1>5, <1>6, <1>7, <1>8, <1>9, <1>10 DEF NavigationNext

(* Every step of the composition keeps its invariant. *)
LEMMA NavigationStep ==
    ASSUME NavigationIInv, [NavigationNext]_navVars
    PROVE  NavigationIInv'
  <1>0. MissionIInv' /\ MissionIInv /\ ModeTyped /\ AuthTyped /\ TopicsTyped
    BY MissionOfNavigation, MissionStep DEF NavigationIInv
  <1>a. ASSUME UNCHANGED <<mode_state, auth, requests>>,
               PublishState \/ UNCHANGED <<states, published>>
        PROVE  NavigationIInv'
    <2>1. states' \in Seq(MissionStates) /\ published' \in MissionStates
      BY <1>0, <1>a, PublishTyped DEF TopicsTyped
    <2> QED BY <1>0, <1>a, <2>1 DEF NavigationIInv, ModeTyped, AuthTyped, TopicsTyped
  <1>1. ASSUME NEW goal \in Goals \cup {NoGoal}, NEW active \in BOOLEAN,
               SupervisorInput(goal, active)
        PROVE  NavigationIInv'
    <2>1. SyncNavigation(auth, goal, active) /\ UNCHANGED <<mode_state, states, published>>
      BY <1>1 DEF SupervisorInput
    <2>2. AuthTyped' /\ requests' \in Seq(Requests)
      BY <1>0, <2>1, SyncTyped DEF AuthTyped
    <2> QED BY <1>0, <2>1, <2>2 DEF NavigationIInv, ModeTyped, TopicsTyped
  <1>2. ASSUME NEW ready \in BOOLEAN, OnMode(ready)
        PROVE  NavigationIInv'
    <2> DEFINE changed == ~ready \/ ~auth.ready \/ mode_state.map # auth.map
               a == [auth EXCEPT !.runtime_epoch = mode_state.epoch, !.map = mode_state.map,
                                 !.ready = ready]
               goal == IF changed THEN NoGoal ELSE auth.nav_last_goal_key
               active == auth.nav_last_dispatch_active /\ ~changed
    <2>1. SyncNavigation(a, goal, active) /\ UNCHANGED <<mode_state, states, published>>
      BY <1>2 DEF OnMode
    <2>2. a \in [ process : Nat, runtime_epoch : Nat, map : Maps \cup {None},
                  ready : BOOLEAN, mission_revision : Nat,
                  nav_last_goal_key : Goals \cup {NoGoal},
                  nav_last_dispatch_active : BOOLEAN, nav_motion_ok : BOOLEAN ]
      BY <1>0 DEF AuthTyped, ModeTyped
    <2>3. goal \in Goals \cup {NoGoal} /\ active \in BOOLEAN
      BY <1>0 DEF AuthTyped
    <2> HIDE DEF a, goal, active
    <2>4. AuthTyped' /\ requests' \in Seq(Requests)
      BY <1>0, <2>1, <2>2, <2>3, SyncTyped
    <2> QED BY <1>0, <2>1, <2>4 DEF NavigationIInv, ModeTyped, TopicsTyped
  <1>3. CASE OnNavigationState
    <2>1. AuthTyped'
      BY <1>0, <1>3 DEF OnNavigationState, AuthTyped
    <2>2. states' \in Seq(MissionStates) /\ UNCHANGED <<mode_state, requests, published>>
      BY <1>0, <1>3 DEF OnNavigationState, TopicsTyped
    <2> QED BY <1>0, <2>1, <2>2 DEF NavigationIInv, ModeTyped, TopicsTyped
  <1>4. CASE NavigationStateExpires
    <2>1. AuthTyped'
      BY <1>0, <1>4 DEF NavigationStateExpires, AuthTyped
    <2> QED BY <1>0, <1>4, <2>1
            DEF NavigationStateExpires, NavigationIInv, ModeTyped, TopicsTyped
  <1>5. CASE AuthorityRestart
    <2>1. AuthTyped'
      BY <1>0, <1>5 DEF AuthorityRestart, AuthTyped, FreshAuthority
    <2>2. states' \in Seq(MissionStates)
      BY <1>0, <1>5 DEF AuthorityRestart, TopicsTyped
    <2> QED BY <1>0, <1>5, <2>1, <2>2
            DEF AuthorityRestart, NavigationIInv, ModeTyped, TopicsTyped
  <1>6. CASE OnRequest
    <2>1. requests' \in Seq(Requests)
      BY <1>0, <1>6 DEF OnRequest, TopicsTyped
    <2>2. states' \in Seq(MissionStates) /\ published' \in MissionStates
      BY <1>0, <1>6, PublishTyped DEF OnRequest
    <2> QED BY <1>0, <1>6, <2>1, <2>2
            DEF OnRequest, NavigationIInv, ModeTyped, AuthTyped, TopicsTyped
  <1>7. CASE \/ ModeStateReceived \/ OdometryReceived \/ GoalAnswered
             \/ ResultReceived \/ CancelAnswered \/ Tick
    BY <1>7, <1>a DEF ModeStateReceived, OdometryReceived, GoalAnswered, ResultReceived,
                      CancelAnswered, Tick, Handled
  <1>8. CASE FeedbackReceived \/ Nav2Step
    BY <1>8, <1>a DEF FeedbackReceived, Nav2Step
  <1>9. CASE Heartbeat
    <2>1. runtime.state \in MissionStates
      BY <1>0 DEF MissionIInv, MissionTypeOK, Runtimes
    <2>2. states' \in Seq(MissionStates) /\ published' \in MissionStates
      BY <1>0, <1>9, <2>1, SendTyped DEF Heartbeat
    <2> QED BY <1>0, <1>9, <2>2
            DEF Heartbeat, NavigationIInv, ModeTyped, AuthTyped, TopicsTyped
  <1>10. CASE StartUnit
    <2>1. "IDLE" \in MissionStates /\ Send("IDLE")
      BY <1>10 DEF StartUnit, MissionStates
    <2>2. states' \in Seq(MissionStates) /\ published' \in MissionStates
      BY <1>0, <2>1, SendTyped
    <2>3. ModeTyped'
      BY <1>0, <1>10 DEF StartUnit, ModeTyped
    <2>4. requests' \in Seq(Requests)
      BY <1>10 DEF StartUnit
    <2> QED BY <1>0, <1>10, <2>2, <2>3, <2>4 DEF StartUnit, NavigationIInv, AuthTyped, TopicsTyped
  <1>11. CASE BeginTransition \/ \E map \in Maps : EndTransition(map)
    <2>1. ModeTyped'
      <3>1. CASE BeginTransition
        BY <1>0, <3>1 DEF BeginTransition, ModeTyped
      <3>2. ASSUME NEW map \in Maps, EndTransition(map)
            PROVE  ModeTyped'
        <4>1. mode_state.epoch + 1 \in Nat /\ map # None
          BY <1>0, MissionConstants DEF ModeTyped
        <4> QED BY <3>2, <4>1 DEF EndTransition, ModeTyped
      <3> QED BY <1>11, <3>1, <3>2
    <2>2. UNCHANGED <<auth, requests, states, published>>
      BY <1>11 DEF BeginTransition, EndTransition
    <2> QED BY <1>0, <2>1, <2>2 DEF NavigationIInv, AuthTyped, TopicsTyped
  <1>12. CASE UNCHANGED navVars
    BY <1>12, <1>a DEF navVars
  <1> QED
    BY <1>1, <1>2, <1>3, <1>4, <1>5, <1>6, <1>7, <1>8, <1>9, <1>10, <1>11, <1>12
       DEF NavigationNext

(* The invariant of the composition. *)
LEMMA NavigationIInvHolds == NavigationSpec => []NavigationIInv
  <1>1. NavigationInit => NavigationIInv
    <2> SUFFICES ASSUME NavigationInit PROVE NavigationIInv
      OBVIOUS
    <2>1. MissionIInv
      BY FreshGood DEF NavigationInit, MissionInit, MissionIInv, MissionTypeOK, Actions
    <2>2. ModeTyped /\ AuthTyped
      BY DEF NavigationInit, ModeTyped, AuthTyped, FreshAuthority
    <2>3. TopicsTyped
      BY DEF NavigationInit, TopicsTyped, MissionStates
    <2> QED BY <2>1, <2>2, <2>3 DEF NavigationIInv
  <1>2. NavigationIInv /\ [NavigationNext]_navVars => NavigationIInv'
    BY NavigationStep
  <1> QED BY <1>1, <1>2, PTL DEF NavigationSpec

(* NavigationTypeOK: what travels between the authority, the mission       *)
(* runtime and Nav2 is always well formed, for any bounds.                 *)
THEOREM NavigationTyped == NavigationSpec => []NavigationTypeOK
  <1>1. NavigationIInv => NavigationTypeOK
    BY DEF NavigationIInv, MissionIInv, ModeTyped, AuthTyped, TopicsTyped, NavigationTypeOK
  <1> QED BY <1>1, NavigationIInvHolds, PTL

(* The mission runtime under a real authority, mode supervisor and topics  *)
(* implements MissionSpec, the mission runtime under any requests, modes   *)
(* and answers: restarts of either side are among its steps.               *)
THEOREM NavigationImplementsMission == NavigationSpec => MissionSpec
  <1>1. NavigationInit => MissionInit
    BY DEF NavigationInit
  <1>2. NavigationIInv /\ [NavigationNext]_navVars => [MissionNext]_missionVars
    BY MissionOfNavigation
  <1> QED BY <1>1, <1>2, NavigationIInvHolds, PTL DEF NavigationSpec, MissionSpec

(* So in the composition an action that is reported as under way is of the *)
(* current mission and epoch, accepted by Nav2 and held once, failures are *)
(* charged fairly and cancels are final.                                   *)
THEOREM NavigationMissionsSafe ==
    NavigationSpec => /\ [](ActiveIsCurrent /\ ActiveIsAccepted)
                      /\ [](InflightIsCarried /\ OnlyTriedMissionsBlocked)
                      /\ CanceledStaysDown
  BY NavigationImplementsMission, ActionsAreCurrent, ActionsAreAccepted, AttemptsAreCarried,
     BlameIsFair, CancelsAreFinal, PTL

-----------------------------------------------------------------------------
(***************************************************************************)
(* What the authority selected is what moves the car.  The invariant has   *)
(* one part for each thing that travels: the runtime's state on its way to *)
(* the authority, the mode on its way to both, and the requests on theirs  *)
(* to the runtime.                                                         *)
(***************************************************************************)

(* A state reaches the authority last as it was published last; only       *)
(* feedback makes a state that is not published at once.                   *)
StatesArrive ==
    /\ \/ published = runtime.state
       \/ published = "DISPATCHING" /\ runtime.state = "ACTIVE"
    /\ states # <<>> => states[Len(states)] = published
    /\ states = <<>> /\ auth.nav_motion_ok => published = "ACTIVE"

(* No unit has been started since the mode was last stable. *)
SameUnit == mode_state.stable \/ ~mode_state.started

(* The runtime that sees AUTONOMY, and the authority that is ready, are in *)
(* the present epoch and on its map: a unit starts between two epochs, and *)
(* none while the authority is ready.                                      *)
ModeIsPresent ==
    /\ runtime.autonomy_ok =>
         SameUnit /\ runtime.key = [epoch |-> mode_state.epoch, map |-> mode_state.map]
    /\ auth.ready =>
         /\ SameUnit
         /\ auth.runtime_epoch = mode_state.epoch /\ auth.map = mode_state.map

(* The contract of the command supervisor. *)
GoalIsReady ==
    /\ auth.process > 0
    /\ auth.nav_last_goal_key # NoGoal => auth.ready /\ auth.nav_last_goal_key.map = auth.map
    /\ auth.nav_last_dispatch_active => auth.nav_last_goal_key # NoGoal

Selects(q) == q.operation = "SELECT"

(* Selections on their way are of the present epoch, each newer than the   *)
(* one before and than any that the runtime has seen.                      *)
SelectsInOrder ==
    /\ runtime.max_revision <= auth.mission_revision
    /\ \A i \in 1 .. Len(requests) : Selects(requests[i]) =>
         /\ SameUnit
         /\ requests[i].mission.epoch = mode_state.epoch
         /\ requests[i].mission.map = mode_state.map
         /\ runtime.max_revision < requests[i].mission.revision
         /\ requests[i].mission.revision <= auth.mission_revision
    /\ \A i, j \in 1 .. Len(requests) : i < j /\ Selects(requests[i]) /\ Selects(requests[j]) =>
         requests[i].mission.revision < requests[j].mission.revision

OfGoal(m, goal) == m.map = goal.map /\ m.pose = goal.pose

(* The last selection on its way, or else the mission that is bound if     *)
(* there is one, is the goal.                                              *)
LastSelectIsGoal ==
    auth.nav_last_goal_key # NoGoal =>
        /\ \A i \in 1 .. Len(requests) :
             /\ Selects(requests[i])
             /\ \A j \in i + 1 .. Len(requests) : ~Selects(requests[j])
             => OfGoal(requests[i].mission, auth.nav_last_goal_key)
        /\ (\A i \in 1 .. Len(requests) : ~Selects(requests[i])) =>
               runtime.mission = NoMission \/ OfGoal(runtime.mission, auth.nav_last_goal_key)

IntentIInv ==
    /\ StatesArrive /\ ModeIsPresent /\ GoalIsReady
    /\ auth.process = 1 => SelectsInOrder /\ LastSelectIsGoal

-----------------------------------------------------------------------------
(* Most of what the node does leaves the mission, its number and the key   *)
(* the runtime is in.                                                      *)
RuntimeFields ==
    {"autonomy_ok", "key", "mission", "mission_valid", "state", "action_generation",
     "goal_uuid", "inflight", "cancel_requested", "max_revision", "robot_pose",
     "failed_dispatch", "inflight_mission_id", "pending_send", "send_future", "goal_handle",
     "result_future", "cancel_future", "cancel_attempts"}

Keeps(r, t) ==
    /\ DOMAIN t = RuntimeFields
    /\ t.mission = r.mission /\ t.max_revision = r.max_revision
    /\ t.key = r.key /\ t.autonomy_ok = r.autonomy_ok

(* A runtime keeps its own mission and has all its fields. *)
LEMMA KeepsItself ==
    ASSUME NEW r \in Runtimes
    PROVE  Keeps(r, r)
BY DEF Runtimes, Keeps, RuntimeFields

(* What one call keeps and the next keeps is kept. *)
LEMMA KeepsOn ==
    ASSUME NEW r, NEW t, NEW u, Keeps(r, t), Keeps(t, u)
    PROVE  Keeps(r, u)
BY DEF Keeps

(* on_result keeps the mission. *)
LEMMA ResultKeeps ==
    ASSUME NEW r, Keeps(r, r), NEW generation, NEW status
    PROVE  Keeps(r, OnResult(r, generation, status))
<1>1. PICK state, failed :
        OnResult(r, generation, status) \in
          {r, [r EXCEPT !.inflight = FALSE, !.inflight_mission_id = NoId,
                        !.cancel_requested = FALSE, !.goal_uuid = FALSE, !.state = state,
                        !.failed_dispatch = failed]}
  BY DEF OnResult
<1> QED
  BY <1>1 DEF Keeps, RuntimeFields

(* on_goal_response keeps the mission. *)
LEMMA AnswerKeeps ==
    ASSUME NEW r, Keeps(r, r), NEW generation, NEW accepted
    PROVE  Keeps(r, OnGoalResponse(r, generation, accepted))
BY DEF OnGoalResponse, Keeps, RuntimeFields

(* The end of _run_commands keeps the mission. *)
LEMMA AfterKeeps ==
    ASSUME NEW r, Keeps(r, r)
    PROVE  Keeps(r, ResolveUndeliveredCancel(r)) /\ Keeps(r, AfterCommands(r))
<1>1. ASSUME NEW q, Keeps(q, q)
      PROVE  Keeps(q, ResolveUndeliveredCancel(q))
  BY <1>1, ResultKeeps DEF ResolveUndeliveredCancel
<1> DEFINE quiet == [r EXCEPT !.pending_send = NoSend]
<1>2. Keeps(r, quiet) /\ Keeps(quiet, quiet)
  BY DEF Keeps, RuntimeFields
<1>3. AfterCommands(r) \in {r, ResolveUndeliveredCancel(quiet)}
  BY DEF AfterCommands
<1> HIDE DEF quiet
<1>4. Keeps(r, ResolveUndeliveredCancel(quiet))
  BY <1>1, <1>2, KeepsOn
<1> QED
  BY <1>1, <1>3, <1>4

(* The calls to Nav2 keep the mission. *)
LEMMA PumpsKeep ==
    ASSUME NEW r, Keeps(r, r)
    PROVE  /\ \A t \in PumpCancel(r) : Keeps(r, t) /\ Keeps(t, t)
           /\ \A t \in PumpSend(r) : Keeps(r, t) /\ Keeps(t, t)
           /\ \A t \in RequestResult(r) : Keeps(r, t)
<1>1. ASSUME NEW t \in PumpCancel(r)
      PROVE  Keeps(r, t)
  BY <1>1 DEF PumpCancel, Keeps, RuntimeFields
<1>2. ASSUME NEW t \in PumpSend(r)
      PROVE  Keeps(r, t)
  <2> DEFINE taken == [r EXCEPT !.pending_send = NoSend]
             sent == [taken EXCEPT !.send_future = r.pending_send]
  <2>1. Keeps(r, taken) /\ Keeps(taken, taken)
    BY DEF Keeps, RuntimeFields
  <2>2. t \in {r, taken, sent, OnGoalResponse(taken, r.pending_send.generation, FALSE)}
    BY <1>2 DEF PumpSend
  <2>3. sent = [taken EXCEPT !.send_future = r.pending_send]
    OBVIOUS
  <2> HIDE DEF taken, sent
  <2>4. Keeps(taken, sent)
    BY <2>1, <2>3 DEF Keeps, RuntimeFields
  <2>5. QED
    <3>1. Keeps(r, sent)
      BY <2>1, <2>4, KeepsOn
    <3>2. Keeps(r, OnGoalResponse(taken, r.pending_send.generation, FALSE))
      BY <2>1, AnswerKeeps, KeepsOn
    <3> QED
      BY <2>1, <2>2, <3>1, <3>2
<1>3. ASSUME NEW t \in RequestResult(r)
      PROVE  Keeps(r, t)
  BY <1>3 DEF RequestResult, Keeps, RuntimeFields
<1>4. ASSUME NEW t, Keeps(r, t)
      PROVE  Keeps(t, t)
  BY <1>4 DEF Keeps
<1> QED
  BY <1>1, <1>2, <1>3, <1>4

(* _run_commands keeps the mission. *)
LEMMA RunsKeep ==
    ASSUME NEW r, Keeps(r, r)
    PROVE  /\ \A began : \A t \in RunCancel(r, began) : Keeps(r, t)
           /\ \A t \in RunSend(r) : Keeps(r, t)
<1>1. ASSUME NEW began, NEW t \in RunCancel(r, began)
      PROVE  Keeps(r, t)
  <2> DEFINE reset == [r EXCEPT !.cancel_attempts = 0]
  <2>1. Keeps(r, reset) /\ Keeps(reset, reset)
    BY DEF Keeps, RuntimeFields
  <2>2. PICK c \in PumpCancel(reset) \cup {r} : t = AfterCommands(c)
    BY <1>1 DEF RunCancel
  <2> HIDE DEF reset
  <2>3. Keeps(r, c) /\ Keeps(c, c)
    BY <2>1, <2>2, PumpsKeep, KeepsOn
  <2> QED
    BY <2>2, <2>3, AfterKeeps, KeepsOn
<1>2. ASSUME NEW t \in RunSend(r)
      PROVE  Keeps(r, t)
  <2>1. PICK c \in PumpSend(r) : t = AfterCommands(c)
    BY <1>2 DEF RunSend
  <2> QED
    BY <2>1, PumpsKeep, AfterKeeps, KeepsOn
<1> QED
  BY <1>1, <1>2

(* Every handler but select and observe_runtime keeps the mission. *)
LEMMA HandlersKeep ==
    ASSUME MissionIInv,
           \/ \E posture \in Postures : OnOdometry(posture)
           \/ \E accepted \in BOOLEAN : GoalResponse(accepted)
           \/ \E generation \in Nat : Feedback(generation)
           \/ ResultCallback \/ CancelCallback \/ MissionTick \/ OnCancel \/ OnDispatch
    PROVE  Keeps(runtime, runtime')
<1>0. runtime \in Runtimes /\ Keeps(runtime, runtime) /\ MissionBound(runtime)
  BY KeepsItself DEF MissionIInv, MissionTypeOK, MissionGood
<1>1. CASE \E posture \in Postures : OnOdometry(posture)
  BY <1>0, <1>1 DEF OnOdometry, Keeps, RuntimeFields
<1>2. ASSUME NEW accepted \in BOOLEAN, GoalResponse(accepted)
      PROVE  Keeps(runtime, runtime')
  <2> DEFINE g == runtime.send_future.generation
             s == [runtime EXCEPT !.send_future = NoSend]
             answered == OnGoalResponse(s, g, accepted)
             held == IF accepted /\ is_current(answered, g)
                     THEN [answered EXCEPT !.goal_handle = g] ELSE answered
             cancels == accepted /\ is_current(held, g) /\ held.cancel_requested
  <2>1. runtime' \in IF accepted THEN UNION {RequestResult(c) : c \in RunCancel(held, cancels)}
                     ELSE {held}
    BY <1>2 DEF GoalResponse
  <2>2. Keeps(runtime, s) /\ Keeps(s, s)
    BY <1>0 DEF Keeps, RuntimeFields
  <2> HIDE DEF s
  <2>3. Keeps(runtime, answered)
    BY <2>2, AnswerKeeps, KeepsOn
  <2>4. held \in {answered, [answered EXCEPT !.goal_handle = g]}
    OBVIOUS
  <2> HIDE DEF answered, held, cancels, g
  <2>5. Keeps(runtime, held) /\ Keeps(held, held)
    BY <2>3, <2>4 DEF Keeps, RuntimeFields
  <2>6. CASE ~accepted
    BY <2>1, <2>5, <2>6
  <2>7. CASE accepted
    <3>1. PICK c \in RunCancel(held, cancels) : runtime' \in RequestResult(c)
      BY <2>1, <2>7
    <3>2. Keeps(held, c)
      BY <2>5, <3>1, RunsKeep
    <3>3. Keeps(runtime, c) /\ Keeps(c, c)
      BY <2>5, <3>2 DEF Keeps
    <3>4. Keeps(c, runtime')
      BY <3>1, <3>3, PumpsKeep
    <3> QED
      BY <3>3, <3>4, KeepsOn
  <2> QED
    BY <2>6, <2>7
<1>3. CASE \E generation \in Nat : Feedback(generation)
  BY <1>0, <1>3 DEF Feedback, OnFeedback, Keeps, RuntimeFields
<1>4. CASE ResultCallback
  <2> DEFINE s == [runtime EXCEPT !.result_future = 0]
             t == OnResult(s, runtime.result_future, nav2.status)
  <2>1. runtime' \in {s, ClearActionFutures(t)}
    BY <1>4 DEF ResultCallback
  <2>2. Keeps(runtime, s) /\ Keeps(s, s)
    BY <1>0 DEF Keeps, RuntimeFields
  <2> HIDE DEF s
  <2>3. Keeps(runtime, t)
    BY <2>2, ResultKeeps, KeepsOn
  <2> HIDE DEF t
  <2>4. Keeps(runtime, ClearActionFutures(t))
    BY <2>3 DEF ClearActionFutures, Keeps, RuntimeFields
  <2> QED
    BY <2>1, <2>2, <2>4
<1>5. CASE CancelCallback
  BY <1>0, <1>5 DEF CancelCallback, Keeps, RuntimeFields
<1>6. CASE MissionTick
  <2>1. PICK c \in UNION {TickCancel(s) : s \in PumpSend(runtime)} :
           runtime' \in RequestResult(c)
    BY <1>6 DEF MissionTick
  <2>2. PICK s \in PumpSend(runtime) : c \in TickCancel(s)
    BY <2>1
  <2>3. Keeps(runtime, s) /\ Keeps(s, s)
    BY <1>0, <2>2, PumpsKeep
  <2>4. c = s \/ \E d \in {s} \cup PumpCancel(s) : c = ResolveUndeliveredCancel(d)
    BY <2>2 DEF TickCancel
  <2>5. \A d \in {s} \cup PumpCancel(s) : Keeps(s, d) /\ Keeps(d, d)
    BY <2>3, PumpsKeep
  <2>6. \A d \in {s} \cup PumpCancel(s) : Keeps(d, ResolveUndeliveredCancel(d))
    BY <2>5, AfterKeeps
  <2>7. Keeps(s, c)
    BY <2>3, <2>4, <2>5, <2>6, KeepsOn
  <2>8. Keeps(runtime, c) /\ Keeps(c, c)
    BY <2>3, <2>7 DEF Keeps
  <2> QED
    BY <2>1, <2>8, PumpsKeep, KeepsOn
<1>7. CASE OnCancel
  <2>1. Keeps(runtime, Cancel(runtime)) /\ Keeps(Cancel(runtime), Cancel(runtime))
    BY <1>0 DEF Cancel, BeginCancel, Keeps, RuntimeFields
  <2>2. runtime' \in RunCancel(Cancel(runtime), runtime.inflight)
    BY <1>7 DEF OnCancel
  <2> QED
    BY <2>1, <2>2, RunsKeep, KeepsOn
<1>8. CASE OnDispatch
  <2>1. ~DispatchSuperseded(runtime)
    BY <1>0 DEF DispatchSuperseded, MissionBound
  <2> DEFINE d == Dispatch(runtime)
  <2>2. Keeps(runtime, d) /\ Keeps(d, d)
    BY <1>0, <2>1 DEF Dispatch, Keeps, RuntimeFields
  <2>3. runtime' \in RunSend(d) \cup {AfterCommands(d)}
    BY <1>8 DEF OnDispatch
  <2> HIDE DEF d
  <2>4. Keeps(d, runtime')
    BY <2>2, <2>3, RunsKeep, AfterKeeps
  <2> QED
    BY <2>2, <2>4, KeepsOn
<1> QED
  BY <1>1, <1>2, <1>3, <1>4, <1>5, <1>6, <1>7, <1>8

(* select: accepted, it binds the mission; refused, it leaves the runtime. *)
LEMMA SelectBinds ==
    ASSUME MissionIInv, NEW m, OnSelect(m)
    PROVE  /\ runtime'.key = runtime.key /\ runtime'.autonomy_ok = runtime.autonomy_ok
           /\ SelectAccepted(runtime, m) =>
                runtime'.mission = m /\ runtime'.max_revision = m.revision
           /\ ~SelectAccepted(runtime, m) => Keeps(runtime, runtime')
<1>0. runtime \in Runtimes /\ Keeps(runtime, runtime)
  BY KeepsItself DEF MissionIInv, MissionTypeOK
<1> DEFINE s == Select(runtime, m)
<1>1. runtime' \in RunCancel(s, runtime.inflight /\ SelectAccepted(runtime, m))
  BY DEF OnSelect
<1>2. CASE ~SelectAccepted(runtime, m)
  <2>1. s = runtime
    BY <1>2 DEF Select
  <2>2. Keeps(runtime, runtime')
    BY <1>0, <1>1, <2>1, RunsKeep
  <2> QED
    BY <1>2, <2>2 DEF Keeps
<1>3. CASE SelectAccepted(runtime, m)
  <2> DEFINE freed == IF runtime.inflight THEN BeginCancel(runtime)
                      ELSE [runtime EXCEPT !.state = "IDLE"]
  <2>1. Keeps(runtime, freed)
    BY <1>0 DEF BeginCancel, Keeps, RuntimeFields
  <2>2. s = [freed EXCEPT !.max_revision = m.revision, !.mission = m, !.mission_valid = TRUE,
                          !.failed_dispatch = NoFailure]
    BY <1>3 DEF Select
  <2> HIDE DEF freed, s
  <2>3. /\ Keeps(s, s) /\ s.mission = m /\ s.max_revision = m.revision
        /\ s.key = runtime.key /\ s.autonomy_ok = runtime.autonomy_ok
    BY <2>1, <2>2 DEF Keeps, RuntimeFields
  <2>4. Keeps(s, runtime')
    BY <1>1, <2>3, RunsKeep
  <2> QED
    BY <1>3, <2>3, <2>4 DEF Keeps
<1> QED
  BY <1>2, <1>3

(* observe_runtime keeps the mission or drops it. *)
LEMMA ObserveBinds ==
    ASSUME MissionIInv, NEW key, NEW ok \in BOOLEAN, OnModeState(key, ok)
    PROVE  /\ runtime'.autonomy_ok = ok
           /\ ok => runtime'.key = key
           /\ runtime'.max_revision = runtime.max_revision
           /\ runtime'.mission \in {runtime.mission, NoMission}
<1>0. runtime \in Runtimes /\ Keeps(runtime, runtime)
  BY KeepsItself DEF MissionIInv, MissionTypeOK
<1> DEFINE seen == IF Revokes(runtime, key, ok) THEN Invalidate(runtime) ELSE runtime
           kept == IF ok THEN key ELSE seen.key
           o == ObserveRuntime(runtime, key, ok)
<1>1. /\ DOMAIN seen = RuntimeFields /\ seen.max_revision = runtime.max_revision
      /\ seen.mission \in {runtime.mission, NoMission}
  <2> DEFINE cleared == [runtime EXCEPT !.mission_valid = FALSE, !.mission = NoMission,
                                        !.failed_dispatch = NoFailure]
  <2>1. /\ DOMAIN cleared = RuntimeFields /\ cleared.max_revision = runtime.max_revision
        /\ cleared.mission = NoMission
    BY <1>0 DEF Keeps, RuntimeFields
  <2>2. Invalidate(runtime) \in {cleared, BeginCancel(cleared),
                                 [cleared EXCEPT !.state = "IDLE"]}
    BY DEF Invalidate
  <2> HIDE DEF cleared
  <2>3. /\ DOMAIN Invalidate(runtime) = RuntimeFields
        /\ Invalidate(runtime).max_revision = runtime.max_revision
        /\ Invalidate(runtime).mission = NoMission
    BY <2>1, <2>2 DEF BeginCancel, RuntimeFields
  <2> QED
    BY <1>0, <2>3 DEF Keeps
<1>2. o = [seen EXCEPT !.autonomy_ok = ok, !.key = kept]
  BY DEF ObserveRuntime
<1>3. ok => kept = key
  OBVIOUS
<1>4. runtime' \in RunCancel(o, runtime.inflight /\ Revokes(runtime, key, ok))
  BY DEF OnModeState
<1> HIDE DEF seen, kept, o
<1>5. /\ Keeps(o, o) /\ o.autonomy_ok = ok /\ o.key = kept
      /\ o.max_revision = seen.max_revision /\ o.mission = seen.mission
  BY <1>1, <1>2 DEF Keeps, RuntimeFields
<1>6. Keeps(o, runtime')
  BY <1>4, <1>5, RunsKeep
<1> QED
  BY <1>1, <1>3, <1>5, <1>6 DEF Keeps

-----------------------------------------------------------------------------
(* What _sync_navigation sends: at most one selection, before the rest. *)
Selection(a, goal) ==
    [operation |-> "SELECT",
     mission |-> [by |-> a.process, revision |-> a.mission_revision + 1,
                  epoch |-> a.runtime_epoch, map |-> goal.map, pose |-> goal.pose]]

(* The requests are those there were, at most one selection, and the rest. *)
LEMMA SyncSends ==
    ASSUME requests \in Seq(Requests), NEW a, NEW goal, NEW active,
           SyncNavigation(a, goal, active)
    PROVE  /\ \A i \in 1 .. Len(requests) : requests'[i] = requests[i]
           /\ Len(requests') \in Nat /\ Len(requests) \in Nat /\ Len(requests') >= Len(requests)
           /\ goal \in {NoGoal, a.nav_last_goal_key} =>
                \A i \in Len(requests) + 1 .. Len(requests') : ~Selects(requests'[i])
           /\ goal \notin {NoGoal, a.nav_last_goal_key} =>
                /\ Len(requests') > Len(requests)
                /\ requests'[Len(requests) + 1] = Selection(a, goal)
                /\ \A i \in Len(requests) + 2 .. Len(requests') : ~Selects(requests'[i])
<1> DEFINE g == GoalRequests(a, goal)
           h == GrantRequests(a, active)
           plain(s) == s = <<>> \/ \E q : s = <<q>> /\ ~Selects(q)
<1>1. plain(Plain("CANCEL")) /\ plain(Plain("DISPATCH"))
  <2> DEFINE q(operation) == [operation |-> operation, mission |-> NoMission]
  <2>1. ~Selects(q("CANCEL")) /\ ~Selects(q("DISPATCH"))
    BY DEF Selects
  <2>2. Plain("CANCEL") = <<q("CANCEL")>> /\ Plain("DISPATCH") = <<q("DISPATCH")>>
    BY DEF Plain
  <2> HIDE DEF q
  <2> QED
    BY <2>1, <2>2
<1>2. plain(h)
  BY <1>1 DEF GrantRequests
<1>3. goal \in {NoGoal, a.nav_last_goal_key} => plain(g)
  BY <1>1 DEF GoalRequests
<1>4. goal \notin {NoGoal, a.nav_last_goal_key} => g = <<Selection(a, goal)>>
  BY DEF GoalRequests, Selection
<1>5. requests' = (requests \o g) \o h
  BY DEF SyncNavigation
<1> HIDE DEF g, h
<1>6. \E S : requests \in Seq(S) /\ g \in Seq(S) /\ h \in Seq(S)
  <2>1. PICK q1, q2 : g \in {<<>>, <<q1>>} /\ h \in {<<>>, <<q2>>}
    BY <1>2, <1>3, <1>4
  <2> DEFINE S == Requests \cup {q1, q2}
  <2>2. requests \in Seq(S)
    BY SeqMonotonic
  <2>3. <<>> \in Seq(S) /\ <<q1>> \in Seq(S) /\ <<q2>> \in Seq(S)
    OBVIOUS
  <2>4. g \in Seq(S) /\ h \in Seq(S)
    BY <2>1, <2>3
  <2> QED
    BY <2>2, <2>4
<1>7. PICK S : requests \in Seq(S) /\ g \in Seq(S) /\ h \in Seq(S)
  BY <1>6
<1> DEFINE s == requests \o g
<1>8. /\ s \in Seq(S) /\ Len(s) = Len(requests) + Len(g)
      /\ \A i \in 1 .. Len(requests) : s[i] = requests[i]
      /\ \A i \in 1 .. Len(g) : s[Len(requests) + i] = g[i]
      /\ Len(requests) \in Nat /\ Len(g) \in Nat /\ Len(h) \in Nat
  BY <1>7
<1>9. requests' = s \o h
  BY <1>5
<1> HIDE DEF s
<1>10. /\ Len(requests') = Len(s) + Len(h)
       /\ \A i \in 1 .. Len(s) : requests'[i] = s[i]
       /\ \A i \in 1 .. Len(h) : requests'[Len(s) + i] = h[i]
  <2>1. /\ Len(s \o h) = Len(s) + Len(h)
        /\ \A i \in 1 .. Len(s) : (s \o h)[i] = s[i]
        /\ \A i \in 1 .. Len(h) : (s \o h)[Len(s) + i] = h[i]
    <3>1. s \in Seq(S) /\ h \in Seq(S)
      BY <1>7, <1>8
    <3>2. Len(s) \in Nat /\ Len(h) \in Nat
      BY <3>1, LenProperties
    <3>3. /\ Len(s \o h) = Len(s) + Len(h)
          /\ \A i \in 1 .. Len(s) + Len(h) :
               (s \o h)[i] = IF i <= Len(s) THEN s[i] ELSE h[i - Len(s)]
      BY <3>1, ConcatProperties, Zenon
    <3>4. ASSUME NEW i \in 1 .. Len(h)
          PROVE  (s \o h)[Len(s) + i] = h[i]
      <4>1. /\ Len(s) + i \in 1 .. Len(s) + Len(h) /\ ~(Len(s) + i <= Len(s))
            /\ (Len(s) + i) - Len(s) = i
        BY <3>2
      <4> QED
        BY <3>3, <4>1
    <3> QED
      BY <3>2, <3>3, <3>4
  <2> QED
    BY <1>9, <2>1
<1>11. /\ \A i \in 1 .. Len(requests) : requests'[i] = requests[i]
       /\ Len(requests') \in Nat /\ Len(requests) \in Nat /\ Len(requests') >= Len(requests)
  BY <1>8, <1>10
<1>12. Len(h) \in {0, 1} /\ \A i \in 1 .. Len(h) : ~Selects(h[i])
  BY <1>2
<1>13. ASSUME goal \in {NoGoal, a.nav_last_goal_key}
       PROVE  \A i \in Len(requests) + 1 .. Len(requests') : ~Selects(requests'[i])
  <2>1. Len(g) \in {0, 1} /\ \A i \in 1 .. Len(g) : ~Selects(g[i])
    BY <1>3, <1>13
  <2>2. SUFFICES ASSUME NEW i \in Len(requests) + 1 .. Len(requests')
                 PROVE  ~Selects(requests'[i])
    OBVIOUS
  <2>3. CASE i <= Len(s)
    <3>1. i - Len(requests) \in 1 .. Len(g) /\ i = Len(requests) + (i - Len(requests))
      BY <1>8, <2>3
    <3>2. requests'[i] = s[i]
      <4>1. i \in 1 .. Len(s)
        BY <1>8, <2>3
      <4> QED
        BY <1>10, <4>1
    <3>3. s[i] = g[i - Len(requests)]
      <4>1. s[Len(requests) + (i - Len(requests))] = g[i - Len(requests)]
        BY <1>8, <3>1
      <4> QED
        BY <3>1, <4>1
    <3> QED
      BY <2>1, <3>1, <3>2, <3>3
  <2>4. CASE i > Len(s)
    <3>1. i - Len(s) \in 1 .. Len(h) /\ i = Len(s) + (i - Len(s))
      BY <1>8, <1>10, <2>4
    <3>2. requests'[i] = h[i - Len(s)]
      BY <1>10, <3>1
    <3> QED
      BY <1>12, <3>1, <3>2
  <2> QED
    BY <1>8, <2>3, <2>4
<1>14. ASSUME goal \notin {NoGoal, a.nav_last_goal_key}
       PROVE  /\ Len(requests') > Len(requests)
              /\ requests'[Len(requests) + 1] = Selection(a, goal)
              /\ \A i \in Len(requests) + 2 .. Len(requests') : ~Selects(requests'[i])
  <2>1. Len(g) = 1 /\ g[1] = Selection(a, goal)
    BY <1>4, <1>14
  <2>2. Len(s) = Len(requests) + 1 /\ s[Len(requests) + 1] = Selection(a, goal)
    BY <1>8, <2>1
  <2>3. Len(requests') > Len(requests) /\ requests'[Len(requests) + 1] = Selection(a, goal)
    BY <1>8, <1>10, <2>2
  <2>4. ASSUME NEW i \in Len(requests) + 2 .. Len(requests')
        PROVE  ~Selects(requests'[i])
    <3>1. i - Len(s) \in 1 .. Len(h) /\ i = Len(s) + (i - Len(s))
      BY <1>8, <1>10, <2>2
    <3>2. requests'[i] = h[i - Len(s)]
      BY <1>10, <3>1
    <3> QED
      BY <1>12, <3>1, <3>2
  <2> QED
    BY <2>3, <2>4
<1> QED
  BY <1>11, <1>13, <1>14

-----------------------------------------------------------------------------
(* The runtime's state on its way to the authority. *)
LEMMA SendArrives ==
    ASSUME TopicsTyped, NEW s, Send(s)
    PROVE  published' = s /\ states' # <<>> /\ states'[Len(states')] = s
<1>1. states \in Seq(MissionStates)
  BY DEF TopicsTyped
<1>2. states' = <<s>> \/ states' = Append(states, s)
  BY DEF Send
<1>3. <<s>> # <<>> /\ <<s>>[Len(<<s>>)] = s
  OBVIOUS
<1>4. /\ Append(states, s) # <<>> /\ Append(states, s)[Len(Append(states, s))] = s
  BY <1>1
<1> QED
  BY <1>2, <1>3, <1>4 DEF Send

(* A handler publishes the state it leaves. *)
LEMMA PublishArrives ==
    ASSUME TopicsTyped, StatesArrive, PublishState, UNCHANGED auth
    PROVE  StatesArrive'
<1>1. CASE runtime'.state = published /\ UNCHANGED <<states, published>>
  BY <1>1 DEF StatesArrive
<1>2. CASE Send(runtime'.state)
  BY <1>2, SendArrives DEF StatesArrive
<1> QED
  BY <1>1, <1>2 DEF PublishState

(* Every step keeps the states in order, the last one published last. *)
LEMMA StatesStep ==
    ASSUME NavigationIInv, StatesArrive, [NavigationNext]_navVars
    PROVE  StatesArrive'
<1>0. /\ TopicsTyped /\ MissionIInv /\ AuthTyped /\ runtime \in Runtimes
      /\ states \in Seq(MissionStates)
  BY DEF NavigationIInv, MissionIInv, MissionTypeOK, TopicsTyped
<1>1. ASSUME UNCHANGED <<runtime, states, published>>,
             auth'.nav_motion_ok = auth.nav_motion_ok \/ auth'.nav_motion_ok = FALSE
      PROVE  StatesArrive'
  BY <1>1 DEF StatesArrive
<1>2. ASSUME NEW goal, NEW active, SupervisorInput(goal, active)
      PROVE  StatesArrive'
  <2>1. SyncNavigation(auth, goal, active) /\ UNCHANGED <<runtime, states, published>>
    BY <1>2 DEF SupervisorInput, missionVars
  <2>2. auth'.nav_motion_ok = auth.nav_motion_ok
    BY <1>0, <2>1 DEF SyncNavigation, AuthTyped
  <2> QED
    BY <1>1, <2>1, <2>2
<1>3. ASSUME NEW ready, OnMode(ready)
      PROVE  StatesArrive'
  <2> DEFINE a == [auth EXCEPT !.runtime_epoch = mode_state.epoch, !.map = mode_state.map,
                               !.ready = ready]
  <2>1. PICK goal, active : SyncNavigation(a, goal, active)
    BY <1>3 DEF OnMode
  <2>2. a.nav_motion_ok = auth.nav_motion_ok /\ "nav_motion_ok" \in DOMAIN a
    BY <1>0 DEF AuthTyped
  <2>3. UNCHANGED <<runtime, states, published>>
    BY <1>3 DEF OnMode, missionVars
  <2> HIDE DEF a
  <2>4. auth'.nav_motion_ok = auth.nav_motion_ok
    BY <2>1, <2>2 DEF SyncNavigation
  <2> QED
    BY <1>1, <2>3, <2>4
<1>4. CASE OnNavigationState
  <2>1. /\ states # <<>> /\ states' = Tail(states) /\ UNCHANGED <<runtime, published>>
        /\ auth'.nav_motion_ok <=> Head(states) = "ACTIVE"
    BY <1>0, <1>4 DEF OnNavigationState, missionVars, AuthTyped
  <2>2. states[Len(states)] = published
    BY <2>1 DEF StatesArrive
  <2>3. CASE Len(states) = 1
    <3>1. Tail(states) = <<>> /\ Head(states) = published
      BY <1>0, <2>1, <2>2, <2>3
    <3> QED
      BY <2>1, <3>1 DEF StatesArrive
  <2>4. CASE Len(states) # 1
    <3>1. Tail(states) # <<>> /\ Tail(states)[Len(Tail(states))] = published
      <4>1. Len(states) \in Nat /\ Len(states) > 1
        <5>1. Len(states) \in Nat /\ Len(states) # 0
          BY <1>0, <2>1, EmptySeq
        <5> QED
          BY <2>4, <5>1
      <4>2. /\ Tail(states) \in Seq(MissionStates) /\ Len(Tail(states)) = Len(states) - 1
            /\ \A i \in 1 .. Len(Tail(states)) : Tail(states)[i] = states[i + 1]
        BY <1>0, <2>1, HeadTailProperties
      <4>3. Len(Tail(states)) \in 1 .. Len(Tail(states)) /\ Len(Tail(states)) + 1 = Len(states)
        BY <4>1, <4>2
      <4>4. Tail(states)[Len(Tail(states))] = states[Len(states)]
        BY <4>2, <4>3
      <4>5. Tail(states) # <<>>
        BY <4>3
      <4> QED
        BY <2>2, <4>4, <4>5
    <3> QED
      BY <2>1, <3>1 DEF StatesArrive
  <2> QED
    BY <2>3, <2>4
<1>5. CASE NavigationStateExpires
  BY <1>0, <1>1, <1>5 DEF NavigationStateExpires, missionVars, AuthTyped
<1>6. CASE AuthorityRestart
  <2>1. states' = <<published>> /\ UNCHANGED <<runtime, published>>
    BY <1>6 DEF AuthorityRestart, missionVars
  <2>2. <<published>> # <<>> /\ <<published>>[Len(<<published>>)] = published
    OBVIOUS
  <2> QED
    BY <2>1, <2>2 DEF StatesArrive
<1>7. CASE \/ OnRequest \/ ModeStateReceived \/ OdometryReceived \/ GoalAnswered
           \/ ResultReceived \/ CancelAnswered \/ Tick
  <2>1. PublishState /\ UNCHANGED auth
    BY <1>7 DEF OnRequest, ModeStateReceived, OdometryReceived, GoalAnswered, ResultReceived,
       CancelAnswered, Tick, Handled
  <2> QED
    BY <1>0, <2>1, PublishArrives
<1>8. CASE FeedbackReceived
  <2>1. PICK generation \in 1 .. MaxEffort : Feedback(generation)
    BY <1>8 DEF FeedbackReceived
  <2>2. \/ runtime'.state = runtime.state
        \/ runtime.state = "DISPATCHING" /\ runtime'.state = "ACTIVE"
    BY <1>0, <2>1 DEF Feedback, OnFeedback, Runtimes
  <2>3. UNCHANGED <<auth, states, published>>
    BY <1>8 DEF FeedbackReceived
  <2> QED
    BY <2>2, <2>3 DEF StatesArrive
<1>9. CASE Heartbeat
  BY <1>0, <1>9, SendArrives DEF Heartbeat, missionVars, StatesArrive
<1>10. CASE StartUnit
  <2>1. Send("IDLE") /\ runtime'.state = "IDLE"
    BY <1>10 DEF StartUnit, UnitRestart, FreshRuntime
  <2> QED
    BY <1>0, <2>1, SendArrives DEF StatesArrive
<1>11. CASE Nav2Step \/ BeginTransition \/ \E map \in Maps : EndTransition(map)
  <2>1. UNCHANGED <<runtime, auth, states, published>>
    BY <1>11 DEF Nav2Step, Nav2Accept, Nav2Cancel, Nav2Finish, BeginTransition, EndTransition,
       missionVars
  <2> QED
    BY <1>1, <2>1
<1>12. CASE UNCHANGED navVars
  BY <1>1, <1>12 DEF navVars, missionVars
<1> QED
  BY <1>2, <1>3, <1>4, <1>5, <1>6, <1>7, <1>8, <1>9, <1>10, <1>11, <1>12 DEF NavigationNext

-----------------------------------------------------------------------------
(* A request: a selection, or one that keeps the mission. *)
LEMMA RequestStep ==
    ASSUME NavigationIInv, OnRequest
    PROVE  \/ Selects(Head(requests)) /\ OnSelect(Head(requests).mission)
           \/ ~Selects(Head(requests)) /\ Keeps(runtime, runtime')
<1>0. MissionIInv /\ TopicsTyped
  BY DEF NavigationIInv
<1> DEFINE q == Head(requests)
<1>1. q \in Requests
  BY <1>0 DEF OnRequest, TopicsTyped
<1>2. CASE q.operation = "SELECT"
  BY <1>2 DEF OnRequest, Selects
<1>3. CASE q.operation = "DISPATCH"
  <2>1. OnDispatch
    BY <1>3 DEF OnRequest
  <2> QED
    BY <1>0, <1>3, <2>1, HandlersKeep DEF Selects
<1>4. CASE q.operation = "CANCEL"
  <2>1. OnCancel
    BY <1>4 DEF OnRequest
  <2> QED
    BY <1>0, <1>4, <2>1, HandlersKeep DEF Selects
<1> QED
  BY <1>1, <1>2, <1>3, <1>4 DEF Requests

(* The authority but for nav_motion_ok. *)
AuthKept ==
    /\ auth'.process = auth.process /\ auth'.runtime_epoch = auth.runtime_epoch
    /\ auth'.map = auth.map /\ auth'.ready = auth.ready
    /\ auth'.mission_revision = auth.mission_revision
    /\ auth'.nav_last_goal_key = auth.nav_last_goal_key
    /\ auth'.nav_last_dispatch_active = auth.nav_last_dispatch_active

(* The steps, by what they change of mode, goal, requests and mission. *)
LEMMA StepKinds ==
    ASSUME NavigationIInv, [NavigationNext]_navVars
    PROVE  \/ \E goal, active : SupervisorInput(goal, active)
           \/ \E ready : OnMode(ready)
           \/ AuthorityRestart
           \/ OnRequest
           \/ StartUnit
           \/ BeginTransition
           \/ \E map : EndTransition(map)
           \/ /\ AuthKept /\ UNCHANGED <<mode_state, requests>>
              /\ Keeps(runtime, runtime') \/ ModeStateReceived
<1>0. MissionIInv /\ runtime \in Runtimes /\ AuthTyped
  BY DEF NavigationIInv, MissionIInv, MissionTypeOK
<1>1. UNCHANGED runtime => Keeps(runtime, runtime')
  BY <1>0, KeepsItself DEF Keeps
<1>2. UNCHANGED auth => AuthKept
  BY DEF AuthKept
<1>3. CASE OdometryReceived \/ GoalAnswered \/ ResultReceived \/ CancelAnswered \/ Tick
  <2>1. Keeps(runtime, runtime')
    BY <1>0, <1>3, HandlersKeep
    DEF OdometryReceived, GoalAnswered, ResultReceived, CancelAnswered, Tick
  <2> QED
    BY <1>2, <1>3, <2>1
    DEF OdometryReceived, GoalAnswered, ResultReceived, CancelAnswered, Tick, Handled
<1>4. CASE FeedbackReceived
  <2>1. PICK generation \in 1 .. MaxEffort : Feedback(generation)
    BY <1>4 DEF FeedbackReceived
  <2>2. generation \in Nat
    BY <2>1, NavigationConstants
  <2>3. Keeps(runtime, runtime')
    BY <1>0, <2>1, <2>2, HandlersKeep
  <2> QED
    BY <1>2, <1>4, <2>3 DEF FeedbackReceived
<1>5. CASE OnNavigationState \/ NavigationStateExpires
  <2>1. AuthKept
    BY <1>0, <1>5 DEF OnNavigationState, NavigationStateExpires, AuthTyped, AuthKept
  <2> QED
    BY <1>1, <1>5, <2>1 DEF OnNavigationState, NavigationStateExpires, missionVars
<1>6. CASE Heartbeat \/ Nav2Step \/ UNCHANGED navVars
  BY <1>1, <1>2, <1>6
     DEF Heartbeat, Nav2Step, Nav2Accept, Nav2Cancel, Nav2Finish, navVars, missionVars
<1>7. CASE ModeStateReceived
  BY <1>2, <1>7 DEF ModeStateReceived, Handled
<1> QED
  BY <1>3, <1>4, <1>5, <1>6, <1>7 DEF NavigationNext

(* The fields of the authority after _sync_navigation. *)
LEMMA SyncFields ==
    ASSUME NEW a, NEW goal, NEW active, SyncNavigation(a, goal, active),
           DOMAIN a = {"process", "runtime_epoch", "map", "ready", "mission_revision",
                       "nav_last_goal_key", "nav_last_dispatch_active", "nav_motion_ok"}
    PROVE  /\ auth'.process = a.process /\ auth'.runtime_epoch = a.runtime_epoch
           /\ auth'.map = a.map /\ auth'.ready = a.ready
           /\ auth'.nav_last_goal_key = goal /\ auth'.nav_last_dispatch_active = active
           /\ auth'.mission_revision = IF goal \notin {NoGoal, a.nav_last_goal_key}
                                       THEN a.mission_revision + 1 ELSE a.mission_revision
<1>1. PICK revision : revision = IF goal \notin {NoGoal, a.nav_last_goal_key}
                                 THEN a.mission_revision + 1 ELSE a.mission_revision
  OBVIOUS
<1>2. auth' = [a EXCEPT !.mission_revision = revision, !.nav_last_goal_key = goal,
                        !.nav_last_dispatch_active = active]
  BY <1>1 DEF SyncNavigation
<1> QED
  BY <1>1, <1>2

(* The inputs of the supervisor, as steps of the authority. *)
LEMMA InputFields ==
    ASSUME NavigationIInv, NEW goal, NEW active, SupervisorInput(goal, active)
    PROVE  /\ UNCHANGED <<runtime, mode_state>> /\ SyncNavigation(auth, goal, active)
           /\ goal # NoGoal => auth.ready /\ goal.map = auth.map
           /\ active => goal # NoGoal
           /\ auth'.process = auth.process /\ auth'.runtime_epoch = auth.runtime_epoch
           /\ auth'.map = auth.map /\ auth'.ready = auth.ready
           /\ auth'.nav_last_goal_key = goal /\ auth'.nav_last_dispatch_active = active
           /\ auth'.mission_revision = IF goal \notin {NoGoal, auth.nav_last_goal_key}
                                       THEN auth.mission_revision + 1 ELSE auth.mission_revision
<1>1. /\ UNCHANGED <<runtime, mode_state>> /\ SyncNavigation(auth, goal, active)
      /\ goal # NoGoal => auth.ready /\ goal.map = auth.map
      /\ active => goal # NoGoal
  BY DEF SupervisorInput, missionVars
<1>2. DOMAIN auth = {"process", "runtime_epoch", "map", "ready", "mission_revision",
                     "nav_last_goal_key", "nav_last_dispatch_active", "nav_motion_ok"}
  BY DEF NavigationIInv, AuthTyped
<1> QED
  BY <1>1, <1>2, SyncFields

(* The authority after a ModeState: the goal it had, or none. *)
LEMMA ModeFields ==
    ASSUME NavigationIInv, NEW ready, OnMode(ready)
    PROVE  /\ UNCHANGED <<runtime, mode_state>> /\ (ready => mode_state.stable)
           /\ auth'.process = auth.process /\ auth'.runtime_epoch = mode_state.epoch
           /\ auth'.map = mode_state.map /\ auth'.ready = ready
           /\ auth'.mission_revision = auth.mission_revision
           /\ \/ auth'.nav_last_goal_key = NoGoal /\ auth'.nav_last_dispatch_active = FALSE
              \/ /\ ready /\ auth.ready /\ mode_state.map = auth.map
                 /\ auth'.nav_last_goal_key = auth.nav_last_goal_key
                 /\ auth'.nav_last_dispatch_active => auth.nav_last_dispatch_active
           /\ \E a, active : /\ SyncNavigation(a, auth'.nav_last_goal_key, active)
                             /\ a.nav_last_goal_key = auth.nav_last_goal_key
<1> DEFINE changed == ~ready \/ ~auth.ready \/ mode_state.map # auth.map
           a == [auth EXCEPT !.runtime_epoch = mode_state.epoch, !.map = mode_state.map,
                             !.ready = ready]
           goal == IF changed THEN NoGoal ELSE auth.nav_last_goal_key
<1>1. PICK active \in BOOLEAN : active = (auth.nav_last_dispatch_active /\ ~changed)
  OBVIOUS
<1>2. /\ UNCHANGED <<runtime, mode_state>> /\ (ready => mode_state.stable)
      /\ SyncNavigation(a, goal, active)
  BY <1>1 DEF OnMode, missionVars
<1>3. /\ DOMAIN a = {"process", "runtime_epoch", "map", "ready", "mission_revision",
                     "nav_last_goal_key", "nav_last_dispatch_active", "nav_motion_ok"}
      /\ a.process = auth.process /\ a.runtime_epoch = mode_state.epoch
      /\ a.map = mode_state.map /\ a.ready = ready
      /\ a.mission_revision = auth.mission_revision
      /\ a.nav_last_goal_key = auth.nav_last_goal_key
  BY DEF NavigationIInv, AuthTyped
<1> HIDE DEF a
<1>4. /\ auth'.process = a.process /\ auth'.runtime_epoch = a.runtime_epoch
      /\ auth'.map = a.map /\ auth'.ready = a.ready
      /\ auth'.nav_last_goal_key = goal /\ auth'.nav_last_dispatch_active = active
      /\ auth'.mission_revision = IF goal \notin {NoGoal, a.nav_last_goal_key}
                                  THEN a.mission_revision + 1 ELSE a.mission_revision
  BY <1>2, <1>3, SyncFields
<1>5. goal \in {NoGoal, a.nav_last_goal_key}
  BY <1>3
<1>6. CASE changed
  BY <1>1, <1>2, <1>3, <1>4, <1>5, <1>6
<1>7. CASE ~changed
  BY <1>1, <1>2, <1>3, <1>4, <1>5, <1>7
<1> QED
  BY <1>6, <1>7

-----------------------------------------------------------------------------
(* The mode and the goal. *)
LEMMA ModeReceived ==
    ASSUME NavigationIInv, ModeStateReceived
    PROVE  /\ UNCHANGED <<mode_state, auth, requests>>
           /\ runtime'.autonomy_ok = mode_state.stable
           /\ mode_state.stable =>
                runtime'.key = [epoch |-> mode_state.epoch, map |-> mode_state.map]
           /\ runtime'.max_revision = runtime.max_revision
           /\ runtime'.mission \in {runtime.mission, NoMission}
<1>1. /\ UNCHANGED <<mode_state, auth, requests>> /\ MissionIInv
      /\ mode_state.stable \in BOOLEAN
      /\ OnModeState([epoch |-> mode_state.epoch, map |-> mode_state.map], mode_state.stable)
  BY DEF ModeStateReceived, Handled, NavigationIInv, ModeTyped
<1> QED
  BY <1>1, ObserveBinds

(* Every step keeps runtime, authority and goal in the present epoch. *)
LEMMA ModeStep ==
    ASSUME NavigationIInv, ModeIsPresent, GoalIsReady, [NavigationNext]_navVars
    PROVE  ModeIsPresent' /\ GoalIsReady'
<1>0. MissionIInv /\ ModeTyped /\ AuthTyped
  BY DEF NavigationIInv
<1>1. ASSUME NEW goal, NEW active, SupervisorInput(goal, active)
      PROVE  ModeIsPresent' /\ GoalIsReady'
  BY <1>1, InputFields DEF ModeIsPresent, GoalIsReady, SameUnit
<1>2. ASSUME NEW ready, OnMode(ready)
      PROVE  ModeIsPresent' /\ GoalIsReady'
  BY <1>2, ModeFields DEF ModeIsPresent, GoalIsReady, SameUnit
<1>3. CASE AuthorityRestart
  <2>1. /\ UNCHANGED <<runtime, mode_state>> /\ auth'.ready = FALSE
        /\ auth'.process = auth.process + 1
        /\ auth'.nav_last_goal_key = NoGoal /\ auth'.nav_last_dispatch_active = FALSE
    BY <1>3 DEF AuthorityRestart, FreshAuthority, missionVars
  <2>2. auth'.process > 0
    BY <1>0, <2>1 DEF AuthTyped
  <2> QED
    BY <2>1, <2>2 DEF ModeIsPresent, GoalIsReady, SameUnit
<1>4. CASE OnRequest
  <2>1. UNCHANGED <<mode_state, auth>>
    BY <1>4 DEF OnRequest
  <2>2. runtime'.key = runtime.key /\ runtime'.autonomy_ok = runtime.autonomy_ok
    BY <1>0, <1>4, RequestStep, SelectBinds DEF Keeps
  <2> QED
    BY <2>1, <2>2 DEF ModeIsPresent, GoalIsReady, SameUnit
<1>5. CASE StartUnit
  <2>1. runtime'.autonomy_ok = FALSE /\ ~auth.ready /\ UNCHANGED auth
    BY <1>5 DEF StartUnit, UnitRestart, FreshRuntime
  <2> QED
    BY <2>1 DEF ModeIsPresent, GoalIsReady
<1>6. CASE BeginTransition
  <2>1. /\ UNCHANGED <<runtime, auth>> /\ mode_state'.started = FALSE
        /\ mode_state'.epoch = mode_state.epoch /\ mode_state'.map = mode_state.map
    BY <1>0, <1>6 DEF BeginTransition, missionVars, ModeTyped
  <2> QED
    BY <2>1 DEF ModeIsPresent, GoalIsReady, SameUnit
<1>7. ASSUME NEW map, EndTransition(map)
      PROVE  ModeIsPresent' /\ GoalIsReady'
  <2>1. UNCHANGED <<runtime, auth>> /\ ~SameUnit
    BY <1>7 DEF EndTransition, missionVars, SameUnit
  <2> QED
    BY <2>1 DEF ModeIsPresent, GoalIsReady
<1>8. ASSUME AuthKept, UNCHANGED mode_state, Keeps(runtime, runtime')
      PROVE  ModeIsPresent' /\ GoalIsReady'
  BY <1>8 DEF AuthKept, Keeps, ModeIsPresent, GoalIsReady, SameUnit
<1>9. CASE ModeStateReceived
  BY <1>9, ModeReceived DEF ModeIsPresent, GoalIsReady, SameUnit
<1> QED
  BY <1>1, <1>2, <1>3, <1>4, <1>5, <1>6, <1>7, <1>8, <1>9, StepKinds

-----------------------------------------------------------------------------
(* Selections on their way. *)
Orders == SelectsInOrder /\ LastSelectIsGoal

(* Requests without a selection are sent. *)
LEMMA NoneSent ==
    ASSUME Orders, Len(requests) \in Nat, Len(requests') \in Nat,
           Len(requests') >= Len(requests),
           \A i \in 1 .. Len(requests) : requests'[i] = requests[i],
           \A i \in Len(requests) + 1 .. Len(requests') : ~Selects(requests'[i]),
           UNCHANGED <<runtime, mode_state>>, auth'.mission_revision = auth.mission_revision,
           auth'.nav_last_goal_key \in {NoGoal, auth.nav_last_goal_key}
    PROVE  Orders'
<1>1. \A i \in 1 .. Len(requests') : Selects(requests'[i]) =>
         i \in 1 .. Len(requests) /\ requests'[i] = requests[i]
  OBVIOUS
<1>2. \A i \in 1 .. Len(requests) : i \in 1 .. Len(requests') /\ requests'[i] = requests[i]
  OBVIOUS
<1>3. SelectsInOrder'
  BY <1>1 DEF Orders, SelectsInOrder, SameUnit
<1>4. LastSelectIsGoal'
  <2>1. SUFFICES ASSUME auth'.nav_last_goal_key # NoGoal PROVE LastSelectIsGoal'
    BY DEF LastSelectIsGoal
  <2>2. auth'.nav_last_goal_key = auth.nav_last_goal_key /\ auth.nav_last_goal_key # NoGoal
    BY <2>1
  <2>3. ASSUME NEW i \in 1 .. Len(requests'), Selects(requests'[i]),
               \A j \in i + 1 .. Len(requests') : ~Selects(requests'[j])
        PROVE  OfGoal(requests'[i].mission, auth'.nav_last_goal_key)
    <3>1. i \in 1 .. Len(requests) /\ requests'[i] = requests[i]
      BY <1>1, <2>3
    <3>2. \A j \in i + 1 .. Len(requests) :
             j \in i + 1 .. Len(requests') /\ requests'[j] = requests[j]
      BY <3>1
    <3>3. \A j \in i + 1 .. Len(requests) : ~Selects(requests[j])
      BY <2>3, <3>2
    <3> QED
      BY <2>2, <2>3, <3>1, <3>3 DEF Orders, LastSelectIsGoal
  <2>4. ASSUME \A i \in 1 .. Len(requests') : ~Selects(requests'[i])
        PROVE  runtime.mission = NoMission \/ OfGoal(runtime.mission, auth'.nav_last_goal_key)
    <3>1. \A i \in 1 .. Len(requests) : ~Selects(requests[i])
      BY <1>2, <2>4
    <3> QED
      BY <2>2, <3>1 DEF Orders, LastSelectIsGoal
  <2> QED
    BY <2>3, <2>4 DEF LastSelectIsGoal
<1> QED
  BY <1>3, <1>4 DEF Orders

(* A selection is sent, the newest, of the goal. *)
LEMMA OneSent ==
    ASSUME Orders, NavigationIInv, ModeIsPresent, NEW goal, NEW active,
           SupervisorInput(goal, active), goal \notin {NoGoal, auth.nav_last_goal_key}
    PROVE  Orders'
<1>1. /\ UNCHANGED <<runtime, mode_state>> /\ auth.ready /\ goal.map = auth.map
      /\ auth'.nav_last_goal_key = goal /\ auth'.mission_revision = auth.mission_revision + 1
      /\ SyncNavigation(auth, goal, active)
  BY InputFields
<1>2. /\ requests \in Seq(Requests) /\ auth.mission_revision \in Nat
      /\ runtime.max_revision \in Nat /\ Len(requests) \in Nat
  BY DEF NavigationIInv, TopicsTyped, AuthTyped, MissionIInv, MissionTypeOK, Runtimes
<1> DEFINE n == Len(requests)
           m == Selection(auth, goal).mission
<1>3. /\ \A i \in 1 .. n : requests'[i] = requests[i]
      /\ Len(requests') \in Nat /\ Len(requests') > n
      /\ requests'[n + 1] = Selection(auth, goal)
      /\ \A i \in n + 2 .. Len(requests') : ~Selects(requests'[i])
  BY <1>1, <1>2, SyncSends
<1>4. /\ Selects(Selection(auth, goal)) /\ m.revision = auth.mission_revision + 1
      /\ m.epoch = auth.runtime_epoch /\ m.map = goal.map /\ m.pose = goal.pose
  BY DEF Selection, Selects
<1>5. /\ SameUnit /\ m.epoch = mode_state.epoch /\ m.map = mode_state.map
  BY <1>1, <1>4 DEF ModeIsPresent
<1>6. requests'[n + 1].mission = m
  BY <1>3
<1> HIDE DEF m
<1>7. \A i \in 1 .. Len(requests') : Selects(requests'[i]) =>
         \/ i \in 1 .. n /\ requests'[i] = requests[i]
         \/ i = n + 1 /\ requests'[i].mission = m
  BY <1>2, <1>3, <1>6
<1>8. \A i \in 1 .. n : Selects(requests[i]) =>
         requests[i].mission.revision <= auth.mission_revision
  BY DEF Orders, SelectsInOrder
<1>9. \A i \in 1 .. n : Selects(requests[i]) => requests[i].mission.revision \in Nat
  <2>1. \A i \in 1 .. n : requests[i] \in Requests
    BY <1>2
  <2> QED
    BY <2>1 DEF Requests, Selects, Missions
<1>10. SameUnit'
  BY <1>1, <1>5 DEF SameUnit
<1>11. runtime.max_revision <= auth.mission_revision
  BY DEF Orders, SelectsInOrder
<1>12. ASSUME NEW i \in 1 .. Len(requests'), Selects(requests'[i])
       PROVE  /\ requests'[i].mission.epoch = mode_state.epoch
              /\ requests'[i].mission.map = mode_state.map
              /\ runtime.max_revision < requests'[i].mission.revision
              /\ requests'[i].mission.revision <= auth.mission_revision + 1
  <2>1. CASE i \in 1 .. n /\ requests'[i] = requests[i]
    <3>1. /\ requests[i].mission.epoch = mode_state.epoch
          /\ requests[i].mission.map = mode_state.map
          /\ runtime.max_revision < requests[i].mission.revision
      BY <1>12, <2>1 DEF Orders, SelectsInOrder
    <3>2. requests[i].mission.revision <= auth.mission_revision + 1
      BY <1>2, <1>8, <1>9, <1>12, <2>1
    <3> QED
      BY <2>1, <3>1, <3>2
  <2>2. CASE i = n + 1 /\ requests'[i].mission = m
    BY <1>2, <1>4, <1>5, <1>11, <2>2
  <2> QED
    BY <1>7, <1>12, <2>1, <2>2
<1>13. ASSUME NEW i \in 1 .. Len(requests'), NEW j \in 1 .. Len(requests'),
              i < j, Selects(requests'[i]), Selects(requests'[j])
       PROVE  requests'[i].mission.revision < requests'[j].mission.revision
  <2>1. CASE j \in 1 .. n /\ requests'[j] = requests[j]
    <3>1. i \in 1 .. n /\ requests'[i] = requests[i]
      BY <1>2, <1>3, <1>13, <2>1
    <3> QED
      BY <1>13, <2>1, <3>1 DEF Orders, SelectsInOrder
  <2>2. CASE j = n + 1 /\ requests'[j].mission = m
    <3>1. i \in 1 .. n /\ requests'[i] = requests[i]
      BY <1>2, <1>3, <1>13, <2>2
    <3> QED
      BY <1>2, <1>4, <1>8, <1>9, <1>13, <2>2, <3>1
  <2> QED
    BY <1>7, <1>13, <2>1, <2>2
<1>14. SelectsInOrder'
  <2>1. runtime.max_revision <= auth.mission_revision + 1
    BY <1>2, <1>11
  <2> QED
    BY <1>1, <1>10, <1>12, <1>13, <2>1 DEF SelectsInOrder
<1>15. LastSelectIsGoal'
  <2>1. ASSUME NEW i \in 1 .. Len(requests'), Selects(requests'[i]),
               \A j \in i + 1 .. Len(requests') : ~Selects(requests'[j])
        PROVE  OfGoal(requests'[i].mission, goal)
    <3>1. ~(i \in 1 .. n)
      <4>1. Selects(requests'[n + 1]) /\ n + 1 \in 1 .. Len(requests')
        BY <1>2, <1>3, <1>4
      <4>2. i \in 1 .. n => n + 1 \in i + 1 .. Len(requests')
        BY <1>2, <1>3
      <4> QED
        BY <2>1, <4>1, <4>2
    <3>2. requests'[i].mission = m
      BY <1>7, <2>1, <3>1
    <3> QED
      BY <1>4, <3>2 DEF OfGoal
  <2>2. n + 1 \in 1 .. Len(requests') /\ Selects(requests'[n + 1])
    BY <1>2, <1>3, <1>4
  <2> QED
    BY <1>1, <2>1, <2>2 DEF LastSelectIsGoal
<1> QED
  BY <1>14, <1>15 DEF Orders

(* A request is handled: a selection is accepted as long as the runtime    *)
(* sees AUTONOMY, and has no mission to displace otherwise.                *)
LEMMA RequestOrders ==
    ASSUME Orders, NavigationIInv, ModeIsPresent, OnRequest
    PROVE  Orders'
<1> DEFINE n == Len(requests)
           q == Head(requests)
           t == Tail(requests)
           goal == auth.nav_last_goal_key
<1>0. /\ requests # <<>> /\ requests' = t /\ UNCHANGED <<mode_state, auth>>
      /\ requests \in Seq(Requests) /\ MissionIInv /\ auth.mission_revision \in Nat
      /\ runtime \in Runtimes /\ MissionBound(runtime)
  BY DEF OnRequest, NavigationIInv, TopicsTyped, AuthTyped, MissionIInv, MissionTypeOK,
     MissionGood
<1>1. n \in Nat /\ n # 0
  BY <1>0, EmptySeq
<1>2. /\ Len(t) = n - 1
      /\ \A i \in 1 .. Len(t) : t[i] = requests[i + 1]
  BY <1>0, HeadTailProperties
<1>3. q = requests[1]
  BY <1>0
<1>4. \A i \in 1 .. Len(t) : i + 1 \in 1 .. n /\ 1 < i + 1
  BY <1>1, <1>2
<1>5. 1 \in 1 .. n
  BY <1>1
<1> HIDE DEF n, q, t
<1>6. \A i \in 1 .. Len(t) : Selects(t[i]) =>
         /\ SameUnit /\ t[i].mission.epoch = mode_state.epoch
         /\ t[i].mission.map = mode_state.map
         /\ runtime.max_revision < t[i].mission.revision
         /\ t[i].mission.revision <= auth.mission_revision
  <2>1. \A i \in 1 .. n : Selects(requests[i]) =>
         /\ SameUnit /\ requests[i].mission.epoch = mode_state.epoch
         /\ requests[i].mission.map = mode_state.map
         /\ runtime.max_revision < requests[i].mission.revision
         /\ requests[i].mission.revision <= auth.mission_revision
    BY DEF Orders, SelectsInOrder, n
  <2> QED
    BY <1>2, <1>4, <2>1
<1>7. \A i, j \in 1 .. Len(t) : i < j /\ Selects(t[i]) /\ Selects(t[j]) =>
         t[i].mission.revision < t[j].mission.revision
  <2>1. SUFFICES ASSUME NEW i \in 1 .. Len(t), NEW j \in 1 .. Len(t), i < j,
                        Selects(t[i]), Selects(t[j])
                 PROVE  t[i].mission.revision < t[j].mission.revision
    OBVIOUS
  <2>2. i + 1 < j + 1
    BY <1>1, <1>2, <2>1
  <2> QED
    BY <1>2, <1>4, <2>1, <2>2 DEF Orders, SelectsInOrder, n
<1>8. Selects(q) => /\ SameUnit /\ q.mission.epoch = mode_state.epoch
                    /\ q.mission.map = mode_state.map
                    /\ runtime.max_revision < q.mission.revision
                    /\ q.mission.revision <= auth.mission_revision
                    /\ \A i \in 1 .. Len(t) : Selects(t[i]) =>
                         q.mission.revision < t[i].mission.revision
  <2>1. SUFFICES ASSUME Selects(q)
                 PROVE  /\ SameUnit /\ q.mission.epoch = mode_state.epoch
                        /\ q.mission.map = mode_state.map
                        /\ runtime.max_revision < q.mission.revision
                        /\ q.mission.revision <= auth.mission_revision
                        /\ \A i \in 1 .. Len(t) : Selects(t[i]) =>
                             q.mission.revision < t[i].mission.revision
    OBVIOUS
  <2>2. /\ SameUnit /\ q.mission.epoch = mode_state.epoch
        /\ q.mission.map = mode_state.map
        /\ runtime.max_revision < q.mission.revision
        /\ q.mission.revision <= auth.mission_revision
    BY <1>3, <1>5, <2>1 DEF Orders, SelectsInOrder, n
  <2>3. ASSUME NEW i \in 1 .. Len(t), Selects(t[i])
        PROVE  q.mission.revision < t[i].mission.revision
    BY <1>2, <1>3, <1>4, <1>5, <2>1, <2>3 DEF Orders, SelectsInOrder, n
  <2> QED
    BY <2>2, <2>3
<1>9. /\ runtime'.max_revision <= auth.mission_revision
      /\ \A i \in 1 .. Len(t) : Selects(t[i]) => runtime'.max_revision < t[i].mission.revision
      /\ Selects(q) => runtime'.mission \in {q.mission, NoMission}
      /\ ~Selects(q) => runtime'.mission = runtime.mission
  <2>1. runtime.max_revision <= auth.mission_revision
    BY DEF Orders, SelectsInOrder
  <2>2. CASE ~Selects(q)
    <3>1. Keeps(runtime, runtime')
      BY <2>2, RequestStep DEF q
    <3> QED
      BY <1>6, <2>1, <2>2, <3>1 DEF Keeps
  <2>3. CASE Selects(q)
    <3>1. OnSelect(q.mission)
      BY <2>3, RequestStep DEF q
    <3>2. CASE runtime.autonomy_ok
      <4>1. /\ runtime.key.epoch = mode_state.epoch /\ runtime.key.map = mode_state.map
        BY <3>2 DEF ModeIsPresent
      <4>2. q \in Requests /\ runtime.max_revision \in Nat
        BY <1>0, HeadTailProperties DEF q, Runtimes
      <4>3. q.mission.revision \in Nat
        BY <2>3, <4>2 DEF Requests, Selects, Missions
      <4>4. SelectAccepted(runtime, q.mission)
        BY <1>8, <2>3, <3>2, <4>1, <4>2, <4>3 DEF SelectAccepted
      <4>5. runtime'.mission = q.mission /\ runtime'.max_revision = q.mission.revision
        BY <1>0, <3>1, <4>4, SelectBinds
      <4> QED
        BY <1>8, <2>3, <4>5
    <3>3. CASE ~runtime.autonomy_ok
      <4>1. Keeps(runtime, runtime')
        BY <1>0, <3>1, <3>3, SelectBinds DEF SelectAccepted
      <4>2. runtime.mission = NoMission
        BY <1>0, <3>3 DEF MissionBound
      <4> QED
        BY <1>6, <2>1, <2>3, <4>1, <4>2 DEF Keeps
    <3> QED
      BY <3>2, <3>3
  <2> QED
    BY <2>2, <2>3
<1>10. SelectsInOrder'
  BY <1>0, <1>6, <1>7, <1>9 DEF SelectsInOrder, SameUnit
<1>11. LastSelectIsGoal'
  <2>1. SUFFICES ASSUME goal # NoGoal PROVE LastSelectIsGoal'
    BY <1>0 DEF LastSelectIsGoal
  <2>2. ASSUME NEW i \in 1 .. Len(t), Selects(t[i]), \A j \in i + 1 .. Len(t) : ~Selects(t[j])
        PROVE  OfGoal(t[i].mission, goal)
    <3>1. ASSUME NEW j \in (i + 1) + 1 .. n
          PROVE  ~Selects(requests[j])
      <4>1. j - 1 \in i + 1 .. Len(t) /\ (j - 1) + 1 = j /\ j - 1 \in 1 .. Len(t)
        BY <1>1, <1>2
      <4> QED
        BY <1>2, <2>2, <4>1
    <3>2. t[i] = requests[i + 1] /\ i + 1 \in 1 .. n
      BY <1>2, <1>4
    <3> QED
      BY <2>1, <2>2, <3>1, <3>2 DEF Orders, LastSelectIsGoal, n
  <2>3. ASSUME \A i \in 1 .. Len(t) : ~Selects(t[i])
        PROVE  runtime'.mission = NoMission \/ OfGoal(runtime'.mission, goal)
    <3>1. ASSUME NEW j \in 2 .. n
          PROVE  ~Selects(requests[j])
      <4>1. (j - 1) + 1 = j /\ j - 1 \in 1 .. Len(t)
        BY <1>1, <1>2
      <4> QED
        BY <1>2, <2>3, <4>1
    <3>2. CASE Selects(q)
      <4>1. \A j \in 1 + 1 .. n : ~Selects(requests[j])
        BY <3>1
      <4>2. OfGoal(q.mission, goal)
        BY <1>3, <1>5, <2>1, <3>2, <4>1 DEF Orders, LastSelectIsGoal, n
      <4> QED
        BY <1>9, <3>2, <4>2
    <3>3. CASE ~Selects(q)
      <4>1. \A j \in 1 .. n : ~Selects(requests[j])
        <5>1. \A j \in 1 .. n : j = 1 \/ j \in 2 .. n
          BY <1>1
        <5> QED
          BY <1>3, <3>1, <3>3, <5>1
      <4>2. runtime.mission = NoMission \/ OfGoal(runtime.mission, goal)
        BY <2>1, <4>1 DEF Orders, LastSelectIsGoal, n
      <4> QED
        BY <1>9, <3>3, <4>2
    <3> QED
      BY <3>2, <3>3
  <2> QED
    BY <1>0, <2>2, <2>3 DEF LastSelectIsGoal
<1> QED
  BY <1>10, <1>11 DEF Orders

(* Every step of the first authority process keeps selections in order. *)
LEMMA OrdersStep ==
    ASSUME Orders, NavigationIInv, ModeIsPresent, GoalIsReady, [NavigationNext]_navVars,
           auth.process = 1, auth'.process = 1
    PROVE  Orders'
<1>0. requests \in Seq(Requests)
  BY DEF NavigationIInv, TopicsTyped
<1>1. ASSUME NEW goal, NEW active, SupervisorInput(goal, active)
      PROVE  Orders'
  <2>1. CASE goal \notin {NoGoal, auth.nav_last_goal_key}
    BY <1>1, <2>1, OneSent
  <2>2. CASE goal \in {NoGoal, auth.nav_last_goal_key}
    <3>1. /\ UNCHANGED <<runtime, mode_state>> /\ auth'.nav_last_goal_key = goal
          /\ auth'.mission_revision = auth.mission_revision
          /\ SyncNavigation(auth, goal, active)
      BY <1>1, <2>2, InputFields
    <3> QED
      BY <1>0, <2>2, <3>1, SyncSends, NoneSent
  <2> QED
    BY <2>1, <2>2
<1>2. ASSUME NEW ready, OnMode(ready)
      PROVE  Orders'
  <2>1. /\ UNCHANGED <<runtime, mode_state>> /\ auth'.mission_revision = auth.mission_revision
        /\ auth'.nav_last_goal_key \in {NoGoal, auth.nav_last_goal_key}
        /\ \E a, active : /\ SyncNavigation(a, auth'.nav_last_goal_key, active)
                          /\ a.nav_last_goal_key = auth.nav_last_goal_key
    BY <1>2, ModeFields
  <2> DEFINE goal == auth'.nav_last_goal_key
  <2>2. PICK a, active : /\ SyncNavigation(a, goal, active)
                         /\ a.nav_last_goal_key = auth.nav_last_goal_key
    BY <2>1
  <2>3. goal \in {NoGoal, a.nav_last_goal_key}
    BY <2>1, <2>2
  <2>4. /\ \A i \in 1 .. Len(requests) : requests'[i] = requests[i]
        /\ Len(requests') \in Nat /\ Len(requests) \in Nat /\ Len(requests') >= Len(requests)
        /\ \A i \in Len(requests) + 1 .. Len(requests') : ~Selects(requests'[i])
    <3> HIDE DEF goal
    <3> QED
      BY <1>0, <2>2, <2>3, SyncSends
  <2> QED
    BY <2>1, <2>4, NoneSent
<1>3. ~AuthorityRestart
  BY DEF AuthorityRestart, FreshAuthority
<1>4. CASE OnRequest
  BY <1>4, RequestOrders
<1>5. CASE StartUnit
  <2>1. /\ requests' = <<>> /\ runtime'.max_revision = 0 /\ runtime'.mission = NoMission
        /\ UNCHANGED auth
    BY <1>5 DEF StartUnit, UnitRestart, FreshRuntime
  <2>2. Len(requests') = 0 /\ auth.mission_revision \in Nat
    BY <2>1 DEF NavigationIInv, AuthTyped
  <2> QED
    BY <2>1, <2>2 DEF Orders, SelectsInOrder, LastSelectIsGoal
<1>6. CASE BeginTransition
  <2>1. /\ UNCHANGED <<runtime, auth, requests>> /\ mode_state'.started = FALSE
        /\ mode_state'.epoch = mode_state.epoch /\ mode_state'.map = mode_state.map
    BY <1>6 DEF BeginTransition, missionVars, NavigationIInv, ModeTyped
  <2> QED
    BY <2>1 DEF Orders, SelectsInOrder, LastSelectIsGoal, SameUnit
<1>7. ASSUME NEW map, EndTransition(map)
      PROVE  Orders'
  <2>1. UNCHANGED <<runtime, auth, requests>> /\ ~SameUnit
    BY <1>7 DEF EndTransition, missionVars, SameUnit
  <2>2. \A i \in 1 .. Len(requests) : ~Selects(requests[i])
    BY <2>1 DEF Orders, SelectsInOrder
  <2> QED
    BY <2>1, <2>2 DEF Orders, SelectsInOrder, LastSelectIsGoal
<1>8. ASSUME AuthKept, UNCHANGED <<mode_state, requests>>,
             runtime'.max_revision = runtime.max_revision,
             runtime'.mission \in {runtime.mission, NoMission}
      PROVE  Orders'
  <2>1. SelectsInOrder'
    BY <1>8 DEF AuthKept, Orders, SelectsInOrder, SameUnit
  <2>2. LastSelectIsGoal'
    BY <1>8 DEF AuthKept, Orders, LastSelectIsGoal
  <2> QED
    BY <2>1, <2>2 DEF Orders
<1>9. CASE AuthKept /\ UNCHANGED <<mode_state, requests>> /\ Keeps(runtime, runtime')
  BY <1>8, <1>9 DEF Keeps
<1>10. CASE AuthKept /\ UNCHANGED <<mode_state, requests>> /\ ModeStateReceived
  BY <1>8, <1>10, ModeReceived
<1> QED
  BY <1>1, <1>2, <1>3, <1>4, <1>5, <1>6, <1>7, <1>9, <1>10, StepKinds

-----------------------------------------------------------------------------
(* No process comes back. *)
LEMMA ProcessStep ==
    ASSUME NavigationIInv, GoalIsReady, [NavigationNext]_navVars, auth'.process = 1
    PROVE  auth.process = 1
<1>1. auth.process \in Nat /\ auth.process > 0
  BY DEF NavigationIInv, AuthTyped, GoalIsReady
<1>2. auth'.process \in {auth.process, auth.process + 1}
  <2>1. AuthorityRestart => auth'.process = auth.process + 1
    BY DEF AuthorityRestart, FreshAuthority
  <2>2. OnRequest \/ StartUnit \/ BeginTransition \/ (\E map : EndTransition(map)) =>
           auth' = auth
    BY DEF OnRequest, StartUnit, BeginTransition, EndTransition
  <2> QED
    BY <2>1, <2>2, StepKinds, InputFields, ModeFields DEF AuthKept
<1> QED
  BY <1>1, <1>2

(* The invariant of the intent: what the authority last selected is on its *)
(* way, or bound, or the runtime is not in AUTONOMY at all                 *)
(* (_sync_navigation, select, observe_runtime).                            *)
THEOREM IntentInductive ==
    NavigationSpec => []IntentIInv
<1>1. NavigationInit => IntentIInv
  <2> SUFFICES ASSUME NavigationInit PROVE IntentIInv
    OBVIOUS
  <2>1. /\ runtime = FreshRuntime /\ requests = <<>> /\ states = <<"IDLE">>
        /\ published = "IDLE" /\ auth = FreshAuthority(1)
    BY DEF NavigationInit, MissionInit
  <2>2. Len(requests) = 0 /\ states # <<>> /\ states[Len(states)] = published
    BY <2>1
  <2>3. /\ runtime.state = "IDLE" /\ runtime.autonomy_ok = FALSE /\ runtime.max_revision = 0
    BY <2>1 DEF FreshRuntime
  <2>4. /\ auth.process = 1 /\ auth.ready = FALSE /\ auth.nav_last_goal_key = NoGoal
        /\ auth.nav_last_dispatch_active = FALSE /\ auth.mission_revision = 0
    BY <2>1 DEF FreshAuthority
  <2>5. StatesArrive
    BY <2>1, <2>2, <2>3 DEF StatesArrive
  <2>6. ModeIsPresent /\ GoalIsReady
    BY <2>3, <2>4 DEF ModeIsPresent, GoalIsReady
  <2>7. SelectsInOrder /\ LastSelectIsGoal
    BY <2>2, <2>3, <2>4 DEF SelectsInOrder, LastSelectIsGoal
  <2> QED
    BY <2>5, <2>6, <2>7 DEF IntentIInv
<1>2. NavigationIInv /\ IntentIInv /\ [NavigationNext]_navVars => IntentIInv'
  <2> SUFFICES ASSUME NavigationIInv, IntentIInv, [NavigationNext]_navVars PROVE IntentIInv'
    OBVIOUS
  <2>1. StatesArrive'
    BY StatesStep DEF IntentIInv
  <2>2. ModeIsPresent' /\ GoalIsReady'
    BY ModeStep DEF IntentIInv
  <2>3. ASSUME auth'.process = 1
        PROVE  SelectsInOrder' /\ LastSelectIsGoal'
    <3>1. auth.process = 1
      BY <2>3, ProcessStep DEF IntentIInv
    <3>2. Orders'
      BY <2>3, <3>1, OrdersStep DEF IntentIInv, Orders
    <3> QED
      BY <3>2 DEF Orders
  <2> QED
    BY <2>1, <2>2, <2>3 DEF IntentIInv
<1> QED
  BY <1>1, <1>2, NavigationIInvHolds, PTL DEF NavigationSpec

(* FirstMotionIsSelected: whatever was selected, cancelled and dispatched  *)
(* before, output that stays open once all messages have arrived is driven *)
(* by the action toward the authority's goal (_sync_navigation, _apply).   *)
THEOREM FirstMotionSelected ==
    NavigationSpec => []FirstMotionIsSelected
<1>1. NavigationIInv /\ IntentIInv => FirstMotionIsSelected
  <2> SUFFICES ASSUME NavigationIInv, IntentIInv, auth.process = 1, Settled, Permitted
               PROVE  /\ nav2.mission.map = auth.nav_last_goal_key.map
                      /\ nav2.mission.pose = auth.nav_last_goal_key.pose
    BY DEF FirstMotionIsSelected, MotionIsSelected
  <2>1. auth.nav_last_goal_key # NoGoal
    BY DEF Permitted, IntentIInv, GoalIsReady
  <2>2. runtime.state = "ACTIVE"
    BY DEF Permitted, Settled, IntentIInv, StatesArrive
  <2>3. runtime.mission # NoMission /\ nav2.mission = runtime.mission
    BY <2>2 DEF NavigationIInv, MissionIInv, MissionGood, StateAgrees, MissionBound, Heard,
       Tied, Underway
  <2>4. Len(requests) = 0
    BY DEF Settled
  <2>5. runtime.mission = NoMission \/ OfGoal(runtime.mission, auth.nav_last_goal_key)
    BY <2>1, <2>4 DEF IntentIInv, LastSelectIsGoal
  <2> QED
    BY <2>3, <2>5 DEF OfGoal
<1> QED
  BY <1>1, IntentInductive, NavigationIInvHolds, PTL
=============================================================================
