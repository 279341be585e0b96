-------------------------- MODULE MapSessionProofs --------------------------
(***************************************************************************)
(* Proofs about the map session: the runtimes exclude each other, the map  *)
(* and the session reported are those of the running processes, NEW MAP    *)
(* discards what it says, and the files on disk implement the catalog, for *)
(* any maps and any number of starts, requests, crashes and actions.       *)
(***************************************************************************)
EXTENDS MapSession, SequenceTheorems, TLAPS

-----------------------------------------------------------------------------
(* What the supervisor, systemd and the graph agree on. *)

NoneRuns == \A u \in Units : units[u] # "running"

(* The worker starts a unit only when everything is gone, and works for a  *)
(* unit from then on.                                                      *)
WorkerStages ==
    /\ worker.at \in {"graph", "start"} => AllUnitsClean
    /\ worker.at = "start" => ResourcesGone
    /\ worker.at \in {"start", "ready", "discover"} => worker.mode \in Units
    /\ worker.at \in {"start", "ready", "quiesce", "reconcile", "discover"} => ~worker.failing

(* Processes are those of a running unit; nodes of one that has no SLAM    *)
(* process yet are not in the graph.                                       *)
UnitsHost ==
    /\ slam # 0 => ~NoneRuns
    /\ slam = 0 => NoneRuns \/ graph = {}
    /\ loaded # NoMap => units["AUTONOMY"] = "running" /\ slam # 0 /\ loaded = map_file

(* A process that has published nothing knows nothing; one whose worker is *)
(* busy names no session.                                                  *)
WorkerReports ==
    /\ process # "up" => /\ rt = InitialState
                         /\ worker.at \in {"idle", "reconcile", "discover"} \/ worker.failing
    /\ worker.at \in {"reconcile", "discover"} => process # "up"
    /\ worker.at # "idle" => /\ rt.session = 0
                             /\ rt.lifecycle = "TRANSITIONING" \/ rt.mode = "IDLE"
    /\ worker.at = "quiesce" => rt.mode = "MAPPING"

ActiveMapIsStored ==
    /\ rt.mode = "AUTONOMY" /\ rt.lifecycle = "STABLE" => rt.active_map = map_file
    /\ worker.at = "ready" /\ worker.mode = "AUTONOMY" => worker.map = map_file

(* The session in force: the one a NEW MAP may have to give back, or the   *)
(* one reported.                                                           *)
InForce == IF worker.at = "quiesce" THEN worker.before ELSE rt.session

(* The session in force is the newest, its SLAM run the one alive if any   *)
(* is, and in a later epoch than the first of a process it is newer than   *)
(* every run named before.                                                 *)
SessionIsNewest ==
    InForce # 0 =>
        /\ InForce = Len(minted) /\ rt.epoch >= 1
        /\ slam = 0 => NoneRuns
        /\ slam # 0 => minted[InForce] = slam
        /\ rt.epoch >= 2 => \A i \in 1 .. Len(minted) - 1 : minted[i] < minted[InForce]

(* SLAM runs are numbered as they start. *)
RunsAreNew ==
    /\ slam <= starts /\ \A i \in 1 .. Len(minted) : minted[i] <= starts
    /\ worker.at = "ready" /\ slam # 0 => \A i \in 1 .. Len(minted) : minted[i] < slam

RuntimeIInv ==
    /\ RuntimeTypeOK /\ RuntimesAreExclusive
    /\ WorkerStages /\ UnitsHost /\ WorkerReports /\ ActiveMapIsStored
    /\ SessionIsNewest /\ RunsAreNew

-----------------------------------------------------------------------------
(* What the executor and the files agree on. *)

WholeMaps == \A name \in MapNames : maps[name].listed => Complete(maps[name])

(* A save that has begun has a name, and what it publishes is there. *)
SavesAreStaged ==
    /\ save.at # "idle" => save.name \in MapNames
    /\ save.at \in {"raster", "publish"} => staging.posegraph # Missing
    /\ save.at = "publish" => staging.raster # Missing

(* A manifest about to be written speaks of no core file, of those that    *)
(* are there, or of a map that is not.                                     *)
PaintsWhole ==
    painting.hashed =>
        \/ painting.manifest = NoManifest
        \/ ~maps[painting.map].listed
        \/ /\ painting.manifest.posegraph = maps[painting.map].posegraph
           /\ painting.manifest.raster = maps[painting.map].raster

SelectionIsStored ==
    /\ selection_file \in Catalog \cup {NoMap}
    /\ executor = "up" => selected = selection_file

(* The sessions the executor follows, a NEW MAP was accepted for, and is   *)
(* to replace were named by a supervisor in an epoch, in that order.       *)
FollowsSessions ==
    /\ session.id # 0 => session.id \in 1 .. Len(minted) /\ session.epoch >= 1
    /\ reset.draft # NoDraft =>
         /\ reset.draft.session \in 1 .. Len(minted)
         /\ session.id # 0 => reset.draft.session <= session.id
    /\ reset.pending.session # 0 =>
         /\ reset.pending.session \in 1 .. Len(minted) /\ reset.pending.epoch >= 1
         /\ reset.pending.asked \in 1 .. reset.pending.session

SessionIInv == SessionTypeOK /\ RuntimeIInv /\ SavesAreStaged /\ FollowsSessions

FilesIInv == WholeMaps /\ PaintsWhole /\ SelectionIsStored

-----------------------------------------------------------------------------
(* Types. *)

Stages == {"idle", "reconcile", "discover", "quiesce", "stop", "cleanup", "graph",
           "start", "ready"}

(* What the worker may become. *)
LEMMA WorkerTypes ==
    ASSUME worker \in Workers
    PROVE  /\ Idle \in Workers /\ [Idle EXCEPT !.at = "reconcile"] \in Workers
           /\ \A at \in Stages : [worker EXCEPT !.at = at] \in Workers
           /\ [worker EXCEPT !.at = "stop", !.failing = TRUE] \in Workers
           /\ \A u \in Units : [worker EXCEPT !.at = "discover", !.mode = u] \in Workers
  BY DEF Workers, Idle, Stages, Modes, Units

(* What the worker publishes. *)
LEMMA ReportTypes ==
    ASSUME rt \in RuntimeStates, minted \in Seq(Runs),
           NEW ready \in BOOLEAN, NEW map \in MapNames \cup {NoMap}, NEW mode \in Modes,
           NEW s \in Nat
    PROVE  /\ Faulted \in RuntimeStates /\ InitialState \in RuntimeStates
           /\ [rt EXCEPT !.ready = ready] \in RuntimeStates
           /\ [rt EXCEPT !.mode = "IDLE", !.lifecycle = "STABLE", !.rejected = FALSE,
                         !.session = 0, !.ready = TRUE] \in RuntimeStates
           /\ [rt EXCEPT !.mode = "IDLE", !.lifecycle = "STABLE", !.ready = TRUE]
                \in RuntimeStates
           /\ [rt EXCEPT !.lifecycle = "STABLE", !.rejected = TRUE, !.session = s,
                         !.ready = ready] \in RuntimeStates
           /\ [rt EXCEPT !.lifecycle = "TRANSITIONING", !.accepted = s,
                         !.rejected = FALSE, !.ready = FALSE, !.session = 0]
                \in RuntimeStates
           /\ [rt EXCEPT !.accepted = s, !.rejected = ready] \in RuntimeStates
  BY DEF RuntimeStates, Faulted, InitialState, Modes

(* What the barrier may become. *)
LEMMA BarrierTypes ==
    ASSUME NEW b \in [revoked : BOOLEAN, stationary : BOOLEAN], NEW rest \in BOOLEAN
    PROVE  /\ NoBarrier \in [revoked : BOOLEAN, stationary : BOOLEAN]
           /\ [b EXCEPT !.stationary = rest] \in [revoked : BOOLEAN, stationary : BOOLEAN]
           /\ [revoked |-> TRUE, stationary |-> FALSE]
                \in [revoked : BOOLEAN, stationary : BOOLEAN]
  BY DEF NoBarrier

(* A session that becomes the actual one, by start or adoption. *)
LEMMA ActualTypes ==
    ASSUME RuntimeTypeOK, NEW m \in Units, NEW ready \in BOOLEAN,
           NEW e \in Nat, NEW map \in MapNames \cup {NoMap}, NEW rejected \in BOOLEAN
    PROVE  /\ [rt EXCEPT !.mode = m, !.lifecycle = "STABLE", !.rejected = rejected,
                  !.epoch = e, !.session = Mint(m), !.ready = ready,
                  !.active_map = map] \in RuntimeStates
           /\ Append(minted, slam) \in Seq(Runs)
           /\ Mint(m) \in Nat
<1>1. Append(minted, slam) \in Seq(Runs) /\ Len(minted) \in Nat
  BY DEF RuntimeTypeOK
<1>2. Mint(m) \in Nat
  BY <1>1 DEF Mint
<1> QED
  BY <1>1, <1>2 DEF RuntimeTypeOK, RuntimeStates, Modes, Units

(* The supervisor's requests and transitions keep the types. *)
LEMMA RequestTypes ==
    ASSUME RuntimeTypeOK,
           WebModeRequest \/ \E r \in requests : AnswerRequest(r) \/ BeginTransition(r)
    PROVE  RuntimeTypeOK'
<1>1. CASE WebModeRequest
  <2> PICK mode \in Modes, map \in MapNames \cup {NoMap} : WebRequest(mode, map)
    BY <1>1 DEF WebModeRequest
  <2> DEFINE r == [id |-> clock + 1, mode |-> mode, map |-> map, new_map |-> FALSE]
  <2>1. r \in Requests
    BY DEF RuntimeTypeOK, Requests
  <2>2. requests' = requests \cup {r} /\ clock' = clock + 1
    BY DEF WebRequest, DrawRequestId, Send
  <2> HIDE DEF r
  <2>3. requests' \subseteq Requests /\ clock' \in Nat
    BY <2>1, <2>2 DEF RuntimeTypeOK
  <2> QED
    BY <2>3 DEF WebRequest, RuntimeTypeOK
<1>2. ASSUME NEW r \in requests, AnswerRequest(r)
      PROVE  RuntimeTypeOK'
  <2>1. r.id \in Nat /\ rt.rejected \in BOOLEAN
    BY DEF RuntimeTypeOK, Requests, RuntimeStates
  <2>2. \A b \in BOOLEAN : [rt EXCEPT !.accepted = r.id, !.rejected = b] \in RuntimeStates
    BY <2>1, ReportTypes DEF RuntimeTypeOK, Modes
  <2>3. rt' \in RuntimeStates
    BY <1>2, <2>1, <2>2 DEF AnswerRequest, RuntimeTypeOK
  <2> QED
    BY <1>2, <2>3 DEF AnswerRequest, RuntimeTypeOK, externalVars, nodeVars
<1>3. ASSUME NEW r \in requests, BeginTransition(r)
      PROVE  RuntimeTypeOK'
  <2>1. r.id \in Nat /\ r.mode \in Modes /\ r.map \in MapNames \cup {NoMap}
    BY DEF RuntimeTypeOK, Requests
  <2>2. worker' \in Workers
    BY <1>3, <2>1 DEF BeginTransition, Transitioning, RuntimeTypeOK, RuntimeStates, Workers
  <2>3. rt' \in RuntimeStates
    BY <1>3, <2>1, ReportTypes DEF BeginTransition, Transitioning, RuntimeTypeOK
  <2>4. nodeVars' = nodeVars \/ (evidence' = "none" /\ barrier' = NoBarrier)
    BY <1>3 DEF BeginTransition, Transitioning, ArmBarrier, nodeVars
  <2>5. evidence' \in {"none", "before", "since"} /\ barrier' \in {barrier, NoBarrier}
    BY <2>4 DEF nodeVars, RuntimeTypeOK
  <2>6. barrier' \in [revoked : BOOLEAN, stationary : BOOLEAN]
    BY <2>5, BarrierTypes DEF RuntimeTypeOK
  <2> QED
    BY <1>3, <2>2, <2>3, <2>5, <2>6 DEF BeginTransition, Transitioning, RuntimeTypeOK, externalVars
<1> QED
  BY <1>1, <1>2, <1>3

(* The worker's steps keep the types. *)
LEMMA WorkTypes ==
    ASSUME RuntimeTypeOK,
           \/ QuiescenceReached \/ \E sensed \in BOOLEAN : QuiescenceTimesOut(sensed)
           \/ \E told \in SUBSET Units : IssueStops(told)
           \/ CleanupDone \/ StopTimesOut \/ GraphGone \/ StartUnit \/ StartFails
           \/ ReadinessTimesOut \/ \E sensed \in BOOLEAN : OnRefreshTimer(sensed)
    PROVE  RuntimeTypeOK'
<1> USE DEF externalVars, nodeVars
<1>1. worker \in Workers /\ rt \in RuntimeStates /\ minted \in Seq(Runs)
  BY DEF RuntimeTypeOK
<1>2. /\ Faulted \in RuntimeStates
      /\ \A ready \in BOOLEAN : [rt EXCEPT !.ready = ready] \in RuntimeStates
  BY <1>1, ReportTypes DEF Modes
<1>3. StopError => worker' \in Workers /\ rt' \in RuntimeStates /\ process' \in {process, "up"}
  BY <1>1, <1>2, WorkerTypes DEF StopError, Fail
<1>4. Fail => worker' \in Workers
  BY <1>1, WorkerTypes DEF Fail
<1>5. \A at \in Stages : Step(at) => worker' \in Workers
  BY <1>1, WorkerTypes DEF Step
<1>6. CASE QuiescenceReached \/ CleanupDone
  <2>1. worker' \in Workers
    BY <1>5, <1>6 DEF QuiescenceReached, CleanupDone, Stages
  <2>2. CASE QuiescenceReached
    BY <2>1, <2>2 DEF QuiescenceReached, RuntimeTypeOK, NoBarrier
  <2>3. CASE CleanupDone
    BY <2>1, <2>3 DEF CleanupDone, RuntimeTypeOK
  <2> QED
    BY <1>6, <2>2, <2>3
<1>7. ASSUME NEW sensed \in BOOLEAN, QuiescenceTimesOut(sensed)
      PROVE  RuntimeTypeOK'
  <2>1. worker.before \in Nat /\ FullyReady("MAPPING", sensed) \in BOOLEAN
    BY <1>1 DEF Workers, FullyReady
  <2>2. rt' \in RuntimeStates
    BY <1>1, <1>7, <2>1, ReportTypes DEF QuiescenceTimesOut, Modes
  <2>3. worker' \in Workers
    BY <1>1, <1>7, WorkerTypes DEF QuiescenceTimesOut
  <2> QED
    BY <1>7, <2>2, <2>3 DEF QuiescenceTimesOut, RuntimeTypeOK, NoBarrier
<1>8. ASSUME NEW told \in SUBSET Units, IssueStops(told)
      PROVE  RuntimeTypeOK'
  <2>1. worker' \in Workers /\ rt' \in RuntimeStates /\ process' \in {process, "up"}
    BY <1>1, <1>3, <1>5, <1>8 DEF IssueStops, Stages
  <2>2. units' \in [Units -> {"clean", "running", "stopping"}]
    BY <1>8 DEF IssueStops, RuntimeTypeOK
  <2>3. loaded' \in {loaded, NoMap} /\ slam' \in {slam, 0}
    BY <1>8 DEF IssueStops
  <2>4. 0 \in Runs
    BY LibraryConstants DEF Runs
  <2> QED
    BY <1>8, <2>1, <2>2, <2>3, <2>4 DEF IssueStops, RuntimeTypeOK
<1>9. CASE StopTimesOut
  BY <1>3, <1>9 DEF StopTimesOut, RuntimeTypeOK
<1>10. CASE GraphGone
  <2>1. worker' \in Workers
    BY <1>1, <1>5, <1>10, WorkerTypes DEF GraphGone, Stages
  <2>2. rt' \in RuntimeStates
    BY <1>1, <1>2, <1>10, ReportTypes DEF GraphGone, Modes
  <2> QED
    BY <1>10, <2>1, <2>2 DEF GraphGone, RuntimeTypeOK
<1>11. CASE StartUnit
  <2>1. map_file' \in MapNames \cup {NoMap}
    BY <1>1, <1>11 DEF StartUnit, RuntimeTypeOK, Workers
  <2> QED
    BY <1>5, <1>11, <2>1 DEF StartUnit, RuntimeTypeOK, Stages
<1>12. CASE StartFails
  <2>1. map_file' \in MapNames \cup {NoMap}
    BY <1>1, <1>12 DEF StartFails, RuntimeTypeOK, Workers
  <2> QED
    BY <1>4, <1>12, <2>1 DEF StartFails, RuntimeTypeOK
<1>13. CASE ReadinessTimesOut
  BY <1>4, <1>13 DEF ReadinessTimesOut, RuntimeTypeOK
<1>14. ASSUME NEW sensed \in BOOLEAN, OnRefreshTimer(sensed)
       PROVE  RuntimeTypeOK'
  <2>1. FullyReady(rt.mode, sensed) \in BOOLEAN
    BY DEF FullyReady
  <2>2. rt' \in RuntimeStates
    BY <1>2, <1>14, <2>1 DEF OnRefreshTimer
  <2> QED
    BY <1>14, <2>2 DEF OnRefreshTimer, RuntimeTypeOK
<1> QED
  BY <1>6, <1>7, <1>8, <1>9, <1>10, <1>11, <1>12, <1>13, <1>14

(* Becoming the actual runtime, by start or adoption, keeps the types. *)
LEMMA ActualizeTypes ==
    ASSUME RuntimeTypeOK, worker.mode \in Units,
           \/ \E again \in BOOLEAN : BecomeReady(again)
           \/ \E sensed \in BOOLEAN : Adopt(sensed)
    PROVE  RuntimeTypeOK'
<1> USE DEF externalVars, nodeVars
<1>1. /\ worker \in Workers /\ rt \in RuntimeStates /\ minted \in Seq(Runs)
      /\ worker.map \in MapNames \cup {NoMap} /\ rt.active_map \in MapNames \cup {NoMap}
      /\ rt.epoch + 1 \in Nat /\ Larger(rt.epoch, 1) \in Nat
      /\ SessionStarts \in {"none", "before", "since"}
      /\ map_file \in MapNames \cup {NoMap} /\ rt.rejected \in BOOLEAN
  BY DEF RuntimeTypeOK, RuntimeStates, Workers, Larger, SessionStarts
<1>3. ASSUME MintHistory(worker.mode)
      PROVE  minted' \in Seq(Runs)
  BY <1>1, <1>3, ActualTypes DEF MintHistory
<1>4. ASSUME NEW again \in BOOLEAN, BecomeReady(again)
      PROVE  RuntimeTypeOK'
  <2> DEFINE mapped == IF worker.mode = "AUTONOMY" THEN worker.map ELSE rt.active_map
  <2>2. rt' = [rt EXCEPT !.mode = worker.mode, !.lifecycle = "STABLE",
                !.rejected = FALSE, !.epoch = rt.epoch + 1, !.session = Mint(worker.mode),
                !.ready = again, !.active_map = mapped]
    BY <1>4 DEF BecomeReady
  <2>3. mapped \in MapNames \cup {NoMap}
    BY <1>1
  <2> HIDE DEF mapped
  <2>4. [rt EXCEPT !.mode = worker.mode, !.lifecycle = "STABLE", !.rejected = FALSE,
            !.epoch = rt.epoch + 1, !.session = Mint(worker.mode), !.ready = again,
            !.active_map = mapped] \in RuntimeStates
    BY <1>1, <2>3, ActualTypes
  <2>1. rt' \in RuntimeStates
    BY <2>2, <2>4
  <2> QED
    BY <1>1, <1>3, <1>4, <2>1, WorkerTypes DEF BecomeReady, RuntimeTypeOK
<1>5. ASSUME NEW sensed \in BOOLEAN, Adopt(sensed)
      PROVE  RuntimeTypeOK'
  <2> DEFINE mapped == IF worker.mode = "AUTONOMY" THEN map_file ELSE rt.active_map
  <2>1. PICK full \in BOOLEAN : full = FullyReady(worker.mode, sensed)
    BY DEF FullyReady
  <2>5. PICK refused \in BOOLEAN : refused = rt.rejected
    BY <1>1
  <2>2. rt' = [rt EXCEPT !.mode = worker.mode, !.lifecycle = "STABLE",
                !.rejected = refused, !.epoch = Larger(rt.epoch, 1),
                !.session = Mint(worker.mode), !.ready = full,
                !.active_map = mapped]
    BY <1>1, <1>5, <2>1, <2>5 DEF Adopt, StoredMap, RuntimeStates
  <2>4. mapped \in MapNames \cup {NoMap}
    BY <1>1
  <2> HIDE DEF mapped
  <2>6. [rt EXCEPT !.mode = worker.mode, !.lifecycle = "STABLE", !.rejected = refused,
            !.epoch = Larger(rt.epoch, 1), !.session = Mint(worker.mode), !.ready = full,
            !.active_map = mapped] \in RuntimeStates
    <3>1. worker.mode \in Modes /\ Larger(rt.epoch, 1) \in Nat /\ Mint(worker.mode) \in Nat
      BY <1>1, ActualTypes DEF Modes, Units
    <3> QED
      BY <1>1, <2>4, <3>1 DEF RuntimeStates
  <2>3. rt' \in RuntimeStates
    BY <2>2, <2>6
  <2> QED
    BY <1>1, <1>3, <1>5, <2>3, WorkerTypes DEF Adopt, RuntimeTypeOK
<1> QED
  BY <1>4, <1>5

(* Start, adoption and end of the process, and its environment. *)
LEMMA EnvironmentTypes ==
    ASSUME RuntimeTypeOK,
           \/ Reconcile \/ AdoptFails \/ SupervisorCrashes \/ SupervisorStarts \/ OnMap
           \/ \E brakes \in BOOLEAN : OnAuthorityState(brakes)
           \/ \E stationary \in BOOLEAN : OnEncoderState(stationary)
           \/ \E unit \in Units : Launch(unit) \/ UnitLeaves(unit)
           \/ \E group \in {"common", "autonomy"} : Discover(group)
    PROVE  RuntimeTypeOK'
<1> USE DEF externalVars, nodeVars
<1>1. worker \in Workers /\ rt \in RuntimeStates /\ minted \in Seq(Runs)
  BY DEF RuntimeTypeOK
<1>2. Fail => worker' \in Workers
  BY <1>1, WorkerTypes DEF Fail
<1>3. CASE Reconcile
  <2>1. worker' \in Workers
    <3>1. \/ Fail \/ worker' = Idle
          \/ \E u \in Units : worker' = [worker EXCEPT !.at = "discover", !.mode = u]
      BY <1>3 DEF Reconcile
    <3> QED
      BY <1>1, <1>2, <3>1, WorkerTypes
  <2>2. rt' \in RuntimeStates
    BY <1>1, <1>3, ReportTypes DEF Reconcile, Modes
  <2> QED
    BY <1>3, <2>1, <2>2 DEF Reconcile, RuntimeTypeOK
<1>4. CASE AdoptFails
  BY <1>2, <1>4 DEF AdoptFails, RuntimeTypeOK
<1>5. CASE SupervisorCrashes
  <2>1. worker' \in Workers
    BY <1>1, <1>5, WorkerTypes DEF SupervisorCrashes
  <2>2. rt' \in RuntimeStates
    BY <1>5 DEF SupervisorCrashes, InitialState, RuntimeStates, Modes
  <2> QED
    BY <1>5, <2>1, <2>2 DEF SupervisorCrashes, RuntimeTypeOK, NoBarrier
<1>6. CASE SupervisorStarts
  BY <1>1, <1>6, WorkerTypes DEF SupervisorStarts, RuntimeTypeOK
<1>7. CASE \/ OnMap \/ \E brakes \in BOOLEAN : OnAuthorityState(brakes)
           \/ \E stationary \in BOOLEAN : OnEncoderState(stationary)
  <2>1. evidence' \in {evidence, "since"}
    BY <1>7 DEF OnMap, OnAuthorityState, OnEncoderState
  <2>2. barrier' \in [revoked : BOOLEAN, stationary : BOOLEAN]
    <3>1. \/ barrier' = barrier \/ barrier' = [revoked |-> TRUE, stationary |-> FALSE]
          \/ \E b \in BOOLEAN : barrier' = [barrier EXCEPT !.stationary = b]
      BY <1>7 DEF OnMap, OnAuthorityState, OnEncoderState
    <3> QED
      <4>1. CASE barrier' = barrier \/ barrier' = [revoked |-> TRUE, stationary |-> FALSE]
        BY <4>1, BarrierTypes DEF RuntimeTypeOK
      <4>2. ASSUME NEW b \in BOOLEAN, barrier' = [barrier EXCEPT !.stationary = b]
            PROVE  barrier' \in [revoked : BOOLEAN, stationary : BOOLEAN]
        <5>1. barrier \in [revoked : BOOLEAN, stationary : BOOLEAN]
          BY DEF RuntimeTypeOK
        <5>2. [barrier EXCEPT !.stationary = b] \in [revoked : BOOLEAN, stationary : BOOLEAN]
          BY <5>1, BarrierTypes
        <5> QED
          BY <4>2, <5>2
      <4> QED
        BY <3>1, <4>1, <4>2
  <2> QED
    BY <1>7, <2>1, <2>2 DEF OnMap, OnAuthorityState, OnEncoderState, RuntimeTypeOK
<1>8. ASSUME NEW unit \in Units, Launch(unit)
      PROVE  RuntimeTypeOK'
  <2>1. starts' \in Runs /\ slam' \in Runs
    BY <1>8, LibraryConstants DEF Launch, RuntimeTypeOK, Runs
  <2> QED
    BY <1>8, <2>1 DEF Launch, RuntimeTypeOK
<1>9. ASSUME NEW unit \in Units, UnitLeaves(unit)
      PROVE  RuntimeTypeOK'
  <2>1. slam' \in Runs
    BY <1>9, LibraryConstants DEF UnitLeaves, RuntimeTypeOK, Runs
  <2> QED
    BY <1>9, <2>1 DEF UnitLeaves, RuntimeTypeOK
<1>10. ASSUME NEW group \in {"common", "autonomy"}, Discover(group)
       PROVE  RuntimeTypeOK'
  BY <1>10 DEF Discover, RuntimeTypeOK
<1> QED
  BY <1>3, <1>4, <1>5, <1>6, <1>7, <1>8, <1>9, <1>10

(* Every step of the supervisor and its environment keeps the types. *)
LEMMA RuntimeTypes ==
    ASSUME RuntimeTypeOK, WorkerStages, RuntimeNext
    PROVE  RuntimeTypeOK'
<1>1. \A again \in BOOLEAN : BecomeReady(again) => worker.mode \in Units
  BY DEF BecomeReady, WorkerStages
<1>2. \A sensed \in BOOLEAN : Adopt(sensed) => worker.mode \in Units
  BY DEF Adopt, WorkerStages
<1> QED
  BY <1>1, <1>2, RequestTypes, WorkTypes, ActualizeTypes, EnvironmentTypes DEF RuntimeNext


-----------------------------------------------------------------------------
(* The invariant of supervisor, systemd and graph. *)

(* An error while stopping ends in the clean-up of a failure or in a fault. *)
LEMMA StopErrors ==
    ASSUME worker \in Workers, rt \in RuntimeStates, StopError
    PROVE  \/ /\ worker' = Idle /\ worker'.at = "idle"
              /\ rt' = Faulted /\ rt'.session = 0 /\ rt'.mode = "IDLE"
              /\ rt'.lifecycle = "FAULT" /\ process' = "up"
           \/ /\ worker' = [worker EXCEPT !.at = "stop", !.failing = TRUE]
              /\ worker'.at = "stop" /\ worker'.failing /\ UNCHANGED <<rt, process>>
<1>1. rt' = Faulted => rt'.session = 0 /\ rt'.mode = "IDLE" /\ rt'.lifecycle = "FAULT"
  BY DEF Faulted, RuntimeStates
<1>2. worker' = Idle => worker'.at = "idle"
  BY DEF Idle
<1>3. Fail => worker'.at = "stop" /\ worker'.failing
  BY DEF Fail, Workers
<1> QED
  BY <1>1, <1>2, <1>3 DEF StopError, Fail

(* Reading systemd ends in a clean-up, in IDLE, or in an adoption. *)
LEMMA ReconcileEnds ==
    ASSUME worker \in Workers, rt \in RuntimeStates, Reconcile
    PROVE  \/ worker'.at = "stop" /\ worker'.failing /\ UNCHANGED <<rt, process>>
           \/ /\ worker'.at = "idle" /\ process' = "up"
              /\ rt' = [rt EXCEPT !.mode = "IDLE", !.lifecycle = "STABLE", !.ready = TRUE]
           \/ /\ worker'.at = "discover" /\ worker'.mode \in Units
              /\ worker'.failing = worker.failing /\ UNCHANGED <<rt, process>>
<1>1. Fail => worker'.at = "stop" /\ worker'.failing
  BY DEF Fail, Workers
<1>2. worker' = Idle => worker'.at = "idle"
  BY DEF Idle
<1>3. \A u \in Units : worker' = [worker EXCEPT !.at = "discover", !.mode = u]
        => worker'.at = "discover" /\ worker'.mode = u /\ worker'.failing = worker.failing
  BY DEF Workers
<1> QED
  BY <1>1, <1>2, <1>3 DEF Reconcile

(* The end of the graph ends the transition, or a unit is started next. *)
LEMMA GraphEnds ==
    ASSUME worker \in Workers, rt \in RuntimeStates, GraphGone
    PROVE  \/ /\ worker'.at = "idle" /\ rt'.mode = "IDLE" /\ rt'.session = 0
              /\ process' = "up" \/ (~worker.failing /\ process' = process)
           \/ /\ worker.mode # "IDLE" /\ ~worker.failing
              /\ worker' = [worker EXCEPT !.at = "start"] /\ worker'.at = "start"
              /\ worker'.mode = worker.mode /\ ~worker'.failing
              /\ UNCHANGED <<rt, process>>
<1>1. rt' = Faulted => rt'.session = 0 /\ rt'.mode = "IDLE"
  BY DEF Faulted, RuntimeStates
<1>2. worker' = Idle => worker'.at = "idle"
  BY DEF Idle
<1>3. Step("start") => /\ worker' = [worker EXCEPT !.at = "start"] /\ worker'.at = "start"
                       /\ worker'.mode = worker.mode /\ worker'.failing = worker.failing
  BY DEF Step, Workers
<1>4. rt' = [rt EXCEPT !.mode = "IDLE", !.lifecycle = "STABLE", !.rejected = FALSE,
                       !.session = 0, !.ready = TRUE]
        => rt'.session = 0 /\ rt'.mode = "IDLE"
  BY DEF RuntimeStates
<1> QED
  BY <1>1, <1>2, <1>3, <1>4 DEF GraphGone

(* A name added to the history is its last. *)
LEMMA Appended ==
    ASSUME RuntimeTypeOK
    PROVE  /\ Len(Append(minted, slam)) = Len(minted) + 1
           /\ Append(minted, slam)[Len(minted) + 1] = slam
           /\ \A i \in 1 .. Len(minted) : Append(minted, slam)[i] = minted[i]
           /\ Len(minted) \in Nat /\ slam \in Nat
           /\ \A i \in 1 .. Len(minted) : minted[i] \in Nat
<1>1. minted \in Seq(Runs) /\ slam \in Runs /\ Runs \subseteq Nat
  BY DEF RuntimeTypeOK, Runs
<1>2. \A i \in 1 .. Len(minted) : minted[i] \in Runs
  BY <1>1, ElementOfSeq
<1>3. /\ Len(Append(minted, slam)) = Len(minted) + 1
      /\ Append(minted, slam)[Len(minted) + 1] = slam
      /\ \A i \in 1 .. Len(minted) : Append(minted, slam)[i] = minted[i]
  BY <1>1, AppendProperties
<1>4. Len(minted) \in Nat
  BY <1>1
<1> QED
  BY <1>1, <1>2, <1>3, <1>4

(* The worker's stages, the units and their processes stay in step. *)
LEMMA UnitSteps ==
    ASSUME RuntimeIInv, RuntimeNext
    PROVE  RuntimesAreExclusive' /\ WorkerStages' /\ UnitsHost'
<1> USE DEF RuntimeIInv, RuntimeTypeOK, RuntimeStates, Workers, Units, externalVars, nodeVars,
   RuntimesAreExclusive, WorkerStages, UnitsHost, NoneRuns, AllUnitsClean, ResourcesGone
<1>1. CASE WebModeRequest
  BY <1>1 DEF WebModeRequest, WebRequest, DrawRequestId, Send
<1>2. ASSUME NEW r \in requests, AnswerRequest(r)
      PROVE  RuntimesAreExclusive' /\ WorkerStages' /\ UnitsHost'
  BY <1>2 DEF AnswerRequest
<1>3. ASSUME NEW r \in requests, BeginTransition(r)
      PROVE  RuntimesAreExclusive' /\ WorkerStages' /\ UnitsHost'
  BY <1>3 DEF BeginTransition, Transitioning, ArmBarrier, NoBarrier
<1>4. CASE QuiescenceReached
  BY <1>4 DEF QuiescenceReached, Step, NoBarrier
<1>5. ASSUME NEW sensed \in BOOLEAN, QuiescenceTimesOut(sensed)
      PROVE  RuntimesAreExclusive' /\ WorkerStages' /\ UnitsHost'
  BY <1>5 DEF QuiescenceTimesOut, Idle, NoBarrier, FullyReady
<1>6. ASSUME NEW told \in SUBSET Units, IssueStops(told)
      PROVE  RuntimesAreExclusive' /\ WorkerStages' /\ UnitsHost'
  <2>1. worker'.at \in {"cleanup", "stop", "idle"}
    <3>1. CASE told = Units
      BY <1>6, <3>1 DEF IssueStops, Step
    <3>2. CASE told # Units
      BY <1>6, <3>2, StopErrors DEF IssueStops
    <3> QED
      BY <3>1, <3>2
  <2>2. \A u \in Units : /\ units'[u] \in {units[u], "stopping"}
                         /\ units'[u] = "stopping" => units[u] # "clean"
    BY <1>6 DEF IssueStops
  <2>3. WorkerStages'
    BY <2>1
  <2>4. RuntimesAreExclusive'
    BY <2>2
  <2>5. UnitsHost'
    BY <1>6 DEF IssueStops
  <2> QED
    BY <2>3, <2>4, <2>5
<1>7. CASE CleanupDone
  BY <1>7 DEF CleanupDone, Step
<1>8. CASE StopTimesOut
  BY <1>8, StopErrors DEF StopTimesOut
<1>9. CASE GraphGone
  <2>1. UNCHANGED <<units, graph, loaded, slam, map_file>>
    BY <1>9 DEF GraphGone
  <2>2. AllUnitsClean /\ ResourcesGone
    BY <1>9 DEF GraphGone
  <2>3. WorkerStages'
    BY <2>1, <2>2, GraphEnds, <1>9 DEF Modes
  <2> QED
    BY <2>1, <2>3
<1>10. CASE StartUnit
  BY <1>10 DEF StartUnit, Step
<1>11. CASE StartFails
  BY <1>11 DEF StartFails, Fail
<1>12. ASSUME NEW again \in BOOLEAN, BecomeReady(again)
      PROVE  RuntimesAreExclusive' /\ WorkerStages' /\ UnitsHost'
  BY <1>12 DEF BecomeReady, Idle, Mint, MintHistory, SessionStarts
<1>13. CASE ReadinessTimesOut
  BY <1>13 DEF ReadinessTimesOut, Fail
<1>14. ASSUME NEW sensed \in BOOLEAN, OnRefreshTimer(sensed)
      PROVE  RuntimesAreExclusive' /\ WorkerStages' /\ UnitsHost'
  BY <1>14 DEF OnRefreshTimer, FullyReady
<1>15. ASSUME NEW sensed \in BOOLEAN, Adopt(sensed)
      PROVE  RuntimesAreExclusive' /\ WorkerStages' /\ UnitsHost'
  BY <1>15 DEF Adopt, Idle, Mint, MintHistory, SessionStarts, FullyReady, StoredMap, Larger
<1>16. CASE Reconcile
  <2>1. UNCHANGED <<units, graph, loaded, slam, map_file>> /\ worker.at = "reconcile"
    BY <1>16 DEF Reconcile
  <2>2. WorkerStages'
    BY <2>1, <1>16, ReconcileEnds
  <2> QED
    BY <2>1, <2>2
<1>17. CASE AdoptFails
  BY <1>17 DEF AdoptFails, Fail
<1>18. CASE SupervisorCrashes
  BY <1>18 DEF SupervisorCrashes, Idle, InitialState, NoBarrier
<1>19. CASE SupervisorStarts
  BY <1>19 DEF SupervisorStarts, Idle
<1>20. CASE OnMap
  BY <1>20 DEF OnMap
<1>21. ASSUME NEW brakes \in BOOLEAN, OnAuthorityState(brakes)
      PROVE  RuntimesAreExclusive' /\ WorkerStages' /\ UnitsHost'
  BY <1>21 DEF OnAuthorityState
<1>22. ASSUME NEW stationary \in BOOLEAN, OnEncoderState(stationary)
      PROVE  RuntimesAreExclusive' /\ WorkerStages' /\ UnitsHost'
  BY <1>22 DEF OnEncoderState
<1>23. ASSUME NEW unit \in Units, Launch(unit)
      PROVE  RuntimesAreExclusive' /\ WorkerStages' /\ UnitsHost'
  <2>1. \A u \in Units : units'[u] \in {units[u], "clean"}
    BY <1>23 DEF Launch
  <2>2. worker' = worker /\ graph' = graph /\ map_file' = map_file
    BY <1>23 DEF Launch
  <2>3. RuntimesAreExclusive' /\ WorkerStages'
    BY <2>1, <2>2
  <2>4. CASE unit = "AUTONOMY" /\ ~validate_bundle(map_file)
    <3>1. units' = [units EXCEPT ![unit] = "clean"] /\ slam' = 0 /\ loaded' = loaded
      BY <1>23, <2>4 DEF Launch
    <3>2. NoneRuns'
      BY <1>23, <3>1 DEF Launch
    <3> QED
      BY <1>23, <2>2, <2>3, <3>1, <3>2 DEF Launch
  <2>5. CASE ~(unit = "AUTONOMY" /\ ~validate_bundle(map_file))
    <3>1. /\ units' = units /\ slam' = starts + 1 /\ units[unit] = "running"
          /\ loaded' = IF unit = "AUTONOMY" THEN map_file ELSE NoMap
      BY <1>23, <2>5 DEF Launch
    <3> QED
      BY <2>2, <2>3, <3>1 DEF Runs
  <2> QED
    BY <2>4, <2>5
<1>24. ASSUME NEW unit \in Units, UnitLeaves(unit)
      PROVE  RuntimesAreExclusive' /\ WorkerStages' /\ UnitsHost'
  BY <1>24 DEF UnitLeaves
<1>25. ASSUME NEW group \in {"common", "autonomy"}, Discover(group)
      PROVE  RuntimesAreExclusive' /\ WorkerStages' /\ UnitsHost'
  BY <1>25 DEF Discover
<1> QED
  BY <1>1, <1>2, <1>3, <1>4, <1>5, <1>6, <1>7, <1>8, <1>9, <1>10, <1>11, <1>12, <1>13, <1>14,
     <1>15, <1>16, <1>17, <1>18, <1>19, <1>20, <1>21, <1>22, <1>23, <1>24, <1>25 DEF RuntimeNext

(* What is reported stays in step with the worker and the map file. *)
LEMMA ReportSteps ==
    ASSUME RuntimeIInv, RuntimeNext
    PROVE  WorkerReports' /\ ActiveMapIsStored'
<1> USE DEF RuntimeIInv, RuntimeTypeOK, RuntimeStates, Workers, Units, externalVars, nodeVars,
   WorkerReports, ActiveMapIsStored, WorkerStages, InitialState, Eligible
<1>1. CASE WebModeRequest
  BY <1>1 DEF WebModeRequest, WebRequest, DrawRequestId, Send
<1>2. ASSUME NEW r \in requests, AnswerRequest(r)
      PROVE  WorkerReports' /\ ActiveMapIsStored'
  BY <1>2 DEF AnswerRequest
<1>3. ASSUME NEW r \in requests, BeginTransition(r)
      PROVE  WorkerReports' /\ ActiveMapIsStored'
  BY <1>3 DEF BeginTransition, Transitioning, ArmBarrier, NoBarrier
<1>4. CASE QuiescenceReached
  BY <1>4 DEF QuiescenceReached, Step, NoBarrier
<1>5. ASSUME NEW sensed \in BOOLEAN, QuiescenceTimesOut(sensed)
      PROVE  WorkerReports' /\ ActiveMapIsStored'
  BY <1>5 DEF QuiescenceTimesOut, Idle, NoBarrier, FullyReady
<1>6. ASSUME NEW told \in SUBSET Units, IssueStops(told)
      PROVE  WorkerReports' /\ ActiveMapIsStored'
  <2>1. map_file' = map_file /\ worker.at = "stop"
    BY <1>6 DEF IssueStops
  <2>2. CASE told = Units
    BY <1>6, <2>1, <2>2 DEF IssueStops, Step
  <2>3. CASE told # Units
    <3>1. StopError
      BY <1>6, <2>3 DEF IssueStops
    <3> QED
      BY <2>1, <3>1, StopErrors
  <2> QED
    BY <2>2, <2>3
<1>7. CASE CleanupDone
  BY <1>7 DEF CleanupDone, Step
<1>8. CASE StopTimesOut
  <2>1. map_file' = map_file /\ StopError /\ worker.at \in {"cleanup", "graph"}
    BY <1>8 DEF StopTimesOut
  <2> QED
    BY <2>1, StopErrors
<1>9. CASE GraphGone
  <2>1. map_file' = map_file /\ worker.at = "graph"
    BY <1>9 DEF GraphGone
  <2> QED
    BY <1>9, <2>1, GraphEnds
<1>10. CASE StartUnit
  BY <1>10 DEF StartUnit, Step
<1>11. CASE StartFails
  BY <1>11 DEF StartFails, Fail
<1>12. ASSUME NEW again \in BOOLEAN, BecomeReady(again)
      PROVE  WorkerReports' /\ ActiveMapIsStored'
  BY <1>12 DEF BecomeReady, Idle, Mint, MintHistory, SessionStarts
<1>13. CASE ReadinessTimesOut
  BY <1>13 DEF ReadinessTimesOut, Fail
<1>14. ASSUME NEW sensed \in BOOLEAN, OnRefreshTimer(sensed)
      PROVE  WorkerReports' /\ ActiveMapIsStored'
  BY <1>14 DEF OnRefreshTimer, FullyReady
<1>15. ASSUME NEW sensed \in BOOLEAN, Adopt(sensed)
      PROVE  WorkerReports' /\ ActiveMapIsStored'
  BY <1>15 DEF Adopt, Idle, Mint, MintHistory, SessionStarts, FullyReady, StoredMap, Larger
<1>16. CASE Reconcile
  <2>1. map_file' = map_file /\ worker.at = "reconcile" /\ rt = InitialState
    BY <1>16 DEF Reconcile
  <2> QED
    BY <1>16, <2>1, ReconcileEnds
<1>17. CASE AdoptFails
  BY <1>17 DEF AdoptFails, Fail
<1>18. CASE SupervisorCrashes
  BY <1>18 DEF SupervisorCrashes, Idle, InitialState, NoBarrier
<1>19. CASE SupervisorStarts
  BY <1>19 DEF SupervisorStarts, Idle
<1>20. CASE OnMap
  BY <1>20 DEF OnMap
<1>21. ASSUME NEW brakes \in BOOLEAN, OnAuthorityState(brakes)
      PROVE  WorkerReports' /\ ActiveMapIsStored'
  BY <1>21 DEF OnAuthorityState
<1>22. ASSUME NEW stationary \in BOOLEAN, OnEncoderState(stationary)
      PROVE  WorkerReports' /\ ActiveMapIsStored'
  BY <1>22 DEF OnEncoderState
<1>23. ASSUME NEW unit \in Units, Launch(unit)
      PROVE  WorkerReports' /\ ActiveMapIsStored'
  BY <1>23 DEF Launch
<1>24. ASSUME NEW unit \in Units, UnitLeaves(unit)
      PROVE  WorkerReports' /\ ActiveMapIsStored'
  BY <1>24 DEF UnitLeaves
<1>25. ASSUME NEW group \in {"common", "autonomy"}, Discover(group)
      PROVE  WorkerReports' /\ ActiveMapIsStored'
  BY <1>25 DEF Discover
<1> QED
  BY <1>1, <1>2, <1>3, <1>4, <1>5, <1>6, <1>7, <1>8, <1>9, <1>10, <1>11, <1>12, <1>13, <1>14,
     <1>15, <1>16, <1>17, <1>18, <1>19, <1>20, <1>21, <1>22, <1>23, <1>24, <1>25 DEF RuntimeNext

(* The session in force stays the newest. *)
LEMMA SessionSteps ==
    ASSUME RuntimeIInv, RuntimeNext
    PROVE  SessionIsNewest' /\ RunsAreNew'
<1> USE DEF RuntimeIInv, RuntimeTypeOK, RuntimeStates, Workers, Units, externalVars, nodeVars,
   SessionIsNewest, RunsAreNew, InForce, WorkerReports, WorkerStages, UnitsHost, NoneRuns,
   AllUnitsClean, ResourcesGone, StructuralReady, FullyReady, NodesOf, RuntimesAreExclusive,
   InitialState, Runs
<1>1. CASE WebModeRequest
  BY <1>1 DEF WebModeRequest, WebRequest, DrawRequestId, Send
<1>2. ASSUME NEW r \in requests, AnswerRequest(r)
      PROVE  SessionIsNewest' /\ RunsAreNew'
  BY <1>2 DEF AnswerRequest
<1>3. ASSUME NEW r \in requests, BeginTransition(r)
      PROVE  SessionIsNewest' /\ RunsAreNew'
  BY <1>3 DEF BeginTransition, Transitioning, ArmBarrier, NoBarrier
<1>4. CASE QuiescenceReached
  BY <1>4 DEF QuiescenceReached, Step, NoBarrier
<1>5. ASSUME NEW sensed \in BOOLEAN, QuiescenceTimesOut(sensed)
      PROVE  SessionIsNewest' /\ RunsAreNew'
  BY <1>5 DEF QuiescenceTimesOut, Idle, NoBarrier, FullyReady
<1>6. ASSUME NEW told \in SUBSET Units, IssueStops(told)
      PROVE  SessionIsNewest' /\ RunsAreNew'
  <2>1. UNCHANGED <<minted, starts>> /\ slam' \in {slam, 0} /\ worker.at = "stop"
    BY <1>6 DEF IssueStops
  <2>2. rt'.session = 0 /\ worker'.at \in {"cleanup", "stop", "idle"}
    <3>1. CASE told = Units
      BY <1>6, <2>1, <3>1 DEF IssueStops, Step
    <3>2. CASE told # Units
      BY <1>6, <2>1, <3>2, StopErrors DEF IssueStops
    <3> QED
      BY <3>1, <3>2
  <2> QED
    BY <2>1, <2>2
<1>7. CASE CleanupDone
  BY <1>7 DEF CleanupDone, Step
<1>8. CASE StopTimesOut
  <2>1. UNCHANGED <<minted, starts, slam, units>> /\ worker.at \notin {"quiesce", "idle"}
    BY <1>8 DEF StopTimesOut
  <2>2. rt'.session = 0 /\ worker'.at \notin {"quiesce", "ready"}
    BY <1>8, <2>1, StopErrors DEF StopTimesOut
  <2> QED
    BY <2>1, <2>2
<1>9. CASE GraphGone
  <2>1. UNCHANGED <<minted, starts, slam, units>> /\ worker.at \notin {"quiesce", "idle"}
    BY <1>9 DEF GraphGone
  <2>2. rt'.session = 0 /\ worker'.at \notin {"quiesce", "ready"}
    BY <1>9, <2>1, GraphEnds
  <2> QED
    BY <2>1, <2>2
<1>10. CASE StartUnit
  BY <1>10 DEF StartUnit, Step
<1>11. CASE StartFails
  BY <1>11 DEF StartFails, Fail
<1>12. ASSUME NEW again \in BOOLEAN, BecomeReady(again)
      PROVE  SessionIsNewest' /\ RunsAreNew'
  <2>1. slam # 0
    BY <1>12 DEF BecomeReady
  <2>2. /\ UNCHANGED <<starts, slam, units>> /\ worker'.at = "idle" /\ rt'.epoch = rt.epoch + 1
        /\ rt'.session = IF worker.mode = "MAPPING" THEN Len(minted) + 1 ELSE 0
        /\ minted' = IF worker.mode = "MAPPING" THEN Append(minted, slam) ELSE minted
    BY <1>12 DEF BecomeReady, Idle, Mint, MintHistory
  <2>3. CASE worker.mode = "MAPPING"
    BY <1>12, <2>1, <2>2, <2>3, Appended DEF BecomeReady
  <2>4. CASE worker.mode # "MAPPING"
    BY <2>2, <2>4
  <2> QED
    BY <2>3, <2>4
<1>13. CASE ReadinessTimesOut
  BY <1>13 DEF ReadinessTimesOut, Fail
<1>14. ASSUME NEW sensed \in BOOLEAN, OnRefreshTimer(sensed)
      PROVE  SessionIsNewest' /\ RunsAreNew'
  BY <1>14 DEF OnRefreshTimer, FullyReady
<1>15. ASSUME NEW sensed \in BOOLEAN, Adopt(sensed)
      PROVE  SessionIsNewest' /\ RunsAreNew'
  <2>1. slam # 0 /\ rt = InitialState
    BY <1>15 DEF Adopt
  <2>2. /\ UNCHANGED <<starts, slam, units>> /\ worker'.at = "idle" /\ rt'.epoch = 1
        /\ rt'.session = IF worker.mode = "MAPPING" THEN Len(minted) + 1 ELSE 0
        /\ minted' = IF worker.mode = "MAPPING" THEN Append(minted, slam) ELSE minted
    BY <1>15, <2>1 DEF Adopt, Idle, Mint, MintHistory, Larger
  <2>3. CASE worker.mode = "MAPPING"
    BY <2>1, <2>2, <2>3, Appended
  <2>4. CASE worker.mode # "MAPPING"
    BY <2>2, <2>4
  <2> QED
    BY <2>3, <2>4
<1>16. CASE Reconcile
  <2>1. UNCHANGED <<minted, starts, slam, units>> /\ worker.at \notin {"quiesce", "idle"}
    BY <1>16 DEF Reconcile
  <2>2. rt'.session = 0 /\ worker'.at \notin {"quiesce", "ready"}
    BY <1>16, <2>1, ReconcileEnds
  <2> QED
    BY <2>1, <2>2
<1>17. CASE AdoptFails
  BY <1>17 DEF AdoptFails, Fail
<1>18. CASE SupervisorCrashes
  BY <1>18 DEF SupervisorCrashes, Idle, InitialState, NoBarrier
<1>19. CASE SupervisorStarts
  BY <1>19 DEF SupervisorStarts, Idle
<1>20. CASE OnMap
  BY <1>20 DEF OnMap
<1>21. ASSUME NEW brakes \in BOOLEAN, OnAuthorityState(brakes)
      PROVE  SessionIsNewest' /\ RunsAreNew'
  BY <1>21 DEF OnAuthorityState
<1>22. ASSUME NEW stationary \in BOOLEAN, OnEncoderState(stationary)
      PROVE  SessionIsNewest' /\ RunsAreNew'
  BY <1>22 DEF OnEncoderState
<1>23. ASSUME NEW unit \in Units, Launch(unit)
      PROVE  SessionIsNewest' /\ RunsAreNew'
  <2>1. UNCHANGED <<rt, worker, minted>> /\ slam = 0 /\ units[unit] = "running"
    BY <1>23 DEF Launch
  <2>2. InForce = 0
    BY <2>1
  <2>3. (starts' = starts /\ slam' = slam) \/ (starts' = starts + 1 /\ slam' = starts + 1)
    BY <1>23 DEF Launch
  <2>4. \A i \in 1 .. Len(minted) : minted[i] \in Nat
    BY Appended
  <2> QED
    BY <2>1, <2>2, <2>3, <2>4
<1>24. ASSUME NEW unit \in Units, UnitLeaves(unit)
      PROVE  SessionIsNewest' /\ RunsAreNew'
  BY <1>24 DEF UnitLeaves
<1>25. ASSUME NEW group \in {"common", "autonomy"}, Discover(group)
      PROVE  SessionIsNewest' /\ RunsAreNew'
  BY <1>25 DEF Discover
<1> QED
  BY <1>1, <1>2, <1>3, <1>4, <1>5, <1>6, <1>7, <1>8, <1>9, <1>10, <1>11, <1>12, <1>13, <1>14,
     <1>15, <1>16, <1>17, <1>18, <1>19, <1>20, <1>21, <1>22, <1>23, <1>24, <1>25 DEF RuntimeNext

-----------------------------------------------------------------------------
(* Steps of supervisor and environment, and steps that leave them alone. *)

(* Steps of supervisor, systemd and graph keep their invariant. *)
LEMMA RuntimeSteps ==
    ASSUME RuntimeIInv, RuntimeNext
    PROVE  RuntimeIInv'
<1>1. RuntimeTypeOK'
  BY RuntimeTypes DEF RuntimeIInv
<1> QED
  BY <1>1, UnitSteps, ReportSteps, SessionSteps DEF RuntimeIInv

(* Requests made and crashes elsewhere do not concern the runtime. *)
LEMMA RuntimeFrame ==
    ASSUME RuntimeIInv, UNCHANGED <<rt, process, worker, externalVars, map_file, minted, nodeVars>>,
           requests' \subseteq Requests, clock' \in Nat, crashes' \in Nat
    PROVE  RuntimeIInv'
<1> USE DEF externalVars, nodeVars, RuntimeIInv
<1>1. RuntimeTypeOK'
  BY DEF RuntimeTypeOK
<1>2. RuntimesAreExclusive' /\ WorkerStages' /\ UnitsHost'
  BY DEF RuntimesAreExclusive, WorkerStages, UnitsHost, AllUnitsClean, ResourcesGone, NoneRuns
<1>3. WorkerReports' /\ ActiveMapIsStored'
  BY DEF WorkerReports, ActiveMapIsStored
<1>4. SessionIsNewest' /\ RunsAreNew'
  BY DEF SessionIsNewest, RunsAreNew, InForce, NoneRuns
<1> QED
  BY <1>1, <1>2, <1>3, <1>4

(* So do steps that leave them alone. *)
LEMMA RuntimeStill ==
    ASSUME RuntimeIInv, UNCHANGED runtimeVars
    PROVE  RuntimeIInv'
  BY RuntimeFrame DEF runtimeVars, externalVars, nodeVars, RuntimeIInv, RuntimeTypeOK

(* Names given to sessions are kept. *)
LEMMA NamesAreKept ==
    ASSUME RuntimeTypeOK, RuntimeNext
    PROVE  Len(minted) <= Len(minted') /\ \A i \in 1 .. Len(minted) : minted'[i] = minted[i]
<1>1. CASE \E again \in BOOLEAN : BecomeReady(again)
  BY <1>1, Appended DEF BecomeReady, MintHistory
<1>2. CASE \E sensed \in BOOLEAN : Adopt(sensed)
  BY <1>2, Appended DEF Adopt, MintHistory
<1>3. CASE UNCHANGED minted
  BY <1>3, Appended
<1>4. UNCHANGED minted \/ (\E again \in BOOLEAN : BecomeReady(again))
        \/ (\E sensed \in BOOLEAN : Adopt(sensed))
  BY DEF RuntimeNext, WebModeRequest, WebRequest, AnswerRequest, BeginTransition,
     QuiescenceReached, QuiescenceTimesOut, IssueStops, CleanupDone, StopTimesOut, GraphGone,
     StartUnit, StartFails, ReadinessTimesOut, OnRefreshTimer, Reconcile, AdoptFails,
     SupervisorCrashes, SupervisorStarts, OnMap, OnAuthorityState, OnEncoderState, Launch,
     UnitLeaves, Discover
<1> QED
  BY <1>1, <1>2, <1>3, <1>4

-----------------------------------------------------------------------------
(* Files. *)

(* A directory that is not there. *)
LEMMA EmptyTypes ==
    EmptyDirectory \in Directories /\ ~EmptyDirectory.listed /\ NoManifest \in Manifests
<1>1. 0 \in Content /\ 0 \in Nat /\ 0 \in 0 .. 1
  BY LibraryConstants DEF Content
<1>2. NoManifest \in Manifests
  BY <1>1 DEF NoManifest, Manifests
<1> QED
  BY <1>1, <1>2 DEF EmptyDirectory, Directories, Missing

(* What a directory may become. *)
LEMMA DirectoryTypes ==
    ASSUME NEW d \in Directories, NEW run \in Runs, NEW s \in Nat, NEW m \in Manifests
    PROVE  /\ [d EXCEPT !.semantics = 1] \in Directories
           /\ [d EXCEPT !.posegraph = Of(run)] \in Directories
           /\ [d EXCEPT !.raster = Of(run)] \in Directories
           /\ [d EXCEPT !.manifest = m] \in Directories
           /\ [d EXCEPT !.manifest = m, !.listed = TRUE] \in Directories
           /\ build_manifest(s, d) \in Manifests
           /\ Of(run) # Missing
<1>1. Of(run) \in Content /\ 0 \in Content /\ Of(run) # Missing /\ 0 \in 0 .. 1 /\ 1 \in 0 .. 1
  BY LibraryConstants DEF Of, Runs, Content, Missing
<1>3. build_manifest(s, d) \in Manifests
  BY DEF build_manifest, Manifests, Directories
<1> QED
  BY <1>1, <1>3 DEF Directories

(* What each storage step makes of the files. *)
FilesKept ==
    \A name \in MapNames : /\ maps'[name].listed = maps[name].listed
                           /\ maps'[name].posegraph = maps[name].posegraph
                           /\ maps'[name].raster = maps[name].raster

(* A semantic layer is written into a map that stays whole. *)
LEMMA Painted ==
    ASSUME LibraryTypeOK, NEW name \in MapNames, PaintSemantics(name)
    PROVE  /\ LibraryTypeOK' /\ FilesKept /\ staging' = staging
           /\ WholeMaps => WholeMaps' /\ PaintsWhole'
<1>1. /\ maps' = [maps EXCEPT ![name] = [maps[name] EXCEPT !.semantics = 1]]
      /\ painting' = [NotPainting EXCEPT !.map = name] /\ staging' = staging
  BY DEF PaintSemantics
<1>2. \A n \in MapNames : maps'[n] = IF n = name THEN [maps[n] EXCEPT !.semantics = 1] ELSE maps[n]
  BY <1>1 DEF LibraryTypeOK
<1>3. \A n \in MapNames :
        LET d == [maps[n] EXCEPT !.semantics = 1]
        IN  /\ d.posegraph = maps[n].posegraph /\ d.raster = maps[n].raster
            /\ d.listed = maps[n].listed /\ d.manifest = maps[n].manifest
  BY DEF LibraryTypeOK, Directories
<1>4. \A n \in MapNames : [maps[n] EXCEPT !.semantics = 1] \in Directories
  BY DEF LibraryTypeOK, Directories
<1>5. painting' \in Paintings /\ ~painting'.hashed
  BY <1>1, EmptyTypes DEF NotPainting, Paintings
<1>6. LibraryTypeOK'
  BY <1>1, <1>4, <1>5 DEF LibraryTypeOK
<1>7. ASSUME WholeMaps PROVE WholeMaps'
  <2> SUFFICES ASSUME NEW n \in MapNames, maps'[n].listed
               PROVE  Complete(maps'[n])
    BY DEF WholeMaps
  <2>1. /\ maps'[n].posegraph = maps[n].posegraph /\ maps'[n].raster = maps[n].raster
        /\ maps[n].listed /\ maps'[n].manifest = maps[n].manifest
    BY <1>2, <1>3
  <2> QED
    BY <1>7, <2>1 DEF WholeMaps, Complete, HashesMatch, RasterReadable
<1>8. FilesKept
  BY <1>2, <1>3 DEF FilesKept
<1> QED
  BY <1>1, <1>5, <1>6, <1>7, <1>8 DEF PaintsWhole

(* A new manifest speaks of the core files that are there. *)
LEMMA ManifestPainted ==
    ASSUME LibraryTypeOK, Painting
    PROVE  /\ LibraryTypeOK' /\ FilesKept /\ staging' = staging
           /\ WholeMaps /\ PaintsWhole => WholeMaps' /\ PaintsWhole'
<1>1. NotPainting \in Paintings /\ ~NotPainting.hashed /\ NoManifest \in Manifests
  BY EmptyTypes DEF NotPainting, Paintings
<1>2. staging' = staging
  BY DEF Painting, HashManifest, PaintManifest, PaintingDies
<1>3. ASSUME maps' = maps, painting' \in Paintings
      PROVE  LibraryTypeOK' /\ FilesKept /\ (WholeMaps => WholeMaps')
  BY <1>2, <1>3 DEF LibraryTypeOK, WholeMaps, FilesKept, Complete, HashesMatch, RasterReadable
<1>4. CASE PaintingDies
  BY <1>1, <1>2, <1>3, <1>4 DEF PaintingDies, PaintsWhole
<1>5. CASE HashManifest
  <2>1. painting.map \in MapNames /\ maps' = maps /\ maps[painting.map] \in Directories
    BY <1>5 DEF HashManifest, LibraryTypeOK, Paintings
  <2> DEFINE d == maps[painting.map]
             b == build_manifest(d.manifest.session, d)
             m == IF d.listed THEN b ELSE NoManifest
  <2>2. b \in Manifests /\ b.posegraph = d.posegraph /\ b.raster = d.raster
    BY <2>1 DEF build_manifest, Manifests, Directories
  <2>3. painting' = [painting EXCEPT !.hashed = TRUE, !.manifest = m]
    BY <1>5 DEF HashManifest
  <2> HIDE DEF b
  <2>4. /\ m \in Manifests
        /\ ~d.listed => m = NoManifest
        /\ d.listed => m.posegraph = d.posegraph /\ m.raster = d.raster
    BY <1>1, <2>2
  <2> HIDE DEF m
  <2>5. painting' \in Paintings /\ painting'.map = painting.map /\ painting'.manifest = m
    BY <2>3, <2>4 DEF LibraryTypeOK, Paintings
  <2>6. PaintsWhole'
    BY <2>1, <2>4, <2>5 DEF PaintsWhole
  <2> QED
    BY <1>2, <1>3, <2>1, <2>5, <2>6
<1>6. CASE PaintManifest
  <2> DEFINE m == painting.manifest
  <2>1. painting' = NotPainting /\ painting.hashed /\ m \in Manifests
    BY <1>6 DEF PaintManifest, LibraryTypeOK, Paintings
  <2>2. PaintsWhole' /\ painting' \in Paintings
    BY <1>1, <2>1 DEF PaintsWhole
  <2>3. CASE ~maps[painting.map].listed
    BY <1>2, <1>3, <1>6, <2>2, <2>3 DEF PaintManifest
  <2>4. CASE maps[painting.map].listed
    <3>1. maps' = [maps EXCEPT ![painting.map] = [maps[painting.map] EXCEPT !.manifest = m]]
      BY <1>6, <2>4 DEF PaintManifest
    <3> HIDE DEF m
    <3>2. \A n \in MapNames :
            maps'[n] = IF n = painting.map THEN [maps[n] EXCEPT !.manifest = m] ELSE maps[n]
      BY <3>1 DEF LibraryTypeOK
    <3>3. \A n \in MapNames :
            LET d == [maps[n] EXCEPT !.manifest = m]
            IN  /\ d.posegraph = maps[n].posegraph /\ d.raster = maps[n].raster
                /\ d.listed = maps[n].listed /\ d.manifest = m /\ d \in Directories
      BY <2>1 DEF LibraryTypeOK, Directories
    <3>4. LibraryTypeOK'
      BY <1>2, <2>2, <3>1, <3>3 DEF LibraryTypeOK
    <3>5. ASSUME WholeMaps, PaintsWhole PROVE WholeMaps'
      <4> SUFFICES ASSUME NEW n \in MapNames, maps'[n].listed
                   PROVE  Complete(maps'[n])
        BY DEF WholeMaps
      <4>1. /\ maps'[n].posegraph = maps[n].posegraph /\ maps'[n].raster = maps[n].raster
            /\ maps[n].listed
            /\ maps'[n].manifest = IF n = painting.map THEN m ELSE maps[n].manifest
        BY <3>2, <3>3
      <4>2. n = painting.map /\ m # NoManifest
              => m.posegraph = maps[n].posegraph /\ m.raster = maps[n].raster
        BY <2>1, <3>5, <4>1 DEF PaintsWhole, m
      <4> QED
        BY <3>5, <4>1, <4>2 DEF WholeMaps, Complete, HashesMatch, RasterReadable
    <3>6. FilesKept
      BY <3>2, <3>3 DEF FilesKept
    <3> QED
      BY <1>2, <2>2, <3>4, <3>5, <3>6
  <2> QED
    BY <2>3, <2>4
<1> QED
  BY <1>4, <1>5, <1>6 DEF Painting

(* A save adds one whole map under a free name. *)
LEMMA Published ==
    ASSUME LibraryTypeOK, NEW name \in MapNames, NEW s \in Nat,
           StagePublish(name, s), staging.posegraph # Missing, staging.raster # Missing
    PROVE  /\ LibraryTypeOK' /\ (WholeMaps => WholeMaps') /\ ~maps[name].listed
           /\ maps'[name].listed /\ maps'[name].posegraph = staging.posegraph
           /\ maps'[name].raster = staging.raster
           /\ \A n \in MapNames \ {name} : maps'[n] = maps[n]
<1> DEFINE m == build_manifest(s, staging)
           d == [staging EXCEPT !.manifest = m, !.listed = TRUE]
<1>1. /\ ~maps[name].listed /\ maps' = [maps EXCEPT ![name] = d]
      /\ staging' = EmptyDirectory /\ painting' = painting
  BY DEF StagePublish
<1>2. staging \in Directories /\ EmptyDirectory \in Directories
  BY EmptyTypes DEF LibraryTypeOK
<1>3. m \in Manifests /\ m.posegraph = staging.posegraph /\ m.raster = staging.raster
  BY <1>2 DEF build_manifest, Manifests, Directories
<1> HIDE DEF m
<1>4. /\ d.posegraph = staging.posegraph /\ d.raster = staging.raster
      /\ d.listed /\ d.manifest = m /\ d \in Directories
  BY <1>2, <1>3 DEF Directories
<1> HIDE DEF d
<1>5. maps'[name] = d /\ \A n \in MapNames \ {name} : maps'[n] = maps[n]
  BY <1>1 DEF LibraryTypeOK
<1>6. LibraryTypeOK'
  BY <1>1, <1>2, <1>4 DEF LibraryTypeOK
<1>7. WholeMaps => WholeMaps'
  BY <1>3, <1>4, <1>5 DEF WholeMaps, Complete, HashesMatch, RasterReadable
<1> QED
  BY <1>1, <1>4, <1>5, <1>6, <1>7

(* A deletion takes away one map. *)
LEMMA Removed ==
    ASSUME LibraryTypeOK, NEW name \in MapNames, RemoveBundle(name)
    PROVE  /\ LibraryTypeOK' /\ (WholeMaps => WholeMaps') /\ staging' = staging
           /\ ~maps'[name].listed
           /\ \A n \in MapNames \ {name} : maps'[n] = maps[n]
<1>1. /\ maps' = [maps EXCEPT ![name] = EmptyDirectory]
      /\ staging' = staging /\ painting' = painting
  BY DEF RemoveBundle
<1>2. EmptyDirectory \in Directories /\ ~EmptyDirectory.listed
  BY EmptyTypes
<1>3. maps'[name] = EmptyDirectory /\ \A n \in MapNames \ {name} : maps'[n] = maps[n]
  BY <1>1 DEF LibraryTypeOK
<1>4. LibraryTypeOK'
  BY <1>1, <1>2 DEF LibraryTypeOK
<1>5. WholeMaps => WholeMaps'
  BY <1>2, <1>3 DEF WholeMaps
<1> QED
  BY <1>1, <1>2, <1>3, <1>4, <1>5

(* Where every listed directory is whole, those are the catalog. *)
LEMMA CatalogIsListed ==
    ASSUME WholeMaps
    PROVE  Catalog = {name \in MapNames : maps[name].listed}
  BY DEF WholeMaps, Catalog, validate_bundle, safe_basename

-----------------------------------------------------------------------------
(* The executor. *)

Observed ==
    [mode : Modes, lifecycle : {"STABLE", "TRANSITIONING", "FAULT"}, ready : BOOLEAN,
     active_map : MapNames \cup {NoMap}]
Sessions ==
    [id : Nat, epoch : Nat, phase : {"NONE", "STARTING", "READY", "SAVING", "SAVED"},
     saved : MapNames \cup {NoMap}]
Saves ==
    [state : {"IDLE", "RUNNING", "SUCCEEDED", "FAILED"},
     at : {"idle", "prepare", "serialize", "raster", "publish", "record"},
     name : MapNames \cup {NoMap}, session : Nat, ok : BOOLEAN]
Drafts == [id : Nat, session : Nat]
Pendings == [id : Nat, epoch : Nat, session : Nat, asked : Nat]
Resets ==
    [state : {"IDLE", "RUNNING", "SUCCEEDED", "FAILED"}, draft : Drafts, pending : Pendings]

ExecutorTypes ==
    /\ executor \in {"up", "down"} /\ operations \in Nat
    /\ seen \in Observed /\ session \in Sessions /\ save \in Saves /\ reset \in Resets
    /\ selected \in MapNames \cup {NoMap} /\ selection_file \in MapNames \cup {NoMap}
    /\ last_map \in Runs

(* The types of files, runtime and executor together. *)
LEMMA TypesOfAll == SessionTypeOK <=> LibraryTypeOK /\ RuntimeTypeOK /\ ExecutorTypes
  BY DEF SessionTypeOK, ExecutorTypes, Observed, Sessions, Saves, Drafts, Pendings, Resets

(* The executor's initial values. *)
LEMMA FirstTypes ==
    /\ NothingSeen \in Observed /\ NoSession \in Sessions /\ NoSave \in Saves
    /\ NoReset \in Resets /\ NoPending \in Pendings /\ NoDraft \in Drafts /\ NoGrid \in Runs
<1>1. NoPending \in Pendings /\ NoDraft \in Drafts
  BY DEF NoPending, Pendings, NoDraft, Drafts
<1>2. NoReset \in Resets
  BY <1>1 DEF NoReset, Resets
<1> QED
  BY <1>1, <1>2, LibraryConstants
     DEF NothingSeen, Observed, NoSession, Sessions, NoSave, Saves, NoGrid, Runs, Modes

(* A reset that is over. *)
LEMMA ConcludedTypes ==
    ASSUME reset \in Resets, NEW state \in {"SUCCEEDED", "FAILED"}
    PROVE  /\ Concluded(state) \in Resets /\ Concluded(state).state = state
           /\ Concluded(state).draft = reset.draft /\ Concluded(state).pending = NoPending
  BY FirstTypes DEF Concluded, Resets

(* What follows a reported state. *)
LEMMA ObserveTypes ==
    ASSUME ExecutorTypes, RuntimeTypeOK, ObserveRuntime, ObserveReset
    PROVE  /\ session' \in Sessions /\ save' \in Saves /\ reset' \in Resets
           /\ reset'.draft = reset.draft /\ reset'.pending \in {reset.pending, NoPending}
<1>1. session' \in Sessions
  <2>1. [NoSession EXCEPT !.id = rt.session, !.epoch = rt.epoch, !.phase = "STARTING"] \in Sessions
    BY DEF NoSession, Sessions, RuntimeTypeOK, RuntimeStates
  <2> QED
    BY <2>1, FirstTypes DEF ObserveRuntime, ExecutorTypes
<1>2. save' \in Saves
  <2>1. [save EXCEPT !.state = "FAILED"] \in Saves
    BY DEF ExecutorTypes, Saves
  <2> QED
    BY <2>1 DEF ObserveRuntime, ExecutorTypes
<1>3. /\ reset' \in Resets /\ reset'.draft = reset.draft
      /\ reset'.pending \in {reset.pending, NoPending}
  <2>1. reset' = reset \/ \E state \in {"SUCCEEDED", "FAILED"} : reset' = Concluded(state)
    BY DEF ObserveReset
  <2> QED
    BY <2>1, ConcludedTypes DEF ExecutorTypes
<1> QED
  BY <1>1, <1>2, <1>3

(* What a step of the executor does to its own state. *)
LEMMA ExecutorSteps ==
    ASSUME SessionIInv,
           \/ OnModeState \/ OnSessionTimer
           \/ \E produced_after \in BOOLEAN : OnGrid(produced_after)
           \/ RejectRequest
           \/ \E name \in MapNames \cup {BadName} : HandleSelectMap(name)
           \/ \E name \in MapNames, id \in 1 .. Len(minted), inhibited \in BOOLEAN :
                 HandleSaveMap(name, id, inhibited)
           \/ SaveFails \/ SaveRecord \/ ExecutorStarts
    PROVE  SessionIInv' /\ UNCHANGED libraryVars
<1>1. LibraryTypeOK /\ RuntimeTypeOK /\ ExecutorTypes
  BY TypesOfAll DEF SessionIInv
<1>2. UNCHANGED libraryVars /\ UNCHANGED runtimeVars
  BY DEF OnModeState, OnSessionTimer, OnGrid, RejectRequest, HandleSelectMap, HandleSaveMap,
     SaveFails, SaveRecord, ExecutorStarts
<1>3. RuntimeIInv'
  BY <1>2, RuntimeStill DEF SessionIInv
<1>4. LibraryTypeOK'
  BY <1>1, <1>2 DEF libraryVars, LibraryTypeOK
<1>5. minted' = minted /\ staging' = staging /\ maps' = maps
  BY <1>2 DEF runtimeVars, libraryVars
<1>6. SUFFICES ExecutorTypes' /\ SavesAreStaged' /\ FollowsSessions'
  BY <1>2, <1>3, <1>4 DEF SessionIInv, RuntimeIInv, SessionTypeOK, ExecutorTypes, Observed,
     Sessions, Saves, Drafts, Pendings, Resets
<1> USE DEF ExecutorTypes
<1>7. CASE OnModeState
  <2>1. ExecutorTypes'
    <3>1. seen' \in Observed
      BY <1>1, <1>7 DEF OnModeState, Observed, RuntimeTypeOK, RuntimeStates
    <3> QED
      BY <1>1, <1>7, <3>1, ObserveTypes DEF OnModeState
  <2>2. save'.at = save.at /\ save'.name = save.name
    BY <1>1, <1>7 DEF OnModeState, ObserveRuntime, Saves
  <2>3. SavesAreStaged'
    BY <1>4, <1>5, <2>2 DEF SessionIInv, SavesAreStaged
  <2>5. FollowsSessions'
    <3>1. \/ session' = session \/ session'.id = 0
          \/ session'.id = rt.session /\ session'.epoch = rt.epoch
      BY <1>7 DEF OnModeState, ObserveRuntime, NoSession
    <3>2. rt.session # 0 => rt.session \in 1 .. Len(minted) /\ rt.epoch >= 1
      BY <1>1, Appended DEF SessionIInv, RuntimeIInv, SessionIsNewest, InForce, WorkerReports,
         RuntimeTypeOK, RuntimeStates
    <3>3. reset'.pending \in {reset.pending, NoPending} /\ reset'.draft = reset.draft
      BY <1>1, <1>7, ObserveTypes DEF OnModeState
    <3>4. rt.session # 0 => rt.session = Len(minted)
      BY DEF SessionIInv, RuntimeIInv, SessionIsNewest, InForce, WorkerReports
    <3>5. reset.draft # NoDraft => reset.draft.session <= Len(minted)
      BY <1>1 DEF SessionIInv, FollowsSessions, RuntimeTypeOK
    <3>6. \/ session' = session \/ session'.id = 0
          \/ session'.id = Len(minted) /\ session'.id # 0 /\ session'.epoch >= 1
      BY <3>1, <3>2, <3>4
    <3>7. NoPending.session = 0 /\ Len(minted) \in Nat
      BY <1>1 DEF NoPending, RuntimeTypeOK
    <3> QED
      BY <1>5, <3>3, <3>5, <3>6, <3>7 DEF SessionIInv, FollowsSessions
  <2> QED
    BY <2>1, <2>3, <2>5
<1>8. CASE OnSessionTimer \/ \E produced_after \in BOOLEAN : OnGrid(produced_after)
  <2>1. UNCHANGED <<executor, operations, seen, save, reset, selected, selection_file>>
    BY <1>8 DEF OnSessionTimer, OnGrid
  <2>2. \/ session' = session
        \/ \E phase \in {"STARTING", "READY"} : session' = [session EXCEPT !.phase = phase]
    BY <1>8 DEF OnSessionTimer, OnGrid
  <2>3. session' \in Sessions /\ session'.id = session.id /\ session'.epoch = session.epoch
    BY <1>1, <2>2 DEF Sessions
  <2>4. last_map' \in Runs
    BY <1>1, <1>8 DEF OnSessionTimer, OnGrid, RuntimeTypeOK
  <2> QED
    BY <1>1, <1>4, <1>5, <2>1, <2>3, <2>4
       DEF SessionIInv, SavesAreStaged, FollowsSessions
<1>9. CASE RejectRequest
  <2>1. /\ reset' \in Resets /\ reset'.pending = NoPending /\ NoPending.session = 0
        /\ reset'.draft = reset.draft
    BY <1>1, <1>9, ConcludedTypes DEF RejectRequest, NoPending
  <2>2. operations' \in Nat
    BY <1>1, <1>9 DEF RejectRequest, Handling, Counted
  <2> QED
    BY <1>1, <1>4, <1>5, <1>9, <2>1, <2>2 DEF RejectRequest, Handling, SessionIInv,
       SavesAreStaged, FollowsSessions
<1>10. ASSUME NEW name \in MapNames \cup {BadName}, HandleSelectMap(name)
       PROVE  ExecutorTypes' /\ SavesAreStaged' /\ FollowsSessions'
  <2>1. name \in MapNames
    BY <1>10 DEF HandleSelectMap, Selectable, validate_bundle, safe_basename
  <2>2. operations' \in Nat
    BY <1>1, <1>10 DEF HandleSelectMap, Handling, Counted
  <2> QED
    BY <1>1, <1>4, <1>5, <1>10, <2>1, <2>2 DEF HandleSelectMap, Handling, SessionIInv,
       SavesAreStaged, FollowsSessions
<1>11. ASSUME NEW name \in MapNames, NEW id \in 1 .. Len(minted), NEW inhibited \in BOOLEAN,
              HandleSaveMap(name, id, inhibited)
       PROVE  ExecutorTypes' /\ SavesAreStaged' /\ FollowsSessions'
  <2>1. operations' \in Nat
    BY <1>1, <1>11 DEF HandleSaveMap, Handling, Counted
  <2>2. \/ session' = session
        \/ \E phase \in {"SAVING", "READY"} : session' = [session EXCEPT !.phase = phase]
    BY <1>11 DEF HandleSaveMap
  <2>3. session' \in Sessions /\ session'.id = session.id /\ session'.epoch = session.epoch
    BY <1>1, <2>2 DEF Sessions
  <2>4. id \in Nat
    BY <1>1, Appended
  <2>5. save' \in Saves /\ save'.at \in {save.at, "prepare"} /\ save'.name \in {save.name, name}
    <3> DEFINE begun == [state |-> "RUNNING", at |-> "prepare", name |-> name,
                         session |-> id, ok |-> FALSE]
    <3>1. begun \in Saves /\ begun.at = "prepare" /\ begun.name = name
      BY <2>4 DEF Saves
    <3>2. LET refused == [save EXCEPT !.state = "FAILED"]
          IN  refused \in Saves /\ refused.at = save.at /\ refused.name = save.name
      BY <1>1 DEF Saves
    <3>3. save' = begun \/ save' = [save EXCEPT !.state = "FAILED"]
      BY <1>11 DEF HandleSaveMap
    <3> QED
      BY <3>1, <3>2, <3>3
  <2>6. save.at = "idle"
    BY <1>11 DEF HandleSaveMap, Handling, RequestsIdle
  <2>7. save'.at # "idle" => save'.name = name
    BY <1>1, <1>11, <2>6 DEF HandleSaveMap, Saves
  <2> QED
    BY <1>1, <1>4, <1>5, <1>11, <2>1, <2>3, <2>5, <2>6, <2>7 DEF HandleSaveMap, Handling,
       SessionIInv, SavesAreStaged, FollowsSessions
<1>12. CASE SaveFails
  <2>1. save' \in Saves /\ save'.at = "record" /\ save'.name = save.name /\ save.at # "idle"
    BY <1>1, <1>12 DEF SaveFails, GoTo, Saves
  <2> QED
    BY <1>1, <1>4, <1>5, <1>12, <2>1
       DEF SaveFails, SaveVars, SessionIInv, SavesAreStaged, FollowsSessions
<1>13. CASE SaveRecord
  <2>1. save' \in Saves /\ save'.at = "idle"
    BY <1>13, FirstTypes DEF SaveRecord, Saves, NoSave
  <2>2. save.name \in MapNames
    BY <1>13 DEF SaveRecord, SessionIInv, SavesAreStaged
  <2>3. session' \in Sessions /\ session'.id = session.id /\ session'.epoch = session.epoch
    BY <1>1, <1>13, <2>2 DEF SaveRecord, Sessions
  <2> QED
    BY <1>1, <1>4, <1>5, <1>13, <2>1, <2>3
       DEF SaveRecord, SessionIInv, SavesAreStaged, FollowsSessions
<1>14. CASE ExecutorStarts
  BY <1>1, <1>4, <1>5, <1>14 DEF ExecutorStarts, SessionIInv, SavesAreStaged, FollowsSessions
<1> QED
  BY <1>7, <1>8, <1>9, <1>10, <1>11, <1>12, <1>13, <1>14

(* A save publishes what it staged, whole and under a free name. *)
LEMMA SaveSteps ==
    ASSUME SessionIInv, SavePrepare \/ SaveSerialize \/ SaveRaster \/ SavePublish
    PROVE  SessionIInv'
<1>1. LibraryTypeOK /\ RuntimeTypeOK /\ ExecutorTypes /\ RuntimeIInv
  BY TypesOfAll DEF SessionIInv
<1>2. UNCHANGED runtimeVars /\ UNCHANGED SaveVars /\ executor = "up"
  BY DEF SavePrepare, SaveSerialize, SaveRaster, SavePublish
<1>3. /\ RuntimeIInv' /\ minted' = minted /\ UNCHANGED <<executor, operations, seen, session>>
      /\ UNCHANGED <<reset, selected, selection_file, last_map>>
  BY <1>1, <1>2, RuntimeStill DEF runtimeVars, SaveVars
<1>4. save.at # "idle" /\ save.name \in MapNames /\ save \in Saves /\ save.session \in Nat
  BY <1>1 DEF SavePrepare, SaveSerialize, SaveRaster, SavePublish, SessionIInv, SavesAreStaged,
     ExecutorTypes, Saves
<1>5. ASSUME NEW at \in {"serialize", "raster", "publish", "record"},
             GoTo(at) \/ save' = [save EXCEPT !.at = at, !.ok = TRUE]
      PROVE  save' \in Saves /\ save'.at = at /\ save'.name = save.name
  BY <1>4, <1>5 DEF GoTo, Saves
<1>6. FollowsSessions'
  BY <1>3 DEF SessionIInv, FollowsSessions
<1>7. ASSUME save' \in Saves PROVE ExecutorTypes'
  BY <1>1, <1>3, <1>7 DEF ExecutorTypes
<1>8. ASSUME LibraryTypeOK', ExecutorTypes', SavesAreStaged'
      PROVE  SessionIInv'
  BY <1>3, <1>6, <1>8 DEF SessionIInv, RuntimeIInv, SessionTypeOK, ExecutorTypes, Observed,
     Sessions, Saves, Drafts, Pendings, Resets
<1>9. CASE ~SavePublish
  <2>1. UNCHANGED <<maps, painting>>
    BY <1>9
       DEF SavePrepare, SaveSerialize, SaveRaster, StagePrepare, StagePosegraph, StageRaster
  <2>4. staging \in Directories /\ slam \in Runs /\ last_map \in Runs
    BY <1>1 DEF LibraryTypeOK, RuntimeTypeOK, ExecutorTypes
  <2>5. \A run \in Runs :
          /\ [staging EXCEPT !.posegraph = Of(run)] \in Directories
          /\ [staging EXCEPT !.raster = Of(run)] \in Directories
          /\ [staging EXCEPT !.posegraph = Of(run)].posegraph # Missing
          /\ [staging EXCEPT !.raster = Of(run)].raster # Missing
          /\ [staging EXCEPT !.raster = Of(run)].posegraph = staging.posegraph
    <3>1. NoManifest \in Manifests
      BY EmptyTypes DEF EmptyDirectory, Directories
    <3>2. \A run \in Runs : Of(run) # Missing
      BY <2>4, <3>1, DirectoryTypes
    <3> QED
      BY <2>4, <3>1, <3>2, DirectoryTypes DEF Directories
  <2>6. staging' \in Directories /\ save' \in Saves /\ SavesAreStaged'
    <3>1. CASE SavePrepare
      <4>1. GoTo("serialize") /\ staging' = EmptyDirectory
        BY <3>1 DEF SavePrepare, StagePrepare
      <4> QED
        BY <1>4, <1>5, <4>1, EmptyTypes DEF SavesAreStaged
    <3>2. CASE SaveSerialize
      <4>1. GoTo("raster") /\ staging' = [staging EXCEPT !.posegraph = Of(slam)]
        BY <3>2 DEF SaveSerialize, StagePosegraph
      <4> QED
        BY <1>4, <1>5, <2>4, <2>5, <4>1 DEF SavesAreStaged
    <3>3. CASE SaveRaster
      <4>1. /\ GoTo("publish") /\ staging' = [staging EXCEPT !.raster = Of(last_map)]
            /\ save.at = "raster"
        BY <3>3 DEF SaveRaster, StageRaster
      <4>2. staging.posegraph # Missing
        BY <4>1 DEF SessionIInv, SavesAreStaged
      <4> QED
        BY <1>4, <1>5, <2>4, <2>5, <4>1, <4>2 DEF SavesAreStaged
    <3> QED
      BY <1>9, <3>1, <3>2, <3>3
  <2>7. LibraryTypeOK'
    BY <1>1, <2>1, <2>6 DEF LibraryTypeOK
  <2> QED
    BY <1>3, <1>7, <1>8, <2>1, <2>6, <2>7
<1>10. CASE SavePublish
  <2>1. /\ StagePublish(save.name, save.session)
        /\ save' = [save EXCEPT !.at = "record", !.ok = TRUE]
        /\ save.at = "publish"
    BY <1>10 DEF SavePublish
  <2>2. staging.posegraph # Missing /\ staging.raster # Missing
    BY <2>1 DEF SessionIInv, SavesAreStaged
  <2>3. LibraryTypeOK'
    BY <1>1, <1>4, <2>1, <2>2, Published
  <2>4. save' \in Saves /\ save'.at = "record" /\ save'.name = save.name
    BY <1>5, <2>1
  <2>5. SavesAreStaged'
    BY <1>4, <2>4 DEF SavesAreStaged
  <2> QED
    BY <1>3, <1>7, <1>8, <1>10, <2>3, <2>4, <2>5
<1> QED
  BY <1>9, <1>10

(* Painted semantic layers, NEW MAP, deletions and crashes. *)
LEMMA OtherSteps ==
    ASSUME SessionIInv,
           \/ \E name \in MapNames : EditSemantics(name)
           \/ Painting /\ UNCHANGED <<runtimeVars, executorVars>>
           \/ HandleNewMap \/ ForwardNewMap
           \/ \E name \in MapNames \cup {BadName} : HandleDeleteMap(name)
           \/ \E file \in MapNames \cup {NoMap} : ExecutorCrashes(file)
    PROVE  SessionIInv'
<1>1. LibraryTypeOK /\ RuntimeTypeOK /\ ExecutorTypes /\ RuntimeIInv
  BY TypesOfAll DEF SessionIInv
<1>2. ASSUME LibraryTypeOK', RuntimeIInv', ExecutorTypes', SavesAreStaged', FollowsSessions'
      PROVE  SessionIInv'
  BY <1>2 DEF SessionIInv, RuntimeIInv, SessionTypeOK, ExecutorTypes, Observed, Sessions, Saves,
     Drafts, Pendings, Resets
<1>3. UNCHANGED libraryVars => LibraryTypeOK' /\ staging' = staging
  BY <1>1 DEF libraryVars, LibraryTypeOK
<1>4. ASSUME LibraryTypeOK', staging' = staging, UNCHANGED runtimeVars,
             UNCHANGED <<executor, seen, session, save, reset, selected, selection_file, last_map>>,
             operations' \in Nat
      PROVE  SessionIInv'
  <2>1. RuntimeIInv' /\ minted' = minted
    BY <1>1, <1>4, RuntimeStill DEF runtimeVars
  <2> QED
    BY <1>1, <1>2, <1>4, <2>1 DEF ExecutorTypes, SessionIInv, SavesAreStaged, FollowsSessions
<1>5. ASSUME NEW name \in MapNames, EditSemantics(name)
      PROVE  SessionIInv'
  <2>1. LibraryTypeOK' /\ staging' = staging
    BY <1>1, <1>5, Painted DEF EditSemantics
  <2> QED
    BY <1>1, <1>4, <1>5, <2>1 DEF EditSemantics, Counted, ExecutorTypes
<1>6. CASE Painting /\ UNCHANGED <<runtimeVars, executorVars>>
  <2>1. LibraryTypeOK' /\ staging' = staging
    BY <1>1, <1>6, ManifestPainted
  <2> QED
    BY <1>1, <1>4, <1>6, <2>1 DEF executorVars, ExecutorTypes
<1>7. CASE HandleNewMap
  <2>1. /\ UNCHANGED libraryVars /\ UNCHANGED <<executor, operations, seen, session, save>>
        /\ UNCHANGED <<selected, selection_file, last_map, minted>>
    BY <1>7 DEF HandleNewMap
  <2>2. RuntimeIInv'
    <3>1. requests' = requests /\ clock' \in Nat /\ crashes' \in Nat
      BY <1>1, <1>7 DEF HandleNewMap, DrawRequestId, RuntimeTypeOK
    <3>2. requests' \subseteq Requests
      BY <1>1, <3>1 DEF RuntimeTypeOK
    <3> QED
      BY <1>1, <1>7, <3>1, <3>2, RuntimeFrame DEF HandleNewMap
  <2> DEFINE draft == [id |-> clock + 1, session |-> session.id]
  <2>3. session.id # 0 /\ draft \in Drafts /\ draft.session = session.id /\ session.id \in Nat
    BY <1>1, <1>7 DEF HandleNewMap, Active, RuntimeTypeOK, ExecutorTypes, Sessions, Drafts
  <2>4. reset' = [reset EXCEPT !.draft = draft]
    BY <1>7 DEF HandleNewMap
  <2> HIDE DEF draft
  <2>5. reset' \in Resets /\ reset'.draft = draft /\ reset'.pending = reset.pending
    BY <1>1, <2>3, <2>4 DEF Resets, ExecutorTypes
  <2>6. FollowsSessions'
    BY <2>1, <2>3, <2>5 DEF SessionIInv, FollowsSessions
  <2> QED
    BY <1>1, <1>2, <1>3, <2>1, <2>2, <2>5, <2>6 DEF ExecutorTypes, SessionIInv, SavesAreStaged
<1>8. CASE ForwardNewMap
  <2>1. /\ UNCHANGED libraryVars /\ UNCHANGED <<executor, operations, seen, session, save>>
        /\ UNCHANGED <<selected, selection_file, last_map, minted>>
    BY <1>8 DEF ForwardNewMap
  <2>2. /\ reset.draft \in Drafts /\ reset.draft.id \in Nat /\ reset.draft.session \in Nat
        /\ session.id \in Nat /\ session.epoch \in Nat
    BY <1>1 DEF ExecutorTypes, Resets, Drafts, Sessions
  <2>3. RuntimeIInv'
    <3> DEFINE r == [id |-> reset.draft.id, mode |-> "MAPPING", map |-> NoMap, new_map |-> TRUE]
    <3>1. r \in Requests
      BY <2>2 DEF Requests, Modes
    <3>2. requests' = requests \cup {r} /\ clock' = clock
      BY <1>8 DEF ForwardNewMap, Send
    <3> HIDE DEF r
    <3>3. requests' \subseteq Requests /\ clock' \in Nat /\ crashes' \in Nat
      BY <1>1, <1>8, <3>1, <3>2 DEF ForwardNewMap, RuntimeTypeOK
    <3> QED
      BY <1>1, <1>8, <3>3, RuntimeFrame DEF ForwardNewMap
  <2> DEFINE p == [id |-> reset.draft.id, epoch |-> session.epoch, session |-> session.id,
                   asked |-> reset.draft.session]
  <2>4. /\ p \in Pendings /\ p.session = session.id /\ p.epoch = session.epoch
        /\ p.asked = reset.draft.session
    BY <2>2 DEF Pendings
  <2>5. reset' = [state |-> "RUNNING", draft |-> NoDraft, pending |-> p] /\ reset.draft # NoDraft
    BY <1>8 DEF ForwardNewMap
  <2> HIDE DEF p
  <2>6. reset' \in Resets /\ reset'.draft = NoDraft /\ reset'.pending = p
    BY <2>4, <2>5, FirstTypes DEF Resets
  <2>7. FollowsSessions'
    <3>1. p.session # 0 => p.asked \in 1 .. p.session
      BY <1>1, <2>2, <2>4, <2>5 DEF SessionIInv, FollowsSessions, RuntimeTypeOK
    <3> QED
      BY <2>1, <2>4, <2>6, <3>1 DEF SessionIInv, FollowsSessions
  <2> QED
    BY <1>1, <1>2, <1>3, <2>1, <2>3, <2>6, <2>7 DEF ExecutorTypes, SessionIInv, SavesAreStaged
<1>9. ASSUME NEW name \in MapNames \cup {BadName}, HandleDeleteMap(name)
      PROVE  SessionIInv'
  <2>1. name \in MapNames /\ operations' \in Nat
    BY <1>1, <1>9 DEF HandleDeleteMap, Deletable, validate_bundle, safe_basename, Handling,
       Counted, ExecutorTypes
  <2>2. LibraryTypeOK' /\ staging' = staging
    BY <1>1, <1>9, <2>1, Removed DEF HandleDeleteMap
  <2> QED
    BY <1>4, <1>9, <2>1, <2>2 DEF HandleDeleteMap, Handling
<1>10. ASSUME NEW file \in MapNames \cup {NoMap}, ExecutorCrashes(file)
       PROVE  SessionIInv'
  <2>1. UNCHANGED libraryVars /\ operations' = operations /\ executor' = "down"
    BY <1>10 DEF ExecutorCrashes
  <2>2. RuntimeIInv' /\ minted' = minted
    <3>1. crashes' \in Nat /\ requests' = requests /\ clock' = clock
      BY <1>1, <1>10 DEF ExecutorCrashes, RuntimeTypeOK
    <3> QED
      BY <1>1, <1>10, <3>1, RuntimeFrame DEF ExecutorCrashes, RuntimeTypeOK
  <2>3. ExecutorTypes'
    BY <1>1, <1>10, <2>1, FirstTypes DEF ExecutorCrashes, ExecutorTypes
  <2>4. /\ save'.at = "idle" /\ session'.id = 0 /\ reset'.pending.session = 0
        /\ reset'.draft = NoDraft
    BY <1>10 DEF ExecutorCrashes, NoSave, NoSession, NoReset, NoPending
  <2> QED
    BY <1>2, <1>3, <2>1, <2>2, <2>3, <2>4 DEF SavesAreStaged, FollowsSessions
<1> QED
  BY <1>5, <1>6, <1>7, <1>8, <1>9, <1>10

-----------------------------------------------------------------------------
(* The invariant. *)

(* The invariant holds at first boot. *)
LEMMA SessionBegins == SessionInit => SessionIInv
<1> SUFFICES ASSUME SessionInit PROVE SessionIInv
  OBVIOUS
<1> USE DEF SessionInit, RuntimeInit, LibraryInit
<1>1. RuntimeTypeOK
  <2>1. <<>> \in Seq(Runs) /\ 0 \in Runs /\ InitialState \in RuntimeStates
    BY LibraryConstants DEF Runs, InitialState, RuntimeStates, Modes
  <2>2. [Idle EXCEPT !.at = "reconcile"] \in Workers
    BY DEF Idle, Workers, Modes
  <2>3. NoBarrier \in [revoked : BOOLEAN, stationary : BOOLEAN]
    BY DEF NoBarrier
  <2> QED
    BY <2>1, <2>2, <2>3 DEF RuntimeTypeOK
<1>2. RuntimeIInv
  <2>1. worker.at = "reconcile" /\ ~worker.failing /\ Len(minted) = 0
    BY DEF Idle
  <2>2. rt = InitialState /\ rt.session = 0 /\ rt.mode = "IDLE"
    BY DEF InitialState
  <2>3. UnitsHost /\ RuntimesAreExclusive /\ NoneRuns
    BY DEF UnitsHost, RuntimesAreExclusive, NoneRuns, Units
  <2> QED
    BY <1>1, <2>1, <2>2, <2>3 DEF RuntimeIInv, WorkerStages, WorkerReports, ActiveMapIsStored,
       SessionIsNewest, InForce, RunsAreNew
<1>3. ExecutorTypes
  BY FirstTypes DEF ExecutorTypes
<1>4. LibraryTypeOK
  <2> DEFINE whole == [EmptyDirectory EXCEPT !.posegraph = Of(0), !.raster = Of(0), !.listed = TRUE]
  <2>1. Of(0) \in Content /\ Of(0) # Missing
    BY LibraryConstants DEF Of, Content, Missing
  <2>2. whole \in Directories
    BY <2>1, EmptyTypes DEF Directories
  <2> HIDE DEF whole
  <2>3. maps = [name \in MapNames |-> IF name \in Found THEN whole ELSE EmptyDirectory]
    BY DEF whole
  <2>4. NotPainting \in Paintings
    BY EmptyTypes DEF NotPainting, Paintings
  <2> QED
    BY <2>2, <2>3, <2>4, EmptyTypes DEF LibraryTypeOK
<1>5. /\ save.at = "idle" /\ session.id = 0 /\ reset.pending.session = 0
      /\ reset.draft = NoDraft
  BY DEF NoSave, NoSession, NoReset, NoPending
<1> QED
  BY <1>2, <1>3, <1>4, <1>5, TypesOfAll
     DEF SessionIInv, RuntimeIInv, SavesAreStaged, FollowsSessions

(* Every step of the map session keeps it. *)
LEMMA SessionStep ==
    ASSUME SessionIInv, [SessionNext]_vars
    PROVE  SessionIInv'
<1>1. CASE RuntimeNext /\ UNCHANGED <<libraryVars, executorVars>>
  <2>1. RuntimeIInv'
    BY <1>1, RuntimeSteps DEF SessionIInv
  <2>2. LibraryTypeOK' /\ ExecutorTypes' /\ SavesAreStaged'
    BY <1>1, TypesOfAll DEF SessionIInv, libraryVars, executorVars, LibraryTypeOK,
       ExecutorTypes, SavesAreStaged
  <2>4. FollowsSessions'
    <3>1. RuntimeTypeOK
      BY DEF SessionIInv, RuntimeIInv
    <3>2. Len(minted) \in Nat /\ Len(minted') \in Nat /\ Len(minted) <= Len(minted')
      BY <1>1, <2>1, <3>1, NamesAreKept DEF RuntimeIInv, RuntimeTypeOK
    <3> QED
      BY <1>1, <3>2 DEF SessionIInv, FollowsSessions, executorVars
  <2> QED
    BY <2>1, <2>2, <2>4 DEF SessionIInv, RuntimeIInv, SessionTypeOK, ExecutorTypes,
       Observed, Sessions, Saves, Drafts, Pendings, Resets
<1>2. CASE UNCHANGED vars
  <2>1. RuntimeIInv'
    BY <1>2, RuntimeStill DEF vars, SessionIInv
  <2> QED
    BY <1>2, <2>1 DEF vars, libraryVars, executorVars, runtimeVars, SessionIInv, SessionTypeOK,
       RuntimeIInv, LibraryTypeOK, SavesAreStaged, FollowsSessions
<1> QED
  BY <1>1, <1>2, ExecutorSteps, SaveSteps, OtherSteps DEF SessionNext

(* The inductive invariant of supervisor, executor and files. *)
THEOREM SessionInductive == SessionSpec => []SessionIInv
  BY SessionBegins, SessionStep, PTL DEF SessionSpec

(* Every variable keeps to its type. *)
THEOREM SessionTypeCorrect == SessionSpec => []SessionTypeOK
<1>1. SessionIInv => SessionTypeOK
  BY DEF SessionIInv
<1> QED
  BY <1>1, SessionInductive, PTL

(* While a mode unit runs, no process of the other one is left, whatever   *)
(* crashed, timed out or was refused (transition, _stop_all, reconcile).   *)
THEOREM RuntimesExclude == SessionSpec => []RuntimesAreExclusive
<1>1. SessionIInv => RuntimesAreExclusive
  BY DEF SessionIInv, RuntimeIInv
<1> QED
  BY <1>1, SessionInductive, PTL

(* The map reported for a stable AUTONOMY runtime is the one its processes *)
(* were launched with (transition, _write_map, reconcile).                 *)
THEOREM ActiveMapIsLoaded == SessionSpec => []LoadedMapIsActive
<1>1. SessionIInv => LoadedMapIsActive
  BY DEF SessionIInv, RuntimeIInv, UnitsHost, ActiveMapIsStored, LoadedMapIsActive
<1> QED
  BY <1>1, SessionInductive, PTL

(* A session id names the SLAM run that is alive (transition, reconcile).  *)
THEOREM SessionsNameTheirSlam == SessionSpec => []SessionNamesOneSlam
<1>1. SessionIInv => SessionNamesOneSlam
  BY DEF SessionIInv, RuntimeIInv, SessionIsNewest, InForce, WorkerReports, SessionNamesOneSlam
<1> QED
  BY <1>1, SessionInductive, PTL

(* A NEW MAP forwarded from a session and reported as succeeded has        *)
(* replaced the SLAM run of the session it was accepted for, however late  *)
(* it was forwarded (_handle_new_map, _on_mode_state, transition).         *)
THEOREM ResetsAreFresh == SessionSpec => ResetIsFresh
<1>1. ASSUME SessionIInv, [SessionNext]_vars, Succeeds, reset.pending.session # 0
      PROVE  minted[session'.id] > minted[reset.pending.asked]
  <2>0. reset \in Resets /\ reset.state = "RUNNING" /\ reset'.state = "SUCCEEDED"
    BY <1>1, TypesOfAll DEF SessionIInv, ExecutorTypes, Succeeds
  <2>1. OnModeState
    <3>1. OnModeState \/ reset'.state = reset.state \/ reset'.state # "SUCCEEDED"
      <4>1. CASE RejectRequest \/ HandleNewMap \/ ForwardNewMap
                   \/ (\E file \in MapNames \cup {NoMap} : ExecutorCrashes(file))
        <5>1. RejectRequest => reset'.state # "SUCCEEDED"
          BY <2>0, ConcludedTypes DEF RejectRequest
        <5>2. HandleNewMap => reset'.state = reset.state
          BY <2>0 DEF HandleNewMap, Resets
        <5>3. ForwardNewMap => reset'.state # "SUCCEEDED"
          BY DEF ForwardNewMap
        <5>4. (\E file \in MapNames \cup {NoMap} : ExecutorCrashes(file))
                => reset'.state # "SUCCEEDED"
          BY DEF ExecutorCrashes, NoReset
        <5> QED
          BY <4>1, <5>1, <5>2, <5>3, <5>4
      <4>2. ASSUME
            \/ OnSessionTimer \/ (\E produced_after \in BOOLEAN : OnGrid(produced_after))
            \/ (\E name \in MapNames : EditSemantics(name))
            \/ (\E name \in MapNames \cup {BadName} :
                   HandleSelectMap(name) \/ HandleDeleteMap(name))
            \/ (\E name \in MapNames, id \in 1 .. Len(minted), inhibited \in BOOLEAN :
                   HandleSaveMap(name, id, inhibited))
            \/ SaveFails \/ SavePrepare \/ SaveSerialize \/ SaveRaster \/ SavePublish \/ SaveRecord
            \/ ExecutorStarts
            PROVE reset' = reset
        BY <4>2 DEF EditSemantics, OnSessionTimer, OnGrid, HandleSelectMap, HandleDeleteMap,
           HandleSaveMap, SaveFails, SavePrepare, SaveSerialize, SaveRaster, SavePublish,
           SaveRecord, SaveVars, ExecutorStarts
      <4>3. /\ UNCHANGED <<libraryVars, executorVars>> => reset' = reset
            /\ UNCHANGED <<runtimeVars, executorVars>> => reset' = reset
            /\ UNCHANGED vars => reset' = reset
        BY DEF vars, executorVars
      <4>4. CASE SessionNext
        <5>1. CASE RuntimeNext /\ UNCHANGED <<libraryVars, executorVars>>
          BY <4>3, <5>1
        <5>2. CASE Painting /\ UNCHANGED <<runtimeVars, executorVars>>
          BY <4>3, <5>2
        <5> QED
          BY <4>1, <4>2, <4>4, <5>1, <5>2 DEF SessionNext
      <4> QED
        BY <1>1, <4>3, <4>4
    <3> QED
      BY <2>0, <3>1
  <2> DEFINE p == reset.pending
  <2>2. /\ rt.lifecycle \notin {"TRANSITIONING", "FAULT"} /\ ResetReached(p)
        /\ ObserveRuntime /\ minted' = minted
    BY <2>0, <2>1, ConcludedTypes DEF OnModeState, ObserveReset, runtimeVars
  <2>3. RuntimeTypeOK /\ rt.lifecycle = "STABLE" /\ rt.epoch \in Nat
    BY <1>1, <2>2 DEF SessionIInv, RuntimeIInv, RuntimeTypeOK, RuntimeStates
  <2>4. session'.id = rt.session
    BY <2>2, <2>3 DEF ObserveRuntime, ResetReached, NoSession
  <2>5. /\ p.session \in 1 .. Len(minted) /\ p.epoch >= 1 /\ p.epoch \in Nat
        /\ p.asked \in 1 .. p.session
        /\ rt.epoch > p.epoch /\ rt.session # 0 /\ rt.session # p.session
    BY <1>1, <2>0, <2>2 DEF SessionIInv, FollowsSessions, ResetReached, Resets, Pendings
  <2>6. InForce = rt.session
    BY <1>1, <2>5 DEF InForce, SessionIInv, RuntimeIInv, WorkerReports
  <2>7. /\ rt.session = Len(minted)
        /\ rt.epoch >= 2 => \A i \in 1 .. Len(minted) - 1 : minted[i] < minted[rt.session]
    BY <1>1, <2>5, <2>6 DEF SessionIInv, RuntimeIInv, SessionIsNewest
  <2>8. Len(minted) \in Nat /\ \A i \in 1 .. Len(minted) : minted[i] \in Nat
    BY <2>3, Appended
  <2> HIDE DEF p
  <2>9. minted[p.asked] < minted[rt.session]
    BY <2>3, <2>5, <2>7, <2>8
  <2> QED
    BY <2>4, <2>5, <2>7, <2>8, <2>9 DEF p
<1> QED
  BY <1>1, SessionInductive, PTL DEF SessionSpec, ResetIsFresh

-----------------------------------------------------------------------------
(* The files, where no save overtakes the manifest of a painted map. *)

(* The maps found at first boot are whole, and none is selected. *)
LEMMA FilesBegin == SessionInit => FilesIInv
<1> SUFFICES ASSUME SessionInit PROVE FilesIInv
  OBVIOUS
<1> DEFINE whole == [EmptyDirectory EXCEPT !.posegraph = Of(0), !.raster = Of(0), !.listed = TRUE]
<1>1. Of(0) # Missing
  BY DEF Of, Missing
<1>2. Complete(whole)
  BY <1>1 DEF Complete, HashesMatch, RasterReadable, EmptyDirectory
<1> HIDE DEF whole
<1>3. \A name \in MapNames : maps[name] = IF name \in Found THEN whole ELSE EmptyDirectory
  BY DEF SessionInit, LibraryInit, whole
<1>4. WholeMaps
  BY <1>2, <1>3, EmptyTypes DEF WholeMaps
<1>5. PaintsWhole
  BY DEF SessionInit, LibraryInit, NotPainting, PaintsWhole
<1> QED
  BY <1>4, <1>5 DEF FilesIInv, SelectionIsStored, SessionInit

(* Every step keeps the maps whole and the selection stored. *)
LEMMA FilesStep ==
    ASSUME ~SlowPaint, SessionIInv, FilesIInv, [SessionNext]_vars
    PROVE  FilesIInv'
<1>1. LibraryTypeOK /\ ExecutorTypes /\ WholeMaps /\ PaintsWhole
  BY TypesOfAll DEF SessionIInv, FilesIInv
<1>2. Catalog = {n \in MapNames : maps[n].listed}
  BY <1>1, CatalogIsListed
<1>3. WholeMaps' => Catalog' = {n \in MapNames : maps'[n].listed}
  BY DEF WholeMaps, Catalog, validate_bundle, safe_basename
<1>4. UNCHANGED <<maps, painting>> => WholeMaps' /\ PaintsWhole' /\ Catalog' = Catalog
  BY <1>1 DEF WholeMaps, PaintsWhole, Complete, HashesMatch, RasterReadable, Catalog,
     validate_bundle, safe_basename
<1>5. ASSUME WholeMaps', PaintsWhole', FilesKept,
             UNCHANGED <<executor, selected, selection_file>>
      PROVE  FilesIInv'
  BY <1>2, <1>3, <1>5 DEF FilesIInv, SelectionIsStored, FilesKept
<1>6. CASE \E name \in MapNames : EditSemantics(name)
  BY <1>1, <1>5, <1>6, Painted DEF EditSemantics
<1>7. CASE Painting /\ UNCHANGED <<runtimeVars, executorVars>>
  BY <1>1, <1>5, <1>7, ManifestPainted DEF executorVars
<1>8. ASSUME NEW name \in MapNames \cup {BadName}, HandleSelectMap(name)
      PROVE  FilesIInv'
  <2>1. /\ name \in Catalog /\ UNCHANGED <<maps, painting>>
        /\ selection_file' = name /\ selected' = name
    BY <1>8
       DEF HandleSelectMap, Selectable, Catalog, validate_bundle, safe_basename, libraryVars
  <2> QED
    BY <1>4, <2>1 DEF FilesIInv, SelectionIsStored
<1>9. ASSUME NEW file \in MapNames \cup {NoMap}, ExecutorCrashes(file)
      PROVE  FilesIInv'
  <2>1. /\ UNCHANGED <<maps, painting>> /\ selection_file' = file /\ executor' = "down"
        /\ file = selection_file \/ file \in Catalog
    BY <1>9
       DEF ExecutorCrashes, Selectable, Catalog, validate_bundle, safe_basename, libraryVars
  <2> QED
    BY <1>4, <2>1 DEF FilesIInv, SelectionIsStored
<1>10. CASE ExecutorStarts
  <2>1. /\ UNCHANGED <<maps, painting>> /\ selection_file' = selection_file
        /\ selected' = selection_file
    BY <1>10, LibraryConstants
       DEF ExecutorStarts, FilesIInv, SelectionIsStored, Catalog, libraryVars
  <2> QED
    BY <1>4, <2>1 DEF FilesIInv, SelectionIsStored
<1>11. ASSUME NEW name \in MapNames \cup {BadName}, HandleDeleteMap(name)
       PROVE  FilesIInv'
  <2>1. /\ name \in MapNames /\ name # selected /\ selected = selection_file
        /\ RemoveBundle(name) /\ UNCHANGED <<executor, selected, selection_file, painting>>
    BY <1>11 DEF HandleDeleteMap, Deletable, validate_bundle, safe_basename, Handling,
       RequestsIdle, FilesIInv, SelectionIsStored, RemoveBundle
  <2>2. /\ WholeMaps' /\ ~maps'[name].listed
        /\ \A n \in MapNames \ {name} : maps'[n] = maps[n]
    BY <1>1, <2>1, Removed
  <2>3. PaintsWhole'
    <3>1. CASE painting.map = name
      BY <2>1, <2>2, <3>1 DEF PaintsWhole
    <3>2. CASE painting.map # name
      <4>1. maps'[painting.map] = maps[painting.map]
        BY <1>1, <2>1, <3>2 DEF RemoveBundle, LibraryTypeOK
      <4> QED
        BY <1>1, <2>1, <4>1 DEF PaintsWhole
    <3> QED
      BY <3>1, <3>2
  <2> QED
    BY <1>2, <1>3, <2>1, <2>2, <2>3 DEF FilesIInv, SelectionIsStored
<1>12. CASE SavePublish
  <2>1. /\ StagePublish(save.name, save.session) /\ save.name \in MapNames
        /\ save.session \in Nat /\ UNCHANGED <<executor, selected, selection_file, painting>>
        /\ staging.posegraph # Missing /\ staging.raster # Missing
        /\ painting.hashed => painting.map # save.name
    BY <1>1, <1>12 DEF SavePublish, SaveVars, SessionIInv, SavesAreStaged, ExecutorTypes, Saves,
       StagePublish, MayPublish
  <2>2. /\ WholeMaps' /\ maps'[save.name].listed
        /\ \A n \in MapNames \ {save.name} : maps'[n] = maps[n]
    BY <1>1, <2>1, Published
  <2>3. PaintsWhole'
    <3>1. painting.hashed => maps'[painting.map] = maps[painting.map]
      BY <1>1, <2>1 DEF StagePublish, LibraryTypeOK
    <3> QED
      BY <1>1, <2>1, <3>1 DEF PaintsWhole
  <2> QED
    BY <1>2, <1>3, <2>1, <2>2, <2>3 DEF FilesIInv, SelectionIsStored
<1>13. CASE \/ RuntimeNext /\ UNCHANGED <<libraryVars, executorVars>>
            \/ OnModeState \/ OnSessionTimer
            \/ \E produced_after \in BOOLEAN : OnGrid(produced_after)
            \/ RejectRequest \/ HandleNewMap \/ ForwardNewMap
            \/ \E name \in MapNames, id \in 1 .. Len(minted), inhibited \in BOOLEAN :
                  HandleSaveMap(name, id, inhibited)
            \/ SaveFails \/ SavePrepare \/ SaveSerialize \/ SaveRaster \/ SaveRecord
            \/ UNCHANGED vars
  <2>1. UNCHANGED <<maps, painting>>
    BY <1>13 DEF libraryVars, vars, OnModeState, OnSessionTimer, OnGrid, RejectRequest,
       HandleNewMap, ForwardNewMap, HandleSaveMap, SaveFails, SavePrepare, SaveSerialize,
       SaveRaster, StagePrepare, StagePosegraph, StageRaster, SaveRecord
  <2>2. UNCHANGED <<executor, selected, selection_file>>
    BY <1>13 DEF executorVars, vars, OnModeState, OnSessionTimer, OnGrid, RejectRequest,
       HandleNewMap, ForwardNewMap, HandleSaveMap, Handling, SaveFails, SavePrepare,
       SaveSerialize, SaveRaster, SaveVars, SaveRecord
  <2> QED
    BY <1>4, <2>1, <2>2 DEF FilesIInv, SelectionIsStored
<1> QED
  BY <1>6, <1>7, <1>8, <1>9, <1>10, <1>11, <1>12, <1>13 DEF SessionNext

-----------------------------------------------------------------------------
(* The refinement. *)

Recorded == [name \in Catalog |-> <<maps[name].posegraph, maps[name].raster>>]

(* Steps that keep what is listed and its content do not show. *)
LEMMA CatalogStutters ==
    ASSUME WholeMaps, WholeMaps', FilesKept
    PROVE  Recorded' = Recorded
<1>1. Catalog = {name \in MapNames : maps[name].listed}
  BY CatalogIsListed
<1>2. Catalog' = {name \in MapNames : maps'[name].listed}
  BY DEF WholeMaps, Catalog, validate_bundle, safe_basename
<1>3. Catalog' = Catalog
  BY <1>1, <1>2 DEF FilesKept
<1> QED
  BY <1>1, <1>3 DEF Recorded, FilesKept

(* The steps of the session that publish, delete or select. *)
LEMMA CatalogSteps ==
    ASSUME SessionIInv, FilesIInv, FilesIInv', [SessionNext]_vars
    PROVE  \/ UNCHANGED <<Recorded, selection_file>>
           \/ Abstract!Next
<1>1. LibraryTypeOK /\ WholeMaps /\ WholeMaps' /\ ExecutorTypes
  BY TypesOfAll DEF SessionIInv, FilesIInv
<1>2. /\ Catalog = {name \in MapNames : maps[name].listed}
      /\ Catalog' = {name \in MapNames : maps'[name].listed}
  BY <1>1, CatalogIsListed DEF WholeMaps, Catalog, validate_bundle, safe_basename
<1>3. ASSUME maps' = maps
      PROVE  Recorded' = Recorded
  BY <1>1, <1>2, <1>3 DEF Recorded
<1>4. ASSUME maps' = maps, selection_file' = selection_file
      PROVE  UNCHANGED <<Recorded, selection_file>>
  BY <1>3, <1>4
<1>5. ASSUME NEW name \in Catalog, maps' = maps, selection_file' = name
      PROVE  Abstract!Next
  <2>1. Abstract!Select(name)
    BY <1>3, <1>5 DEF Abstract!Select, Recorded
  <2> QED
    BY <1>2, <2>1 DEF Abstract!Next
<1>6. CASE \E name \in MapNames : EditSemantics(name)
  BY <1>1, <1>6, Painted, CatalogStutters DEF EditSemantics
<1>7. CASE Painting /\ UNCHANGED <<runtimeVars, executorVars>>
  BY <1>1, <1>7, ManifestPainted, CatalogStutters DEF executorVars
<1>8. ASSUME NEW name \in MapNames \cup {BadName}, HandleSelectMap(name)
      PROVE  Abstract!Next
  <2>1. name \in Catalog /\ maps' = maps /\ selection_file' = name
    BY <1>8
       DEF HandleSelectMap, Selectable, Catalog, validate_bundle, safe_basename, libraryVars
  <2> QED
    BY <1>5, <2>1
<1>9. ASSUME NEW file \in MapNames \cup {NoMap}, ExecutorCrashes(file)
      PROVE  UNCHANGED <<Recorded, selection_file>> \/ Abstract!Next
  <2>1. maps' = maps /\ selection_file' = file /\ (file = selection_file \/ file \in Catalog)
    BY <1>9
       DEF ExecutorCrashes, Selectable, Catalog, validate_bundle, safe_basename, libraryVars
  <2> QED
    BY <1>4, <1>5, <2>1
<1>10. ASSUME NEW name \in MapNames \cup {BadName}, HandleDeleteMap(name)
       PROVE  Abstract!Next
  <2>1. /\ name \in Catalog /\ name \in MapNames /\ name # selection_file
        /\ selection_file' = selection_file /\ RemoveBundle(name)
    BY <1>10 DEF HandleDeleteMap, Handling, RequestsIdle, Deletable, Catalog, validate_bundle,
       safe_basename, FilesIInv, SelectionIsStored
  <2>2. ~maps'[name].listed /\ \A n \in MapNames \ {name} : maps'[n] = maps[n]
    BY <1>1, <2>1, Removed
  <2>3. Catalog' = Catalog \ {name}
    BY <1>2, <2>1, <2>2
  <2>4. Recorded' = [n \in Catalog \ {name} |-> Recorded[n]]
    BY <1>2, <2>2, <2>3 DEF Recorded
  <2>5. Abstract!Delete(name)
    BY <2>1, <2>4 DEF Abstract!Delete, Recorded
  <2> QED
    BY <2>1, <2>5 DEF Abstract!Next
<1>11. CASE SavePublish
  <2>9. save.name \in MapNames /\ <<staging.posegraph, staging.raster>> \in Content \X Content
    BY <1>1, <1>11 DEF SavePublish, SessionIInv, SavesAreStaged, LibraryTypeOK, Directories
  <2> PICK name \in MapNames : name = save.name
    BY <2>9
  <2> PICK recording \in Content \X Content : recording = <<staging.posegraph, staging.raster>>
    BY <2>9
  <2>1. StagePublish(name, save.session) /\ selection_file' = selection_file
    BY <1>11 DEF SavePublish, SaveVars
  <2>2. /\ name \in MapNames /\ save.session \in Nat
        /\ staging.posegraph # Missing /\ staging.raster # Missing
    BY <1>1, <1>11 DEF SavePublish, SessionIInv, SavesAreStaged, ExecutorTypes, Saves
  <2>3. /\ ~maps[name].listed /\ maps'[name].listed
        /\ maps'[name].posegraph = staging.posegraph /\ maps'[name].raster = staging.raster
        /\ \A n \in MapNames \ {name} : maps'[n] = maps[n]
    BY <1>1, <2>1, <2>2, Published
  <2>5. Catalog' = Catalog \cup {name} /\ name \notin Catalog
    BY <1>2, <2>2, <2>3
  <2>6. Recorded' = [n \in Catalog \cup {name} |-> IF n = name THEN recording ELSE Recorded[n]]
    BY <1>2, <2>3, <2>5 DEF Recorded
  <2>7. Abstract!Publish(name, recording)
    BY <2>1, <2>5, <2>6 DEF Abstract!Publish, Recorded
  <2> QED
    BY <2>2, <2>7 DEF Abstract!Next
<1>12. CASE \/ RuntimeNext /\ UNCHANGED <<libraryVars, executorVars>>
            \/ OnModeState \/ OnSessionTimer
            \/ \E produced_after \in BOOLEAN : OnGrid(produced_after)
            \/ RejectRequest \/ HandleNewMap \/ ForwardNewMap
            \/ \E name \in MapNames, id \in 1 .. Len(minted), inhibited \in BOOLEAN :
                  HandleSaveMap(name, id, inhibited)
            \/ SaveFails \/ SavePrepare \/ SaveSerialize \/ SaveRaster \/ SaveRecord
            \/ ExecutorStarts \/ UNCHANGED vars
  <2>1. maps' = maps
    BY <1>12 DEF libraryVars, vars, OnModeState, OnSessionTimer, OnGrid, RejectRequest,
       HandleNewMap, ForwardNewMap, HandleSaveMap, SaveFails, SavePrepare, SaveSerialize, SaveRaster,
       StagePrepare, StagePosegraph, StageRaster, SaveRecord, ExecutorStarts
  <2>2. selection_file' = selection_file
    BY <1>12 DEF executorVars, vars, OnModeState, OnSessionTimer, OnGrid, RejectRequest,
       HandleNewMap, ForwardNewMap, HandleSaveMap, SaveFails, SavePrepare, SaveSerialize, SaveRaster, SaveVars,
       SaveRecord, ExecutorStarts
  <2> QED
    BY <1>4, <2>1, <2>2
<1> QED
  BY <1>6, <1>7, <1>8, <1>9, <1>10, <1>11, <1>12 DEF SessionNext

(* The files, renames, semantic layers and crashes implement the abstract  *)
(* catalog: published once and whole, never changed, never deleted while   *)
(* selected (MapSaveTransaction, delete_bundle, _handle_select_map).       *)
(* That holds unless a save overtakes the manifest of a painted map.       *)
THEOREM FilesImplementCatalog == ~SlowPaint => (SessionSpec => CatalogIsImplemented)
<1> SUFFICES ASSUME ~SlowPaint PROVE SessionSpec => CatalogIsImplemented
  OBVIOUS
<1>1. ASSUME SessionInit
      PROVE  Abstract!Init
  <2>1. SessionIInv /\ selection_file = NoMap
    BY <1>1, SessionBegins DEF SessionInit
  <2>2. \A name \in Catalog : maps[name].posegraph \in Content /\ maps[name].raster \in Content
    BY <2>1 DEF SessionIInv, SessionTypeOK, LibraryTypeOK, Directories, Catalog
  <2>3. Recorded \in [Catalog -> Content \X Content] /\ Catalog \in SUBSET MapNames
    BY <2>2 DEF Recorded, Catalog
  <2> QED
    BY <2>1, <2>3 DEF Abstract!Init, Recorded
<1>2. ASSUME SessionIInv, FilesIInv, FilesIInv', [SessionNext]_vars
      PROVE  [Abstract!Next]_<<Recorded, selection_file>>
  BY <1>2, CatalogSteps
<1>3. ASSUME SessionIInv, FilesIInv, [SessionNext]_vars
      PROVE  FilesIInv'
  BY <1>3, FilesStep
<1> QED
  BY <1>1, <1>2, <1>3, FilesBegin, SessionInductive, PTL
     DEF SessionSpec, CatalogIsImplemented, Abstract!Spec, Recorded

=============================================================================
