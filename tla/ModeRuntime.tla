---------------------------- MODULE ModeRuntime ----------------------------
(***************************************************************************)
(* The mode supervisor (mode_runtime.py, mode_supervisor_node.py): one     *)
(* worker that stops everything, starts one of two systemd units, and      *)
(* publishes what it saw; evidence callbacks run beside it on threads of   *)
(* their own.  Requests, the lease and the refresh timer share one         *)
(* callback group, so they wait while a transition runs.                   *)
(*                                                                         *)
(* systemd and the ROS graph are external: a unit's processes leave some   *)
(* time after it is told to stop, its nodes appear and vanish in the graph *)
(* later still.  A time is kept as the comparisons the code makes with it; *)
(* transforms, topic owners, persistent nodes and the age of the last scan *)
(* and map are one input (sensed), read when readiness is evaluated.       *)
(* minted is a history: the SLAM run each mapping session id was given to. *)
(***************************************************************************)
EXTENDS MapLibrary

CONSTANTS
    MaxRequests,     \* bound: mode requests made
    MaxCrashes       \* bound: crashes of the processes modelled

ASSUME RuntimeConstants == MaxRequests \in Nat /\ MaxCrashes \in Nat

VARIABLES
    rt,          \* RuntimeState
    process,     \* "down", "booting" until the first publication, then "up"
    worker,      \* the transition in progress
    requests,    \* mode requests on their way to the supervisor
    clock,       \* the last request id handed out
    units,       \* systemd's view of the two mode units
    graph,       \* the groups of mode nodes the ROS graph shows
    map_file,    \* AUTONOMY_MAP_FILE
    loaded,      \* the map the running AUTONOMY unit was launched with
    slam,        \* the SLAM run that is alive, 0 if none
    starts,      \* units started so far
    minted,      \* history: the SLAM run of each session id
    evidence,    \* the last /map seen, relative to _session_started_at
    barrier,     \* the NEW MAP quiescence barrier
    crashes      \* the processes that have crashed so far

runtimeVars == <<rt, process, worker, requests, clock, units, graph, map_file,
                 loaded, slam, starts, minted, evidence, barrier, crashes>>
externalVars == <<units, graph, loaded, slam, starts>>
nodeVars == <<evidence, barrier>>

Modes == {"IDLE", "MAPPING", "AUTONOMY"}
Units == {"MAPPING", "AUTONOMY"}
NodesOf(mode) == IF mode = "MAPPING" THEN {"common"} ELSE {"common", "autonomy"}
Larger(a, b) == IF a > b THEN a ELSE b

RuntimeStates ==
    [ mode : Modes, lifecycle : {"STABLE", "TRANSITIONING", "FAULT"},
      accepted : Nat, active_map : MapNames \cup {NoMap}, rejected : BOOLEAN,
      epoch : Nat, session : Nat, ready : BOOLEAN ]
InitialState ==
    [ mode |-> "IDLE", lifecycle |-> "STABLE", accepted |-> 0, active_map |-> NoMap,
      rejected |-> FALSE, epoch |-> 0, session |-> 0, ready |-> TRUE ]

Idle == [at |-> "idle", mode |-> "IDLE", map |-> NoMap, before |-> 0, failing |-> FALSE]
Workers ==
    [ at : {"idle", "reconcile", "discover", "quiesce", "stop", "cleanup", "graph",
            "start", "ready"},
      mode : Modes, map : MapNames \cup {NoMap}, before : Nat, failing : BOOLEAN ]
Requests ==
    [id : Nat, mode : Modes, map : MapNames \cup {NoMap}, new_map : BOOLEAN]

NoBarrier == [revoked |-> FALSE, stationary |-> FALSE]

RuntimeInit ==
    /\ rt = InitialState /\ process = "booting"
    /\ worker = [Idle EXCEPT !.at = "reconcile"]
    /\ requests = {} /\ clock = 0
    /\ units = [u \in Units |-> "clean"] /\ graph = {}
    /\ map_file = NoMap /\ loaded = NoMap /\ slam = 0 /\ starts = 0 /\ minted = <<>>
    /\ evidence = "none" /\ barrier = NoBarrier /\ crashes = 0

RuntimeTypeOK ==
    /\ rt \in RuntimeStates /\ process \in {"down", "booting", "up"}
    /\ worker \in Workers
    /\ requests \subseteq Requests /\ clock \in Nat
    /\ units \in [Units -> {"clean", "running", "stopping"}]
    /\ graph \subseteq {"common", "autonomy"}
    /\ map_file \in MapNames \cup {NoMap} /\ loaded \in MapNames \cup {NoMap}
    /\ slam \in Runs /\ starts \in Runs /\ minted \in Seq(Runs)
    /\ evidence \in {"none", "before", "since"}
    /\ barrier \in [revoked : BOOLEAN, stationary : BOOLEAN]
    /\ crashes \in Nat

-----------------------------------------------------------------------------
(* Predicates the worker polls. *)

AllUnitsClean == \A u \in Units : units[u] = "clean"
ResourcesGone == graph = {}

StructuralReady(mode) ==
    /\ units[mode] = "running"
    /\ NodesOf(mode) \subseteq graph
    /\ mode = "MAPPING" => "autonomy" \notin graph

CapabilityReady(mode) ==
    IF mode = "MAPPING" THEN evidence = "since" ELSE evidence # "none"

FullyReady(mode, sensed) == StructuralReady(mode) /\ sensed /\ CapabilityReady(mode)

QuiescenceReady == barrier.revoked /\ barrier.stationary

(* A session that begins now: evidence seen so far is from before it. *)
SessionStarts == IF evidence = "since" THEN "before" ELSE evidence

-----------------------------------------------------------------------------
(* Requests.  Ids are clock readings (time_ns), so they are never reused;  *)
(* two publishers send them and nothing orders their deliveries.  One that *)
(* is lost, or refused for its lease, is one that never arrives.           *)

DrawRequestId == clock < MaxRequests /\ clock' = clock + 1

Send(id, mode, map, new_map) ==
    requests' = requests \cup {[id |-> id, mode |-> mode, map |-> map, new_map |-> new_map]}

WebRequest(mode, map) ==
    /\ DrawRequestId /\ Send(clock + 1, mode, map, FALSE)
    /\ UNCHANGED <<rt, process, worker, units, graph, map_file, loaded, slam,
                   starts, minted, evidence, barrier, crashes>>

Same(r) ==
    /\ ~r.new_map /\ rt.lifecycle = "STABLE" /\ r.mode = rt.mode
    /\ r.mode # "AUTONOMY" \/ r.map = rt.active_map

(* NEW MAP needs the stable mapping session it is to replace. *)
Eligible(r) ==
    r.new_map => rt.lifecycle = "STABLE" /\ rt.mode = "MAPPING" /\ rt.session # 0

(* A request the worker does not act on; all but a stale one are recorded. *)
AnswerRequest(r) ==
    /\ process = "up" /\ worker.at = "idle"
    /\ requests' = requests \ {r}
    /\ rt' = IF r.id <= rt.accepted THEN rt
             ELSE [rt EXCEPT !.accepted = r.id,
                     !.rejected = IF r.mode = "AUTONOMY" /\ r.map = NoMap THEN FALSE
                                  ELSE IF Eligible(r) THEN @ ELSE TRUE]
    /\ \/ r.id <= rt.accepted
       \/ r.mode = "AUTONOMY" /\ r.map = NoMap
       \/ ~Eligible(r)
       \/ Same(r)
    /\ UNCHANGED <<process, worker, clock, externalVars, map_file, minted, nodeVars,
                   crashes>>

(* _begin_quiescence: the barrier is armed, the map evidence dropped. *)
ArmBarrier ==
    /\ barrier' = NoBarrier
    /\ evidence' = "none"

(* Mutant of Transitioning: the session is left in force while its runtime *)
(* is replaced.                                                            *)
TransitioningWithSession(r) ==
    [rt EXCEPT !.lifecycle = "TRANSITIONING", !.accepted = r.id,
               !.rejected = FALSE, !.ready = FALSE]

Transitioning(r) ==
    [rt EXCEPT !.lifecycle = "TRANSITIONING", !.accepted = r.id,
               !.rejected = FALSE, !.ready = FALSE, !.session = 0]

BeginTransition(r) ==
    /\ process = "up" /\ worker.at = "idle"
    /\ r.id > rt.accepted
    /\ r.mode = "AUTONOMY" => r.map # NoMap
    /\ Eligible(r) /\ ~Same(r)
    /\ requests' = requests \ {r}
    /\ worker' = [at |-> IF r.new_map THEN "quiesce" ELSE "stop", mode |-> r.mode,
                  map |-> r.map, before |-> rt.session, failing |-> FALSE]
    /\ rt' = Transitioning(r)
    /\ IF r.new_map THEN ArmBarrier ELSE UNCHANGED nodeVars
    /\ UNCHANGED <<process, clock, externalVars, map_file, minted, crashes>>

-----------------------------------------------------------------------------
(* The worker. *)

Step(at) == worker' = [worker EXCEPT !.at = at]
Fail == worker' = [worker EXCEPT !.at = "stop", !.failing = TRUE]

QuiescenceReached ==
    /\ worker.at = "quiesce" /\ QuiescenceReady /\ Step("stop")
    /\ barrier' = NoBarrier
    /\ UNCHANGED <<rt, process, requests, clock, externalVars, map_file, minted,
                   evidence, crashes>>

(* NEW MAP rejected: the session it would have replaced goes on. *)
QuiescenceTimesOut(sensed) ==
    /\ worker.at = "quiesce" /\ ~QuiescenceReady
    /\ worker' = Idle
    /\ rt' = [rt EXCEPT !.lifecycle = "STABLE", !.rejected = TRUE,
                        !.session = worker.before,
                        !.ready = FullyReady("MAPPING", sensed)]
    /\ barrier' = NoBarrier
    /\ UNCHANGED <<process, requests, clock, externalVars, map_file, minted,
                   evidence, crashes>>

(* The end of _fail: whatever was cleaned up, the runtime is faulted. *)
Faulted ==
    [rt EXCEPT !.mode = "IDLE", !.lifecycle = "FAULT", !.rejected = FALSE,
               !.session = 0, !.ready = FALSE]

(* An error while stopping starts the clean-up of _fail; an error in that  *)
(* clean-up is only reported.                                              *)
StopError ==
    IF worker.failing
    THEN worker' = Idle /\ rt' = Faulted /\ process' = "up"
    ELSE Fail /\ UNCHANGED <<rt, process>>

(* Both units are told to stop, whichever runs; a refused call fails.  The *)
(* SLAM process dies with its unit.                                        *)
IssueStops(told) ==
    /\ worker.at = "stop"
    /\ units' = [u \in Units |->
                   IF u \in told /\ units[u] = "running" THEN "stopping" ELSE units[u]]
    /\ IF \E u \in told : units[u] = "running"
       THEN loaded' = NoMap /\ slam' = 0 ELSE UNCHANGED <<loaded, slam>>
    /\ IF told = Units THEN Step("cleanup") /\ UNCHANGED <<rt, process>> ELSE StopError
    /\ UNCHANGED <<requests, clock, graph, map_file, starts, minted, nodeVars, crashes>>

(* Mutant of CleanupDone: the cgroups are not waited for. *)
CleanupSkipped ==
    /\ worker.at = "cleanup" /\ Step("graph")
    /\ UNCHANGED <<rt, process, requests, clock, externalVars, map_file, minted,
                   nodeVars, crashes>>

CleanupDone ==
    /\ worker.at = "cleanup" /\ AllUnitsClean /\ Step("graph")
    /\ UNCHANGED <<rt, process, requests, clock, externalVars, map_file, minted,
                   nodeVars, crashes>>

StopTimesOut ==
    /\ \/ worker.at = "cleanup" /\ ~AllUnitsClean
       \/ worker.at = "graph" /\ ~ResourcesGone
    /\ StopError
    /\ UNCHANGED <<requests, clock, externalVars, map_file, minted, nodeVars, crashes>>

(* All is gone: the end of a failure, of a transition to IDLE, or the start *)
(* of the requested unit.                                                   *)
GraphGone ==
    /\ worker.at = "graph" /\ ResourcesGone
    /\ \/ /\ worker.failing
          /\ worker' = Idle /\ rt' = Faulted /\ process' = "up"
       \/ /\ ~worker.failing /\ worker.mode = "IDLE"
          /\ worker' = Idle
          /\ rt' = [rt EXCEPT !.mode = "IDLE", !.lifecycle = "STABLE",
                              !.rejected = FALSE, !.session = 0, !.ready = TRUE]
          /\ UNCHANGED process
       \/ /\ ~worker.failing /\ worker.mode # "IDLE"
          /\ Step("start") /\ UNCHANGED <<rt, process>>
    /\ UNCHANGED <<requests, clock, externalVars, map_file, minted, nodeVars, crashes>>

StartUnit ==
    /\ worker.at = "start" /\ starts < MaxStarts
    /\ worker.mode = "AUTONOMY" => validate_bundle(worker.map)
    /\ map_file' = IF worker.mode = "AUTONOMY" THEN worker.map ELSE map_file
    /\ units' = [units EXCEPT ![worker.mode] = "running"]
    /\ Step("ready")
    /\ UNCHANGED <<rt, process, requests, clock, graph, loaded, slam, starts,
                   minted, nodeVars, crashes>>

(* The map is not valid, the file cannot be written, or the start refused. *)
StartFails ==
    /\ worker.at = "start" /\ Fail
    /\ \/ map_file' = IF worker.mode = "AUTONOMY" /\ validate_bundle(worker.map)
                      THEN worker.map ELSE map_file
       \/ UNCHANGED map_file
    /\ UNCHANGED <<rt, process, requests, clock, externalVars, minted, nodeVars, crashes>>

(* The session id of a runtime that has just become the actual one. *)
Mint(mode) == IF mode = "MAPPING" THEN Len(minted) + 1 ELSE 0

MintHistory(mode) == minted' = IF mode = "MAPPING" THEN Append(minted, slam) ELSE minted

(* Readiness is evaluated twice, the second time for the record. *)
BecomeReady(again) ==
    /\ worker.at = "ready" /\ FullyReady(worker.mode, TRUE)
    /\ worker' = Idle
    /\ rt' = [rt EXCEPT !.mode = worker.mode, !.lifecycle = "STABLE",
                !.rejected = FALSE, !.epoch = @ + 1, !.session = Mint(worker.mode),
                !.ready = again,
                !.active_map = IF worker.mode = "AUTONOMY" THEN worker.map ELSE @]
    /\ MintHistory(worker.mode)
    /\ evidence' = IF worker.mode = "MAPPING" THEN SessionStarts ELSE evidence
    /\ UNCHANGED <<process, requests, clock, externalVars, map_file, barrier, crashes>>

ReadinessTimesOut ==
    /\ worker.at = "ready" /\ Fail
    /\ UNCHANGED <<rt, process, requests, clock, externalVars, map_file, minted,
                   nodeVars, crashes>>

(* refresh: continuous readiness; a fault or an idle runtime has its own. *)
OnRefreshTimer(sensed) ==
    /\ process = "up" /\ worker.at = "idle"
    /\ rt' = [rt EXCEPT !.ready =
                IF rt.lifecycle # "STABLE" THEN FALSE
                ELSE IF rt.mode = "IDLE" THEN TRUE
                ELSE FullyReady(rt.mode, sensed)]
    /\ rt' # rt
    /\ UNCHANGED <<process, worker, requests, clock, externalVars, map_file, minted,
                   nodeVars, crashes>>

-----------------------------------------------------------------------------
(* Start of the process: the actual mode is read from systemd. *)

Reconcile ==
    /\ worker.at = "reconcile"
    /\ LET active == {u \in Units : units[u] = "running"}
           ambiguous == {u \in Units : units[u] = "stopping"}
       IN \/ /\ \/ ambiguous # {} \/ active = Units
                \/ active = {} /\ ~ResourcesGone
             /\ Fail /\ UNCHANGED <<rt, process>>
          \/ /\ ambiguous = {} /\ active = {} /\ ResourcesGone
             /\ worker' = Idle /\ process' = "up"
             /\ rt' = [rt EXCEPT !.mode = "IDLE", !.lifecycle = "STABLE", !.ready = TRUE]
          \/ /\ ambiguous = {}
             /\ \E u \in active : active = {u}
                  /\ worker' = [worker EXCEPT !.at = "discover", !.mode = u]
             /\ UNCHANGED <<rt, process>>
    /\ UNCHANGED <<requests, clock, externalVars, map_file, minted, nodeVars, crashes>>

(* Mutant of StoredMap: a restarted process believes its empty memory. *)
RememberedMap == rt.active_map

StoredMap == map_file

(* A unit found running is taken over under a new session id and epoch 1. *)
Adopt(sensed) ==
    /\ worker.at = "discover" /\ StructuralReady(worker.mode)
    /\ worker.mode = "AUTONOMY" => validate_bundle(map_file)
    /\ worker' = Idle /\ process' = "up"
    /\ rt' = [rt EXCEPT !.mode = worker.mode, !.lifecycle = "STABLE",
                !.epoch = Larger(@, 1), !.session = Mint(worker.mode),
                !.ready = FullyReady(worker.mode, sensed),
                !.active_map = IF worker.mode = "AUTONOMY" THEN StoredMap ELSE @]
    /\ MintHistory(worker.mode)
    /\ evidence' = IF worker.mode = "MAPPING" THEN SessionStarts ELSE evidence
    /\ UNCHANGED <<requests, clock, externalVars, map_file, barrier, crashes>>

(* The graph stayed partial, or the stored map is no longer a valid one. *)
AdoptFails ==
    /\ worker.at = "discover"
    /\ ~StructuralReady(worker.mode) \/ ~validate_bundle(map_file)
    /\ worker.mode = "MAPPING" => ~StructuralReady(worker.mode)
    /\ Fail
    /\ UNCHANGED <<rt, process, requests, clock, externalVars, map_file, minted,
                   nodeVars, crashes>>

(* The process dies at any point; the units and the file live on. *)
SupervisorCrashes ==
    /\ process # "down" /\ crashes < MaxCrashes
    /\ process' = "down" /\ worker' = Idle /\ rt' = InitialState
    /\ evidence' = "none" /\ barrier' = NoBarrier /\ crashes' = crashes + 1
    /\ requests' = {}
    /\ UNCHANGED <<clock, externalVars, map_file, minted>>

SupervisorStarts ==
    /\ process = "down"
    /\ process' = "booting" /\ worker' = [Idle EXCEPT !.at = "reconcile"]
    /\ UNCHANGED <<rt, requests, clock, externalVars, map_file, minted, nodeVars, crashes>>

-----------------------------------------------------------------------------
(* Evidence callbacks. *)

OnMap ==
    /\ process # "down" /\ slam # 0
    /\ evidence' = "since"
    /\ UNCHANGED <<rt, process, worker, requests, clock, externalVars, map_file,
                   minted, barrier, crashes>>

(* A status of the command authority that brakes, is not the browser's     *)
(* manual drive, and belongs to the epoch the barrier was armed in; the    *)
(* encoder sample has to be newer.  What arrives at other times is never   *)
(* read.                                                                   *)
OnAuthorityState(brakes) ==
    /\ worker.at = "quiesce" /\ brakes
    /\ barrier' = [revoked |-> TRUE, stationary |-> FALSE]
    /\ UNCHANGED <<rt, process, worker, requests, clock, externalVars, map_file,
                   minted, evidence, crashes>>

OnEncoderState(stationary) ==
    /\ worker.at = "quiesce" /\ barrier.revoked
    /\ barrier' = [barrier EXCEPT !.stationary = stationary]
    /\ UNCHANGED <<rt, process, worker, requests, clock, externalVars, map_file,
                   minted, evidence, crashes>>

-----------------------------------------------------------------------------
(* systemd and the ROS graph. *)

(* mode_launcher: AUTONOMY reads the map file, checks the bundle, and gives *)
(* up if it is not complete; either launch starts a SLAM process.           *)
Launch(unit) ==
    /\ units[unit] = "running" /\ slam = 0
    /\ IF unit = "AUTONOMY" /\ ~validate_bundle(map_file)
       THEN /\ units' = [units EXCEPT ![unit] = "clean"]
            /\ UNCHANGED <<loaded, slam, starts>>
       ELSE /\ starts < MaxStarts
            /\ starts' = starts + 1 /\ slam' = starts + 1
            /\ loaded' = IF unit = "AUTONOMY" THEN map_file ELSE NoMap
            /\ UNCHANGED units
    /\ UNCHANGED <<rt, process, worker, requests, clock, graph, map_file, minted,
                   nodeVars, crashes>>

(* A unit told to stop has no process left; one that runs dies by itself   *)
(* and, with Restart=no, stays down.                                       *)
UnitLeaves(unit) ==
    /\ units[unit] # "clean"
    /\ units' = [units EXCEPT ![unit] = "clean"]
    /\ IF units[unit] = "running" THEN loaded' = NoMap /\ slam' = 0
                                  ELSE UNCHANGED <<loaded, slam>>
    /\ UNCHANGED <<rt, process, worker, requests, clock, graph, map_file, starts,
                   minted, nodeVars, crashes>>

(* DDS discovery: one group of nodes appears or disappears, late. *)
Discover(group) ==
    /\ LET live == IF slam = 0 THEN {}
                   ELSE UNION {NodesOf(u) : u \in {v \in Units : units[v] = "running"}}
       IN  (group \in live) # (group \in graph)
    /\ graph' = IF group \in graph THEN graph \ {group} ELSE graph \cup {group}
    /\ UNCHANGED <<rt, process, worker, requests, clock, units, map_file, loaded,
                   slam, starts, minted, nodeVars, crashes>>

WebModeRequest ==
    \E mode \in Modes, map \in MapNames \cup {NoMap} :
        (mode # "AUTONOMY" => map = NoMap) /\ WebRequest(mode, map)

RuntimeNext ==
    \/ WebModeRequest
    \/ \E r \in requests : AnswerRequest(r) \/ BeginTransition(r)
    \/ QuiescenceReached \/ \E sensed \in BOOLEAN : QuiescenceTimesOut(sensed)
    \/ \E told \in SUBSET Units : IssueStops(told)
    \/ CleanupDone \/ StopTimesOut \/ GraphGone \/ StartUnit \/ StartFails
    \/ \E again \in BOOLEAN : BecomeReady(again)
    \/ ReadinessTimesOut
    \/ \E sensed \in BOOLEAN : OnRefreshTimer(sensed) \/ Adopt(sensed)
    \/ Reconcile \/ AdoptFails \/ SupervisorCrashes \/ SupervisorStarts
    \/ OnMap
    \/ \E brakes \in BOOLEAN : OnAuthorityState(brakes)
    \/ \E stationary \in BOOLEAN : OnEncoderState(stationary)
    \/ \E unit \in Units : Launch(unit) \/ UnitLeaves(unit)
    \/ \E group \in {"common", "autonomy"} : Discover(group)

-----------------------------------------------------------------------------
(* The two runtimes never overlap: while a unit runs, no process of the    *)
(* other one is left, whatever crashed, timed out or was refused on the    *)
(* way (ModeRuntime.transition, _stop_all, reconcile).                     *)
RuntimesAreExclusive ==
    \A u \in Units : units[u] = "running" =>
        \A v \in Units \ {u} : units[v] = "clean"

(* The map the supervisor reports for a stable AUTONOMY runtime is the one *)
(* its processes were launched with, also when a restarted supervisor took *)
(* them over (transition, _write_map, reconcile, mode_launcher.main).      *)
LoadedMapIsActive ==
    rt.mode = "AUTONOMY" /\ rt.lifecycle = "STABLE" /\ loaded # NoMap
        => loaded = rt.active_map

(* A mapping session id belongs to one SLAM run: while it is published, the *)
(* SLAM process that is alive is the one it was given to                    *)
(* (RuntimeState.mapping_session_id, transition, reconcile).                *)
SessionNamesOneSlam ==
    rt.session # 0 /\ slam # 0 => minted[rt.session] = slam
=============================================================================
