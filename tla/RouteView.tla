----------------------------- MODULE RouteView -----------------------------
(***************************************************************************)
(* What the ROS state node holds for the browsers to see of map and route  *)
(* (ros_state_node.py).  Map, candidate routes and their speed profiles    *)
(* are read only while a browser wants them.  The map reader belongs to    *)
(* one runtime; a route is shown when plan and profile of the same path    *)
(* have both come, in any order, and no longer than the mission lasts.     *)
(*                                                                         *)
(* Planner, behaviour tree and mode supervisor are external.  A topic is   *)
(* ordered and may skip messages; the profile is latched.  Paths, missions *)
(* and runtimes are numbered; a message that is rejected as invalid counts *)
(* as skipped.                                                             *)
(***************************************************************************)
EXTENDS Naturals, SequencesExt

CONSTANTS
    MaxCandidates,   \* plans kept for a profile to come: 16
    MaxRoutes,       \* bound: plans published
    MaxMissions,     \* bound: changes of mission
    MaxRuntimes,     \* bound: runtimes
    MaxDemands       \* bound: changes of what the browsers want

ASSUME RouteConstants ==
    /\ {MaxRoutes, MaxMissions, MaxRuntimes, MaxDemands} \subseteq Nat
    /\ MaxCandidates \in Nat \ {0}

VARIABLES
    running,     \* the runtime that publishes /map, or 0
    status,      \* the runtime the newest mode status calls stable and ready, or 0
    sent,        \* plans and profiles published, mission announced, runtimes, demands
    node,        \* RosStateNode
    heard,       \* the last plan and profile its readers were given
    map_messages,\* maps taken for a reader
    seen,        \* the cache: map (its runtime) and route, or 0
    since        \* history: mission changes, and those before each plan and profile

routeVars == <<running, status, sent, node, heard, map_messages, seen, since>>

RouteInit ==
    /\ running = 0 /\ status = 0
    /\ sent = [plans |-> 0, profiles |-> {}, mission |-> 0, runtimes |-> 0, demands |-> 0]
    /\ node = [runtime |-> 0, reader |-> 0, wants |-> {}, plan_readers |-> FALSE,
               candidates |-> <<>>, profiles |-> {}, committed |-> 0, mission |-> 0]
    /\ heard = [plan |-> 0, profile |-> 0]
    /\ map_messages = {} /\ seen = [map |-> 0, route |-> 0]
    /\ since = [changes |-> 0, plan |-> [r \in 1..MaxRoutes |-> 0],
                profile |-> [r \in 1..MaxRoutes |-> 0]]

-----------------------------------------------------------------------------
(* The world. *)

RuntimeStarts ==
    /\ running = 0 /\ status = 0 /\ sent.runtimes < MaxRuntimes
    /\ sent' = [sent EXCEPT !.runtimes = @ + 1] /\ running' = sent'.runtimes
    /\ UNCHANGED <<status, node, heard, map_messages, seen, since>>

RuntimeEnds ==
    /\ running # 0 /\ running' = 0
    /\ UNCHANGED <<status, sent, node, heard, map_messages, seen, since>>

(* Ready, or in transition or not ready. *)
StatusChanges ==
    /\ status' \in {0, running} \ {status}
    /\ UNCHANGED <<running, sent, node, heard, map_messages, seen, since>>

PlannerPublishes ==
    /\ sent.plans < MaxRoutes
    /\ sent' = [sent EXCEPT !.plans = @ + 1]
    /\ UNCHANGED <<running, status, node, heard, map_messages, seen, since>>

(* The newest candidate is committed. *)
CommitmentPublishes ==
    /\ sent.plans > 0 /\ sent.plans \notin sent.profiles
    /\ sent' = [sent EXCEPT !.profiles = @ \cup {sent.plans}]
    /\ UNCHANGED <<running, status, node, heard, map_messages, seen, since>>

MissionChanges ==
    /\ sent.mission < MaxMissions
    /\ sent' = [sent EXCEPT !.mission = @ + 1]
    /\ UNCHANGED <<running, status, node, heard, map_messages, seen, since>>

-----------------------------------------------------------------------------
(* The map. *)

(* The runtime that a reader may belong to has changed. *)
SelectMapSubscription(identity) ==
    /\ node.runtime # identity
    /\ node' = [node EXCEPT !.runtime = identity, !.reader = 0]
    /\ seen' = [seen EXCEPT !.map = 0]

OnMode ==
    /\ SelectMapSubscription(status)
    /\ UNCHANGED <<running, status, sent, heard, map_messages, since>>

TakeMap ==
    /\ node.reader # 0 /\ running # 0
    /\ map_messages' = map_messages \cup {[reader |-> node.reader, of |-> running]}
    /\ UNCHANGED <<running, status, sent, node, heard, seen, since>>

IsReaders(m) == m.reader = node.reader

OnMap ==
    \E m \in map_messages :
        /\ map_messages' = map_messages \ {m}
        /\ seen' = IF IsReaders(m) THEN [seen EXCEPT !.map = m.of] ELSE seen
        /\ UNCHANGED <<running, status, sent, node, heard, since>>

-----------------------------------------------------------------------------
(* Demand. *)

SetVisualizationDemand ==
    /\ sent.demands < MaxDemands
    /\ sent' = [sent EXCEPT !.demands = @ + 1]
    /\ \E wants \in SUBSET {"map", "plan"} :
         wants # node.wants /\ node' = [node EXCEPT !.wants = wants]
    /\ UNCHANGED <<running, status, heard, map_messages, seen, since>>

(* _reconcile_visualization_subscriptions: a new profile reader is given   *)
(* the last one again.                                                     *)
Reconciled ==
    [node EXCEPT !.plan_readers = "plan" \in node.wants,
       !.reader = IF "map" \notin node.wants THEN 0
                  ELSE IF node.reader = 0 THEN node.runtime ELSE node.reader]

Reconcile ==
    /\ node' = Reconciled /\ node' # node
    /\ heard' = IF node'.plan_readers /\ ~node.plan_readers
                THEN [plan |-> sent.plans,
                      profile |-> IF sent.profiles = {} THEN 0 ELSE Max(sent.profiles) - 1]
                ELSE heard
    /\ UNCHANGED <<running, status, sent, map_messages, seen, since>>

-----------------------------------------------------------------------------
(* The route. *)

(* A path and a profile have the same key when the profile is of the path. *)
BothKnown(v, r) == Contains(v.candidates, r) /\ r \in v.profiles

(* _commit_profiled_route *)
Join(v, shown, r) ==
    IF BothKnown(v, r)
    THEN /\ seen' = [seen EXCEPT !.route = r]
         /\ node' = [v EXCEPT !.candidates = <<>>, !.profiles = {}]
    ELSE /\ seen' = [seen EXCEPT !.route = shown]
         /\ node' = v

Newest(candidates) ==
    IF Len(candidates) > MaxCandidates THEN Tail(candidates) ELSE candidates

OnPlan ==
    /\ node.plan_readers
    /\ \E r \in heard.plan + 1 .. sent.plans :
         /\ heard' = [heard EXCEPT !.plan = r]
         /\ since' = [since EXCEPT !.plan[r] = since.changes]
         /\ Join([node EXCEPT !.candidates = Newest(Append(@, r))], seen.route, r)
    /\ UNCHANGED <<running, status, sent, map_messages>>

(* _on_path_speed_profile: another commitment ends the route shown, unless *)
(* its plan is at hand to replace it.                                      *)
OnPathSpeedProfile ==
    /\ node.plan_readers
    /\ \E r \in {p \in sent.profiles : p > heard.profile} :
         /\ heard' = [heard EXCEPT !.profile = r]
         /\ since' = [since EXCEPT !.profile[r] = since.changes]
         /\ Join([node EXCEPT !.committed = r, !.profiles = @ \cup {r}],
                 IF r # node.committed /\ ~Contains(node.candidates, r) THEN 0 ELSE seen.route,
                 r)
    /\ UNCHANGED <<running, status, sent, map_messages>>

(* Mutant of Cleared: profiles wait on for their plans. *)
ClearedPlans(v) == [v EXCEPT !.candidates = <<>>, !.committed = 0]
Cleared(v) == [v EXCEPT !.candidates = <<>>, !.profiles = {}, !.committed = 0]

(* _on_navigation_state; the first one ends nothing. *)
OnNavigationState ==
    \E m \in node.mission + 1 .. sent.mission :
        /\ node' = [(IF node.mission = 0 THEN node ELSE Cleared(node)) EXCEPT !.mission = m]
        /\ seen' = IF node.mission = 0 THEN seen ELSE [seen EXCEPT !.route = 0]
        /\ since' = IF node.mission = 0 THEN since ELSE [since EXCEPT !.changes = @ + 1]
        /\ UNCHANGED <<running, status, sent, heard, map_messages>>

(* Map and route share only the demand, so that each is a part of its own. *)
DemandStep == SetVisualizationDemand \/ Reconcile

MapStep ==
    \/ RuntimeStarts \/ RuntimeEnds \/ StatusChanges
    \/ OnMode \/ TakeMap \/ OnMap

RouteStep ==
    \/ PlannerPublishes \/ CommitmentPublishes \/ MissionChanges
    \/ OnPlan \/ OnPathSpeedProfile \/ OnNavigationState

-----------------------------------------------------------------------------
(* What the browsers are shown is of the present: once the node knows the  *)
(* running runtime, a map it shows was produced by that runtime, and not   *)
(* by one whose map was still under way; and a route it shows was planned  *)
(* and committed, as far as the node was told, within the mission that it  *)
(* knows: no half of it came before the change (_on_map,                   *)
(* _select_map_subscription, _on_navigation_state).                        *)
ShownIsPresent ==
    /\ node.runtime = running /\ seen.map # 0 => seen.map = running
    /\ seen.route # 0 =>
         since.plan[seen.route] = since.changes /\ since.profile[seen.route] = since.changes
=============================================================================
