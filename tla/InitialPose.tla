---------------------------- MODULE InitialPose ----------------------------
(***************************************************************************)
(* The initial pose transaction of the web process (ros_state_node.py):    *)
(* STOP, wait until the vehicle stands, publish the seed, wait until the   *)
(* transform agrees with it, clear both costmaps, report.  Requests come   *)
(* from pool threads, everything else runs on the ROS thread.              *)
(*                                                                         *)
(* A pose is a model of nothing but agreement: whether the transform is    *)
(* close enough is an input.  Nav2's clear services are external: they     *)
(* answer in any order, late, with an error, or never.                     *)
(***************************************************************************)
EXTENDS Naturals

CONSTANTS MaxContexts    \* bound: runtime epochs or maps that can be told apart

ASSUME PoseConstants == MaxContexts \in Nat \ {0}

VARIABLES
    view,        \* what the cache says of the runtime, STOP and the encoder
    pose,        \* _pending_initial_pose
    pose_id,     \* _initial_pose_request_id
    pose_state,  \* the state reported
    clearing,    \* clear calls under way
    served       \* history: clear calls that Nav2 carried out

poseVars == <<view, pose, pose_id, pose_state, clearing, served>>

Costmaps == {"global", "local"}
NoPose == [phase |-> "none", id |-> 0, context |-> 0, pending |-> {}, failed |-> FALSE]

PoseInit ==
    /\ view = [localized |-> TRUE, context |-> 1, stopped |-> TRUE, stationary |-> TRUE]
    /\ pose = NoPose /\ pose_id = 0 /\ pose_state = "none"
    /\ clearing = {} /\ served = {}

(* A fresher message reaches the cache, or one that was there expires. *)
Observe(field, value) ==
    /\ view[field] # value
    /\ view' = [view EXCEPT ![field] = value]
    /\ UNCHANGED <<pose, pose_id, pose_state, clearing, served>>

(* Stable AUTONOMY on the selected, complete map, the same as at first. *)
ContextHolds == view.localized /\ view.context = pose.context
Safe == view.stopped /\ view.stationary

End(state) == pose' = NoPose /\ pose_state' = state

(* _set_initial_pose.  A request the context rules out also ends the       *)
(* transaction that is under way; one that comes too soon does not.        *)
SetInitialPose(subscribed) ==
    /\ IF ~(view.localized /\ subscribed)
       THEN End("rejected") /\ UNCHANGED pose_id
       ELSE IF pose # NoPose THEN UNCHANGED <<pose, pose_id, pose_state>>
       ELSE /\ pose_id' = pose_id + 1
            /\ pose' = [NoPose EXCEPT !.phase = "waiting_stop", !.id = pose_id + 1,
                                      !.context = view.context]
            /\ pose_state' = "stopping"
    /\ UNCHANGED <<view, clearing, served>>

(* _advance_initial_pose_transaction and _publish_initial_pose. *)
AdvancePose(subscribed) ==
    /\ pose.phase = "waiting_stop"
    /\ \/ ~ContextHolds /\ End("rejected")
       \/ ContextHolds /\ Safe /\ ~subscribed /\ End("rejected")
       \/ /\ ContextHolds /\ Safe /\ subscribed
          /\ pose' = [pose EXCEPT !.phase = "awaiting_pose"]
          /\ pose_state' = "localizing"
    /\ UNCHANGED <<view, pose_id, clearing, served>>

(* _confirm_initial_pose_from_tf and _start_initial_pose_clear. *)
ConfirmPose(available) ==
    /\ pose.phase = "awaiting_pose"
    /\ IF ContextHolds /\ Safe /\ available
       THEN /\ pose' = [pose EXCEPT !.phase = "clearing", !.pending = Costmaps]
            /\ pose_state' = "clearing"
            /\ clearing' = clearing \cup {[id |-> pose.id, costmap |-> c] : c \in Costmaps}
       ELSE End("rejected") /\ UNCHANGED clearing
    /\ UNCHANGED <<view, pose_id, served>>

(* Mutant of Awaited: the answer may belong to an earlier transaction. *)
AwaitedByAny(call) == pose.phase = "clearing" /\ call.costmap \in pose.pending

(* The transaction that waits for this answer is the one that asked. *)
Awaited(call) ==
    pose.phase = "clearing" /\ call.id = pose.id /\ call.costmap \in pose.pending

(* _finish_initial_pose_clear: the last answer decides. *)
FinishClear(call, ok) ==
    /\ call \in clearing /\ clearing' = clearing \ {call}
    /\ served' = IF ok THEN served \cup {call} ELSE served
    /\ IF Awaited(call)
       THEN LET after == [pose EXCEPT !.pending = @ \ {call.costmap},
                                      !.failed = @ \/ ~ok]
            IN  IF after.pending # {} THEN pose' = after /\ UNCHANGED pose_state
                ELSE IF after.failed \/ ~ContextHolds \/ ~Safe THEN End("rejected")
                ELSE End("applied")
       ELSE UNCHANGED <<pose, pose_state>>
    /\ UNCHANGED <<view, pose_id>>

(* _expire_initial_pose_confirmation. *)
ExpirePose ==
    /\ pose # NoPose /\ End("rejected")
    /\ UNCHANGED <<view, pose_id, clearing, served>>
=============================================================================
