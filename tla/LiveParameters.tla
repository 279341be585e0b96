--------------------------- MODULE LiveParameters ---------------------------
(***************************************************************************)
(* Live parameters as the web process edits them (ros_state_node.py,       *)
(* autonomy_tuning.py, speed_profiles.py): tuning values written to every  *)
(* owner and read back, and the obstacle layer of a costmap switched and   *)
(* read back.  Each has one operation at a time, which a timer abandons    *)
(* and a write may overtake; answers may come after either.                *)
(*                                                                         *)
(* The owners are external nodes: a write or a read is served late, in any *)
(* order, with an error, or never, and values may change behind the back   *)
(* of the process.  A complete valid set of values is one value; names of  *)
(* fields and error texts are left out.                                    *)
(***************************************************************************)
EXTENDS Naturals

CONSTANTS
    Owners,       \* the nodes that own tuning parameters
    Values,       \* complete sets of values that pass validate_values
    Launched,     \* the values of a launch
    NoValue,
    Profiles,     \* names of speed profiles
    MaxReads      \* bound: operations begun

ASSUME ParameterConstants ==
    /\ Launched \in Values /\ NoValue \notin Values /\ MaxReads \in Nat

VARIABLES
    tuning,      \* _tuning_state
    tuning_op,   \* _tuning_operation
    tuning_id,   \* _tuning_request_id
    begin,       \* a read the ROS thread is about to begin
    live,        \* the value each owner has
    calls,       \* calls to owners that are not answered
    answers,     \* answers on their way back
    reads,       \* history: the reads that each owner has served
    layer,       \* _obstacle_states, one costmap
    layer_op,    \* _obstacle_operations, one costmap
    layer_id,    \* the last request or refresh id
    layer_next,  \* what the ROS thread is about to do
    layer_calls, layer_answers,
    enabled,     \* the parameter in Nav2
    profiles, override    \* the two files

tuningVars == <<tuning, tuning_op, tuning_id, begin, live, calls, answers, reads>>
layerVars == <<layer, layer_op, layer_id, layer_next, layer_calls, layer_answers, enabled>>
parameterVars == <<tuningVars, layerVars, profiles, override>>

NoRead == [due |-> FALSE, requested |-> NoValue, failed |-> FALSE]
PlainRead == [NoRead EXCEPT !.due = TRUE]
NoOperation ==
    [kind |-> "none", id |-> 0, pending |-> {}, requested |-> NoValue, failed |-> FALSE,
     values |-> [o \in Owners |-> NoValue], verification |-> NoRead]
NoLayerOp == [phase |-> "none", id |-> 0, requested |-> "none"]
NoStep == [step |-> "none", op |-> NoLayerOp, ok |-> FALSE, value |-> "none"]

ParametersInit ==
    /\ tuning = [status |-> "unavailable", available |-> FALSE]
    /\ tuning_op = NoOperation /\ tuning_id = 0 /\ begin = NoRead
    /\ live = [o \in Owners |-> Launched] /\ calls = {} /\ answers = {} /\ reads = {}
    /\ layer = [status |-> "unavailable", applied |-> "none"]
    /\ layer_op = NoLayerOp /\ layer_id = 0 /\ layer_next = NoStep
    /\ layer_calls = {} /\ layer_answers = {} /\ enabled = "on"
    /\ profiles = {} /\ override = Launched

-----------------------------------------------------------------------------
(* Tuning: reads. *)

(* _refresh_tuning_state: an operation that has timed out is given up; the *)
(* read follows after the lock.                                            *)
RefreshTuning(timed_out) ==
    /\ ~begin.due
    /\ IF timed_out
       THEN /\ tuning_op # NoOperation
            /\ tuning_op' = NoOperation
            /\ tuning' = [status |-> "failed", available |-> FALSE]
       ELSE tuning_op = NoOperation /\ UNCHANGED <<tuning, tuning_op>>
    /\ begin' = PlainRead
    /\ UNCHANGED <<tuning_id, live, calls, answers, reads>>

Calls(kind, value) ==
    {[owner |-> o, kind |-> kind, id |-> tuning_id + 1, value |-> value] : o \in Owners}

(* _start_tuning_read: nothing happens while an operation is under way.    *)
(* A service that is missing, or a call that does not start, counts as one *)
(* that is answered with an error.                                         *)
StartTuningRead ==
    /\ begin.due /\ begin' = NoRead
    /\ IF tuning_op # NoOperation THEN UNCHANGED <<tuning_op, tuning_id, calls>>
       ELSE /\ tuning_id < MaxReads /\ tuning_id' = tuning_id + 1
            /\ tuning_op' = [NoOperation EXCEPT !.kind = "read", !.id = tuning_id + 1,
                               !.pending = Owners, !.verification = begin]
            /\ calls' = calls \cup Calls("read", NoValue)
    /\ UNCHANGED <<tuning, live, answers, reads>>

(* The end of a read: unavailable owners, or a comparison with the request *)
(* the read verifies.  A failed application stays failed until the next.   *)
ReadBack(op) ==
    LET v == op.verification
        plain == v = PlainRead
    IN  [available |-> ~op.failed,
         status |->
           IF op.failed THEN IF plain THEN "unavailable" ELSE "failed"
           ELSE IF plain THEN IF tuning.status = "failed" THEN "failed" ELSE "current"
           ELSE IF ~v.failed /\ \A o \in Owners : op.values[o] = v.requested
                THEN "applied" ELSE "failed"]

(* Mutant of IsCurrentRead: any read will do. *)
IsAnyRead(a) == tuning_op.kind = "read" /\ a.owner \in tuning_op.pending

IsCurrentRead(a) ==
    tuning_op.kind = "read" /\ tuning_op.id = a.id /\ a.owner \in tuning_op.pending

(* _finish_tuning_read. *)
FinishTuningRead(a) ==
    /\ IF IsCurrentRead(a)
       THEN LET op == [tuning_op EXCEPT !.pending = @ \ {a.owner},
                         !.values[a.owner] = a.value, !.failed = @ \/ ~a.ok]
            IN  IF op.pending # {} THEN tuning_op' = op /\ UNCHANGED tuning
                ELSE tuning_op' = NoOperation /\ tuning' = ReadBack(op)
       ELSE UNCHANGED <<tuning_op, tuning>>
    /\ UNCHANGED begin

-----------------------------------------------------------------------------
(* Tuning: writes. *)

(* _request_autonomy_tuning on a pool thread, values valid and services    *)
(* there: a write under way is left alone, a read is overtaken.            *)
RequestTuning(value) ==
    /\ IF tuning_op.kind = "set" THEN UNCHANGED <<tuning, tuning_op, tuning_id, calls>>
       ELSE /\ tuning_id < MaxReads /\ tuning_id' = tuning_id + 1
            /\ tuning' = [status |-> "applying", available |-> TRUE]
            /\ tuning_op' = [NoOperation EXCEPT !.kind = "set", !.id = tuning_id + 1,
                               !.pending = Owners, !.requested = value]
            /\ calls' = calls \cup Calls("set", value)
    /\ UNCHANGED <<begin, live, answers, reads>>

(* _record_tuning_preflight_failure: values or services are missing. *)
RefuseTuning ==
    /\ tuning' = IF tuning_op = NoOperation THEN [tuning EXCEPT !.status = "failed"] ELSE tuning
    /\ UNCHANGED <<tuning_op, tuning_id, begin, live, calls, answers, reads>>

IsCurrentSet(a) ==
    tuning_op.kind = "set" /\ tuning_op.id = a.id /\ a.owner \in tuning_op.pending

(* _finish_tuning_set: after the last answer the lock is given up before   *)
(* the read-back begins.                                                   *)
FinishTuningSet(a) ==
    /\ IF IsCurrentSet(a)
       THEN LET op == [tuning_op EXCEPT !.pending = @ \ {a.owner}, !.failed = @ \/ ~a.ok]
            IN  IF op.pending # {} THEN tuning_op' = op /\ UNCHANGED begin
                ELSE /\ tuning_op' = NoOperation
                     /\ begin' = [due |-> TRUE, requested |-> op.requested,
                                  failed |-> op.failed]
       ELSE UNCHANGED <<tuning_op, begin>>
    /\ UNCHANGED tuning

(* An answer is handled on the ROS thread. *)
FinishTuning(a) ==
    /\ a \in answers /\ answers' = answers \ {a} /\ ~begin.due
    /\ IF a.kind = "read" THEN FinishTuningRead(a) ELSE FinishTuningSet(a)
    /\ UNCHANGED <<tuning_id, live, calls, reads>>

(* An owner serves a call. *)
Serve(call, ok) ==
    /\ call \in calls /\ calls' = calls \ {call}
    /\ live' = IF call.kind = "set" /\ ok THEN [live EXCEPT ![call.owner] = call.value] ELSE live
    /\ reads' = IF call.kind = "read" THEN reads \cup {<<call.owner, call.id>>} ELSE reads
    /\ answers' = answers \cup
         {[owner |-> call.owner, kind |-> call.kind, id |-> call.id, ok |-> ok,
           value |-> IF call.kind = "read" /\ ok THEN live[call.owner] ELSE NoValue]}
    /\ UNCHANGED <<tuning, tuning_op, tuning_id, begin>>

-----------------------------------------------------------------------------
(* The obstacle layer.  A callback of the ROS thread takes the lock more   *)
(* than once; layer_next is where it is, and a request may come between.   *)

(* _refresh_obstacle_states, a timeout included. *)
RefreshLayer(timed_out) ==
    /\ layer_next = NoStep /\ layer_id < MaxReads
    /\ timed_out <=> layer_op # NoLayerOp
    /\ layer_op' = NoLayerOp
    /\ layer' = IF timed_out THEN [layer EXCEPT !.status = "failed"] ELSE layer
    /\ layer_id' = layer_id + 1
    /\ layer_next' = [NoStep EXCEPT !.step = "get", !.op.phase = "refresh", !.op.id = layer_id + 1]
    /\ UNCHANGED <<layer_calls, layer_answers, enabled>>

(* _start_obstacle_get: whatever operation is there is replaced. *)
StartLayerGet(ready) ==
    /\ layer_next.step = "get" /\ layer_next' = NoStep
    /\ LET op == layer_next.op
       IN  IF ready
           THEN /\ layer_op' = op /\ layer_calls' = layer_calls \cup {op} /\ UNCHANGED layer
           ELSE /\ layer' = IF op.phase = "verify" THEN [layer EXCEPT !.status = "failed"] ELSE layer
                /\ UNCHANGED <<layer_op, layer_calls>>
    /\ UNCHANGED <<layer_id, layer_answers, enabled>>

(* _request_obstacle_processing on a pool thread. *)
RequestLayer(value, ready) ==
    /\ layer_id < MaxReads /\ layer_id' = layer_id + 1
    /\ LET op == [phase |-> "set", id |-> layer_id + 1, requested |-> value]
       IN  /\ layer_op' = IF ready THEN op ELSE NoLayerOp
           /\ layer_calls' = IF ready THEN layer_calls \cup {op} ELSE layer_calls
    /\ layer' = [status |-> IF ready THEN "requested" ELSE "rejected", applied |-> "none"]
    /\ UNCHANGED <<layer_next, layer_answers, enabled>>

(* Nav2 serves a call. *)
ServeLayer(call, ok) ==
    /\ call \in layer_calls /\ layer_calls' = layer_calls \ {call}
    /\ enabled' = IF call.phase = "set" /\ ok THEN call.requested ELSE enabled
    /\ layer_answers' = layer_answers \cup {[step |-> "sent", op |-> call, ok |-> ok, value |-> enabled]}
    /\ UNCHANGED <<layer, layer_op, layer_id, layer_next>>

(* _finish_obstacle_set, _finish_obstacle_get: the answer to the current   *)
(* operation ends it, any other is ignored.                                *)
LayerAnswer(a) ==
    /\ layer_next = NoStep
    /\ a \in layer_answers /\ layer_answers' = layer_answers \ {a}
    /\ IF layer_op.phase = a.op.phase /\ layer_op.id = a.op.id
       THEN layer_op' = NoLayerOp /\ layer_next' = [a EXCEPT !.step = "answered"]
       ELSE UNCHANGED <<layer_op, layer_next>>
    /\ UNCHANGED <<layer, layer_id, layer_calls, enabled>>

FinishLayerSet ==
    /\ layer_next.step = "answered" /\ layer_next.op.phase = "set"
    /\ IF layer_next.ok
       THEN /\ layer' = [status |-> "verifying", applied |-> layer_next.op.requested]
            /\ layer_next' = [NoStep EXCEPT !.step = "get",
                                 !.op = [layer_next.op EXCEPT !.phase = "verify"]]
       ELSE layer' = [layer EXCEPT !.status = "rejected"] /\ layer_next' = NoStep
    /\ UNCHANGED <<layer_op, layer_id, layer_calls, layer_answers, enabled>>

LayerRead(op, value) ==
    IF op.phase = "verify" THEN IF value = op.requested THEN "applied" ELSE "failed"
    ELSE IF layer.applied # "none" /\ value # layer.applied THEN "drifted"
    ELSE IF layer.status = "unavailable" THEN "current" ELSE layer.status

FinishLayerGet ==
    /\ layer_next.step = "answered" /\ layer_next.op.phase # "set"
    /\ layer' = [layer EXCEPT !.status =
                   IF layer_next.ok THEN LayerRead(layer_next.op, layer_next.value) ELSE "failed"]
    /\ layer_next' = NoStep
    /\ UNCHANGED <<layer_op, layer_id, layer_calls, layer_answers, enabled>>

(* Somebody else sets the parameter. *)
ChangeLayer(value) ==
    /\ enabled # value /\ enabled' = value
    /\ UNCHANGED <<layer, layer_op, layer_id, layer_next, layer_calls, layer_answers>>

-----------------------------------------------------------------------------
(* The files: each write replaces its file at once. *)

(* save_profile: completed with the live values shown, so all are needed. *)
SaveProfile(name) ==
    tuning.available /\ profiles' = profiles \cup {name} /\ UNCHANGED override

DeleteProfile(name) ==
    name \in profiles /\ profiles' = profiles \ {name} /\ UNCHANGED override

PersistOverride(value) == override' = value /\ UNCHANGED profiles
=============================================================================
