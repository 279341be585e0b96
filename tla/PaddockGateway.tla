--------------------------- MODULE PaddockGateway ---------------------------
(***************************************************************************)
(* The web process as a whole: browser connections, the gateway and its    *)
(* lock (OperatorGateway), and behind the lock the initial pose, the live  *)
(* parameters, the recordings, the view of map and route and the fan-out   *)
(* of state, each of which also moves on the ROS thread or the event loop. *)
(*                                                                         *)
(* They share the lease, the connections and nothing else, so that each is *)
(* checked together with the gateway in the same run: part says which one  *)
(* the browsers of a behaviour use.                                        *)
(***************************************************************************)
EXTENDS InitialPose, LiveParameters, RecordingExecutor, ClientStream, RouteView

CONSTANTS
    Parts,            \* the parts to exercise
    MaxPoseInputs,    \* bound: counted inputs of the initial pose
    MaxInputs         \* bound: counted inputs of parameters, files and stream

VARIABLES part

gateVars == <<sockets, threads, gateway, leases, published>>
vars == <<part, gatewayVars, poseVars, parameterVars, recordingVars, streamVars,
          routeVars>>

(* The messages of each part; recordings, stream and view need none here. *)
Messages ==
    CASE part = "lease" -> ControlMessages
      [] part = "pose" -> {"acquire", "set_initial_pose", "clear_stop"}
      [] part = "tuning" -> {"acquire", "set_tuning"}
      [] part = "files" -> {"acquire", "save_tuning", "save_profile", "delete_profile"}
      [] part = "layer" -> {"acquire", "set_layer"}
      [] OTHER -> {}

Parameters == {"tuning", "files", "layer"}
View == {"map", "route"}
WithinBound ==
    /\ part = "pose" => actions < MaxPoseInputs
    /\ part \in Parameters \cup {"stream"} => actions < MaxInputs

Init ==
    /\ part \in Parts
    /\ GatewayInit /\ PoseInit /\ ParametersInit /\ RecordingInit /\ StreamInit
    /\ RouteInit

-----------------------------------------------------------------------------
(* RosStateNode.submit: one message under the gateway lock.  A message of  *)
(* a connection that has ended is handled like any other.                  *)

SubmitControl(c, message) ==
    /\ Handle(c, message, pose # NoPose) \/ Refuse(c, message)
    /\ UNCHANGED <<poseVars, parameterVars>>

SubmitPose ==
    /\ _do_stop
    /\ \E subscribed \in BOOLEAN : SetInitialPose(subscribed)
    /\ UNCHANGED parameterVars

SubmitTuning ==
    /\ RefuseTuning \/ \E value \in Values : RequestTuning(value)
    /\ UNCHANGED <<layerVars, profiles, override>>

SubmitLayer ==
    /\ \E value \in {"on", "off"}, ready \in BOOLEAN : RequestLayer(value, ready)
    /\ UNCHANGED <<tuningVars, profiles, override>>

SubmitFile(message) ==
    /\ \/ message = "save_profile" /\ \E name \in Profiles : SaveProfile(name)
       \/ message = "delete_profile" /\ \E name \in Profiles : DeleteProfile(name)
       \/ message = "save_tuning" /\ \E value \in Values : PersistOverride(value)
       \/ UNCHANGED <<profiles, override>>
    /\ UNCHANGED <<tuningVars, layerVars>>

SubmitParameters(message) ==
    /\ \/ message = "set_tuning" /\ SubmitTuning
       \/ message = "set_layer" /\ SubmitLayer
       \/ message \in {"save_profile", "delete_profile", "save_tuning"} /\ SubmitFile(message)
    /\ UNCHANGED <<gateway, leases, published, poseVars>>

Submit(c) ==
    /\ threads[c] # NoMessage
    /\ threads' = [threads EXCEPT ![c] = NoMessage]
    /\ \/ SubmitControl(c, threads[c])
       \/ Owns(c) /\ threads[c] = "set_initial_pose" /\ SubmitPose
       \/ Owns(c) /\ SubmitParameters(threads[c])
    /\ UNCHANGED <<part, routeVars, actions, sockets, recordingVars, streamVars>>

-----------------------------------------------------------------------------
(* Connections. *)

ReceiveMessage ==
    /\ WithinBound
    /\ \E c \in Connections, message \in Messages : Receive(c, message)
    /\ UNCHANGED <<part, routeVars, poseVars, parameterVars, recordingVars, streamVars>>

(* The tasks are cancelled and the reader forgotten, on the event loop;    *)
(* of no account to the parameters and to the view.                        *)
DropConnection ==
    /\ part \notin Parameters \cup View
    /\ \E c \in Connections, begun \in BOOLEAN : Drop(c, begun) /\ Unregister(c)
    /\ UNCHANGED <<part, routeVars, poseVars, parameterVars, recordingVars>>

DisconnectConnection ==
    /\ \E c \in Connections : Disconnect(c)
    /\ UNCHANGED <<part, routeVars, poseVars, parameterVars, recordingVars, streamVars>>

-----------------------------------------------------------------------------
(* The initial pose on the ROS thread. *)

PoseInput ==
    /\ part = "pose" /\ WithinBound /\ Counted
    /\ \/ \E field \in {"localized", "stopped", "stationary"}, value \in BOOLEAN :
             Observe(field, value)
       \/ \E context \in 1..MaxContexts : Observe("context", context)
    /\ UNCHANGED <<part, routeVars, gateVars, parameterVars, recordingVars, streamVars>>

PoseStep ==
    /\ part = "pose"
    /\ \/ \E b \in BOOLEAN : AdvancePose(b) \/ ConfirmPose(b)
       \/ \E call \in clearing, ok \in BOOLEAN : FinishClear(call, ok)
       \/ ExpirePose
    /\ UNCHANGED <<part, routeVars, actions, gateVars, parameterVars, recordingVars, streamVars>>

(* Live parameters on the ROS thread, and their owners; one read is enough *)
(* for the files.                                                          *)
TuningStep ==
    /\ part \in {"tuning", "files"}
    /\ \/ /\ part = "files" => tuning_id = 0
          /\ \E timed_out \in BOOLEAN : RefreshTuning(timed_out)
       \/ StartTuningRead
       \/ \E a \in answers : FinishTuning(a)
       \/ \E call \in calls, ok \in BOOLEAN : Serve(call, ok)
    /\ UNCHANGED <<part, routeVars, actions, gateVars, layerVars, profiles, override,
                   poseVars, recordingVars, streamVars>>

LayerStep ==
    /\ part = "layer"
    /\ \/ \E b \in BOOLEAN : RefreshLayer(b) \/ StartLayerGet(b)
       \/ \E a \in layer_answers : LayerAnswer(a)
       \/ FinishLayerSet \/ FinishLayerGet
       \/ \E call \in layer_calls, ok \in BOOLEAN : ServeLayer(call, ok)
    /\ UNCHANGED <<part, routeVars, actions, gateVars, tuningVars, profiles, override,
                   poseVars, recordingVars, streamVars>>

LayerChanges ==
    /\ part = "layer" /\ WithinBound /\ Counted
    /\ \E value \in {"on", "off"} : ChangeLayer(value)
    /\ UNCHANGED <<part, routeVars, gateVars, tuningVars, profiles, override,
                   poseVars, recordingVars, streamVars>>

(* The recording executor: requests, and its own life. *)
RecordingInput ==
    /\ part = "recording" /\ Counted
    /\ \/ \E name \in Bags, launched, settled, ok \in BOOLEAN :
             StartRecording(name, launched, settled, ok)
       \/ \E ok \in BOOLEAN : StopRecording(ok)
       \/ \E name \in Bags : DeleteRecording(name)
       \/ \E unit \in BOOLEAN : OwnerDies(unit)
       \/ RecordVanishes
    /\ UNCHANGED <<part, routeVars, gateVars, poseVars, parameterVars, streamVars>>

RecordingStep ==
    /\ part = "recording"
    /\ \/ \E ok \in BOOLEAN : PollRecorder(ok)
       \/ \E r \in recorders : BagOpens(r)
       \/ \E r \in recorders, closes \in BOOLEAN : RecorderEnds(r, closes)
       \/ \E readable, ok \in BOOLEAN : OwnerStarts(readable, ok)
    /\ UNCHANGED <<part, routeVars, actions, gateVars, poseVars, parameterVars, streamVars>>

(* The view of map and route, on the ROS thread. *)
ViewStep ==
    /\ \/ part = "map" /\ MapStep
       \/ part = "route" /\ RouteStep
       \/ part \in View /\ DemandStep
    /\ UNCHANGED <<part, gatewayVars, poseVars, parameterVars, recordingVars, streamVars>>

(* The stream: the cache, and the event loop. *)
StreamInput ==
    /\ part = "stream" /\ WithinBound /\ Counted
    /\ \/ \E s \in Sections, changed \in BOOLEAN, value \in Contents :
             CacheUpdate(s, changed, value)
       \/ \E s \in Sections : CacheExpire(s) \/ CacheInvalidate(s)
       \/ \E value \in Contents : CacheLarge(value)
       \/ \E c \in Connections, wanted \in BOOLEAN : SetDemand(c, wanted)
    /\ UNCHANGED <<part, routeVars, gateVars, poseVars, parameterVars, recordingVars>>

StreamStep ==
    /\ part = "stream"
    /\ \/ \E c \in Connections : sockets[c] = "open" /\ Register(c)
       \/ PublishKeys \/ PublishState \/ PublishSection \/ PublishLarge
       \/ \E c \in Connections : NextFrame(c)
    /\ UNCHANGED <<part, routeVars, actions, gateVars, poseVars, parameterVars, recordingVars>>

Next ==
    \/ \E c \in Connections : Submit(c)
    \/ ReceiveMessage \/ DropConnection \/ DisconnectConnection
    \/ PoseInput \/ PoseStep
    \/ TuningStep \/ LayerStep \/ LayerChanges
    \/ RecordingInput \/ RecordingStep
    \/ StreamInput \/ StreamStep
    \/ ViewStep

Spec == Init /\ [][Next]_vars

-----------------------------------------------------------------------------
(* A seed is reported as applied only when both costmaps have been cleared *)
(* for this very transaction, with the vehicle still under STOP: late      *)
(* answers of an abandoned transaction do not count, and no browser has    *)
(* cleared the STOP in between (_finish_initial_pose_clear).               *)
StopStands ==
    \E i \in DOMAIN published :
        /\ published[i].event = "STOP"
        /\ \A j \in DOMAIN published : i < j => published[j].event # "CLEAR_STOP"

AppliedSeedIsWhole ==
    [][pose_state' = "applied" /\ pose_state # "applied" =>
         /\ {[id |-> pose.id, costmap |-> c] : c \in Costmaps} \subseteq served'
         /\ StopStands]_vars

(* Tuning is reported as applied only on the answers of a read that every  *)
(* owner has served since the write: not on those of an earlier read that  *)
(* timed out or was overtaken (_finish_tuning_read).                       *)
ReadBacksAreTheirOwn ==
    [][tuning'.status = "applied" /\ tuning.status # "applied" =>
         \A o \in Owners : <<o, tuning_op.id>> \in reads]_vars
=============================================================================
