----------------------------- MODULE MapSession -----------------------------
(***************************************************************************)
(* The map executor (map_session_node.py with the model of map_session.py) *)
(* beside the mode supervisor it follows.  Observations and requests run   *)
(* in two callback groups: a save is a thread of several steps between     *)
(* which the executor keeps learning about the runtime, and every step may *)
(* be its last.  It sees the newest ModeState published, sooner or later.  *)
(*                                                                         *)
(* Ages are inputs: whether a grid comes two seconds into the session, is  *)
(* stale for the timer, or recent enough for a save.  Status texts and     *)
(* request ids only echoed back are left out.  The session a NEW MAP was   *)
(* accepted for is a history (reset.draft.session, reset.pending.asked).   *)
(***************************************************************************)
EXTENDS ModeRuntime

CONSTANTS
    MaxActions     \* bound: operator actions, mode requests and crashes

ASSUME SessionConstants == MaxActions \in Nat

VARIABLES
    executor,        \* "up" or "down"
    operations,      \* operator actions so far that are no mode request
    seen,            \* the ModeState fields it keeps
    session,         \* MappingSession
    save,            \* save_state and the thread that serves a SAVE request
    reset,           \* the NEW MAP being forwarded, reported and waited for
    selected,        \* selected_applied
    selection_file,  \* SELECTED_MAP_FILE
    last_map         \* the SLAM run of the last /map grid

executorVars == <<executor, operations, seen, session, save, reset, selected, selection_file, last_map>>
vars == <<libraryVars, runtimeVars, executorVars>>

NothingSeen ==
    [mode |-> "IDLE", lifecycle |-> "STABLE", ready |-> FALSE, active_map |-> NoMap]
NoSession ==
    [id |-> 0, epoch |-> 0, phase |-> "NONE", saved |-> NoMap]
NoSave == [state |-> "IDLE", at |-> "idle", name |-> NoMap, session |-> 0, ok |-> FALSE]
NoDraft == [id |-> 0, session |-> 0]
NoPending == [id |-> 0, epoch |-> 0, session |-> 0, asked |-> 0]
NoReset == [state |-> "IDLE", draft |-> NoDraft, pending |-> NoPending]
NoGrid == 0

SessionInit ==
    /\ LibraryInit /\ RuntimeInit
    /\ executor = "up" /\ operations = 0
    /\ seen = NothingSeen /\ session = NoSession /\ save = NoSave /\ reset = NoReset
    /\ selected = NoMap /\ selection_file = NoMap /\ last_map = NoGrid

(* The types of the variables. *)
SessionTypeOK ==
    /\ LibraryTypeOK /\ RuntimeTypeOK
    /\ executor \in {"up", "down"} /\ operations \in Nat
    /\ seen \in [mode : Modes, lifecycle : {"STABLE", "TRANSITIONING", "FAULT"},
                 ready : BOOLEAN, active_map : MapNames \cup {NoMap}]
    /\ session \in [id : Nat, epoch : Nat,
                    phase : {"NONE", "STARTING", "READY", "SAVING", "SAVED"},
                    saved : MapNames \cup {NoMap}]
    /\ save \in [state : {"IDLE", "RUNNING", "SUCCEEDED", "FAILED"},
                 at : {"idle", "prepare", "serialize", "raster", "publish", "record"},
                 name : MapNames \cup {NoMap}, session : Nat, ok : BOOLEAN]
    /\ reset \in [state : {"IDLE", "RUNNING", "SUCCEEDED", "FAILED"},
                  draft : [id : Nat, session : Nat],
                  pending : [id : Nat, epoch : Nat, session : Nat, asked : Nat]]
    /\ selected \in MapNames \cup {NoMap} /\ selection_file \in MapNames \cup {NoMap}
    /\ last_map \in Runs

-----------------------------------------------------------------------------
(* Observations. *)

Active == session.id # 0 /\ session.phase # "NONE"

(* observe_runtime: a new id starts a new session, no id ends it. *)
ObserveRuntime ==
    LET mapping == rt.mode = "MAPPING" /\ rt.lifecycle = "STABLE" /\ rt.session # 0
    IN  /\ session' =
             IF ~mapping THEN IF Active THEN NoSession ELSE session
             ELSE IF rt.session = session.id THEN session
             ELSE [NoSession EXCEPT !.id = rt.session, !.epoch = rt.epoch,
                                    !.phase = "STARTING"]
        /\ save' = IF mapping /\ rt.session # session.id /\ save.state = "RUNNING"
                   THEN [save EXCEPT !.state = "FAILED"] ELSE save

(* Mutant of ResetReached: any mapping session of a later request will do. *)
ResetReachedAny(p) == rt.mode = "MAPPING" /\ rt.session # 0 /\ rt.ready

(* The session reported is not the one NEW MAP was to replace. *)
ResetReached(p) ==
    /\ rt.mode = "MAPPING" /\ rt.ready
    /\ rt.epoch > p.epoch
    /\ rt.session # 0 /\ rt.session # p.session

Concluded(state) == [reset EXCEPT !.state = state, !.pending = NoPending]

ObserveReset ==
    LET p == reset.pending
    IN  reset' =
          IF p = NoPending \/ rt.accepted < p.id \/ rt.lifecycle = "TRANSITIONING"
          THEN reset
          ELSE IF rt.lifecycle = "FAULT" THEN Concluded("FAILED")
          ELSE IF ResetReached(p) THEN Concluded("SUCCEEDED")
          ELSE IF rt.rejected THEN Concluded("FAILED")
          ELSE reset

OnModeState ==
    /\ executor = "up" /\ process = "up"
    /\ seen' = [mode |-> rt.mode, lifecycle |-> rt.lifecycle, ready |-> rt.ready,
                active_map |-> rt.active_map]
    /\ ObserveRuntime /\ ObserveReset
    /\ UNCHANGED <<libraryVars, runtimeVars, executor, operations, selected, selection_file, last_map>>

OnGrid(produced_after) ==
    /\ executor = "up" /\ slam # 0
    /\ last_map' = slam
    /\ session' = IF Active /\ produced_after /\ session.phase = "STARTING"
                  THEN [session EXCEPT !.phase = "READY"] ELSE session
    /\ UNCHANGED <<libraryVars, runtimeVars, executor, operations, seen, save, reset, selected,
                   selection_file>>

(* _on_timer: a session whose evidence is stale is no longer ready. *)
OnSessionTimer ==
    /\ executor = "up" /\ session.phase \in {"READY", "SAVED"}
    /\ session' = [session EXCEPT !.phase = "STARTING"]
    /\ UNCHANGED <<libraryVars, runtimeVars, executor, operations, seen, save, reset, selected,
                   selection_file, last_map>>

-----------------------------------------------------------------------------
(* Requests.  One is handled at a time.  An unauthorized or replayed NEW   *)
(* MAP is still recorded as a failed reset, whatever reset is pending.     *)

MayAct == clock + operations + crashes < MaxActions
Counted == MayAct /\ operations' = operations + 1

RequestsIdle == executor = "up" /\ save.at = "idle" /\ reset.draft = NoDraft
Handling == RequestsIdle /\ Counted /\ UNCHANGED executor

RejectRequest ==
    /\ Handling
    /\ reset' = Concluded("FAILED")
    /\ UNCHANGED <<libraryVars, runtimeVars, seen, session, save, selected,
                   selection_file, last_map>>

(* _handle_new_map: the session is checked and an id drawn.  The lock is   *)
(* released in between, and once more before the session is read again.    *)
HandleNewMap ==
    /\ RequestsIdle /\ MayAct
    /\ seen.mode = "MAPPING" /\ seen.lifecycle = "STABLE" /\ Active
    /\ DrawRequestId
    /\ reset' = [reset EXCEPT !.draft = [id |-> clock + 1, session |-> session.id]]
    /\ UNCHANGED <<libraryVars, rt, process, worker, requests, externalVars, map_file,
                   minted, nodeVars, crashes, executor, operations, seen, session, save,
                   selected, selection_file, last_map>>

(* What the new session must not be is the session followed by now, which  *)
(* may be none; the request goes to the mode supervisor.                   *)
ForwardNewMap ==
    /\ executor = "up" /\ reset.draft # NoDraft
    /\ reset' = [state |-> "RUNNING", draft |-> NoDraft,
                 pending |-> [id |-> reset.draft.id, epoch |-> session.epoch,
                              session |-> session.id, asked |-> reset.draft.session]]
    /\ Send(reset.draft.id, "MAPPING", NoMap, TRUE)
    /\ UNCHANGED <<libraryVars, rt, process, worker, clock, externalVars, map_file,
                   minted, nodeVars, crashes, executor, operations, seen, session, save,
                   selected, selection_file, last_map>>

(* _handle_select_map: the file first, the memory next. *)
Selectable(name) ==
    /\ seen.lifecycle = "STABLE"
    /\ seen.mode = "AUTONOMY" => name = selected
    /\ validate_bundle(name)

HandleSelectMap(name) ==
    /\ Handling /\ Selectable(name)
    /\ selection_file' = name /\ selected' = name
    /\ UNCHANGED <<libraryVars, runtimeVars, seen, session, save, reset, last_map>>

(* Mutant of Deletable: only the map of the runtime is protected. *)
DeletableSelected(name) == name # seen.active_map /\ validate_bundle(name)

(* validate_delete_candidate. *)
Deletable(name) == name # selected /\ name # seen.active_map /\ validate_bundle(name)

HandleDeleteMap(name) ==
    /\ Handling /\ Deletable(name)
    /\ RemoveBundle(name)
    /\ UNCHANGED <<runtimeVars, seen, session, save, reset, selected, selection_file,
                   last_map>>

(* _handle_save_map, its checks: the request names the current session,    *)
(* which is ready, and STOP holds the vehicle.                             *)
HandleSaveMap(name, id, inhibited) ==
    /\ Handling
    /\ IF /\ Active /\ id = session.id /\ session.phase # "STARTING"
          /\ seen.ready /\ inhibited /\ save.state # "RUNNING"
       THEN /\ save' = [state |-> "RUNNING", at |-> "prepare", name |-> name,
                        session |-> id, ok |-> FALSE]
            /\ session' = [session EXCEPT !.phase = "SAVING"]
       ELSE /\ save' = [save EXCEPT !.state = "FAILED"]
            /\ session' = IF Active /\ session.phase = "SAVING"
                          THEN [session EXCEPT !.phase = "READY"] ELSE session
    /\ UNCHANGED <<libraryVars, runtimeVars, seen, reset, selected, selection_file,
                   last_map>>

-----------------------------------------------------------------------------
(* The save thread (_run_save). *)

SaveVars == <<executor, operations, seen, session, reset, selected, selection_file, last_map>>
GoTo(at) == save' = [save EXCEPT !.at = at]

(* Any step may end the attempt: a name already taken, a service that is   *)
(* missing, late or unsuccessful, no grid in time, an unusable one, or a   *)
(* session that has changed.                                               *)
SaveFails ==
    /\ executor = "up" /\ save.at \in {"prepare", "serialize", "raster"}
    /\ GoTo("record")
    /\ UNCHANGED <<libraryVars, runtimeVars, SaveVars>>

SavePrepare ==
    /\ executor = "up" /\ save.at = "prepare"
    /\ StagePrepare(save.name) /\ GoTo("serialize")
    /\ UNCHANGED <<runtimeVars, SaveVars>>

SaveSerialize ==
    /\ executor = "up" /\ save.at = "serialize" /\ slam # 0
    /\ StagePosegraph(slam) /\ GoTo("raster")
    /\ UNCHANGED <<runtimeVars, SaveVars>>

(* The grid is written, the staged bundle validated, the session compared. *)
SaveRaster ==
    /\ executor = "up" /\ save.at = "raster" /\ last_map # NoGrid
    /\ session.id = save.session
    /\ StageRaster(last_map) /\ GoTo("publish")
    /\ UNCHANGED <<runtimeVars, SaveVars>>

SavePublish ==
    /\ executor = "up" /\ save.at = "publish" /\ MayPublish(save.name)
    /\ StagePublish(save.name, save.session)
    /\ save' = [save EXCEPT !.at = "record", !.ok = TRUE]
    /\ UNCHANGED <<runtimeVars, SaveVars>>

(* record_save, on whatever session is current by now. *)
SaveRecord ==
    /\ executor = "up" /\ save.at = "record"
    /\ save' = [NoSave EXCEPT !.state = IF save.ok THEN "SUCCEEDED" ELSE "FAILED"]
    /\ session' =
         IF save.ok THEN [session EXCEPT !.saved = save.name, !.phase = "SAVED"]
         ELSE IF Active /\ session.phase = "SAVING" THEN [session EXCEPT !.phase = "READY"]
         ELSE session
    /\ UNCHANGED <<libraryVars, runtimeVars, executor, operations, seen, reset, selected,
                   selection_file, last_map>>

-----------------------------------------------------------------------------
(* The process dies, perhaps after storing a selection it never applied.   *)
ExecutorCrashes(file) ==
    /\ executor = "up" /\ MayAct /\ crashes < MaxCrashes /\ crashes' = crashes + 1
    /\ file = selection_file \/ (RequestsIdle /\ Selectable(file))
    /\ selection_file' = file
    /\ executor' = "down"
    /\ seen' = NothingSeen /\ session' = NoSession /\ save' = NoSave /\ reset' = NoReset
    /\ selected' = NoMap /\ last_map' = NoGrid
    /\ UNCHANGED <<libraryVars, rt, process, worker, requests, clock, externalVars,
                   map_file, minted, nodeVars, operations>>

(* _load_selection: the stored name, if its bundle is still complete. *)
ExecutorStarts ==
    /\ executor = "down"
    /\ executor' = "up"
    /\ selected' = IF validate_bundle(selection_file) THEN selection_file ELSE NoMap
    /\ UNCHANGED <<libraryVars, runtimeVars, operations, seen, session, save, reset,
                   selection_file, last_map>>

(* The web process saves an edited semantic layer. *)
EditSemantics(name) ==
    /\ Counted
    /\ PaintSemantics(name)
    /\ UNCHANGED <<runtimeVars, executor, seen, session, save, reset, selected,
                   selection_file, last_map>>

SessionNext ==
    \/ RuntimeNext /\ clock' + operations + crashes' <= MaxActions
       /\ UNCHANGED <<libraryVars, executorVars>>
    \/ \E name \in MapNames : EditSemantics(name)
    \/ Painting /\ UNCHANGED <<runtimeVars, executorVars>>
    \/ OnModeState \/ OnSessionTimer
    \/ \E produced_after \in BOOLEAN : OnGrid(produced_after)
    \/ RejectRequest \/ HandleNewMap \/ ForwardNewMap
    \/ \E name \in MapNames \cup {BadName} : HandleSelectMap(name) \/ HandleDeleteMap(name)
    \/ \E name \in MapNames, id \in 1 .. Len(minted), inhibited \in BOOLEAN :
          HandleSaveMap(name, id, inhibited)
    \/ SaveFails \/ SavePrepare \/ SaveSerialize \/ SaveRaster \/ SavePublish \/ SaveRecord
    \/ \E file \in MapNames \cup {NoMap} : ExecutorCrashes(file)
    \/ ExecutorStarts

SessionSpec == SessionInit /\ [][SessionNext]_vars

-----------------------------------------------------------------------------
Succeeds == reset.state = "RUNNING" /\ reset'.state = "SUCCEEDED"

(* A NEW MAP forwarded from a session and reported as succeeded has        *)
(* replaced the map: the session followed then was given to a later SLAM   *)
(* run than the one it was accepted for (_on_mode_state, transition).      *)
ResetIsFresh ==
    [][Succeeds /\ reset.pending.session # 0
         => minted[session'.id] > minted[reset.pending.asked]]_vars

(* Maps are published whole, never change, and are deleted only while not  *)
(* selected: the staged files, renames, semantic layers and crashes of the *)
(* executor implement the abstract catalog (MapSaveTransaction,            *)
(* delete_bundle, write_semantics, _handle_select_map).                    *)
Abstract == INSTANCE MapCatalog WITH
    Names <- MapNames, Recordings <- Content \X Content, NoName <- NoMap,
    catalog <- [name \in Catalog |-> <<maps[name].posegraph, maps[name].raster>>],
    selected <- selection_file

CatalogIsImplemented == Abstract!Spec
=============
