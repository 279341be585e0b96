------------------------- MODULE RecordingExecutor -------------------------
(***************************************************************************)
(* The recording executor (recording.py, recording_executor_node.py): one  *)
(* rosbag2 process, started, interrupted and, when it does not end,        *)
(* terminated; a runtime record lets a restarted executor adopt it.  The   *)
(* executor may die between two callbacks; under its systemd unit the      *)
(* recorder dies with it, started by hand it lives on.  The record is      *)
(* written after the start, and what cannot be written or read is ignored: *)
(* a process that dies before the write is one whose write fails.          *)
(*                                                                         *)
(* rosbag2 is external: it makes its directory some time after it starts   *)
(* and writes the metadata when it ends in its own time.  Profiles, sizes  *)
(* and the lease check of the node are left out (a request under another   *)
(* lease has no effect).  lost is a history: the recorder was not on the   *)
(* record an executor found when it started.                               *)
(***************************************************************************)
EXTENDS Naturals, FiniteSets

CONSTANTS Bags, NoBag

ASSUME RecordingConstants == NoBag \notin Bags

VARIABLES
    recorder_owner,   \* the executor process: "up" or "down"
    rec,              \* RecordingExecutor
    record,           \* runtime_path: the pid and bag written down, or NoRecord
    bags,             \* each directory: "none", "open" or "final"
    recorders,        \* the rosbag2 processes alive
    pids              \* process ids used so far

recordingVars == <<recorder_owner, rec, record, bags, recorders, pids>>

ActiveStates == {"STARTING", "RECORDING", "STOPPING"}
NoRecord == [pid |-> 0, name |-> NoBag]
NotRecording == [state |-> "IDLE", pid |-> 0, name |-> NoBag]

RecordingInit ==
    /\ recorder_owner = "up" /\ rec = NotRecording /\ record = NoRecord
    /\ bags = [b \in Bags |-> "none"] /\ recorders = {} /\ pids = 0

Alive(pid) == \E r \in recorders : r.pid = pid

(* _persist and _clear_runtime: an error leaves the older record. *)
Persist(state, ok, older) == IF ok THEN [pid |-> state.pid, name |-> state.name] ELSE older
ClearRuntime(ok, older) == IF ok THEN NoRecord ELSE older

(* poll: a live recorder moves on, a dead one is settled. *)
Polled ==
    IF rec.state \notin ActiveStates THEN rec
    ELSE IF Alive(rec.pid)
         THEN [rec EXCEPT !.state = IF @ = "STARTING" THEN "RECORDING" ELSE @]
    ELSE [rec EXCEPT !.pid = 0,
            !.state = IF @ = "STOPPING" /\ bags[rec.name] = "final" THEN "IDLE" ELSE "FAILED"]

(* What poll does to the runtime record. *)
RecordPolled(ok) ==
    IF rec.state \notin ActiveStates \/ Alive(rec.pid) THEN record
    ELSE IF Polled.state = "IDLE" THEN ClearRuntime(ok, record) ELSE Persist(Polled, ok, record)

(* start: poll, then the launch, which may fail, then the record. *)
StartRecording(name, launched, settled, ok) ==
    /\ recorder_owner = "up"
    /\ IF Polled.state \in ActiveStates \/ bags[name] # "none"
       THEN rec' = Polled /\ record' = RecordPolled(settled) /\ UNCHANGED <<recorders, pids>>
       ELSE /\ IF launched
               THEN /\ pids' = pids + 1
                    /\ rec' = [state |-> "STARTING", pid |-> pids + 1, name |-> name]
                    /\ recorders' = recorders \cup
                                      {[pid |-> pids + 1, name |-> name, lost |-> FALSE]}
               ELSE /\ rec' = [state |-> "FAILED", pid |-> Polled.pid, name |-> name]
                    /\ UNCHANGED <<recorders, pids>>
            /\ record' = Persist(rec', ok, RecordPolled(settled))
    /\ UNCHANGED <<recorder_owner, bags>>

(* stop: SIGINT, then poll until the process has gone. *)
StopRecording(ok) ==
    /\ recorder_owner = "up"
    /\ IF Polled.state \in {"STARTING", "RECORDING"}
       THEN rec' = [Polled EXCEPT !.state = "STOPPING"] /\ record' = Persist(rec', ok, record)
       ELSE rec' = Polled /\ record' = RecordPolled(ok)
    /\ UNCHANGED <<recorder_owner, bags, recorders, pids>>

(* delete: a finalized bag that is not the active one. *)
Deletable(name) ==
    /\ ~(name = rec.name /\ rec.state \in ActiveStates)
    /\ bags[name] = "final"

DeleteRecording(name) ==
    /\ recorder_owner = "up" /\ Deletable(name)
    /\ bags' = [bags EXCEPT ![name] = "none"]
    /\ UNCHANGED <<recorder_owner, rec, record, recorders, pids>>

PollRecorder(ok) ==
    /\ recorder_owner = "up"
    /\ rec' = Polled /\ record' = RecordPolled(ok)
    /\ UNCHANGED <<recorder_owner, bags, recorders, pids>>

-----------------------------------------------------------------------------
(* rosbag2. *)

BagOpens(r) ==
    /\ r \in recorders /\ bags[r.name] = "none"
    /\ bags' = [bags EXCEPT ![r.name] = "open"]
    /\ UNCHANGED <<recorder_owner, rec, record, recorders, pids>>

(* It ends: by the signal sent or of itself, closing its bag, or killed or *)
(* failing, leaving it open.                                               *)
RecorderEnds(r, closes) ==
    /\ r \in recorders /\ recorders' = recorders \ {r}
    /\ bags' = IF closes /\ bags[r.name] = "open"
               THEN [bags EXCEPT ![r.name] = "final"] ELSE bags
    /\ UNCHANGED <<recorder_owner, rec, record, pids>>

-----------------------------------------------------------------------------
(* The executor dies; with it, under systemd, every process of its unit. *)
OwnerDies(unit) ==
    /\ recorder_owner = "up" /\ recorder_owner' = "down"
    /\ rec' = NotRecording
    /\ recorders' = IF unit THEN {} ELSE recorders
    /\ UNCHANGED <<record, bags, pids>>

(* Mutant of Adopted: only a record of the same session would count. *)
AdoptedNever == FALSE

(* The record names a live recorder. *)
Adopted == Alive(record.pid)

(* _reconcile_runtime_record. *)
OwnerStarts(readable, ok) ==
    /\ recorder_owner = "down" /\ recorder_owner' = "up"
    /\ IF readable /\ Adopted
       THEN /\ rec' = [state |-> "RECORDING", pid |-> record.pid, name |-> record.name]
            /\ UNCHANGED record
       ELSE rec' = NotRecording /\ record' = ClearRuntime(ok, record)
    /\ recorders' = {[r EXCEPT !.lost = ~readable \/ r.pid # record.pid] : r \in recorders}
    /\ UNCHANGED <<bags, pids>>

(* The mode supervisor's unit owns the directory of the record: systemd    *)
(* removes it when that unit is stopped.                                   *)
RecordVanishes ==
    /\ record # NoRecord /\ record' = NoRecord
    /\ UNCHANGED <<recorder_owner, rec, bags, recorders, pids>>

-----------------------------------------------------------------------------
(* The recorders the executor is to know of are never two, nor is there    *)
(* one it does not know of, over failed launches and writes, restarts and  *)
(* recorders that end by themselves (RecordingExecutor).                   *)
OneKnownRecorder ==
    /\ Cardinality({r \in recorders : ~r.lost}) <= 1
    /\ recorder_owner = "up" =>
         \A r \in recorders : ~r.lost => rec.state \in ActiveStates /\ rec.pid = r.pid
=============
