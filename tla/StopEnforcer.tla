---------------------------- MODULE StopEnforcer ----------------------------
(***************************************************************************)
(* The persistent global STOP executor (runner_paddock/stop_enforcer.py).  *)
(*                                                                         *)
(* The node latches STOP: it asserts the mux lock first and persists the   *)
(* decision afterwards, on a one-thread worker; it releases the lock only  *)
(* after the clear has been persisted and a drain time has passed.  Every  *)
(* decision carries a generation number, which is what makes a stale clear *)
(* harmless.  The process may crash at any moment and restarts from the    *)
(* record on disk.                                                         *)
(*                                                                         *)
(* Time is abstracted to the events it causes: a sample expires, the drain *)
(* elapses.                                                                *)
(***************************************************************************)
EXTENDS Integers, Sequences

CONSTANTS
    Requesters,   \* identities of StopRequest senders (one uuid per process; 0 is '')
    MaxRequestId, MaxGeneration, MaxBoot   \* bounds of an instance

ASSUME StopConstants ==
    /\ Requesters \subseteq Nat \ {0}
    /\ MaxRequestId \in Nat
    /\ MaxGeneration \in Nat
    /\ MaxBoot \in Nat

VARIABLES
    disk,             \* the STOP record file, which survives a crash
    alive,            \* is the process running?
    boot,             \* its boot id (0 in a request means "any boot")
    generation, stopped, locked, durable,
    fault,            \* is self.fault non-empty?
    clear_at,         \* "none", "draining" (in the future) or "due"
    zero_seen,        \* a zero was seen on /cmd_vel since the last STOP, and is fresh
    queue,            \* writes submitted to the worker and not yet executed
    write,            \* the future of the latest submitted write
    neutral,          \* the encoder and local control samples are fresh and report
                      \* a stationary vehicle with released, neutral controls
    request_results,  \* per requester: its latest decided request
    last_request,     \* the request acknowledged in the published state
    state_pub         \* the latest StopState published

latchVars  == <<generation, stopped, locked, durable, fault, clear_at, zero_seen>>
writeVars  == <<queue, write>>
ackVars    == <<request_results, last_request>>
stopVars   == <<disk, alive, boot, latchVars, writeVars, neutral, ackVars, state_pub>>

NoWrite == [status |-> "none", generation |-> 0, stopped |-> TRUE]
NoResult == [id |-> 0, accepted |-> FALSE]

NoRequest == [requester |-> 0, id |-> 0, accepted |-> FALSE]

(* Before the first publication: a state no boot has published. *)
NoState == [boot |-> 0, generation |-> 0, stopped |-> TRUE, locked |-> TRUE,
            healthy |-> FALSE, applied |-> FALSE, clear_pending |-> FALSE,
            request |-> NoRequest]

Record(g, s) == [known |-> TRUE, generation |-> g, stopped |-> s]

(* Mutant of Restored: the generation of an invalid record is not checked. *)
RestoredUnchecked ==
    IF disk.known THEN disk ELSE [known |-> FALSE, generation |-> -1, stopped |-> TRUE]

(* What restore() yields: an unreadable or invalid record restores as      *)
(* "stopped, generation 0" and is a fault.                                 *)
Restored == IF disk.known THEN disk ELSE [known |-> FALSE, generation |-> 0, stopped |-> TRUE]

-----------------------------------------------------------------------------
(* clear_reason() = '': nothing stands against releasing the lock.  The    *)
(* arguments are the persistence fields at the point of the call.          *)
ClearAllowed(faulty, durably, future) ==
    /\ neutral
    /\ ~faulty
    /\ durably
    /\ future.status = "none"

(* Mutant of StateMessage: "applied" does not wait for the disk. *)
StateMessageUndurable(g, s, l, d, f, c) ==
    [ boot |-> boot, generation |-> g, stopped |-> s, locked |-> l,
      healthy |-> ~f, applied |-> s /\ l /\ zero_seen,
      clear_pending |-> c # "none", request |-> last_request ]

(* The status message for given latch fields.  Publishing is skipped when  *)
(* nothing changed since the last message, which state_pub cannot tell.    *)
StateMessage(g, s, l, d, f, c) ==
    [ boot |-> boot, generation |-> g, stopped |-> s, locked |-> l,
      healthy |-> ~f,
      applied |-> s /\ l /\ d /\ zero_seen,
      clear_pending |-> c # "none",
      request |-> last_request ]

Submit(g, s) ==
    /\ queue' = Append(queue, [generation |-> g, stopped |-> s])
    /\ write' = [status |-> "pending", generation |-> g, stopped |-> s]

Ack(r, ok) ==
    /\ last_request' = [requester |-> r.requester, id |-> r.id, accepted |-> ok]
    /\ request_results' = [request_results EXCEPT ![r.requester] = [id |-> r.id, accepted |-> ok]]

(* _ack(..., store=False) *)
AckUnstored(r, ok) ==
    /\ last_request' = [requester |-> r.requester, id |-> r.id, accepted |-> ok]
    /\ UNCHANGED request_results

-----------------------------------------------------------------------------
(* request(): one disjunct per exit of the method. *)
Duplicate(r) == r.id = request_results[r.requester].id
Superseded(r) == r.id < request_results[r.requester].id
OtherBoot(r) == r.boot # 0 /\ r.boot # boot

(* Mutant of AcceptStop: a STOP does not cancel a clear that is draining. *)
AcceptStopKeepsDrain(r) ==
    /\ generation' = generation + 1
    /\ stopped' = TRUE /\ locked' = TRUE /\ zero_seen' = FALSE /\ durable' = FALSE
    /\ Submit(generation + 1, TRUE)
    /\ Ack(r, TRUE)
    /\ UNCHANGED <<fault, clear_at>>

AcceptStop(r) ==
    /\ generation' = generation + 1
    /\ stopped' = TRUE
    /\ locked' = TRUE
    /\ clear_at' = "none"
    /\ zero_seen' = FALSE
    /\ durable' = FALSE
    /\ Submit(generation + 1, TRUE)
    /\ Ack(r, TRUE)
    /\ UNCHANGED fault

(* Mutants of AcceptClear: the clear is not marked as not yet durable, and *)
(* the clear is not compared with the current generation.                  *)
AcceptClearStaysDurable(r) ==
    /\ r.generation = generation /\ clear_at = "none" /\ ClearAllowed(fault, durable, write)
    /\ generation' = generation + 1
    /\ Submit(generation + 1, FALSE)
    /\ Ack(r, TRUE)
    /\ UNCHANGED <<stopped, locked, durable, fault, clear_at, zero_seen>>

AcceptClearUnbound(r) ==
    /\ clear_at = "none" /\ ClearAllowed(fault, durable, write)
    /\ generation' = generation + 1
    /\ durable' = FALSE
    /\ Submit(generation + 1, FALSE)
    /\ Ack(r, TRUE)
    /\ UNCHANGED <<stopped, locked, fault, clear_at, zero_seen>>

AcceptClear(r) ==
    /\ r.generation = generation
    /\ clear_at = "none"
    /\ ClearAllowed(fault, durable, write)
    /\ generation' = generation + 1
    /\ durable' = FALSE
    /\ Submit(generation + 1, FALSE)
    /\ Ack(r, TRUE)
    /\ UNCHANGED <<stopped, locked, fault, clear_at, zero_seen>>

RejectClear(r) ==
    /\ \/ r.generation # generation
       \/ clear_at # "none"
       \/ ~ClearAllowed(fault, durable, write)
    /\ Ack(r, FALSE)
    /\ UNCHANGED <<latchVars, writeVars>>

Request(r) ==
    /\ alive
    /\ \/ /\ Duplicate(r)
          /\ Ack(r, request_results[r.requester].accepted)
          /\ UNCHANGED <<latchVars, writeVars>>
       \/ /\ Superseded(r)
          /\ AckUnstored(r, FALSE)
          /\ UNCHANGED <<latchVars, writeVars>>
       \/ /\ ~Duplicate(r) /\ ~Superseded(r) /\ OtherBoot(r)
          /\ Ack(r, FALSE)
          /\ UNCHANGED <<latchVars, writeVars>>
       \/ /\ ~Duplicate(r) /\ ~Superseded(r) /\ ~OtherBoot(r)
          /\ \/ r.stopped /\ AcceptStop(r)
             \/ ~r.stopped /\ AcceptClear(r)
             \/ ~r.stopped /\ RejectClear(r)
    /\ UNCHANGED <<disk, alive, boot, neutral, state_pub>>

(***************************************************************************)
(* tick(): harvest a finished write, advance or abort a pending clear, and *)
(* publish.  The names ending in 1 are the fields after the harvest.       *)
(***************************************************************************)
TickLatch ==
    /\ alive
    /\ LET failed    == write.status = "failed"
           confirmed == write.status = "ok" /\ write.generation = generation
           write1    == IF write.status \in {"ok", "failed"} THEN NoWrite ELSE write
           stopped1  == stopped \/ failed
           locked1   == locked \/ failed
           durable1  == durable \/ confirmed
           fault1    == failed \/ (fault /\ ~confirmed)
           clear1    == IF confirmed /\ ~write.stopped THEN "draining" ELSE clear_at
           abort     == clear1 # "none" /\ stopped1 /\ ~ClearAllowed(fault1, durable1, write1)
           release   == clear1 = "due" /\ ~abort
       IN  /\ generation' = IF abort THEN generation + 1 ELSE generation
           /\ stopped' = (abort \/ (stopped1 /\ ~release))
           /\ locked'  = (abort \/ (locked1 /\ ~release))
           /\ durable' = (durable1 /\ ~abort)
           /\ fault' = fault1
           /\ clear_at' = IF abort \/ release THEN "none" ELSE clear1
           /\ IF abort THEN Submit(generation + 1, TRUE)
                       ELSE queue' = queue /\ write' = write1
    /\ UNCHANGED <<disk, alive, boot, zero_seen, neutral, ackVars>>

(* Mutant of PublishState: the message is composed before the tick acts. *)
PublishStateEarly ==
    state_pub' = StateMessage(generation, stopped, locked, durable, fault, clear_at)

PublishState ==
    state_pub' = StateMessage(generation', stopped', locked', durable', fault', clear_at')

Tick == TickLatch /\ PublishState

(***************************************************************************)
(* Subscriptions and the age of what they stored.  on_encoder() and        *)
(* on_local_control() are read only through the conjunction in             *)
(* clear_reason(): the environment makes it true or false at any time, by  *)
(* a sample or by its absence.  zero_seen and final_at are set together,   *)
(* and read only together; a non-zero final command changes nothing.       *)
(***************************************************************************)
OnSensors(b) ==
    /\ alive
    /\ neutral' = b
    /\ UNCHANGED <<disk, alive, boot, latchVars, writeVars, ackVars, state_pub>>

OnFinalZero ==
    /\ alive /\ locked
    /\ zero_seen' = TRUE
    /\ UNCHANGED <<disk, alive, boot, generation, stopped, locked, durable, fault, clear_at,
                   writeVars, neutral, ackVars, state_pub>>

FinalZeroExpires ==
    /\ alive
    /\ zero_seen' = FALSE
    /\ UNCHANGED <<disk, alive, boot, generation, stopped, locked, durable, fault, clear_at,
                   writeVars, neutral, ackVars, state_pub>>

DrainElapses ==
    /\ alive
    /\ clear_at = "draining"
    /\ clear_at' = "due"
    /\ UNCHANGED <<disk, alive, boot, generation, stopped, locked, durable, fault, zero_seen,
                   writeVars, neutral, ackVars, state_pub>>

(* Mutant of Persist: a pool of two workers, which may finish out of order. *)
PersistUnordered(outcome) ==
    /\ alive
    /\ \E i \in 1 .. Len(queue) :
          /\ disk' = IF outcome = "failed_early" THEN disk
                     ELSE Record(queue[i].generation, queue[i].stopped)
          /\ queue' = SubSeq(queue, 1, i - 1) \o SubSeq(queue, i + 1, Len(queue))
          /\ write' = IF i < Len(queue) THEN write
                      ELSE [write EXCEPT !.status = IF outcome = "ok" THEN "ok" ELSE "failed"]
    /\ UNCHANGED <<alive, boot, latchVars, neutral, ackVars, state_pub>>

(***************************************************************************)
(* persist() on the worker thread.  It can fail before the atomic          *)
(* replacement of the file (the old record stays) or after it, when the    *)
(* directory cannot be synced (the new record is there, and the write is   *)
(* reported as failed).  The future is that of the last write submitted.   *)
(***************************************************************************)
Persist(outcome) ==
    /\ alive
    /\ queue # <<>>
    /\ disk' = IF outcome = "failed_early" THEN disk
               ELSE Record(Head(queue).generation, Head(queue).stopped)
    /\ queue' = Tail(queue)
    /\ write' = IF Len(queue) > 1 THEN write
                ELSE [write EXCEPT !.status = IF outcome = "ok" THEN "ok" ELSE "failed"]
    /\ UNCHANGED <<alive, boot, latchVars, neutral, ackVars, state_pub>>

PersistOutcomes == {"ok", "failed_early", "failed_late"}

(***************************************************************************)
(* The process dies: its memory and the writes not yet executed are gone.  *)
(* What it published stays published, and the mux holds a lock whose       *)
(* heartbeat stopped.  Between lives the volatile variables keep the       *)
(* values a fresh process gives them before it reads the record.           *)
(***************************************************************************)
Crash ==
    /\ alive
    /\ alive' = FALSE
    /\ generation' = 0 /\ stopped' = TRUE /\ locked' = TRUE
    /\ durable' = FALSE /\ fault' = FALSE /\ clear_at' = "none" /\ zero_seen' = FALSE
    /\ queue' = <<>> /\ write' = NoWrite
    /\ neutral' = FALSE
    /\ request_results' = [r \in Requesters |-> NoResult]
    /\ last_request' = NoRequest
    /\ UNCHANGED <<disk, boot, state_pub>>

(* __init__: restore() and what follows from the record. *)
Start ==
    /\ ~alive
    /\ alive' = TRUE
    /\ boot' = boot + 1
    /\ generation' = Restored.generation
    /\ stopped' = Restored.stopped
    /\ fault' = ~Restored.known
    /\ durable' = Restored.known
    /\ clear_at' = IF Restored.known /\ ~Restored.stopped THEN "draining" ELSE "none"
    /\ UNCHANGED <<disk, locked, zero_seen, writeVars, neutral, ackVars, state_pub>>

-----------------------------------------------------------------------------
(* Before the first start, with any record a previous life left on disk. *)
StopInit ==
    /\ disk \in {[known |-> FALSE, generation |-> 0, stopped |-> TRUE],
                 Record(0, TRUE), Record(0, FALSE)}
    /\ alive = FALSE
    /\ boot = 0
    /\ generation = 0 /\ stopped = TRUE /\ locked = TRUE
    /\ durable = FALSE /\ fault = FALSE /\ clear_at = "none" /\ zero_seen = FALSE
    /\ queue = <<>> /\ write = NoWrite
    /\ neutral = FALSE
    /\ request_results = [r \in Requesters |-> NoResult]
    /\ last_request = NoRequest
    /\ state_pub = NoState

(* Everything but the requests. *)
LocalStep ==
    \/ Tick
    \/ \E b \in BOOLEAN : OnSensors(b)
    \/ OnFinalZero
    \/ \E outcome \in PersistOutcomes : Persist(outcome)
    \/ FinalZeroExpires
    \/ DrainElapses
    \/ boot < MaxBoot /\ Crash
    \/ Start

(* Any request may arrive at any time, whatever boot and generation it is  *)
(* bound to: delayed, repeated and reordered requests are all included.    *)
Requests == [requester : Requesters, id : 1 .. MaxRequestId, stopped : BOOLEAN,
             boot : 0 .. MaxBoot, generation : 0 .. MaxGeneration]

StopNext ==
    /\ \/ LocalStep
       \/ \E r \in Requests : Request(r)
    /\ generation' <= MaxGeneration

StopSpec == StopInit /\ [][StopNext]_stopVars

-----------------------------------------------------------------------------
Records == [known : BOOLEAN, generation : Nat, stopped : BOOLEAN]
Decisions == [generation : Nat, stopped : BOOLEAN]
Futures == [status : {"none", "pending", "ok", "failed"}, generation : Nat, stopped : BOOLEAN]
Results == [id : Nat, accepted : BOOLEAN]
Acks == [requester : Requesters \cup {0}, id : Nat, accepted : BOOLEAN]
StopStates == [boot : Nat, generation : Nat, stopped : BOOLEAN, locked : BOOLEAN,
               healthy : BOOLEAN, applied : BOOLEAN, clear_pending : BOOLEAN, request : Acks]

TypeOK ==
    /\ disk \in Records
    /\ alive \in BOOLEAN /\ boot \in Nat
    /\ generation \in Nat
    /\ stopped \in BOOLEAN /\ locked \in BOOLEAN /\ durable \in BOOLEAN
    /\ fault \in BOOLEAN /\ zero_seen \in BOOLEAN
    /\ clear_at \in {"none", "draining", "due"}
    /\ queue \in Seq(Decisions)
    /\ write \in Futures
    /\ neutral \in BOOLEAN
    /\ request_results \in [Requesters -> Results]
    /\ last_request \in Acks
    /\ state_pub \in StopStates

(***************************************************************************)
(* The mux is only ever unlocked on the strength of a clear that is on     *)
(* disk, with no STOP waiting to be written and no persistence fault.  A   *)
(* crash, a failed write or a STOP at any point of request(), persist()    *)
(* and tick() cannot separate the lock from the record.  (The queue may    *)
(* hold a clear: request() accepts one when it is already clear.)          *)
(***************************************************************************)
UnlockedIsPersistedClear ==
    alive /\ ~locked => /\ disk.known /\ ~disk.stopped
                       /\ \A i \in 1 .. Len(queue) : ~queue[i].stopped
                       /\ ~stopped /\ ~fault

(***************************************************************************)
(* A published "applied" outside a clear drain is a promise that no crash  *)
(* takes back: the record on disk is that STOP, or a later decision.       *)
(***************************************************************************)
AppliedIsDurable ==
    state_pub.applied /\ ~state_pub.clear_pending =>
        /\ disk.known
        /\ disk.generation >= state_pub.generation
        /\ disk.generation = state_pub.generation => disk.stopped

(***************************************************************************)
(* Records reach the disk in the order of their generations, over every    *)
(* crash, failed write and aborted clear: no older decision ever replaces  *)
(* a newer one.                                                            *)
(***************************************************************************)
RecordsAdvance ==
    [][disk' # disk => disk'.known /\ disk'.generation > disk.generation]_stopVars

(***************************************************************************)
(* A deliberate clear never surprises the authority: when tick() releases  *)
(* a latched STOP, the process has published a pending clear of the same   *)
(* boot and generation since it was persisted.  (A clear restored at       *)
(* startup can be released by the very first tick when that tick is late.) *)
(***************************************************************************)
ReleaseWasAnnounced ==
    [][alive /\ stopped /\ ~locked' =>
          /\ state_pub.clear_pending
          /\ state_pub.boot = boot
          /\ state_pub.generation = generation]_stopVars

-----------------------------------------------------------------------------
(***************************************************************************)
(* The inductive invariant behind the properties above.                    *)
(***************************************************************************)

(* Queued writes are the newest decisions, in order; the future is that of *)
(* the last one.                                                           *)
QueueInv ==
    /\ disk.generation <= generation
    /\ (queue # <<>>) <=> (write.status = "pending")
    /\ queue # <<>> => queue[Len(queue)] = [generation |-> write.generation,
                                           stopped |-> write.stopped]
    /\ \A i \in 1 .. Len(queue) : /\ disk.generation < queue[i].generation
                                 /\ queue[i].generation <= generation
    /\ \A i, j \in 1 .. Len(queue) : i < j => queue[i].generation < queue[j].generation

(* A future, until it is harvested, is about the current generation, which *)
(* is not durable yet.                                                     *)
FutureInv ==
    /\ write.status # "none" => write.generation = generation /\ ~durable
    /\ write.status = "ok" => disk = Record(generation, write.stopped)

(* What the latch says about the disk. *)
LatchInv ==
    /\ durable => ~fault /\ disk.known /\ disk.generation = generation
    /\ durable /\ stopped /\ clear_at = "none" => disk.stopped
    /\ clear_at # "none" => durable /\ ~disk.stopped
    /\ ~stopped => /\ disk.known /\ ~disk.stopped /\ ~fault
                   /\ \A i \in 1 .. Len(queue) : ~queue[i].stopped
    /\ ~locked => ~stopped

(* What the last published state says about the disk and the drain. *)
PublishedInv ==
    /\ state_pub.boot <= boot
    /\ AppliedIsDurable
    /\ alive /\ stopped /\ clear_at # "none" =>
          state_pub.clear_pending /\ state_pub.boot = boot /\ state_pub.generation = generation

(* What a new process finds. *)
BetweenLives ==
    /\ ~alive => locked /\ queue = <<>> /\ write = NoWrite
    /\ ~disk.known => disk.generation = 0

(* Memory and record agree, whatever becomes of the published states. *)
MemoryInv ==
    /\ alive => QueueInv /\ FutureInv /\ LatchInv
    /\ BetweenLives

StopIInv == MemoryInv /\ PublishedInv

=============================================================================
