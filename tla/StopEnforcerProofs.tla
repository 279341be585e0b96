------------------------- MODULE StopEnforcerProofs -------------------------
(***************************************************************************)
(* Proofs about the STOP executor: type correctness, the invariants and    *)
(* the action properties of StopEnforcer, for any set of requesters and    *)
(* any bounds.                                                             *)
(***************************************************************************)
EXTENDS StopEnforcer, TLAPS, SequenceTheorems

(* What the queue operations of the worker return. *)
LEMMA QueueTyping ==
    /\ <<>> \in Seq(Decisions)
    /\ \A q \in Seq(Decisions), d \in Decisions : Append(q, d) \in Seq(Decisions)
    /\ \A q \in Seq(Decisions) : q # <<>> => Tail(q) \in Seq(Decisions) /\ Head(q) \in Decisions
<1>1. <<>> \in Seq(Decisions)
  OBVIOUS
<1>2. \A q \in Seq(Decisions), d \in Decisions : Append(q, d) \in Seq(Decisions)
  OBVIOUS
<1>3. \A q \in Seq(Decisions) : q # <<>> => Tail(q) \in Seq(Decisions) /\ Head(q) \in Decisions
  OBVIOUS
<1> QED
  BY <1>1, <1>2, <1>3

(* The values a process starts with are of the right types. *)
LEMMA BlankTyping ==
    /\ NoWrite \in Futures
    /\ NoRequest \in Acks
    /\ NoState \in StopStates
    /\ [r \in Requesters |-> NoResult] \in [Requesters -> Results]
<1>1. NoWrite \in Futures
  BY DEF NoWrite, Futures
<1>2. NoRequest \in Acks
  BY DEF NoRequest, Acks
<1>3. NoState \in StopStates
  BY <1>2 DEF NoState, StopStates
<1>4. NoResult \in Results
  BY DEF NoResult, Results
<1> QED
  BY <1>1, <1>2, <1>3, <1>4

(* Handing a decision to the worker keeps every variable in its type. *)
LEMMA SubmitTyping ==
    ASSUME TypeOK, NEW g \in Nat, NEW s \in BOOLEAN, Submit(g, s)
    PROVE  queue' \in Seq(Decisions) /\ write' \in Futures
<1>1. [generation |-> g, stopped |-> s] \in Decisions
  BY DEF Decisions
<1>2. queue \in Seq(Decisions)
  BY DEF TypeOK
<1>3. queue' \in Seq(Decisions)
  BY <1>1, <1>2, QueueTyping DEF Submit
<1>4. write' \in Futures
  BY DEF Submit, Futures
<1> QED
  BY <1>3, <1>4

(* request() keeps every variable in its type, whatever it decides. *)
LEMMA RequestTyping ==
    ASSUME TypeOK, NEW r, r.requester \in Requesters, r.id \in Nat, Request(r)
    PROVE  TypeOK'
<1>1. r.requester \in Requesters /\ r.id \in Nat
  OBVIOUS
<1>2. request_results[r.requester].accepted \in BOOLEAN
  BY <1>1 DEF TypeOK, Results
<1>3. ASSUME NEW ok \in BOOLEAN, Ack(r, ok) \/ AckUnstored(r, ok)
      PROVE  request_results' \in [Requesters -> Results] /\ last_request' \in Acks
  <2>1. [id |-> r.id, accepted |-> ok] \in Results
    BY <1>1 DEF Results
  <2>2. last_request' \in Acks
    BY <1>1, <1>3 DEF Ack, AckUnstored, Acks
  <2>3. request_results' \in [Requesters -> Results]
    BY <1>1, <1>3, <2>1 DEF Ack, AckUnstored, TypeOK
  <2> QED
    BY <2>2, <2>3
<1>4. UNCHANGED <<disk, alive, boot, neutral, state_pub>>
  BY DEF Request
<1>5. generation + 1 \in Nat
  BY DEF TypeOK
<1>6. CASE UNCHANGED <<latchVars, writeVars>> /\ \E ok \in BOOLEAN : Ack(r, ok) \/ AckUnstored(r, ok)
  BY <1>3, <1>4, <1>6 DEF TypeOK, latchVars, writeVars
<1>7. CASE AcceptStop(r)
  <2>1. queue' \in Seq(Decisions) /\ write' \in Futures
    BY <1>5, <1>7, SubmitTyping DEF AcceptStop
  <2>2. request_results' \in [Requesters -> Results] /\ last_request' \in Acks
    BY <1>3, <1>7 DEF AcceptStop
  <2> QED
    BY <1>4, <1>5, <1>7, <2>1, <2>2 DEF AcceptStop, TypeOK
<1>8. CASE AcceptClear(r)
  <2>1. queue' \in Seq(Decisions) /\ write' \in Futures
    BY <1>5, <1>8, SubmitTyping DEF AcceptClear
  <2>2. request_results' \in [Requesters -> Results] /\ last_request' \in Acks
    BY <1>3, <1>8 DEF AcceptClear
  <2>3. /\ generation' = generation + 1
        /\ durable' = FALSE
        /\ UNCHANGED <<stopped, locked, fault, clear_at, zero_seen>>
    BY <1>8 DEF AcceptClear
  <2> QED
    BY <1>4, <1>5, <2>1, <2>2, <2>3 DEF TypeOK
<1> QED
  BY <1>2, <1>6, <1>7, <1>8 DEF Request, RejectClear

(* tick() keeps every variable in its type, published or not. *)
LEMMA TickTyping ==
    ASSUME TypeOK, TickLatch, PublishState \/ state_pub' \in StopStates
    PROVE  TypeOK'
<1>1. generation + 1 \in Nat
  BY DEF TypeOK
<1>2. queue' \in Seq(Decisions) /\ write' \in Futures
  <2>1. CASE Submit(generation + 1, TRUE)
    BY <1>1, <2>1, SubmitTyping
  <2>2. CASE queue' = queue /\ write' \in {write, NoWrite}
    BY <2>2, BlankTyping DEF TypeOK
  <2> QED
    BY <2>1, <2>2 DEF TickLatch
<1>3. /\ generation' \in Nat /\ stopped' \in BOOLEAN /\ locked' \in BOOLEAN
      /\ durable' \in BOOLEAN /\ fault' \in BOOLEAN
      /\ clear_at' \in {"none", "draining", "due"}
  BY <1>1 DEF TickLatch, TypeOK
<1>4. UNCHANGED <<disk, alive, boot, zero_seen, neutral, request_results, last_request>>
  BY DEF TickLatch, ackVars
<1>5. state_pub' \in StopStates
  <2>1. ASSUME PublishState
        PROVE  state_pub' \in StopStates
    BY <1>3, <1>4, <2>1 DEF PublishState, StateMessage, TypeOK, StopStates
  <2> QED
    BY <2>1
<1> QED
  BY <1>2, <1>3, <1>4, <1>5 DEF TypeOK

(* persist() keeps every variable in its type. *)
LEMMA PersistTyping ==
    ASSUME TypeOK, NEW outcome \in PersistOutcomes, Persist(outcome)
    PROVE  TypeOK'
<1>1. queue \in Seq(Decisions) /\ queue # <<>>
  BY DEF TypeOK, Persist
<1>2. Tail(queue) \in Seq(Decisions) /\ Head(queue) \in Decisions
  BY <1>1, QueueTyping
<1>3. Head(queue).generation \in Nat /\ Head(queue).stopped \in BOOLEAN
  BY <1>2 DEF Decisions
<1>4. disk' \in Records
  BY <1>3 DEF Persist, TypeOK, Record, Records
<1>5. write' \in Futures
  BY DEF Persist, TypeOK, Futures
<1>6. queue' \in Seq(Decisions)
  BY <1>2 DEF Persist
<1> QED
  BY <1>4, <1>5, <1>6 DEF Persist, TypeOK, latchVars, ackVars

(* So do the subscriptions, the clock, a crash and a start. *)
LEMMA OtherTyping ==
    ASSUME StopConstants, TypeOK,
           \/ \E b \in BOOLEAN : OnSensors(b)
           \/ OnFinalZero \/ FinalZeroExpires \/ DrainElapses \/ Crash \/ Start
           \/ UNCHANGED stopVars
    PROVE  TypeOK'
<1>1. CASE \E b \in BOOLEAN : OnSensors(b)
  BY <1>1 DEF OnSensors, TypeOK, latchVars, writeVars, ackVars
<1>2. CASE OnFinalZero \/ FinalZeroExpires \/ DrainElapses
  BY <1>2 DEF OnFinalZero, FinalZeroExpires, DrainElapses, TypeOK, writeVars, ackVars
<1>3. CASE Crash
  BY <1>3, BlankTyping, QueueTyping DEF Crash, TypeOK
<1>4. CASE Start
  <2>1. Restored \in Records
    BY DEF Restored, TypeOK, Records
  <2>2. /\ generation' \in Nat /\ stopped' \in BOOLEAN /\ durable' \in BOOLEAN
        /\ fault' \in BOOLEAN /\ clear_at' \in {"none", "draining", "due"}
    BY <1>4, <2>1 DEF Start, Records
  <2>3. boot' \in Nat /\ alive' \in BOOLEAN
    BY <1>4 DEF Start, TypeOK
  <2>4. UNCHANGED <<disk, locked, zero_seen, queue, write, neutral, request_results,
                    last_request, state_pub>>
    BY <1>4 DEF Start, writeVars, ackVars
  <2> QED
    BY <2>2, <2>3, <2>4 DEF TypeOK
<1>5. CASE UNCHANGED stopVars
  BY <1>5 DEF stopVars, latchVars, writeVars, ackVars, TypeOK
<1> QED
  BY <1>1, <1>2, <1>3, <1>4, <1>5

(* The executor's variables always have their types. *)
THEOREM StopTypeCorrect == StopSpec => []TypeOK
<1>1. StopInit => TypeOK
  <2> SUFFICES ASSUME StopInit PROVE TypeOK
    OBVIOUS
  <2>1. disk \in Records
    <3>1. [known |-> FALSE, generation |-> 0, stopped |-> TRUE] \in Records
      BY DEF Records
    <3>2. Record(0, TRUE) \in Records /\ Record(0, FALSE) \in Records
      BY DEF Records, Record
    <3> QED
      BY <3>1, <3>2 DEF StopInit
  <2> QED
    BY <2>1, BlankTyping, QueueTyping DEF StopInit, TypeOK
<1>2. TypeOK /\ [StopNext]_stopVars => TypeOK'
  <2>1. \A r \in Requests : r.requester \in Requesters /\ r.id \in Nat
    BY StopConstants DEF Requests
  <2> QED
    BY <2>1, StopConstants, RequestTyping, TickTyping, PersistTyping, OtherTyping
       DEF StopNext, LocalStep, Tick
<1> QED
  BY <1>1, <1>2, PTL DEF StopSpec

-----------------------------------------------------------------------------
(* A decision with a new generation number keeps the queue in order. *)
LEMMA SubmitInv ==
    ASSUME TypeOK, QueueInv, NEW s \in BOOLEAN, Submit(generation + 1, s),
           generation' = generation + 1, durable' = FALSE, disk' = disk
    PROVE  QueueInv' /\ FutureInv'
<1>1. queue \in Seq(Decisions) /\ generation \in Nat /\ disk.generation \in Nat
  BY DEF TypeOK, Records
<1>2. [generation |-> generation + 1, stopped |-> s] \in Decisions
  BY <1>1 DEF Decisions
<1>3. /\ Len(queue') = Len(queue) + 1
      /\ queue'[Len(queue')] = [generation |-> generation + 1, stopped |-> s]
      /\ \A i \in 1 .. Len(queue) : queue'[i] = queue[i]
      /\ queue' # <<>>
  BY <1>1, <1>2 DEF Submit
<1>4. Len(queue) \in Nat
  BY <1>1
<1>5. \A i \in 1 .. Len(queue) : queue[i] \in Decisions
  BY <1>1
<1>6. /\ write'.status = "pending" /\ write'.generation = generation + 1
      /\ write'.stopped = s
  BY DEF Submit
<1>7. \A i \in 1 .. Len(queue') : /\ disk'.generation < queue'[i].generation
                                 /\ queue'[i].generation <= generation'
  BY <1>1, <1>3, <1>4, <1>5 DEF QueueInv, Decisions
<1>8. \A i, j \in 1 .. Len(queue') : i < j => queue'[i].generation < queue'[j].generation
  <2> SUFFICES ASSUME NEW i \in 1 .. Len(queue'), NEW j \in 1 .. Len(queue'), i < j
               PROVE  queue'[i].generation < queue'[j].generation
    OBVIOUS
  <2>1. i \in 1 .. Len(queue) /\ queue'[i] = queue[i]
    BY <1>3, <1>4
  <2>2. CASE j = Len(queue')
    BY <1>1, <1>3, <1>5, <2>1, <2>2 DEF QueueInv, Decisions
  <2>3. CASE j # Len(queue')
    <3>1. j \in 1 .. Len(queue) /\ queue'[j] = queue[j]
      BY <1>3, <1>4, <2>3
    <3> QED
      BY <2>1, <3>1 DEF QueueInv
  <2> QED
    BY <2>2, <2>3
<1>9. QueueInv'
  BY <1>1, <1>3, <1>6, <1>7, <1>8 DEF QueueInv
<1>10. FutureInv'
  BY <1>6 DEF FutureInv
<1> QED
  BY <1>9, <1>10

(* The last write of a queue is the only one whose future is still held. *)
LEMMA PersistInv ==
    ASSUME TypeOK, MemoryInv, NEW outcome \in PersistOutcomes, Persist(outcome)
    PROVE  QueueInv' /\ FutureInv' /\ LatchInv'
<1>1. queue \in Seq(Decisions) /\ queue # <<>> /\ Len(queue) \in Nat \ {0}
  BY DEF TypeOK, Persist
<1>2. /\ Head(queue) = queue[1]
      /\ Len(Tail(queue)) = Len(queue) - 1
      /\ \A i \in 1 .. Len(Tail(queue)) : Tail(queue)[i] = queue[i + 1]
      /\ Len(queue) = 1 => Tail(queue) = <<>>
      /\ Len(queue) > 1 => Tail(queue) # <<>>
  <2>1. Tail(queue) \in Seq(Decisions) /\ Len(Tail(queue)) = Len(queue) - 1
    BY <1>1
  <2>2. \A i \in 1 .. Len(Tail(queue)) : Tail(queue)[i] = queue[i + 1]
    BY <1>1, <2>1, HeadTailProperties
  <2>3. Len(queue) = 1 => Tail(queue) = <<>>
    <3> SUFFICES ASSUME Len(queue) = 1 PROVE Tail(queue) = <<>>
      OBVIOUS
    <3>1. Len(Tail(queue)) = 0
      BY <2>1
    <3> QED
      BY <2>1, <3>1, EmptySeq
  <2>4. Len(queue) > 1 => Tail(queue) # <<>>
    <3> SUFFICES ASSUME Len(queue) > 1 PROVE Tail(queue) # <<>>
      OBVIOUS
    <3>1. Len(Tail(queue)) # 0
      BY <1>1, <2>1
    <3>2. Len(<<>>) = 0
      BY EmptySeq
    <3> QED
      BY <3>1, <3>2
  <2> QED
    BY <1>1, <2>1, <2>2, <2>3, <2>4
<1>3. /\ \A i \in 1 .. Len(queue) : queue[i] \in Decisions
      /\ Len(queue) = 1 \/ Len(queue) > 1
  <2>1. \A n \in Nat \ {0} : n = 1 \/ n > 1
    OBVIOUS
  <2>2. \A i \in 1 .. Len(queue) : queue[i] \in Decisions
    BY <1>1
  <2> QED
    BY <1>1, <2>1, <2>2
<1>4. QueueInv /\ FutureInv /\ LatchInv
  BY DEF MemoryInv, Persist
<1>5. disk' \in {disk, Record(queue[1].generation, queue[1].stopped)}
  BY <1>2 DEF Persist
<1>6. UNCHANGED <<generation, stopped, locked, durable, fault, clear_at>>
  BY DEF Persist, latchVars
<1>7. write.status = "pending" /\ ~durable
  BY <1>1, <1>4 DEF QueueInv, FutureInv
<1>8. /\ disk'.generation <= queue[1].generation
      /\ disk'.generation <= generation
      /\ disk'.generation \in Nat
  BY <1>1, <1>3, <1>4, <1>5 DEF QueueInv, Record, Decisions, TypeOK, Records
<1>9. QueueInv'
  <2>1. CASE Len(queue) = 1
    BY <1>2, <1>6, <1>8, <2>1 DEF Persist, QueueInv, PersistOutcomes
  <2>2. CASE Len(queue) > 1
    <3>1. write' = write /\ queue' = Tail(queue)
      BY <2>2 DEF Persist
    <3>2. \A i \in 1 .. Len(queue') : /\ disk'.generation < queue'[i].generation
                                     /\ queue'[i].generation <= generation'
      <4> SUFFICES ASSUME NEW i \in 1 .. Len(queue')
                   PROVE  /\ disk'.generation < queue'[i].generation
                          /\ queue'[i].generation <= generation'
        OBVIOUS
      <4>1. i + 1 \in 1 .. Len(queue) /\ 1 < i + 1 /\ 1 \in 1 .. Len(queue)
        BY <1>1, <1>2, <3>1
      <4>2. queue'[i] = queue[i + 1]
        BY <1>2, <3>1
      <4>3. /\ queue[1].generation < queue[i + 1].generation
            /\ queue[i + 1].generation <= generation
        BY <1>4, <4>1 DEF QueueInv
      <4>4. queue[1].generation \in Nat /\ queue[i + 1].generation \in Nat
        BY <1>3, <4>1 DEF Decisions
      <4> QED
        BY <1>6, <1>8, <4>2, <4>3, <4>4 DEF Persist
    <3>3. \A i, j \in 1 .. Len(queue') : i < j => queue'[i].generation < queue'[j].generation
      BY <1>1, <1>2, <1>3, <1>4, <3>1 DEF QueueInv, Decisions
    <3>4. queue' # <<>> /\ queue'[Len(queue')] = queue[Len(queue)]
      BY <1>1, <1>2, <2>2, <3>1
    <3> QED
      BY <1>1, <1>4, <1>6, <1>8, <3>1, <3>2, <3>3, <3>4 DEF QueueInv
  <2> QED
    BY <1>3, <2>1, <2>2
<1>10. FutureInv'
  <2>1. CASE Len(queue) = 1
    <3>1. queue[1].generation = generation /\ queue[1].stopped = write.stopped
      BY <1>1, <1>4, <1>7, <2>1 DEF QueueInv, FutureInv
    <3>2. /\ write'.generation = generation' /\ write'.stopped = write.stopped
          /\ write'.status = "ok" => outcome = "ok"
      BY <1>4, <1>6, <1>7, <2>1 DEF Persist, FutureInv, TypeOK, Futures
    <3>3. write'.status = "ok" => disk' = Record(generation', write'.stopped)
      BY <1>2, <1>6, <3>1, <3>2 DEF Persist
    <3> QED
      BY <1>6, <1>7, <3>2, <3>3 DEF FutureInv
  <2>2. CASE Len(queue) > 1
    BY <1>4, <1>6, <1>7, <2>2 DEF Persist, FutureInv
  <2> QED
    BY <1>3, <2>1, <2>2
<1>11. LatchInv'
  <2>1. clear_at = "none"
    BY <1>4, <1>7 DEF LatchInv
  <2>2. ~stopped => /\ disk'.known /\ ~disk'.stopped /\ ~fault
                    /\ \A i \in 1 .. Len(queue') : ~queue'[i].stopped
    BY <1>1, <1>2, <1>4, <1>5 DEF LatchInv, Persist, Record
  <2> QED
    BY <1>4, <1>6, <1>7, <2>1, <2>2 DEF LatchInv
<1> QED
  BY <1>9, <1>10, <1>11

(* request() keeps the latch, the queue and the record in agreement. *)
LEMMA RequestInv ==
    ASSUME TypeOK, MemoryInv, NEW r, Request(r)
    PROVE  QueueInv' /\ FutureInv' /\ LatchInv'
<1>1. QueueInv /\ FutureInv /\ LatchInv
  BY DEF MemoryInv, Request
<1>2. disk' = disk
  BY DEF Request
<1>3. CASE UNCHANGED <<latchVars, writeVars>>
  BY <1>1, <1>2, <1>3 DEF QueueInv, FutureInv, LatchInv, latchVars, writeVars
<1>4. CASE AcceptStop(r)
  <2>1. QueueInv' /\ FutureInv'
    BY <1>1, <1>2, <1>4, SubmitInv DEF AcceptStop
  <2>2. LatchInv'
    BY <1>4 DEF AcceptStop, LatchInv
  <2> QED
    BY <2>1, <2>2
<1>5. CASE AcceptClear(r)
  <2>1. QueueInv' /\ FutureInv'
    BY <1>1, <1>2, <1>5, SubmitInv DEF AcceptClear
  <2>2. queue \in Seq(Decisions)
    BY DEF TypeOK
  <2>3. ~stopped => \A i \in 1 .. Len(queue') : ~queue'[i].stopped
    BY <1>1, <1>5, <2>2 DEF AcceptClear, Submit, LatchInv
  <2>4. LatchInv'
    BY <1>1, <1>2, <1>5, <2>3 DEF AcceptClear, LatchInv
  <2> QED
    BY <2>1, <2>4
<1> QED
  BY <1>3, <1>4, <1>5 DEF Request, RejectClear

(* So does tick(), for each state of the write it may harvest. *)
LEMMA TickInv ==
    ASSUME TypeOK, MemoryInv, TickLatch
    PROVE  QueueInv' /\ FutureInv' /\ LatchInv'
<1>1. QueueInv /\ FutureInv /\ LatchInv
  BY DEF MemoryInv, TickLatch
<1>2. disk' = disk
  BY DEF TickLatch
<1>3. write.status \in {"none", "pending", "ok", "failed"} /\ queue \in Seq(Decisions)
  BY DEF TypeOK, Futures
<1>4. CASE /\ Submit(generation + 1, TRUE)
           /\ generation' = generation + 1
           /\ stopped' = TRUE /\ locked' = TRUE /\ durable' = FALSE /\ clear_at' = "none"
  <2>1. QueueInv' /\ FutureInv'
    BY <1>1, <1>2, <1>4, SubmitInv
  <2>2. LatchInv'
    BY <1>4 DEF LatchInv
  <2> QED
    BY <2>1, <2>2
<1>5. CASE /\ write.status \in {"none", "pending"}
           /\ UNCHANGED <<generation, durable, fault, queue, write>>
           /\ \/ UNCHANGED <<stopped, locked, clear_at>>
              \/ /\ clear_at = "due"
                 /\ stopped' = FALSE /\ locked' = FALSE /\ clear_at' = "none"
  <2>1. QueueInv' /\ FutureInv'
    BY <1>1, <1>2, <1>5 DEF QueueInv, FutureInv
  <2>2. CASE UNCHANGED <<stopped, locked, clear_at>>
    BY <1>1, <1>2, <1>5, <2>1, <2>2 DEF LatchInv
  <2>3. CASE clear_at = "due" /\ stopped' = FALSE /\ locked' = FALSE /\ clear_at' = "none"
    <3>1. durable /\ ~disk.stopped /\ disk.known /\ ~fault /\ disk.generation = generation
      BY <1>1, <2>3 DEF LatchInv
    <3>2. queue = <<>>
      BY <1>1, <3>1 DEF QueueInv, FutureInv
    <3> QED
      BY <1>2, <1>5, <2>1, <2>3, <3>1, <3>2 DEF LatchInv
  <2> QED
    BY <1>5, <2>1, <2>2, <2>3
<1>6. CASE /\ write.status = "failed"
           /\ UNCHANGED <<generation, durable, clear_at, queue>>
           /\ stopped' = TRUE /\ locked' = TRUE /\ fault' = TRUE /\ write' = NoWrite
  <2>1. ~durable /\ queue = <<>>
    BY <1>1, <1>6 DEF FutureInv, QueueInv
  <2>2. QueueInv'
    BY <1>1, <1>2, <1>6, <2>1 DEF QueueInv, NoWrite
  <2>3. FutureInv' /\ LatchInv'
    BY <1>1, <1>2, <1>6, <2>1 DEF FutureInv, LatchInv, NoWrite
  <2> QED
    BY <2>2, <2>3
<1>7. CASE /\ write.status = "ok"
           /\ UNCHANGED <<generation, stopped, locked, queue>>
           /\ durable' = TRUE /\ fault' = FALSE /\ write' = NoWrite
           /\ clear_at' = IF write.stopped THEN clear_at ELSE "draining"
  <2>1. /\ ~durable /\ queue = <<>> /\ clear_at = "none"
        /\ disk = Record(generation, write.stopped)
    BY <1>1, <1>7 DEF FutureInv, QueueInv, LatchInv
  <2>2. QueueInv'
    BY <1>1, <1>2, <1>7, <2>1 DEF QueueInv, NoWrite
  <2>3. FutureInv'
    BY <1>7 DEF FutureInv, NoWrite
  <2>4. disk.known /\ disk.generation = generation /\ disk.stopped = write.stopped
    BY <2>1 DEF Record
  <2>5. LatchInv'
    BY <1>1, <1>2, <1>7, <2>1, <2>4 DEF LatchInv
  <2> QED
    BY <2>2, <2>3, <2>5
<1>8. write.status = "ok" => write.generation = generation /\ clear_at = "none" /\ ~durable
  BY <1>1 DEF FutureInv, LatchInv
<1>9. write.status = "failed" => clear_at = "none" /\ ~durable
  BY <1>1 DEF FutureInv, LatchInv
<1> QED
  BY <1>3, <1>4, <1>5, <1>6, <1>7, <1>8, <1>9 DEF TickLatch, TypeOK

(* A new process agrees with the record it reads. *)
LEMMA StartInv ==
    ASSUME TypeOK, MemoryInv, Start
    PROVE  QueueInv' /\ FutureInv' /\ LatchInv'
<1>1. queue' = <<>> /\ write' = NoWrite /\ disk' = disk /\ locked'
  BY DEF Start, writeVars, MemoryInv, BetweenLives
<1>2. disk.generation \in Nat /\ disk.known \in BOOLEAN /\ disk.stopped \in BOOLEAN
  BY DEF TypeOK, Records
<1>3. disk.known => /\ generation' = disk.generation /\ stopped' = disk.stopped
                    /\ ~fault' /\ durable'
                    /\ clear_at' = IF disk.stopped THEN "none" ELSE "draining"
  BY <1>2 DEF Start, Restored
<1>4. ~disk.known => /\ generation' = 0 /\ stopped' /\ fault' /\ ~durable' /\ clear_at' = "none"
                     /\ disk.generation = 0
  BY DEF Start, Restored, MemoryInv, BetweenLives
<1>5. QueueInv'
  BY <1>1, <1>2, <1>3, <1>4 DEF QueueInv, NoWrite
<1>6. FutureInv'
  BY <1>1 DEF FutureInv, NoWrite
<1>7. LatchInv'
  BY <1>1, <1>2, <1>3, <1>4 DEF LatchInv
<1> QED
  BY <1>5, <1>6, <1>7

(* The sensors and the clock touch nothing the record is compared with. *)
LEMMA QuietInv ==
    ASSUME QueueInv, FutureInv, LatchInv,
           UNCHANGED <<disk, generation, stopped, locked, durable, fault, queue, write>>,
           (clear_at # "none") <=> (clear_at' # "none")
    PROVE  QueueInv' /\ FutureInv' /\ LatchInv'
<1>1. QueueInv' /\ FutureInv'
  BY DEF QueueInv, FutureInv
<1>2. LatchInv'
  BY DEF LatchInv
<1> QED
  BY <1>1, <1>2

(* The record only moves forward, and only persist() moves it. *)
LEMMA RecordStep ==
    ASSUME TypeOK, MemoryInv, [StopNext]_stopVars
    PROVE  disk' = disk \/ (disk'.known /\ disk'.generation > disk.generation)
<1>1. ASSUME NEW outcome \in PersistOutcomes, Persist(outcome)
      PROVE  disk' = disk \/ (disk'.known /\ disk'.generation > disk.generation)
  <2>1. queue \in Seq(Decisions) /\ queue # <<>>
    BY <1>1 DEF TypeOK, Persist
  <2>2. Head(queue) = queue[1] /\ 1 \in 1 .. Len(queue) /\ queue[1] \in Decisions
    BY <2>1
  <2>3. disk.generation < queue[1].generation
    BY <1>1, <2>2 DEF MemoryInv, QueueInv, Persist
  <2>4. disk.generation \in Nat /\ queue[1].generation \in Nat
    BY <2>2 DEF TypeOK, Records, Decisions
  <2> QED
    BY <1>1, <2>2, <2>3, <2>4 DEF Persist, Record
<1> QED
  BY <1>1 DEF StopNext, LocalStep, Request, Tick, TickLatch, OnSensors, OnFinalZero,
     FinalZeroExpires, DrainElapses, Crash, Start, stopVars

(* Every step keeps memory and record in agreement while the process runs. *)
LEMMA MemoryStep ==
    ASSUME TypeOK, MemoryInv, [StopNext]_stopVars, alive'
    PROVE  QueueInv' /\ FutureInv' /\ LatchInv'
<1>1. alive => QueueInv /\ FutureInv /\ LatchInv
  BY DEF MemoryInv
<1>2. CASE \E r \in Requests : Request(r)
  BY <1>2, RequestInv
<1>3. CASE Tick
  BY <1>3, TickInv DEF Tick
<1>4. CASE \E outcome \in PersistOutcomes : Persist(outcome)
  BY <1>4, PersistInv
<1>5. CASE Start
  BY <1>5, StartInv
<1>6. CASE (\E b \in BOOLEAN : OnSensors(b)) \/ OnFinalZero \/ FinalZeroExpires \/ DrainElapses
  BY <1>1, <1>6, QuietInv DEF OnSensors, OnFinalZero, FinalZeroExpires, DrainElapses,
     latchVars, writeVars
<1>7. CASE UNCHANGED stopVars
  BY <1>1, <1>7, QuietInv DEF stopVars, latchVars, writeVars
<1>8. CASE Crash
  BY <1>8 DEF Crash
<1> QED
  BY <1>2, <1>3, <1>4, <1>5, <1>6, <1>7, <1>8 DEF StopNext, LocalStep

(* A record that was never read has generation 0, and a dead process holds *)
(* nothing: no step changes that.                                          *)
LEMMA BetweenLivesStep ==
    ASSUME TypeOK, MemoryInv, [StopNext]_stopVars
    PROVE  BetweenLives'
<1>1. BetweenLives
  BY DEF MemoryInv
<1>2. ~disk'.known => disk'.generation = 0
  BY <1>1, RecordStep DEF BetweenLives
<1>3. ~alive' => locked' /\ queue' = <<>> /\ write' = NoWrite
  <2>1. CASE Crash
    BY <2>1 DEF Crash
  <2>2. CASE UNCHANGED stopVars
    BY <1>1, <2>2 DEF BetweenLives, stopVars, latchVars, writeVars
  <2>3. CASE \E r \in Requests : Request(r)
    BY <2>3 DEF Request
  <2>4. CASE Tick
    BY <2>4 DEF Tick, TickLatch
  <2>5. CASE \E outcome \in PersistOutcomes : Persist(outcome)
    BY <2>5 DEF Persist
  <2>6. CASE \E b \in BOOLEAN : OnSensors(b)
    BY <2>6 DEF OnSensors
  <2>7. CASE OnFinalZero \/ FinalZeroExpires \/ DrainElapses \/ Start
    BY <2>7 DEF OnFinalZero, FinalZeroExpires, DrainElapses, Start
  <2> QED
    BY <2>1, <2>2, <2>3, <2>4, <2>5, <2>6, <2>7 DEF StopNext, LocalStep
<1> QED
  BY <1>2, <1>3 DEF BetweenLives

(* What has been published stays true of the record. *)
LEMMA PublishedStep ==
    ASSUME TypeOK, TypeOK', MemoryInv, PublishedInv, [StopNext]_stopVars
    PROVE  PublishedInv'
<1>2. CASE Tick
  <2>1. /\ state_pub'.boot = boot' /\ state_pub'.generation = generation'
        /\ state_pub'.clear_pending = (clear_at' # "none")
        /\ state_pub'.applied => stopped' /\ durable'
    BY <1>2 DEF Tick, TickLatch, PublishState, StateMessage
  <2>2. LatchInv'
    BY <1>2, TickInv DEF Tick
  <2>3. AppliedIsDurable'
    BY <2>1, <2>2 DEF AppliedIsDurable, LatchInv, TypeOK, Records
  <2> QED
    BY <2>1, <2>3 DEF PublishedInv, TypeOK
<1>3. CASE ~Tick
  <2>1. state_pub' = state_pub
    BY <1>3 DEF StopNext, LocalStep, Request, OnSensors, OnFinalZero, FinalZeroExpires,
       DrainElapses, Persist, Crash, Start, stopVars
  <2>2. AppliedIsDurable'
    BY <2>1, RecordStep DEF PublishedInv, AppliedIsDurable, TypeOK, Records, StopStates
  <2>3. CASE Start
    BY <2>1, <2>2, <2>3 DEF Start, PublishedInv, TypeOK, Records, StopStates, Restored
  <2>4. CASE Crash
    BY <2>1, <2>2, <2>4 DEF Crash, PublishedInv
  <2>5. CASE \E r \in Requests : Request(r)
    <3>1. /\ boot' = boot
          /\ \/ UNCHANGED <<generation, alive, stopped, clear_at>>
             \/ clear_at' = "none"
      BY <2>5 DEF Request, AcceptStop, AcceptClear, RejectClear, latchVars
    <3> QED
      BY <2>1, <2>2, <3>1 DEF PublishedInv
  <2>6. CASE \/ \E outcome \in PersistOutcomes : Persist(outcome)
             \/ \E b \in BOOLEAN : OnSensors(b)
             \/ UNCHANGED stopVars
    BY <2>1, <2>2, <2>6 DEF Persist, OnSensors, stopVars, latchVars, PublishedInv
  <2>7. CASE OnFinalZero \/ FinalZeroExpires \/ DrainElapses
    BY <2>1, <2>2, <2>7 DEF OnFinalZero, FinalZeroExpires, DrainElapses, PublishedInv
  <2> QED
    BY <1>3, <2>3, <2>4, <2>5, <2>6, <2>7 DEF StopNext, LocalStep
<1> QED
  BY <1>2, <1>3

(***************************************************************************)
(* StopIInv is an inductive invariant of the executor.                     *)
(***************************************************************************)
THEOREM StopInductive == StopSpec => []StopIInv
<1>1. StopInit => StopIInv
  BY DEF StopInit, StopIInv, MemoryInv, BetweenLives, PublishedInv, AppliedIsDurable,
     NoState, Record
<1>2. TypeOK /\ TypeOK' /\ StopIInv /\ [StopNext]_stopVars => StopIInv'
  <2>1. TypeOK /\ MemoryInv /\ [StopNext]_stopVars => MemoryInv'
    BY MemoryStep, BetweenLivesStep DEF MemoryInv
  <2> QED
    BY <2>1, PublishedStep DEF StopIInv
<1> QED
  BY <1>1, <1>2, StopTypeCorrect, PTL DEF StopSpec

(* The mux is unlocked only on a persisted clear with no STOP on its way. *)
THEOREM StopUnlockSafe == StopSpec => []UnlockedIsPersistedClear
<1>1. StopIInv => UnlockedIsPersistedClear
  BY DEF StopIInv, MemoryInv, LatchInv, UnlockedIsPersistedClear
<1> QED
  BY <1>1, StopInductive, PTL

(* What tick() publishes as applied survives every crash. *)
THEOREM StopAppliedDurable == StopSpec => []AppliedIsDurable
<1>1. StopIInv => AppliedIsDurable
  BY DEF StopIInv, PublishedInv
<1> QED
  BY <1>1, StopInductive, PTL

(* Records reach the disk in the order of their generations. *)
THEOREM StopRecordsAdvance == StopSpec => RecordsAdvance
<1>1. TypeOK /\ StopIInv /\ [StopNext]_stopVars =>
        [disk' # disk => disk'.known /\ disk'.generation > disk.generation]_stopVars
  BY RecordStep DEF StopIInv
<1> QED
  BY <1>1, StopInductive, StopTypeCorrect, PTL DEF StopSpec, RecordsAdvance

(* tick() releases a latched STOP only after announcing the pending clear. *)
THEOREM StopReleaseAnnounced == StopSpec => ReleaseWasAnnounced
<1>1. TypeOK /\ StopIInv /\ [StopNext]_stopVars =>
        [alive /\ stopped /\ ~locked' =>
            /\ state_pub.clear_pending
            /\ state_pub.boot = boot
            /\ state_pub.generation = generation]_stopVars
  <2> SUFFICES ASSUME TypeOK, StopIInv, StopNext, alive, stopped, ~locked'
               PROVE  /\ state_pub.clear_pending
                      /\ state_pub.boot = boot
                      /\ state_pub.generation = generation
    OBVIOUS
  <2>1. locked
    BY DEF StopIInv, MemoryInv, LatchInv, TypeOK
  <2>2. TickLatch
    BY <2>1 DEF StopNext, LocalStep, Request, AcceptStop, AcceptClear, RejectClear, Tick,
       OnSensors, OnFinalZero, FinalZeroExpires, DrainElapses, Persist, Crash, Start, latchVars
  <2>3. write.status = "ok" => clear_at = "none"
    BY DEF StopIInv, MemoryInv, FutureInv, LatchInv
  <2>4. clear_at # "none"
    BY <2>1, <2>2, <2>3 DEF TickLatch, TypeOK
  <2> QED
    BY <2>4 DEF StopIInv, PublishedInv
<1> QED
  BY <1>1, StopInductive, StopTypeCorrect, PTL DEF StopSpec, ReleaseWasAnnounced

=============================================================================
