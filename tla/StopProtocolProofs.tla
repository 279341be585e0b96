------------------------- MODULE StopProtocolProofs -------------------------
(***************************************************************************)
(* Proofs about the STOP handshake: a confirmed STOP holds and a pending   *)
(* STOP is never rejected, for any number of authority and executor        *)
(* processes, requests and messages in flight.  The executor's part rests  *)
(* on the lemmas of StopEnforcerProofs.                                    *)
(***************************************************************************)
EXTENDS StopProtocol, StopEnforcerProofs

-----------------------------------------------------------------------------
(* The inductive invariant. *)

(* Every request an authority process can have sent. *)
StopRequests == [requester : Requesters, id : Nat \ {0}, stopped : BOOLEAN,
                 boot : Nat, generation : Nat]
Targets == [boot : Nat, generation : Nat]

ProtocolTypeOK ==
    /\ TypeOK
    /\ auth_alive \in BOOLEAN
    /\ requester_id \in Nat
    /\ auth_alive => requester_id \in Requesters
    /\ stop_request_id \in Nat
    /\ pending \in StopRequests \cup {NoPending}
    /\ clear_target \in Targets
    /\ requests \subseteq StopRequests
    /\ confirmed \in BOOLEAN

(* Has requester q sent a request with id i? *)
Sent(q, i) ==
    /\ q \in 1 .. requester_id
    /\ auth_alive /\ q = requester_id => i <= stop_request_id

(* The pending request is the newest one of the live process, and no other *)
(* request in flight bears its number.                                     *)
RequestsAreNumbered ==
    /\ ~auth_alive => pending = NoPending /\ stop_request_id = 0 /\ clear_target = NoTarget
    /\ pending # NoPending => /\ pending.requester = requester_id
                              /\ pending.id = stop_request_id
                              /\ pending.stopped => pending.boot = 0
    /\ \A r \in requests : /\ Sent(r.requester, r.id)
                           /\ r.requester = pending.requester /\ r.id = pending.id
                                => r = pending

(* The executor has decided, acknowledged and published only requests that *)
(* were sent, and of each requester nothing newer than its latest decision.*)
DecisionsAreOfRequests ==
    /\ \A q \in Requesters : request_results[q].id # 0 => Sent(q, request_results[q].id)
    /\ last_request.requester # 0 =>
          /\ Sent(last_request.requester, last_request.id)
          /\ last_request.id <= request_results[last_request.requester].id
    /\ state_pub.request.requester # 0 =>
          Sent(state_pub.request.requester, state_pub.request.id)
    /\ ~alive => \A q \in Requesters : request_results[q] = NoResult

(* Wherever the decision of a pending STOP is recorded, it is accepted. *)
PendingStopIsAccepted ==
    pending # NoPending /\ pending.stopped =>
       /\ request_results[pending.requester].id = pending.id =>
             request_results[pending.requester].accepted
       /\ last_request.requester = pending.requester /\ last_request.id = pending.id =>
             last_request.accepted
       /\ Acknowledges(state_pub) => state_pub.request.accepted

(* Is m bound to a boot of the executor, and to a generation it has reached? *)
Bound(m) == m.boot \in 1 .. boot /\ (alive /\ m.boot = boot => m.generation <= generation)

ClearsAreBound ==
    /\ alive => boot >= 1
    /\ state_pub # NoState => Bound(state_pub)
    /\ clear_target # NoTarget => Bound(clear_target)
    /\ ~pending.stopped => Bound(pending)
    /\ \A r \in requests : ~r.stopped => Bound(r)

(* A latched STOP that no write under way and no clear in flight can undo. *)
Held ==
    /\ stopped /\ locked /\ clear_at = "none"
    /\ write.status # "none" => write.stopped
    /\ \A r \in requests : ~r.stopped /\ r.boot = boot => r.generation < generation

(* The process decided the pending STOP: it holds the latch. *)
Decided ==
    /\ alive
    /\ pending # NoPending /\ pending.stopped
    /\ request_results[pending.requester].id = pending.id

(* The STOP is confirmed, or the message that will confirm it is on its way. *)
Promised ==
    \/ confirmed
    \/ pending.stopped /\ Acknowledges(state_pub) /\ state_pub.applied

DecidedIsHeld == Decided => Held

PromiseIsKept ==
    /\ confirmed => pending.stopped
    /\ Promised => /\ disk.known /\ disk.stopped
                   /\ alive => Held /\ \A i \in 1 .. Len(queue) : queue[i].stopped

ProtocolIInv ==
    /\ ProtocolTypeOK
    /\ MemoryInv
    /\ RequestsAreNumbered
    /\ DecisionsAreOfRequests
    /\ PendingStopIsAccepted
    /\ ClearsAreBound
    /\ DecidedIsHeld
    /\ PromiseIsKept

-----------------------------------------------------------------------------
(* The types of the fields the steps compare. *)
LEMMA ProtocolFields ==
    ASSUME ProtocolTypeOK
    PROVE  /\ \A q \in Requesters : /\ q \in Nat \ {0}
                                    /\ request_results[q].id \in Nat
           /\ last_request.requester \in Requesters \cup {0} /\ last_request.id \in Nat
           /\ state_pub.request.requester \in Requesters \cup {0}
           /\ state_pub.request.id \in Nat
           /\ boot \in Nat /\ generation \in Nat
           /\ state_pub.boot \in Nat /\ state_pub.generation \in Nat
           /\ clear_target.boot \in Nat /\ clear_target.generation \in Nat
           /\ pending # NoPending => /\ pending.requester \in Requesters
                                     /\ pending.id \in Nat \ {0}
           /\ pending.stopped \in BOOLEAN
           /\ \A r \in requests : /\ r.requester \in Requesters
                                  /\ r.id \in Nat \ {0}
                                  /\ r.boot \in Nat /\ r.generation \in Nat
                                  /\ r.stopped \in BOOLEAN
<1>1. \A q \in Requesters : q \in Nat \ {0} /\ request_results[q].id \in Nat
  BY StopConstants DEF ProtocolTypeOK, TypeOK, Results
<1>2. last_request.requester \in Requesters \cup {0} /\ last_request.id \in Nat
  BY DEF ProtocolTypeOK, TypeOK, Acks
<1>3. state_pub.request \in Acks /\ state_pub.boot \in Nat /\ state_pub.generation \in Nat
  BY DEF ProtocolTypeOK, TypeOK, StopStates
<1>4. state_pub.request.requester \in Requesters \cup {0} /\ state_pub.request.id \in Nat
  BY <1>3 DEF Acks
<1>5. boot \in Nat /\ generation \in Nat
  BY DEF ProtocolTypeOK, TypeOK
<1>6. clear_target.boot \in Nat /\ clear_target.generation \in Nat
  BY DEF ProtocolTypeOK, Targets
<1>7. pending # NoPending => pending.requester \in Requesters /\ pending.id \in Nat \ {0}
  BY DEF ProtocolTypeOK, StopRequests
<1>8. pending.stopped \in BOOLEAN
  <2>1. CASE pending = NoPending
    BY <2>1 DEF NoPending
  <2>2. CASE pending \in StopRequests
    BY <2>2 DEF StopRequests
  <2> QED
    BY <2>1, <2>2 DEF ProtocolTypeOK
<1>9. \A r \in requests : /\ r.requester \in Requesters /\ r.id \in Nat \ {0}
                          /\ r.boot \in Nat /\ r.generation \in Nat /\ r.stopped \in BOOLEAN
  BY DEF ProtocolTypeOK, StopRequests
<1> QED
  BY <1>1, <1>2, <1>3, <1>4, <1>5, <1>6, <1>7, <1>8, <1>9

(* No pending request has the requester of NoPending. *)
LEMMA NoPendingFields ==
    NoPending.requester = 0 /\ NoPending.stopped /\ NoState.request.requester = 0
BY DEF NoPending, NoState, NoRequest

(* The transport invents nothing. *)
LEMMA PublishAdds ==
    ASSUME NEW r, Publish(r)
    PROVE  requests' \subseteq requests \cup {r}
BY DEF Publish

(* What the authority does leaves memory and record as they are. *)
LEMMA MemoryKept ==
    ASSUME MemoryInv, UNCHANGED <<disk, alive, latchVars, writeVars>>
    PROVE  MemoryInv'
BY DEF MemoryInv, QueueInv, FutureInv, LatchInv, BetweenLives, latchVars, writeVars

(* A request that was sent stays sent, in every step of either side. *)
LEMMA SentStays ==
    ASSUME ProtocolTypeOK,
           \/ /\ UNCHANGED <<auth_alive, requester_id>>
              /\ stop_request_id' \in {stop_request_id, stop_request_id + 1}
           \/ ~auth_alive' /\ requester_id' = requester_id
           \/ requester_id' = requester_id + 1
    PROVE  \A q, i \in Nat : Sent(q, i) => Sent(q, i)'
<1>1. requester_id \in Nat /\ stop_request_id \in Nat
  BY DEF ProtocolTypeOK
<1> QED
  BY <1>1 DEF Sent

(* The executor's decisions stay decisions of sent requests. *)
LEMMA DecisionsKept ==
    ASSUME ProtocolTypeOK, DecisionsAreOfRequests,
           \A q, i \in Nat : Sent(q, i) => Sent(q, i)',
           UNCHANGED <<alive, request_results, last_request>>,
           state_pub' \in {state_pub, NoState}
    PROVE  DecisionsAreOfRequests'
<1>1. \A q \in Requesters : request_results'[q].id # 0 => Sent(q, request_results[q].id)'
  BY ProtocolFields DEF DecisionsAreOfRequests, Sent
<1>2. last_request'.requester # 0 =>
          /\ Sent(last_request.requester, last_request.id)'
          /\ last_request'.id <= request_results'[last_request'.requester].id
  BY ProtocolFields DEF DecisionsAreOfRequests, Sent
<1>3. state_pub'.request.requester # 0 =>
          Sent(state_pub.request.requester, state_pub.request.id)'
  BY ProtocolFields, NoPendingFields DEF DecisionsAreOfRequests, Sent
<1> QED
  BY <1>1, <1>2, <1>3 DEF DecisionsAreOfRequests

(* A latch that is held stays held when the executor's memory does not     *)
(* change and no clear for its boot and generation appears.                *)
LEMMA HeldKept ==
    ASSUME Held, UNCHANGED <<stopped, locked, clear_at, write, boot, generation>>,
           \A r \in requests' : r \in requests \/ r.stopped
    PROVE  Held'
BY DEF Held

-----------------------------------------------------------------------------
(* _request_stop: the new request has a number nobody has seen. *)
LEMMA RequestStopStep ==
    ASSUME ProtocolIInv, auth_alive, NEW s \in BOOLEAN, RequestStop(s),
           UNCHANGED <<stopVars, auth_alive, requester_id, clear_target>>,
           IF s THEN confirmed' = confirmed
                ELSE clear_target # NoTarget /\ confirmed' = FALSE
    PROVE  ProtocolIInv'
<1> DEFINE r == [requester |-> requester_id, id |-> stop_request_id + 1, stopped |-> s,
                 boot |-> IF s THEN 0 ELSE clear_target.boot,
                 generation |-> IF s THEN 0 ELSE clear_target.generation]
<1>1. /\ pending' = r /\ stop_request_id' = stop_request_id + 1
      /\ requests' \subseteq requests \cup {r}
  BY PublishAdds DEF RequestStop
<1>2. ProtocolTypeOK
  BY DEF ProtocolIInv
<1>3. requester_id \in Requesters /\ requester_id \in Nat \ {0} /\ stop_request_id \in Nat
  BY <1>2, StopConstants DEF ProtocolTypeOK
<1>4. /\ r.requester = requester_id /\ r.id = stop_request_id + 1 /\ r.stopped = s
      /\ s => r.boot = 0
      /\ ~s => r.boot = clear_target.boot /\ r.generation = clear_target.generation
  OBVIOUS
<1>5. r \in StopRequests /\ r # NoPending
  <2>1. clear_target.boot \in Nat /\ clear_target.generation \in Nat
    BY <1>2, ProtocolFields
  <2>2. r \in StopRequests
    BY <1>3, <2>1 DEF StopRequests
  <2>3. r # NoPending
    BY <1>3, <1>4, NoPendingFields
  <2> QED
    BY <2>2, <2>3
<1> HIDE DEF r
<1>6. UNCHANGED <<disk, alive, boot, generation, stopped, locked, durable, fault, clear_at,
                  zero_seen, queue, write, neutral, request_results, last_request, state_pub>>
  BY DEF stopVars, latchVars, writeVars, ackVars
<1>7. ~Sent(requester_id, stop_request_id + 1)
  BY <1>3 DEF Sent
<1>8. \A q, i \in Nat : Sent(q, i) => Sent(q, i)'
  BY <1>1, <1>2, SentStays
<1>9. /\ \A q \in Requesters : request_results[q].id # 0 => Sent(q, request_results[q].id)
      /\ last_request.requester # 0 => Sent(last_request.requester, last_request.id)
      /\ state_pub.request.requester # 0 =>
            Sent(state_pub.request.requester, state_pub.request.id)
  BY DEF ProtocolIInv, DecisionsAreOfRequests
<1>10. /\ request_results[requester_id].id # stop_request_id + 1
       /\ ~(last_request.requester = requester_id /\ last_request.id = stop_request_id + 1)
       /\ ~(/\ state_pub.request.requester = requester_id
            /\ state_pub.request.id = stop_request_id + 1)
  BY <1>3, <1>7, <1>9
<1>11. ProtocolTypeOK'
  <2>1. TypeOK'
    BY <1>2, <1>6 DEF ProtocolTypeOK, TypeOK
  <2>2. /\ pending' \in StopRequests \cup {NoPending} /\ requests' \subseteq StopRequests
        /\ stop_request_id' \in Nat
    BY <1>1, <1>2, <1>3, <1>5 DEF ProtocolTypeOK
  <2> QED
    BY <1>2, <2>1, <2>2 DEF ProtocolTypeOK
<1>12. MemoryInv'
  BY MemoryKept DEF ProtocolIInv, stopVars
<1>13. RequestsAreNumbered'
  <2>1. ASSUME NEW o \in requests'
        PROVE  /\ Sent(o.requester, o.id)'
               /\ o.requester = pending'.requester /\ o.id = pending'.id => o = pending'
    <3>1. CASE o = r
      BY <1>1, <1>3, <1>4, <3>1 DEF Sent
    <3>2. CASE o \in requests
      <4>1. Sent(o.requester, o.id) /\ o.requester \in Nat /\ o.id \in Nat
        BY <1>2, <3>2, ProtocolFields DEF ProtocolIInv, RequestsAreNumbered
      <4> QED
        BY <1>1, <1>4, <1>7, <1>8, <4>1
    <3> QED
      BY <1>1, <2>1, <3>1, <3>2
  <2> QED
    BY <1>1, <1>4, <2>1 DEF RequestsAreNumbered
<1>14. DecisionsAreOfRequests'
  BY <1>2, <1>6, <1>8, DecisionsKept DEF ProtocolIInv
<1>15. PendingStopIsAccepted'
  BY <1>1, <1>4, <1>6, <1>10 DEF PendingStopIsAccepted, Acknowledges
<1>16. ClearsAreBound'
  <2>1. ~s => Bound(r)
    BY <1>4 DEF ProtocolIInv, ClearsAreBound, Bound
  <2>2. ~s => Bound(pending)'
    BY <1>1, <1>6, <2>1 DEF Bound
  <2>3. \A o \in requests' : ~o.stopped => Bound(o)'
    BY <1>1, <1>4, <1>6, <2>2 DEF ProtocolIInv, ClearsAreBound, Bound
  <2> QED
    BY <1>1, <1>4, <1>6, <2>2, <2>3 DEF ProtocolIInv, ClearsAreBound, Bound
<1>17. DecidedIsHeld'
  BY <1>1, <1>4, <1>6, <1>10 DEF DecidedIsHeld, Decided
<1>18. PromiseIsKept'
  <2>1. CASE s
    <3>1. \A o \in requests' : o \in requests \/ o.stopped
      BY <1>1, <1>4, <2>1
    <3>2. Promised' => confirmed
      BY <1>1, <1>4, <1>6, <1>10, <2>1 DEF Promised, Acknowledges
    <3>3. Promised' /\ alive => Held'
      BY <1>6, <3>1, <3>2, HeldKept DEF ProtocolIInv, PromiseIsKept, Promised
    <3> QED
      BY <1>1, <1>4, <1>6, <2>1, <3>2, <3>3 DEF ProtocolIInv, PromiseIsKept, Promised
  <2>2. CASE ~s
    BY <1>1, <1>4, <2>2 DEF PromiseIsKept, Promised
  <2> QED
    BY <2>1, <2>2
<1> QED
  BY <1>11, <1>12, <1>13, <1>14, <1>15, <1>16, <1>17, <1>18 DEF ProtocolIInv

(* A retransmission, or a loss, adds no request but the pending one. *)
LEMMA TransportStep ==
    ASSUME ProtocolIInv,
           \/ auth_alive /\ pending # NoPending /\ Publish(pending)
           \/ requests' \subseteq requests,
           UNCHANGED <<stopVars, authVars, confirmed>>
    PROVE  ProtocolIInv'
<1>1. UNCHANGED <<disk, alive, boot, generation, stopped, locked, durable, fault, clear_at,
                  zero_seen, queue, write, neutral, request_results, last_request, state_pub,
                  auth_alive, requester_id, stop_request_id, pending, clear_target, confirmed>>
  BY DEF stopVars, latchVars, writeVars, ackVars, authVars
<1>2. \A r \in requests' : r \in requests \/ (r = pending /\ auth_alive /\ pending # NoPending)
  BY PublishAdds
<1>3. ProtocolTypeOK
  BY DEF ProtocolIInv
<1>4. ProtocolTypeOK'
  <2>1. requests' \subseteq StopRequests
    BY <1>2, <1>3 DEF ProtocolTypeOK
  <2> QED
    BY <1>1, <1>3, <2>1 DEF ProtocolTypeOK, TypeOK
<1>5. MemoryInv'
  BY MemoryKept DEF ProtocolIInv, stopVars
<1>6. RequestsAreNumbered'
  <2>1. auth_alive /\ pending # NoPending => Sent(pending.requester, pending.id)
    BY <1>3, ProtocolFields DEF ProtocolIInv, RequestsAreNumbered, Sent, ProtocolTypeOK
  <2>2. \A r \in requests' : Sent(r.requester, r.id)
    BY <1>2, <2>1 DEF ProtocolIInv, RequestsAreNumbered
  <2> QED
    BY <1>1, <1>2, <2>2 DEF ProtocolIInv, RequestsAreNumbered, Sent
<1>7. DecisionsAreOfRequests'
  BY <1>1, <1>3, SentStays, DecisionsKept DEF ProtocolIInv
<1>8. PendingStopIsAccepted'
  BY <1>1 DEF ProtocolIInv, PendingStopIsAccepted, Acknowledges
<1>9. ClearsAreBound'
  BY <1>1, <1>2 DEF ProtocolIInv, ClearsAreBound, Bound
<1>10. DecidedIsHeld'
  <2>1. Decided' => Decided /\ pending.stopped
    BY <1>1 DEF Decided
  <2> QED
    BY <1>1, <1>2, <2>1, HeldKept DEF ProtocolIInv, DecidedIsHeld
<1>11. PromiseIsKept'
  <2>1. Promised' => Promised /\ pending.stopped
    BY <1>1 DEF ProtocolIInv, PromiseIsKept, Promised, Acknowledges
  <2>2. Promised' /\ alive => Held'
    BY <1>1, <1>2, <2>1, HeldKept DEF ProtocolIInv, PromiseIsKept
  <2> QED
    BY <1>1, <2>1, <2>2 DEF ProtocolIInv, PromiseIsKept
<1> QED
  BY <1>4, <1>5, <1>6, <1>7, <1>8, <1>9, <1>10, <1>11 DEF ProtocolIInv

(* _on_stop_state: an acknowledged STOP is confirmed only as applied. *)
LEMMA OnStopStateStep ==
    ASSUME ProtocolIInv, OnStopState
    PROVE  ProtocolIInv'
<1>1. /\ UNCHANGED <<disk, alive, boot, generation, stopped, locked, durable, fault, clear_at,
                     zero_seen, queue, write, neutral, request_results, last_request,
                     auth_alive, requester_id, stop_request_id, requests>>
      /\ auth_alive /\ state_pub # NoState /\ state_pub' = NoState
      /\ clear_target' \in {NoTarget, [boot |-> state_pub.boot,
                                       generation |-> state_pub.generation]}
  BY DEF OnStopState, latchVars, writeVars, ackVars
<1>2. \/ UNCHANGED <<pending, confirmed>>
      \/ /\ Acknowledges(state_pub) /\ Settles(state_pub) /\ pending' = NoPending
         /\ confirmed' = (confirmed \/ pending.stopped)
  BY DEF OnStopState
<1>3. ProtocolTypeOK
  BY DEF ProtocolIInv
<1>4. pending' \in {pending, NoPending}
  BY <1>2
<1>5. ProtocolTypeOK'
  <2>1. TypeOK'
    BY <1>1, <1>3, BlankTyping DEF ProtocolTypeOK, TypeOK
  <2>2. clear_target' \in Targets
    BY <1>1, <1>3, ProtocolFields DEF NoTarget, Targets
  <2>3. confirmed' \in BOOLEAN
    BY <1>2, <1>3 DEF ProtocolTypeOK
  <2> QED
    BY <1>1, <1>3, <1>4, <2>1, <2>2, <2>3 DEF ProtocolTypeOK
<1>6. MemoryInv'
  BY <1>1, MemoryKept DEF ProtocolIInv, latchVars, writeVars
<1>7. RequestsAreNumbered'
  <2>1. \A r \in requests : r.requester # 0
    BY <1>3, ProtocolFields
  <2> QED
    BY <1>1, <1>4, <2>1, NoPendingFields DEF ProtocolIInv, RequestsAreNumbered, Sent
<1>8. DecisionsAreOfRequests'
  BY <1>1, <1>3, SentStays, DecisionsKept DEF ProtocolIInv
<1>9. pending' # NoPending => pending'.requester # 0
  BY <1>3, <1>4, ProtocolFields
<1>10. PendingStopIsAccepted'
  BY <1>1, <1>4, <1>9, NoPendingFields
     DEF ProtocolIInv, PendingStopIsAccepted, Acknowledges
<1>11. ClearsAreBound'
  <2>1. Bound(state_pub)
    BY <1>1 DEF ProtocolIInv, ClearsAreBound
  <2>2. clear_target' # NoTarget => Bound(clear_target)'
    BY <1>1, <2>1 DEF Bound
  <2> QED
    BY <1>1, <1>4, <2>2, NoPendingFields DEF ProtocolIInv, ClearsAreBound, Bound
<1>12. DecidedIsHeld'
  <2>1. Decided' => Decided
    BY <1>1, <1>4 DEF Decided
  <2> QED
    BY <1>1, <2>1, HeldKept DEF ProtocolIInv, DecidedIsHeld
<1>13. PromiseIsKept'
  <2>1. Promised' => confirmed'
    BY <1>1, <1>9, NoPendingFields DEF Promised, Acknowledges
  <2>2. confirmed' => Promised
    <3>1. CASE UNCHANGED <<pending, confirmed>>
      BY <3>1 DEF Promised
    <3>2. CASE /\ Acknowledges(state_pub) /\ Settles(state_pub)
               /\ confirmed' = (confirmed \/ pending.stopped)
      BY <3>2 DEF ProtocolIInv, PendingStopIsAccepted, Acknowledges, Settles, Promised
    <3> QED
      BY <1>2, <3>1, <3>2
  <2>3. confirmed' => pending'.stopped
    BY <1>2, NoPendingFields DEF ProtocolIInv, PromiseIsKept
  <2>4. Promised' /\ alive => Held'
    BY <1>1, <2>1, <2>2, HeldKept DEF ProtocolIInv, PromiseIsKept
  <2> QED
    BY <1>1, <2>1, <2>2, <2>3, <2>4 DEF ProtocolIInv, PromiseIsKept
<1> QED
  BY <1>5, <1>6, <1>7, <1>8, <1>10, <1>11, <1>12, <1>13 DEF ProtocolIInv

(* The StopState expires, or the authority dies or starts: nothing is      *)
(* pending that was not, and a new process has sent nothing.               *)
LEMMA AuthorityStep ==
    ASSUME ProtocolIInv,
           \/ StopStateExpires \/ AuthorityCrash
           \/ requester_id < MaxRequester /\ AuthorityStart
    PROVE  ProtocolIInv'
<1>1. /\ UNCHANGED <<disk, alive, boot, generation, stopped, locked, durable, fault, clear_at,
                     zero_seen, queue, write, neutral, request_results, last_request,
                     state_pub, requests, confirmed>>
      /\ pending' \in {pending, NoPending} /\ clear_target' \in {clear_target, NoTarget}
  BY DEF StopStateExpires, AuthorityCrash, AuthorityStart, stopVars, latchVars, writeVars,
     ackVars
<1>2. ProtocolTypeOK
  BY DEF ProtocolIInv
<1>3. ~auth_alive => pending = NoPending /\ stop_request_id = 0 /\ clear_target = NoTarget
  BY DEF ProtocolIInv, RequestsAreNumbered
<1>4. \/ /\ UNCHANGED <<auth_alive, requester_id, stop_request_id, pending>>
         /\ auth_alive
      \/ /\ ~auth_alive' /\ requester_id' = requester_id /\ stop_request_id' = 0
         /\ pending' = NoPending /\ clear_target' = NoTarget
      \/ /\ requester_id < MaxRequester /\ auth_alive' /\ requester_id' = requester_id + 1
         /\ stop_request_id' = 0 /\ pending' = NoPending
  BY <1>3 DEF StopStateExpires, AuthorityCrash, AuthorityStart
<1>5. ProtocolTypeOK'
  <2>1. TypeOK'
    BY <1>1, <1>2 DEF ProtocolTypeOK, TypeOK
  <2>2. /\ requester_id' \in Nat /\ stop_request_id' \in Nat /\ auth_alive' \in BOOLEAN
        /\ auth_alive' => requester_id' \in Requesters
    <3>1. auth_alive' \in BOOLEAN
      BY <1>2 DEF ProtocolTypeOK, StopStateExpires, AuthorityCrash, AuthorityStart
    <3>2. requester_id' \in Nat /\ stop_request_id' \in Nat
      BY <1>2, <1>4 DEF ProtocolTypeOK
    <3>3. auth_alive' => requester_id' \in Requesters
      <4>1. requester_id < MaxRequester => requester_id + 1 \in Requesters
        BY <1>2, ProtocolConstants DEF ProtocolTypeOK
      <4> QED
        BY <1>2, <1>4, <4>1 DEF ProtocolTypeOK
    <3> QED
      BY <3>1, <3>2, <3>3
  <2>3. clear_target' \in Targets
    BY <1>1, <1>2 DEF ProtocolTypeOK, NoTarget, Targets
  <2> QED
    BY <1>1, <1>2, <2>1, <2>2, <2>3 DEF ProtocolTypeOK
<1>6. MemoryInv'
  BY <1>1, MemoryKept DEF ProtocolIInv, latchVars, writeVars
<1>7. \A q, i \in Nat : Sent(q, i) => Sent(q, i)'
  BY <1>2, <1>4, SentStays
<1>8. RequestsAreNumbered'
  <2>1. \A r \in requests' : Sent(r.requester, r.id)'
    BY <1>1, <1>2, <1>7, ProtocolFields DEF ProtocolIInv, RequestsAreNumbered
  <2>2. \A r \in requests' : r.requester = pending'.requester /\ r.id = pending'.id
                                => r = pending'
    BY <1>1, <1>2, ProtocolFields, NoPendingFields DEF ProtocolIInv, RequestsAreNumbered
  <2> QED
    BY <1>4, <2>1, <2>2 DEF ProtocolIInv, RequestsAreNumbered
<1>9. DecisionsAreOfRequests'
  BY <1>1, <1>2, <1>7, DecisionsKept DEF ProtocolIInv
<1>10. PendingStopIsAccepted'
  BY <1>1 DEF ProtocolIInv, PendingStopIsAccepted, Acknowledges
<1>11. ClearsAreBound'
  BY <1>1, NoPendingFields DEF ProtocolIInv, ClearsAreBound, Bound
<1>12. DecidedIsHeld'
  <2>1. Decided' => Decided
    BY <1>1 DEF Decided
  <2> QED
    BY <1>1, <2>1, HeldKept DEF ProtocolIInv, DecidedIsHeld
<1>13. PromiseIsKept'
  <2>1. Promised' => Promised
    BY <1>1 DEF Promised, Acknowledges
  <2>2. Promised' /\ alive => Held'
    BY <1>1, <2>1, HeldKept DEF ProtocolIInv, PromiseIsKept
  <2>3. confirmed' => pending'.stopped
    BY <1>1, NoPendingFields DEF ProtocolIInv, PromiseIsKept
  <2> QED
    BY <1>1, <2>1, <2>2, <2>3 DEF ProtocolIInv, PromiseIsKept
<1> QED
  BY <1>5, <1>6, <1>8, <1>9, <1>10, <1>11, <1>12, <1>13 DEF ProtocolIInv

-----------------------------------------------------------------------------
(* On the executor's side no request appears and the authority is as it was. *)
LEMMA NumbersKept ==
    ASSUME ProtocolIInv, UNCHANGED authVars, requests' \subseteq requests
    PROVE  RequestsAreNumbered'
BY DEF ProtocolIInv, RequestsAreNumbered, Sent, authVars

(* The types follow from the executor's alone. *)
LEMMA TypesKept ==
    ASSUME ProtocolIInv, TypeOK', UNCHANGED <<authVars, confirmed>>, requests' \subseteq requests
    PROVE  ProtocolTypeOK'
BY DEF ProtocolIInv, ProtocolTypeOK, authVars

(* A state that is published or stays on its way is one of those allowed.  *)
(* Generations only grow while a process lives.                            *)
LEMMA BindingsKept ==
    ASSUME ProtocolIInv, UNCHANGED authVars, requests' \subseteq requests,
           UNCHANGED <<alive, boot>>, generation' \in Nat, alive => generation' >= generation,
           state_pub' # NoState => state_pub' = state_pub \/ Bound(state_pub)'
    PROVE  ClearsAreBound'
<1>1. ProtocolTypeOK
  BY DEF ProtocolIInv
<1>2. ASSUME NEW m, m.generation \in Nat, Bound(m)
      PROVE  Bound(m)'
  BY <1>1, <1>2, ProtocolFields DEF Bound
<1>3. state_pub' # NoState => Bound(state_pub)'
  BY <1>1, ProtocolFields DEF ProtocolIInv, ClearsAreBound, Bound
<1>4. clear_target' # NoTarget => Bound(clear_target)'
  BY <1>1, ProtocolFields DEF ProtocolIInv, ClearsAreBound, Bound, authVars
<1>5. ~pending'.stopped => Bound(pending)'
  <2>1. pending.generation \in Nat
    BY <1>1 DEF ProtocolTypeOK, StopRequests, NoPending
  <2> QED
    BY <1>1, <2>1, ProtocolFields DEF ProtocolIInv, ClearsAreBound, Bound, authVars
<1>6. \A r \in requests' : ~r.stopped => Bound(r)'
  BY <1>1, <1>2, ProtocolFields DEF ProtocolIInv, ClearsAreBound
<1> QED
  BY <1>3, <1>4, <1>5, <1>6 DEF ProtocolIInv, ClearsAreBound

(* The exits of request(), seen from the ledger of decided requests. *)
LEMMA RequestExits ==
    ASSUME NEW r, Request(r)
    PROVE  \/ /\ Duplicate(r) /\ Ack(r, request_results[r.requester].accepted)
              /\ UNCHANGED <<latchVars, writeVars>>
           \/ /\ Superseded(r) /\ AckUnstored(r, FALSE)
              /\ UNCHANGED <<latchVars, writeVars>>
           \/ /\ ~(r.stopped /\ r.boot = 0) /\ Ack(r, FALSE)
              /\ UNCHANGED <<latchVars, writeVars>>
           \/ r.stopped /\ AcceptStop(r)
           \/ ~r.stopped /\ ~OtherBoot(r) /\ AcceptClear(r)
BY DEF Request, RejectClear, OtherBoot

(* A STOP latches the executor against every clear in flight. *)
LEMMA StopHolds ==
    ASSUME ProtocolIInv, alive, NEW r \in requests, AcceptStop(r), boot' = boot,
           requests' \subseteq requests
    PROVE  Held'
<1>1. stopped' /\ locked' /\ clear_at' = "none" /\ write'.stopped
  BY DEF AcceptStop, Submit
<1>2. \A o \in requests' : ~o.stopped /\ o.boot = boot' => o.generation < generation'
  BY ProtocolFields DEF ProtocolIInv, ClearsAreBound, Bound, AcceptStop
<1> QED
  BY <1>1, <1>2 DEF Held

(* No request in flight can clear a latch that is held. *)
LEMMA HeldRequest ==
    ASSUME ProtocolIInv, Held, NEW r \in requests, Request(r), requests' \subseteq requests
    PROVE  /\ Held'
           /\ \/ queue' = queue
              \/ queue' = Append(queue, [generation |-> generation + 1, stopped |-> TRUE])
<1>1. boot' = boot /\ alive
  BY DEF Request
<1>2. CASE UNCHANGED <<latchVars, writeVars>>
  BY <1>1, <1>2, HeldKept DEF latchVars, writeVars
<1>3. CASE AcceptStop(r)
  BY <1>1, <1>3, StopHolds DEF AcceptStop, Submit
<1>4. ASSUME ~r.stopped, ~OtherBoot(r), AcceptClear(r)
      PROVE  FALSE
  <2>1. r.boot \in 1 .. boot /\ r.boot \in Nat /\ r.generation \in Nat /\ generation \in Nat
    BY <1>4, ProtocolFields DEF ProtocolIInv, ClearsAreBound, Bound
  <2>2. r.boot = boot
    BY <1>4, <2>1 DEF OtherBoot
  <2>3. r.generation < generation
    BY <1>4, <2>2 DEF Held
  <2> QED
    BY <1>4, <2>1, <2>3 DEF AcceptClear
<1> QED
  BY <1>2, <1>3, <1>4, RequestExits

(* What request() does to the ledger of decisions. *)
LEMMA RequestLedger ==
    ASSUME ProtocolIInv, NEW r \in requests, Request(r), UNCHANGED authVars
    PROVE  DecisionsAreOfRequests' /\ PendingStopIsAccepted'
<1>1. ProtocolTypeOK /\ DecisionsAreOfRequests /\ PendingStopIsAccepted /\ RequestsAreNumbered
  BY DEF ProtocolIInv
<1>2. /\ r.requester \in Requesters /\ r.id \in Nat \ {0} /\ Sent(r.requester, r.id)
      /\ r.requester \in Nat \ {0}
      /\ r.requester = pending.requester /\ r.id = pending.id => r = pending
  BY <1>1, ProtocolFields DEF RequestsAreNumbered
<1>3. UNCHANGED <<alive, state_pub, pending, requester_id, auth_alive, stop_request_id>>
  BY DEF Request, authVars
<1>4. request_results \in [Requesters -> Results]
  BY <1>1 DEF ProtocolTypeOK, TypeOK
<1>. PICK ok : Ack(r, ok) \/ (Superseded(r) /\ AckUnstored(r, ok))
  BY RequestExits DEF AcceptStop, AcceptClear
<1>5. last_request'.requester = r.requester /\ last_request'.id = r.id
  BY DEF Ack, AckUnstored
<1>6. /\ \A q \in Requesters \ {r.requester} : request_results'[q] = request_results[q]
      /\ \/ /\ request_results'[r.requester] = request_results[r.requester]
            /\ r.id < request_results[r.requester].id
         \/ request_results'[r.requester].id = r.id
  BY <1>2, <1>4 DEF Ack, AckUnstored, Superseded
<1>7. DecisionsAreOfRequests'
  <2>1. \A q \in Requesters : request_results'[q].id # 0 => Sent(q, request_results'[q].id)
    BY <1>1, <1>2, <1>6 DEF DecisionsAreOfRequests
  <2>2. /\ Sent(last_request'.requester, last_request'.id)
        /\ last_request'.id <= request_results'[last_request'.requester].id
    BY <1>1, <1>2, <1>5, <1>6, ProtocolFields
  <2>3. alive
    BY DEF Request
  <2> QED
    BY <1>1, <1>3, <2>1, <2>2, <2>3 DEF DecisionsAreOfRequests, Sent
<1>8. PendingStopIsAccepted'
  <2> SUFFICES ASSUME pending # NoPending, pending.stopped
               PROVE  /\ request_results'[pending.requester].id = pending.id =>
                            request_results'[pending.requester].accepted
                      /\ last_request'.requester = pending.requester
                            /\ last_request'.id = pending.id => last_request'.accepted
    BY <1>1, <1>3 DEF PendingStopIsAccepted, Acknowledges
  <2>1. pending.requester \in Requesters /\ pending.id \in Nat /\ pending.boot = 0
    BY <1>1, ProtocolFields DEF RequestsAreNumbered
  <2>2. CASE r.requester # pending.requester
    BY <1>1, <1>5, <1>6, <2>1, <2>2 DEF PendingStopIsAccepted
  <2>3. CASE r.requester = pending.requester /\ r.id # pending.id
    BY <1>1, <1>5, <1>6, <2>1, <2>3 DEF PendingStopIsAccepted
  <2>4. CASE r.requester = pending.requester /\ r.id = pending.id
    <3>1. r = pending
      BY <1>2, <2>4
    <3>2. ~Superseded(r)
      <4>1. auth_alive /\ pending.requester = requester_id /\ pending.id = stop_request_id
        BY <1>1 DEF RequestsAreNumbered, ProtocolTypeOK
      <4>2. /\ request_results[r.requester].id # 0 =>
                  request_results[r.requester].id <= stop_request_id
            /\ request_results[r.requester].id \in Nat
        BY <1>1, <1>2, <2>4, <4>1, ProtocolFields DEF DecisionsAreOfRequests, Sent
      <4> QED
        BY <1>2, <2>4, <4>1, <4>2 DEF Superseded
    <3>3. CASE Duplicate(r) /\ Ack(r, request_results[r.requester].accepted)
      BY <1>1, <1>2, <1>4, <2>4, <3>3 DEF Duplicate, Ack, PendingStopIsAccepted
    <3>4. CASE Ack(r, TRUE)
      BY <1>2, <1>4, <2>4, <3>4 DEF Ack
    <3> QED
      BY <2>1, <3>1, <3>2, <3>3, <3>4, RequestExits DEF AcceptStop, AcceptClear
  <2> QED
    BY <2>2, <2>3, <2>4
<1> QED
  BY <1>7, <1>8

(* request() on a message from the transport. *)
LEMMA DeliverStep ==
    ASSUME ProtocolIInv, NEW r \in requests, DeliverRequest(r)
    PROVE  ProtocolIInv'
<1>1. /\ Request(r) /\ requests' \subseteq requests
      /\ UNCHANGED authVars /\ UNCHANGED <<authVars, confirmed>>
      /\ UNCHANGED <<disk, alive, boot, state_pub, pending, confirmed>> /\ alive
  BY DEF DeliverRequest, Request, authVars
<1>2. ProtocolTypeOK /\ TypeOK /\ MemoryInv
  BY DEF ProtocolIInv, ProtocolTypeOK
<1>3. r.requester \in Requesters /\ r.id \in Nat
  BY <1>2, ProtocolFields
<1>4. TypeOK'
  BY <1>1, <1>2, <1>3, RequestTyping
<1>5. ProtocolTypeOK'
  BY <1>1, <1>4, TypesKept
<1>6. MemoryInv'
  BY <1>1, <1>2, RequestInv DEF MemoryInv, BetweenLives
<1>7. RequestsAreNumbered'
  BY <1>1, NumbersKept
<1>8. DecisionsAreOfRequests' /\ PendingStopIsAccepted'
  BY <1>1, RequestLedger
<1>9. ClearsAreBound'
  <2>1. generation' \in Nat /\ generation' >= generation
    <3>1. generation' \in {generation, generation + 1}
      BY <1>1, RequestExits DEF AcceptStop, AcceptClear, latchVars
    <3> QED
      BY <1>2, <3>1 DEF TypeOK
  <2> QED
    BY <1>1, <2>1, BindingsKept
<1>10. DecidedIsHeld'
  <2> SUFFICES ASSUME Decided'
               PROVE  Held'
    BY DEF DecidedIsHeld
  <2>1. CASE Decided
    BY <1>1, <2>1, HeldRequest DEF ProtocolIInv, DecidedIsHeld
  <2>2. CASE ~Decided
    <3>1. /\ pending # NoPending /\ pending.stopped
          /\ request_results'[pending.requester].id = pending.id
          /\ request_results[pending.requester].id # pending.id
      BY <1>1, <2>2 DEF Decided
    <3>2. pending.requester \in Requesters /\ pending.boot = 0
      BY <1>2, <3>1, ProtocolFields DEF ProtocolIInv, RequestsAreNumbered
    <3>3. request_results \in [Requesters -> Results]
      BY <1>2 DEF TypeOK
    <3>4. r.requester = pending.requester /\ r.id = pending.id
      <4>. PICK ok : Ack(r, ok) \/ AckUnstored(r, ok)
        BY <1>1, RequestExits DEF AcceptStop, AcceptClear
      <4> QED
        BY <1>3, <3>1, <3>2, <3>3 DEF Ack, AckUnstored
    <3>5. r = pending
      BY <3>4 DEF ProtocolIInv, RequestsAreNumbered
    <3>6. ~Duplicate(r)
      BY <3>1, <3>4 DEF Duplicate
    <3>7. ~AckUnstored(r, FALSE)
      BY <3>1 DEF AckUnstored
    <3>8. AcceptStop(r)
      BY <1>1, <3>1, <3>2, <3>5, <3>6, <3>7, RequestExits
    <3> QED
      BY <1>1, <3>8, StopHolds
  <2> QED
    BY <2>1, <2>2
<1>11. PromiseIsKept'
  <2>1. Promised' => Promised
    BY <1>1 DEF Promised, Acknowledges
  <2>2. ASSUME Promised
        PROVE  Held' /\ \A i \in 1 .. Len(queue') : queue'[i].stopped
    <3>1. Held /\ \A i \in 1 .. Len(queue) : queue[i].stopped
      BY <1>1, <2>2 DEF ProtocolIInv, PromiseIsKept
    <3>2. /\ Held'
          /\ \/ queue' = queue
             \/ queue' = Append(queue, [generation |-> generation + 1, stopped |-> TRUE])
      BY <1>1, <3>1, HeldRequest
    <3>3. queue \in Seq(Decisions)
      BY <1>2 DEF TypeOK
    <3> QED
      BY <3>1, <3>2, <3>3
  <2> QED
    BY <1>1, <2>1, <2>2 DEF ProtocolIInv, PromiseIsKept
<1> QED
  BY <1>5, <1>6, <1>7, <1>8, <1>9, <1>10, <1>11 DEF ProtocolIInv

(* tick() leaves a held latch alone, whatever write it harvests. *)
LEMMA HeldTick ==
    ASSUME TypeOK, Held, TickLatch, requests' = requests
    PROVE  Held' /\ queue' = queue
<1>1. write.status \in {"none", "pending", "ok", "failed"} /\ write.stopped \in BOOLEAN
  BY DEF TypeOK, Futures
<1>2. stopped /\ locked /\ clear_at = "none" /\ (write.status # "none" => write.stopped)
  BY DEF Held
<1>3. /\ stopped' /\ locked' /\ clear_at' = "none"
      /\ UNCHANGED <<queue, boot, generation>>
      /\ write' \in {write, NoWrite}
  BY <1>1, <1>2 DEF TickLatch
<1>4. write'.status # "none" => write'.stopped
  BY <1>2, <1>3 DEF NoWrite
<1> QED
  BY <1>3, <1>4 DEF Held

(* tick(): it announces a STOP as applied only once the STOP is on disk. *)
LEMMA TickStep ==
    ASSUME ProtocolIInv, TickDelivered \/ TickLost
    PROVE  ProtocolIInv'
<1>1. /\ TickLatch /\ alive
      /\ UNCHANGED authVars /\ UNCHANGED <<authVars, confirmed>>
      /\ UNCHANGED <<disk, alive, boot, request_results, last_request, requests, confirmed,
                     pending>>
      /\ requests' \subseteq requests
      /\ PublishState \/ state_pub' = state_pub
  BY DEF TickDelivered, TickLost, Tick, TickLatch, ackVars, authVars
<1>2. ProtocolTypeOK /\ TypeOK /\ MemoryInv
  BY DEF ProtocolIInv, ProtocolTypeOK
<1>3. TypeOK'
  <2>1. state_pub \in StopStates
    BY <1>2 DEF TypeOK
  <2> QED
    BY <1>1, <1>2, <2>1, TickTyping
<1>4. ProtocolTypeOK'
  BY <1>1, <1>3, TypesKept
<1>5. QueueInv' /\ FutureInv' /\ LatchInv'
  BY <1>1, <1>2, TickInv
<1>6. MemoryInv'
  BY <1>1, <1>2, <1>5 DEF MemoryInv, BetweenLives
<1>7. RequestsAreNumbered'
  BY <1>1, NumbersKept
<1>8. PublishState => /\ state_pub'.boot = boot /\ state_pub'.generation = generation'
                      /\ state_pub'.request = last_request
                      /\ state_pub'.applied => stopped' /\ locked' /\ durable'
  <2> SUFFICES ASSUME PublishState
               PROVE  /\ state_pub'.boot = boot /\ state_pub'.generation = generation'
                      /\ state_pub'.request = last_request
                      /\ state_pub'.applied => stopped' /\ locked' /\ durable'
    OBVIOUS
  <2>. PICK a \in BOOLEAN : a = (stopped' /\ locked' /\ durable' /\ zero_seen)
    OBVIOUS
  <2>1. state_pub'.applied = a
    BY DEF PublishState, StateMessage
  <2>2. state_pub'.boot = boot /\ state_pub'.generation = generation'
    BY DEF PublishState, StateMessage
  <2>3. state_pub'.request = last_request
    BY DEF PublishState, StateMessage
  <2> QED
    BY <2>1, <2>2, <2>3
<1>9. DecisionsAreOfRequests'
  <2>1. \/ state_pub'.request = state_pub.request
        \/ state_pub'.request = last_request
    BY <1>1, <1>8
  <2> QED
    BY <1>1, <2>1 DEF ProtocolIInv, DecisionsAreOfRequests, Sent, authVars
<1>10. PendingStopIsAccepted'
  BY <1>1, <1>8 DEF ProtocolIInv, PendingStopIsAccepted, Acknowledges
<1>11. ClearsAreBound'
  <2>1. generation' \in Nat /\ generation' >= generation
    BY <1>1, <1>2, <1>3 DEF TickLatch, TypeOK
  <2>2. PublishState => Bound(state_pub)'
    BY <1>1, <1>2, <1>8, <2>1 DEF ProtocolIInv, ClearsAreBound, Bound, TypeOK
  <2> QED
    BY <1>1, <2>1, <2>2, BindingsKept
<1>12. Held => Held' /\ queue' = queue
  BY <1>1, <1>2, HeldTick
<1>13. DecidedIsHeld'
  BY <1>1, <1>12 DEF ProtocolIInv, DecidedIsHeld, Decided
<1>14. PromiseIsKept'
  <2>1. ASSUME Promised
        PROVE  /\ disk'.known /\ disk'.stopped /\ Held'
               /\ \A i \in 1 .. Len(queue') : queue'[i].stopped
    BY <1>1, <1>12, <2>1 DEF ProtocolIInv, PromiseIsKept
  <2>2. ASSUME PublishState, pending.stopped, Acknowledges(state_pub)', state_pub'.applied
        PROVE  /\ disk'.known /\ disk'.stopped /\ Held'
               /\ \A i \in 1 .. Len(queue') : queue'[i].stopped
    <3>1. /\ pending # NoPending /\ last_request.requester = pending.requester
          /\ last_request.id = pending.id
      BY <1>1, <1>8, <2>2 DEF Acknowledges
    <3>2. pending.requester \in Requesters /\ pending.requester # 0 /\ pending.id \in Nat \ {0}
      BY <1>2, <3>1, ProtocolFields
    <3>3. /\ auth_alive /\ pending.requester = requester_id /\ pending.id = stop_request_id
      BY <1>2, <3>1 DEF ProtocolIInv, RequestsAreNumbered, ProtocolTypeOK
    <3>4. pending.id <= request_results[pending.requester].id
      BY <3>1, <3>2 DEF ProtocolIInv, DecisionsAreOfRequests
    <3>5. request_results[pending.requester].id \in Nat
      BY <1>2, <3>2, ProtocolFields
    <3>6. request_results[pending.requester].id <= stop_request_id
      BY <3>2, <3>3, <3>4, <3>5 DEF ProtocolIInv, DecisionsAreOfRequests, Sent
    <3>7. Decided
      BY <1>1, <2>2, <3>1, <3>2, <3>3, <3>4, <3>5, <3>6 DEF Decided
    <3>8. Held'
      BY <1>12, <3>7 DEF ProtocolIInv, DecidedIsHeld
    <3>9. stopped' /\ durable' /\ clear_at' = "none"
      BY <1>8, <2>2, <3>8 DEF Held
    <3>10. disk'.known /\ disk'.stopped
      BY <1>5, <3>9 DEF LatchInv
    <3>11. queue' = <<>>
      BY <1>5, <3>9 DEF QueueInv, FutureInv
    <3> QED
      BY <3>8, <3>10, <3>11
  <2>3. Promised' => Promised \/ (/\ PublishState /\ pending.stopped
                                  /\ Acknowledges(state_pub)' /\ state_pub'.applied)
    BY <1>1 DEF Promised, Acknowledges
  <2>4. confirmed' => pending'.stopped
    BY <1>1 DEF ProtocolIInv, PromiseIsKept
  <2> QED
    BY <2>1, <2>2, <2>3, <2>4 DEF PromiseIsKept
<1> QED
  BY <1>4, <1>6, <1>7, <1>9, <1>10, <1>11, <1>13, <1>14 DEF ProtocolIInv

(* persist(): behind a promised STOP only STOPs are waiting to be written. *)
LEMMA PersistStep ==
    ASSUME ProtocolIInv, NEW outcome \in PersistOutcomes, Persist(outcome),
           UNCHANGED <<authVars, requests, confirmed>>
    PROVE  ProtocolIInv'
<1>1. /\ alive /\ requests' \subseteq requests
      /\ UNCHANGED authVars /\ UNCHANGED <<authVars, confirmed>>
      /\ UNCHANGED <<alive, boot, generation, stopped, locked, clear_at, request_results,
                     last_request, state_pub, requests, confirmed, pending>>
  BY DEF Persist, latchVars, ackVars, authVars
<1>2. ProtocolTypeOK /\ TypeOK /\ MemoryInv
  BY DEF ProtocolIInv, ProtocolTypeOK
<1>3. TypeOK'
  BY <1>2, PersistTyping
<1>4. ProtocolTypeOK'
  BY <1>1, <1>3, TypesKept
<1>5. queue \in Seq(Decisions) /\ queue # <<>>
  BY <1>2 DEF TypeOK, Persist
<1>6. /\ Head(queue) = queue[1] /\ 1 \in 1 .. Len(queue) /\ queue[1] \in Decisions
      /\ Len(Tail(queue)) = Len(queue) - 1
      /\ \A i \in 1 .. Len(Tail(queue)) : Tail(queue)[i] = queue[i + 1] /\ i + 1 \in 1 .. Len(queue)
  <2>1. Len(queue) \in Nat \ {0} /\ Len(Tail(queue)) = Len(queue) - 1
    BY <1>5
  <2>2. \A i \in 1 .. Len(Tail(queue)) : Tail(queue)[i] = queue[i + 1]
    BY <1>5, <2>1, HeadTailProperties
  <2>3. \A i \in 1 .. Len(Tail(queue)) : i + 1 \in 1 .. Len(queue)
    BY <2>1
  <2>4. Head(queue) = queue[1] /\ 1 \in 1 .. Len(queue) /\ queue[1] \in Decisions
    BY <1>5, <2>1
  <2> QED
    BY <2>1, <2>2, <2>3, <2>4
<1>7. MemoryInv'
  <2>1. disk' = disk \/ disk'.known
    BY DEF Persist, Record
  <2>2. BetweenLives'
    BY <1>1, <1>2, <2>1 DEF MemoryInv, BetweenLives
  <2> QED
    BY <1>2, <2>2, PersistInv DEF MemoryInv
<1>8. RequestsAreNumbered'
  BY <1>1, NumbersKept
<1>9. DecisionsAreOfRequests'
  BY <1>1 DEF ProtocolIInv, DecisionsAreOfRequests, Sent, authVars
<1>10. PendingStopIsAccepted'
  BY <1>1 DEF ProtocolIInv, PendingStopIsAccepted, Acknowledges
<1>11. ClearsAreBound'
  BY <1>1, <1>2, BindingsKept DEF TypeOK
<1>12. Held => Held'
  <2>1. write'.stopped = write.stopped /\ write.status # "none"
    BY <1>1, <1>2, <1>5 DEF Persist, MemoryInv, QueueInv, TypeOK, Futures
  <2> QED
    BY <1>1, <2>1 DEF Held
<1>13. DecidedIsHeld'
  BY <1>1, <1>12 DEF ProtocolIInv, DecidedIsHeld, Decided
<1>14. PromiseIsKept'
  <2>1. Promised' => Promised
    BY <1>1 DEF Promised, Acknowledges
  <2>2. ASSUME Promised
        PROVE  /\ disk'.known /\ disk'.stopped /\ Held'
               /\ \A i \in 1 .. Len(queue') : queue'[i].stopped
    <3>1. disk.known /\ disk.stopped /\ Held /\ \A i \in 1 .. Len(queue) : queue[i].stopped
      BY <1>1, <2>2 DEF ProtocolIInv, PromiseIsKept
    <3>2. disk'.known /\ disk'.stopped
      BY <1>6, <3>1 DEF Persist, Record
    <3>3. \A i \in 1 .. Len(queue') : queue'[i].stopped
      BY <1>6, <3>1 DEF Persist
    <3> QED
      BY <1>12, <3>1, <3>2, <3>3
  <2> QED
    BY <1>1, <2>1, <2>2 DEF ProtocolIInv, PromiseIsKept
<1> QED
  BY <1>4, <1>7, <1>8, <1>9, <1>10, <1>11, <1>13, <1>14 DEF ProtocolIInv

(* Sensors, the zero on /cmd_vel and the drain timer. *)
LEMMA QuietStep ==
    ASSUME ProtocolIInv,
           \/ \E b \in BOOLEAN : OnSensors(b)
           \/ OnFinalZero \/ FinalZeroExpires \/ DrainElapses,
           UNCHANGED <<authVars, requests, confirmed>>
    PROVE  ProtocolIInv'
<1>1. /\ alive /\ requests' \subseteq requests
      /\ UNCHANGED authVars /\ UNCHANGED <<authVars, confirmed>>
      /\ UNCHANGED <<disk, alive, boot, generation, stopped, locked, durable, fault, queue,
                     write, request_results, last_request, state_pub, requests, confirmed,
                     pending>>
      /\ clear_at' = clear_at \/ (clear_at = "draining" /\ clear_at' = "due")
  BY DEF OnSensors, OnFinalZero, FinalZeroExpires, DrainElapses, latchVars, writeVars, ackVars,
     authVars
<1>2. ProtocolTypeOK /\ TypeOK /\ MemoryInv
  BY DEF ProtocolIInv, ProtocolTypeOK
<1>3. ProtocolTypeOK'
  BY <1>1, <1>2, StopConstants, OtherTyping, TypesKept
<1>4. MemoryInv'
  BY <1>1, <1>2, QuietInv DEF MemoryInv, BetweenLives
<1>5. RequestsAreNumbered'
  BY <1>1, NumbersKept
<1>6. DecisionsAreOfRequests'
  BY <1>1 DEF ProtocolIInv, DecisionsAreOfRequests, Sent, authVars
<1>7. PendingStopIsAccepted'
  BY <1>1 DEF ProtocolIInv, PendingStopIsAccepted, Acknowledges
<1>8. ClearsAreBound'
  BY <1>1, <1>2, BindingsKept DEF TypeOK
<1>9. Held => Held'
  BY <1>1 DEF Held
<1>10. DecidedIsHeld'
  BY <1>1, <1>9 DEF ProtocolIInv, DecidedIsHeld, Decided
<1>11. PromiseIsKept'
  BY <1>1, <1>9 DEF ProtocolIInv, PromiseIsKept, Promised, Acknowledges
<1> QED
  BY <1>3, <1>4, <1>5, <1>6, <1>7, <1>8, <1>10, <1>11 DEF ProtocolIInv

(* The executor dies: it forgets its decisions, and the record stays. *)
LEMMA CrashStep ==
    ASSUME ProtocolIInv, Crash, UNCHANGED <<authVars, requests, confirmed>>
    PROVE  ProtocolIInv'
<1>1. /\ ~alive' /\ requests' \subseteq requests
      /\ UNCHANGED authVars /\ UNCHANGED <<authVars, confirmed>>
      /\ UNCHANGED <<disk, boot, state_pub, requests, confirmed, pending, clear_target>>
      /\ request_results' = [q \in Requesters |-> NoResult] /\ last_request' = NoRequest
  BY DEF Crash, authVars
<1>2. ProtocolTypeOK /\ TypeOK /\ MemoryInv
  BY DEF ProtocolIInv, ProtocolTypeOK
<1>3. ProtocolTypeOK'
  BY <1>1, <1>2, StopConstants, OtherTyping, TypesKept
<1>4. MemoryInv'
  BY <1>1, <1>2 DEF MemoryInv, BetweenLives, Crash
<1>5. RequestsAreNumbered'
  BY <1>1, NumbersKept
<1>6. NoResult.id = 0 /\ NoRequest.requester = 0
  BY DEF NoResult, NoRequest
<1>7. DecisionsAreOfRequests'
  BY <1>1, <1>6 DEF ProtocolIInv, DecisionsAreOfRequests, Sent, authVars
<1>8. PendingStopIsAccepted'
  <2>1. pending # NoPending => /\ pending.requester \in Requesters /\ pending.requester # 0
                               /\ pending.id # 0
    BY <1>2, ProtocolFields
  <2> QED
    BY <1>1, <1>6, <2>1 DEF ProtocolIInv, PendingStopIsAccepted, Acknowledges
<1>9. ClearsAreBound'
  BY <1>1 DEF ProtocolIInv, ClearsAreBound, Bound
<1>10. DecidedIsHeld' /\ PromiseIsKept'
  BY <1>1 DEF ProtocolIInv, DecidedIsHeld, Decided, PromiseIsKept, Promised, Acknowledges
<1> QED
  BY <1>3, <1>4, <1>5, <1>7, <1>8, <1>9, <1>10 DEF ProtocolIInv

(* The executor starts: every clear in flight is bound to an earlier boot. *)
LEMMA StartStep ==
    ASSUME ProtocolIInv, Start, UNCHANGED <<authVars, requests, confirmed>>
    PROVE  ProtocolIInv'
<1>1. /\ ~alive /\ alive' /\ requests' \subseteq requests /\ boot' = boot + 1
      /\ UNCHANGED authVars /\ UNCHANGED <<authVars, confirmed>>
      /\ UNCHANGED <<disk, locked, queue, write, request_results, last_request, state_pub,
                     requests, confirmed, pending, clear_target>>
  BY DEF Start, authVars, writeVars, ackVars
<1>2. ProtocolTypeOK /\ TypeOK /\ MemoryInv
  BY DEF ProtocolIInv, ProtocolTypeOK
<1>3. ProtocolTypeOK'
  BY <1>1, <1>2, StopConstants, OtherTyping, TypesKept
<1>4. MemoryInv'
  <2>1. BetweenLives'
    BY <1>1, <1>2 DEF MemoryInv, BetweenLives
  <2> QED
    BY <1>2, <2>1, StartInv DEF MemoryInv
<1>5. RequestsAreNumbered'
  BY <1>1, NumbersKept
<1>6. DecisionsAreOfRequests'
  BY <1>1 DEF ProtocolIInv, DecisionsAreOfRequests, Sent, authVars
<1>7. PendingStopIsAccepted'
  BY <1>1 DEF ProtocolIInv, PendingStopIsAccepted, Acknowledges
<1>8. ClearsAreBound'
  <2>1. boot \in Nat
    BY <1>2 DEF TypeOK
  <2>2. \A m : Bound(m) => m.boot \in 1 .. boot + 1 /\ m.boot # boot + 1
    BY <2>1 DEF Bound
  <2> QED
    BY <1>1, <2>1, <2>2 DEF ProtocolIInv, ClearsAreBound, Bound
<1>9. DecidedIsHeld'
  <2>1. pending # NoPending => pending.requester \in Requesters /\ pending.id # 0
    BY <1>2, ProtocolFields
  <2>2. \A q \in Requesters : request_results[q].id = 0
    BY <1>1 DEF ProtocolIInv, DecisionsAreOfRequests, NoResult
  <2> QED
    BY <1>1, <2>1, <2>2 DEF DecidedIsHeld, Decided
<1>10. PromiseIsKept'
  <2>1. Promised' => Promised
    BY <1>1 DEF Promised, Acknowledges
  <2>2. ASSUME Promised
        PROVE  Held' /\ \A i \in 1 .. Len(queue') : queue'[i].stopped
    <3>1. disk.known /\ disk.stopped
      BY <2>2 DEF ProtocolIInv, PromiseIsKept
    <3>2. queue' = <<>> /\ write' = NoWrite /\ locked'
      BY <1>1, <1>2 DEF MemoryInv, BetweenLives
    <3>3. stopped' /\ clear_at' = "none"
      BY <3>1 DEF Start, Restored
    <3>4. \A r \in requests' : ~r.stopped => r.boot # boot'
      BY <1>1, <1>2 DEF ProtocolIInv, ClearsAreBound, Bound, TypeOK
    <3> QED
      BY <3>2, <3>3, <3>4 DEF Held, NoWrite
  <2> QED
    BY <1>1, <2>1, <2>2 DEF ProtocolIInv, PromiseIsKept
<1> QED
  BY <1>3, <1>4, <1>5, <1>6, <1>7, <1>8, <1>9, <1>10 DEF ProtocolIInv

-----------------------------------------------------------------------------
(***************************************************************************)
(* ProtocolIInv is an inductive invariant of the handshake: it holds       *)
(* before either process has started, and each step of the authority, the  *)
(* executor and the transport keeps it.                                    *)
(***************************************************************************)
THEOREM ProtocolInductive == ProtocolSpec => []ProtocolIInv
<1>1. ProtocolInit => ProtocolIInv
  <2> SUFFICES ASSUME ProtocolInit PROVE ProtocolIInv
    OBVIOUS
  <2>1. TypeOK
    <3>1. disk \in Records
      <4>1. [known |-> FALSE, generation |-> 0, stopped |-> TRUE] \in Records
        BY DEF Records
      <4>2. Record(0, TRUE) \in Records /\ Record(0, FALSE) \in Records
        BY DEF Records, Record
      <4> QED
        BY <4>1, <4>2 DEF ProtocolInit, StopInit
    <3> QED
      BY <3>1, BlankTyping, QueueTyping DEF ProtocolInit, StopInit, TypeOK
  <2>2. ProtocolTypeOK
    BY <2>1 DEF ProtocolInit, ProtocolTypeOK, Targets, NoTarget
  <2>3. MemoryInv
    BY DEF ProtocolInit, StopInit, MemoryInv, BetweenLives, Record
  <2>4. RequestsAreNumbered
    BY DEF ProtocolInit, RequestsAreNumbered
  <2>5. DecisionsAreOfRequests
    BY DEF ProtocolInit, StopInit, DecisionsAreOfRequests, NoResult, NoRequest, NoState
  <2>6. PendingStopIsAccepted /\ DecidedIsHeld
    BY DEF ProtocolInit, StopInit, PendingStopIsAccepted, DecidedIsHeld, Decided
  <2>7. ClearsAreBound
    BY NoPendingFields DEF ProtocolInit, StopInit, ClearsAreBound
  <2>8. PromiseIsKept
    BY DEF ProtocolInit, StopInit, PromiseIsKept, Promised, Acknowledges
  <2> QED
    BY <2>2, <2>3, <2>4, <2>5, <2>6, <2>7, <2>8 DEF ProtocolIInv
<1>2. ProtocolIInv /\ [ProtocolNext]_protoVars => ProtocolIInv'
  <2> SUFFICES ASSUME ProtocolIInv, [ProtocolNext]_protoVars PROVE ProtocolIInv'
    OBVIOUS
  <2>1. CASE OnStopEvent
    BY <2>1, RequestStopStep DEF OnStopEvent
  <2>2. CASE OnClearEvent
    BY <2>2, RequestStopStep DEF OnClearEvent
  <2>3. CASE Retransmit
    BY <2>3, TransportStep DEF Retransmit
  <2>4. CASE OnStopState
    BY <2>4, OnStopStateStep
  <2>5. CASE \/ StopStateExpires \/ AuthorityCrash
             \/ requester_id < MaxRequester /\ AuthorityStart
    BY <2>5, AuthorityStep
  <2>6. ASSUME NEW r \in requests, DeliverRequest(r)
        PROVE  ProtocolIInv'
    BY <2>6, DeliverStep
  <2>7. ASSUME NEW r \in requests, LoseRequest(r)
        PROVE  ProtocolIInv'
    <3>1. requests' \subseteq requests
      BY <2>7 DEF LoseRequest
    <3> QED
      BY <2>7, <3>1, TransportStep DEF LoseRequest
  <2>8. CASE TickDelivered \/ TickLost
    BY <2>8, TickStep
  <2>9. CASE ExecutorStep
    BY <2>9, PersistStep, QuietStep, CrashStep, StartStep DEF ExecutorStep
  <2>10. CASE UNCHANGED protoVars
    BY <2>10, TransportStep DEF protoVars
  <2> QED
    BY <2>1, <2>2, <2>3, <2>4, <2>5, <2>6, <2>7, <2>8, <2>9, <2>10 DEF ProtocolNext
<1> QED
  BY <1>1, <1>2, PTL DEF ProtocolSpec

(***************************************************************************)
(* A STOP the authority has taken as applied stays latched and on disk     *)
(* until an operator asks for a clear, over crashes of both processes and  *)
(* every order in which old clears can arrive.                             *)
(***************************************************************************)
THEOREM ConfirmedStopsHold == ProtocolSpec => []ConfirmedStopHolds
<1>1. ProtocolIInv => ConfirmedStopHolds
  BY DEF ProtocolIInv, PromiseIsKept, Promised, Held, ConfirmedStopHolds
<1> QED
  BY <1>1, ProtocolInductive, PTL

(***************************************************************************)
(* The executor never answers the pending STOP of a live authority with a  *)
(* rejection, so _on_stop_state drops it only because it was applied.      *)
(***************************************************************************)
THEOREM PendingStopsAreAccepted == ProtocolSpec => []StopIsNeverRejected
<1>1. ProtocolIInv => StopIsNeverRejected
  BY DEF ProtocolIInv, PendingStopIsAccepted, StopIsNeverRejected
<1> QED
  BY <1>1, ProtocolInductive, PTL

(***************************************************************************)
(* The mux is only unlocked on a persisted clear in the handshake too,     *)
(* where the messages tick() publishes may be lost or come late.           *)
(***************************************************************************)
THEOREM ProtocolUnlockSafe == ProtocolSpec => []UnlockedIsPersistedClear
<1>1. ProtocolIInv => UnlockedIsPersistedClear
  BY DEF ProtocolIInv, MemoryInv, LatchInv, UnlockedIsPersistedClear
<1> QED
  BY <1>1, ProtocolInductive, PTL

=============================================================================
