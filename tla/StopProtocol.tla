---------------------------- MODULE StopProtocol ----------------------------
(***************************************************************************)
(* The STOP handshake: the requester half of CommandAuthorityNode          *)
(* (_request_stop, _on_stop_state, the retransmission in the supervision   *)
(* timer and the CLEAR_STOP guard of _on_control_event) composed with the  *)
(* STOP executor over a transport that delays, reorders, duplicates and    *)
(* loses messages.  Both processes may crash and restart independently.    *)
(*                                                                         *)
(* The executor's state_pub is here the one StopState on its way to the    *)
(* authority: a newer one replaces it or is lost.                          *)
(* Every authority process takes a fresh uuid as requester id: here its    *)
(* number, 1 for the first process.                                        *)
(***************************************************************************)
EXTENDS StopEnforcer, FiniteSets

CONSTANTS
    MaxRequester,   \* bound on the number of authority processes
    MaxLives,       \* bound on the processes of both sides together
    MaxInFlight     \* bound on the requests in flight

ASSUME ProtocolConstants ==
    /\ MaxRequester \in Nat /\ MaxLives \in Nat
    /\ MaxInFlight \in Nat \ {0}
    /\ Requesters = 1 .. MaxRequester

VARIABLES
    auth_alive,       \* is the authority process running?
    requester_id,
    stop_request_id,
    pending,          \* _pending_stop_request, or NoPending
    clear_target,     \* the boot and generation of _stop_state while it is fresh and
                      \* shows an applied STOP that can be cleared, else NoTarget
    requests,         \* StopRequests in flight
    confirmed         \* history: the last resolved handshake confirmed a STOP
                      \* and no clear has been requested since

authVars  == <<auth_alive, requester_id, stop_request_id, pending, clear_target>>
protoVars == <<stopVars, authVars, requests, confirmed>>

NoPending == [requester |-> 0, id |-> 0, stopped |-> TRUE, boot |-> 0, generation |-> 0]

NoTarget == [boot |-> 0, generation |-> 0]

(* A request enters the transport, which may have to drop an older one. *)
Publish(r) ==
    \/ /\ Cardinality(requests \cup {r}) <= MaxInFlight
       /\ requests' = requests \cup {r}
    \/ \E old \in requests \ {r} : requests' = (requests \ {old}) \cup {r}

-----------------------------------------------------------------------------
(* _request_stop(stopped) *)
RequestStop(s) ==
    LET r == [requester |-> requester_id, id |-> stop_request_id + 1, stopped |-> s,
              boot |-> IF s THEN 0 ELSE clear_target.boot,
              generation |-> IF s THEN 0 ELSE clear_target.generation]
    IN  /\ stop_request_id' = stop_request_id + 1
        /\ pending' = r
        /\ Publish(r)

(* _on_control_event for an accepted STOP. *)
OnStopEvent ==
    /\ auth_alive
    /\ RequestStop(TRUE)
    /\ UNCHANGED <<stopVars, auth_alive, requester_id, clear_target, confirmed>>

(* _on_control_event for an accepted CLEAR_STOP.  Without a clear_target   *)
(* the clear is refused and nothing changes.                               *)
OnClearEvent ==
    /\ auth_alive
    /\ clear_target # NoTarget
    /\ RequestStop(FALSE)
    /\ confirmed' = FALSE
    /\ UNCHANGED <<stopVars, auth_alive, requester_id, clear_target>>

(* Mutant of Retransmit: only clears are sent again. *)
RetransmitClearsOnly ==
    /\ auth_alive
    /\ pending # NoPending /\ ~pending.stopped
    /\ Publish(pending)
    /\ UNCHANGED <<stopVars, authVars, confirmed>>

(* The retransmission in _on_supervision_timer (its 50 ms period is the    *)
(* scheduler's choice here).                                               *)
Retransmit ==
    /\ auth_alive
    /\ pending # NoPending
    /\ Publish(pending)
    /\ UNCHANGED <<stopVars, authVars, confirmed>>

(* _on_stop_state(message): does this message settle the pending request?  *)
Acknowledges(m) ==
    /\ pending # NoPending
    /\ m.request.requester = pending.requester
    /\ m.request.id = pending.id

(* The condition of CLEAR_STOP on the stored StopState. *)
ClearEligible(m) == m.healthy /\ m.stopped /\ m.applied

Settles(m) ==
    \/ ~m.request.accepted
    \/ m.request.accepted /\ pending.stopped /\ m.applied
    \/ m.request.accepted /\ ~pending.stopped /\ m.healthy /\ ~m.stopped /\ ~m.locked

OnStopState ==
    /\ auth_alive
    /\ state_pub # NoState
    /\ clear_target' = IF ClearEligible(state_pub)
                       THEN [boot |-> state_pub.boot, generation |-> state_pub.generation]
                       ELSE NoTarget
    /\ state_pub' = NoState
    /\ IF Acknowledges(state_pub) /\ Settles(state_pub)
       THEN /\ pending' = NoPending
            /\ confirmed' = (confirmed \/ pending.stopped)
       ELSE UNCHANGED <<pending, confirmed>>
    /\ UNCHANGED <<disk, alive, boot, latchVars, writeVars, neutral, ackVars, auth_alive,
                   requester_id, stop_request_id, requests>>

(* 150 ms without a StopState: it counts as absent from then on. *)
StopStateExpires ==
    /\ auth_alive
    /\ clear_target # NoTarget
    /\ clear_target' = NoTarget
    /\ UNCHANGED <<stopVars, auth_alive, requester_id, stop_request_id, pending, requests,
                   confirmed>>

AuthorityCrash ==
    /\ auth_alive
    /\ auth_alive' = FALSE
    /\ stop_request_id' = 0
    /\ pending' = NoPending
    /\ clear_target' = NoTarget
    /\ UNCHANGED <<stopVars, requester_id, requests, confirmed>>

(* Mutant of AuthorityStart: the requester id outlives the process. *)
AuthorityStartSameId ==
    /\ ~auth_alive
    /\ auth_alive' = TRUE
    /\ requester_id' = 1
    /\ UNCHANGED <<stopVars, stop_request_id, pending, clear_target, requests, confirmed>>

AuthorityStart ==
    /\ ~auth_alive
    /\ auth_alive' = TRUE
    /\ requester_id' = requester_id + 1
    /\ UNCHANGED <<stopVars, stop_request_id, pending, clear_target, requests, confirmed>>

-----------------------------------------------------------------------------
(* The executor's side: a request arrives, or is lost. *)
DeliverRequest(r) ==
    /\ Request(r)
    /\ requests' = requests \ {r}
    /\ UNCHANGED <<authVars, confirmed>>

LoseRequest(r) ==
    /\ requests' = requests \ {r}
    /\ UNCHANGED <<stopVars, authVars, confirmed>>

(* tick(): its status message is on its way to the authority, or is lost   *)
(* (or not due), so that an older message may arrive late.                 *)
TickDelivered == Tick /\ UNCHANGED <<authVars, requests, confirmed>>
TickLost == TickLatch /\ UNCHANGED <<state_pub, authVars, requests, confirmed>>

(* The processes of both sides so far, and the executor systemd owes. *)
Lives == requester_id + boot + (IF alive THEN 0 ELSE 1)

ExecutorStep ==
    /\ \/ \E b \in BOOLEAN : OnSensors(b)
       \/ OnFinalZero
       \/ \E outcome \in PersistOutcomes : Persist(outcome)
       \/ FinalZeroExpires
       \/ DrainElapses
       \/ boot < MaxBoot /\ Lives < MaxLives /\ Crash
       \/ Start
    /\ UNCHANGED <<authVars, requests, confirmed>>

ProtocolInit ==
    /\ StopInit
    /\ auth_alive = FALSE
    /\ requester_id = 0
    /\ stop_request_id = 0
    /\ pending = NoPending
    /\ clear_target = NoTarget
    /\ requests = {}
    /\ confirmed = FALSE

ProtocolNext ==
    \/ stop_request_id + requester_id <= MaxRequestId /\ (OnStopEvent \/ OnClearEvent)
    \/ Retransmit
    \/ OnStopState
    \/ StopStateExpires
    \/ AuthorityCrash
    \/ requester_id < MaxRequester /\ Lives < MaxLives /\ AuthorityStart
    \/ \E r \in requests : DeliverRequest(r) \/ LoseRequest(r)
    \/ TickDelivered
    \/ TickLost
    \/ ExecutorStep

(***************************************************************************)
(* Fairness: the timers fire, the worker thread runs, systemd restarts a   *)
(* dead executor, the mux publishes the zero it is given, and a message    *)
(* sent over and over eventually arrives.  The tick is strongly fair in    *)
(* states where the zero on /cmd_vel is fresh: zeros come at mux rate and  *)
(* stay fresh for 100 ms, ticks come every 20 ms.  A StopState that says   *)
(* applied is read sooner or later: the subscription queues ten messages.  *)
(***************************************************************************)
ProtocolFairness ==
    /\ WF_protoVars(Retransmit)
    /\ SF_protoVars(\E r \in requests : r = pending /\ DeliverRequest(r))
    /\ SF_protoVars(TickDelivered)
    /\ SF_protoVars(TickDelivered /\ zero_seen)
    /\ SF_protoVars(OnStopState /\ state_pub.applied)
    /\ WF_protoVars(Start /\ UNCHANGED <<authVars, requests, confirmed>>)
    /\ WF_protoVars(OnFinalZero /\ UNCHANGED <<authVars, requests, confirmed>>)
    /\ WF_protoVars(/\ \E outcome \in PersistOutcomes : Persist(outcome)
                    /\ UNCHANGED <<authVars, requests, confirmed>>)

ProtocolSpec == ProtocolInit /\ [][ProtocolNext]_protoVars
FairProtocolSpec == ProtocolSpec /\ ProtocolFairness

-----------------------------------------------------------------------------
(***************************************************************************)
(* A confirmed STOP holds: from the moment the authority drops a pending   *)
(* STOP as applied until an operator asks for a clear, the mux is locked   *)
(* and the record on disk says STOP.  No late, repeated or reordered clear *)
(* of this or an earlier authority process, no crash of either process, no *)
(* failed write and no aborted clear can undo it.                          *)
(***************************************************************************)
ConfirmedStopHolds ==
    confirmed => /\ disk.known /\ disk.stopped
                 /\ alive => locked /\ stopped

(***************************************************************************)
(* A pending STOP is only ever dropped because it was applied: the         *)
(* executor never rejects the newest request of a live authority when it   *)
(* is a STOP, over restarts of both sides.                                 *)
(***************************************************************************)
StopIsNeverRejected ==
    pending # NoPending /\ pending.stopped /\ Acknowledges(state_pub)
        => state_pub.request.accepted

(***************************************************************************)
(* Every STOP an operator asks for is eventually applied, or overtaken by  *)
(* a newer request, unless the authority dies or the write of this very    *)
(* STOP failed: retransmissions are idempotent, so a failed write is not   *)
(* tried again before the next STOP (the mux stays locked meanwhile).      *)
(***************************************************************************)
WriteFailed(r) ==
    /\ alive /\ locked /\ fault /\ write.status = "none"
    /\ request_results[r.requester].id = r.id

PendingStopIsApplied ==
    \A i \in 1 .. MaxRequestId, q \in Requesters :
        LET Waiting == pending.stopped /\ pending.id = i /\ pending.requester = q
        IN  Waiting ~> (~Waiting \/ WriteFailed(pending))

=============================================================================
