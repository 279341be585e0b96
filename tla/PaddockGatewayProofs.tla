------------------------ MODULE PaddockGatewayProofs ------------------------
(***************************************************************************)
(* Proofs about the web process: leases are bracketed, a seed is applied   *)
(* as a whole and under STOP, tuning is confirmed by its own read-back,    *)
(* there is one known recorder, what is shown is present, and a reader is  *)
(* marked with what it is sent, for any number of connections, owners,     *)
(* values, bags, runtimes, routes and frames.                              *)
(*                                                                         *)
(* Each part has an invariant of its own, and every step of the process    *)
(* that is not one of the part's leaves the part's variables alone.        *)
(***************************************************************************)
EXTENDS PaddockGateway, FiniteSetTheorems, SequenceTheorems, TLAPS

-----------------------------------------------------------------------------
(* The leases. *)

EventNames ==
    {"LEASE_ACQUIRED", "LEASE_LOST", "LEASE_RELEASED", "RUN_PRESSED", "RUN_RELEASED",
     "HEARTBEAT", "MANUAL_ACTIVE", "MANUAL_INACTIVE", "STOP", "CLEAR_STOP", "GOAL_SELECTED"}
Events == [event : EventNames, lease : Nat, sequence : Nat]
Gateways == [owner : Connections \cup {NoConnection}, lease : Nat, run_pressed : BOOLEAN,
             manual_active : BOOLEAN, sequence : Nat]
Ends == {"LEASE_RELEASED", "LEASE_LOST"}

(* LeasesAreBracketed, of any sequence of events. *)
Bracketed(s) ==
    \A i, j \in 1 .. Len(s) :
        i < j => /\ s[i].sequence < s[j].sequence
                 /\ s[i].lease = s[j].lease => /\ s[i].event \notin Ends
                                               /\ s[j].event # "LEASE_ACQUIRED"

(* The events of a gateway that has made the given leases, the last event  *)
(* number being number, and holds lease: that one has not ended.           *)
Ledger(s, lease, made, number) ==
    /\ \A i \in 1 .. Len(s) : /\ s[i].lease \in 1 .. made
                              /\ s[i].sequence <= number
                              /\ s[i].event \in Ends => s[i].lease # lease
    /\ Bracketed(s)

LeaseInv ==
    /\ gateway \in Gateways /\ leases \in Nat /\ published \in Seq(Events)
    /\ gateway.lease <= leases
    /\ gateway.owner # NoConnection => gateway.lease # 0
    /\ Ledger(published, gateway.lease, leases, gateway.sequence)

-----------------------------------------------------------------------------
(* The initial pose: the transaction under way has begun with a STOP that  *)
(* stands, and each costmap it no longer waits for was cleared for it.     *)
PoseInv ==
    /\ pose = [phase |-> pose.phase, id |-> pose.id, context |-> pose.context,
               pending |-> pose.pending, failed |-> pose.failed]
    /\ pose.failed \in BOOLEAN
    /\ pose.phase = "clearing" =>
          \A c \in Costmaps : \/ c \in pose.pending \/ pose.failed
                              \/ [id |-> pose.id, costmap |-> c] \in served
    /\ \A call \in clearing : call = [id |-> call.id, costmap |-> call.costmap]
    /\ pose # NoPose => StopStands

(* Tuning: an owner the current read no longer waits for has served it. *)
TuningInv ==
    /\ tuning = [status |-> tuning.status, available |-> tuning.available]
    /\ tuning_op = [kind |-> tuning_op.kind, id |-> tuning_op.id,
                    pending |-> tuning_op.pending, requested |-> tuning_op.requested,
                    failed |-> tuning_op.failed, values |-> tuning_op.values,
                    verification |-> tuning_op.verification]
    /\ tuning_op.kind = "read" =>
          \A o \in Owners : o \in tuning_op.pending \/ <<o, tuning_op.id>> \in reads
    /\ \A a \in answers : a.kind = "read" => <<a.owner, a.id>> \in reads

(* Recordings: a recorder that is not lost is the one of the executor, and *)
(* process ids are never used again.                                       *)
Recorders == [pid : Nat, name : Bags, lost : BOOLEAN]

RecorderInv ==
    /\ recorder_owner \in {"up", "down"} /\ pids \in Nat
    /\ rec = [state |-> rec.state, pid |-> rec.pid, name |-> rec.name]
    /\ recorders \subseteq Recorders
    /\ \A r \in recorders : r.pid <= pids
    /\ \A r, s \in recorders : r.pid = s.pid => r = s
    /\ \A r, s \in recorders : ~r.lost /\ ~s.lost => r = s
    /\ recorder_owner = "up" =>
          \A r \in recorders : ~r.lost => rec.state \in ActiveStates /\ rec.pid = r.pid

-----------------------------------------------------------------------------
(* Map and route. *)

Routes == 1 .. MaxRoutes

Sents == [plans : 0 .. MaxRoutes, profiles : SUBSET Routes, mission : Nat,
          runtimes : Nat, demands : Nat]
Nodes == [runtime : Nat, reader : Nat, wants : SUBSET {"map", "plan"}, plan_readers : BOOLEAN,
          candidates : Seq(Routes), profiles : SUBSET Routes, committed : Nat, mission : Nat]
Seens == [map : Nat, route : 0 .. MaxRoutes]
Sinces == [changes : Nat, plan : [Routes -> Nat], profile : [Routes -> Nat]]

ViewTypeOK ==
    /\ running \in Nat /\ status \in Nat
    /\ sent \in Sents /\ node \in Nodes /\ seen \in Seens /\ since \in Sinces
    /\ heard = [plan |-> heard.plan, profile |-> heard.profile] /\ heard.plan \in Nat
    /\ map_messages \subseteq [reader : Nat \ {0}, of : Nat]

(* Runtimes are told apart by their numbers: a map is never older than the *)
(* runtime its reader belongs to, nor newer than the newest.               *)
MapInv ==
    /\ running # 0 => running = sent.runtimes
    /\ status <= sent.runtimes /\ node.runtime <= sent.runtimes
    /\ node.reader # 0 => node.reader = node.runtime
    /\ node.runtime = 0 => seen.map = 0
    /\ seen.map # 0 => node.runtime <= seen.map /\ seen.map <= sent.runtimes
    /\ \A m \in map_messages : m.reader <= m.of /\ m.of <= sent.runtimes

(* Every half of a route that is kept or shown came within this mission. *)
RouteInv ==
    /\ \A i \in 1 .. Len(node.candidates) : since.plan[node.candidates[i]] = since.changes
    /\ \A r \in node.profiles : since.profile[r] = since.changes
    /\ seen.route # 0 => /\ since.plan[seen.route] = since.changes
                         /\ since.profile[seen.route] = since.changes

ViewInv == ViewTypeOK /\ MapInv /\ RouteInv

-----------------------------------------------------------------------------
(* Leases. *)

(* The events of the owner neither begin nor end a lease. *)
OwnerEvents == EventNames \ ({"LEASE_ACQUIRED"} \cup Ends)

(* The names of events, and the fields of one. *)
LEMMA EventTyping ==
    /\ {"LEASE_ACQUIRED", "LEASE_LOST", "LEASE_RELEASED"} \subseteq EventNames
    /\ {"RUN_PRESSED", "RUN_RELEASED", "HEARTBEAT", "MANUAL_ACTIVE", "MANUAL_INACTIVE", "STOP",
        "CLEAR_STOP", "GOAL_SELECTED"} \subseteq OwnerEvents
    /\ \A n \in EventNames, l, k \in Nat : Event(n, l, k) \in Events
    /\ \A n, l, k : /\ Event(n, l, k).event = n /\ Event(n, l, k).lease = l
                    /\ Event(n, l, k).sequence = k
<1>1. {"LEASE_ACQUIRED", "LEASE_LOST", "LEASE_RELEASED"} \subseteq EventNames
  BY DEF EventNames
<1>2. {"RUN_PRESSED", "RUN_RELEASED", "HEARTBEAT", "MANUAL_ACTIVE", "MANUAL_INACTIVE", "STOP",
       "CLEAR_STOP", "GOAL_SELECTED"} \subseteq OwnerEvents
  BY DEF EventNames, OwnerEvents, Ends
<1>3. \A n \in EventNames, l, k \in Nat : Event(n, l, k) \in Events
  BY DEF Event, Events
<1>4. \A n, l, k : /\ Event(n, l, k).event = n /\ Event(n, l, k).lease = l
                   /\ Event(n, l, k).sequence = k
  BY DEF Event
<1> QED
  BY <1>1, <1>2, <1>3, <1>4

(* The gateway after an event, and after a grant. *)
LEMMA GatewayTyping ==
    ASSUME NEW g \in Gateways
    PROVE  /\ g.owner \in Connections \cup {NoConnection} /\ g.lease \in Nat /\ g.sequence \in Nat
           /\ g.run_pressed \in BOOLEAN /\ g.manual_active \in BOOLEAN
BY DEF Gateways

(* Another number leaves the rest of the gateway alone. *)
LEMMA NumberedGateway ==
    ASSUME NEW g \in Gateways, NEW n \in Nat
    PROVE  /\ [g EXCEPT !.sequence = n] \in Gateways
           /\ [g EXCEPT !.sequence = n].owner = g.owner
           /\ [g EXCEPT !.sequence = n].lease = g.lease
           /\ [g EXCEPT !.sequence = n].sequence = n
BY DEF Gateways

(* The gateway without a lease. *)
LEMMA NoLeaseTyping ==
    NoLease \in [owner : {NoConnection}, lease : {0}, run_pressed : BOOLEAN,
                 manual_active : BOOLEAN, sequence : {0}]
BY DEF NoLease

(* What an event appended to a sequence leaves of it. *)
LEMMA AppendFields ==
    ASSUME NEW s \in Seq(Events), NEW e \in Events
    PROVE  /\ Append(s, e) \in Seq(Events)
           /\ Len(s) \in Nat /\ Len(Append(s, e)) = Len(s) + 1
           /\ \A i \in 1 .. Len(s) : Append(s, e)[i] = s[i] /\ s[i] \in Events
           /\ Append(s, e)[Len(s) + 1] = e
OBVIOUS

(* An event under the lease held, or the first one of a new lease, may     *)
(* follow; afterwards a lease may be held that has not ended with it.      *)
LEMMA LedgerGrows ==
    ASSUME NEW s \in Seq(Events), NEW e \in Events,
           NEW lease \in Nat, NEW made \in Nat, NEW number \in Nat,
           NEW lease2 \in Nat, NEW made2 \in Nat, made <= made2,
           Ledger(s, lease, made, number),
           e.sequence = number + 1, e.lease \in 1 .. made2,
           \/ e.lease = lease /\ e.event # "LEASE_ACQUIRED"
           \/ e.lease > made /\ e.event \notin Ends,
           \/ lease2 \notin 1 .. made2
           \/ lease2 = e.lease /\ e.event \notin Ends
    PROVE  Ledger(Append(s, e), lease2, made2, number + 1)
<1> DEFINE t == Append(s, e)
<1>1. /\ Len(s) \in Nat /\ Len(t) = Len(s) + 1 /\ t[Len(s) + 1] = e
      /\ \A i \in 1 .. Len(s) : t[i] = s[i]
  BY AppendFields
<1>2. \A i \in 1 .. Len(s) : s[i].lease \in Nat /\ s[i].sequence \in Nat
  BY AppendFields DEF Events
<1>3. e.lease \in Nat /\ e.sequence \in Nat
  BY DEF Events
<1>4. ASSUME NEW i \in 1 .. Len(s)
      PROVE  /\ s[i].lease \in Nat /\ s[i].sequence \in Nat
             /\ s[i].lease \in 1 .. made /\ s[i].sequence <= number
             /\ s[i].event \in Ends => s[i].lease # lease
  <2>1. /\ s[i].lease \in 1 .. made /\ s[i].sequence <= number
        /\ s[i].event \in Ends => s[i].lease # lease
    BY DEF Ledger
  <2> QED
    BY <1>2, <2>1
<1> HIDE DEF t
<1>5. \A i \in 1 .. Len(t) : i \in 1 .. Len(s) \/ i = Len(s) + 1
  BY <1>1
<1>6. ASSUME NEW i \in 1 .. Len(t)
      PROVE  /\ t[i].lease \in 1 .. made2 /\ t[i].sequence <= number + 1
             /\ t[i].event \in Ends => t[i].lease # lease2
  <2>1. CASE i = Len(s) + 1
    BY <1>1, <1>3, <2>1
  <2>2. CASE i \in 1 .. Len(s)
    <3>1. /\ t[i] = s[i] /\ s[i].lease \in Nat /\ s[i].sequence \in Nat
          /\ s[i].lease \in 1 .. made /\ s[i].sequence <= number
          /\ s[i].event \in Ends => s[i].lease # lease
      BY <1>1, <1>4, <2>2
    <3>2. s[i].lease \in 1 .. made2 /\ s[i].sequence <= number + 1
      BY <3>1
    <3>3. s[i].event \in Ends => s[i].lease # lease2
      BY <3>1, <3>2
    <3> QED
      BY <3>1, <3>2, <3>3
  <2> QED
    BY <1>5, <2>1, <2>2
<1>7. Bracketed(t)
  <2> SUFFICES ASSUME NEW i \in 1 .. Len(t), NEW j \in 1 .. Len(t), i < j
               PROVE  /\ t[i].sequence < t[j].sequence
                      /\ t[i].lease = t[j].lease => /\ t[i].event \notin Ends
                                                    /\ t[j].event # "LEASE_ACQUIRED"
    BY DEF Bracketed
  <2>1. i \in 1 .. Len(s) /\ t[i] = s[i]
    BY <1>1, <1>5
  <2>2. CASE j \in 1 .. Len(s)
    BY <1>1, <2>1, <2>2 DEF Ledger, Bracketed
  <2>3. CASE j = Len(s) + 1
    <3>1. t[j] = e
      BY <1>1, <2>3
    <3>2. /\ s[i].lease \in Nat /\ s[i].sequence \in Nat
          /\ s[i].lease \in 1 .. made /\ s[i].sequence <= number
          /\ s[i].event \in Ends => s[i].lease # lease
      BY <1>4, <2>1
    <3>3. t[i].sequence < t[j].sequence
      BY <1>3, <2>1, <3>1, <3>2
    <3>4. ASSUME s[i].lease = e.lease
          PROVE  s[i].event \notin Ends /\ e.event # "LEASE_ACQUIRED"
      BY <1>3, <3>2, <3>4
    <3> QED
      BY <2>1, <3>1, <3>3, <3>4
  <2> QED
    BY <1>5, <2>2, <2>3
<1>8. \A i \in 1 .. Len(t) : /\ t[i].lease \in 1 .. made2 /\ t[i].sequence <= number + 1
                             /\ t[i].event \in Ends => t[i].lease # lease2
  BY <1>6
<1>9. Ledger(t, lease2, made2, number + 1)
  BY <1>7, <1>8 DEF Ledger
<1> QED
  BY <1>9 DEF t

(* _control: an event under the lease held, which may end with it. *)
LEMMA EmitStep ==
    ASSUME LeaseInv, gateway.owner # NoConnection,
           NEW after \in Gateways, NEW name \in EventNames,
           Emit(after, name), after.sequence = gateway.sequence, name # "LEASE_ACQUIRED",
           \/ /\ after.owner = gateway.owner /\ after.lease = gateway.lease
              /\ name \notin Ends
           \/ after.owner = NoConnection /\ after.lease = 0
    PROVE  LeaseInv'
<1> DEFINE e == Event(name, gateway.lease, gateway.sequence + 1)
<1>1. /\ gateway.lease \in Nat /\ gateway.sequence \in Nat /\ leases \in Nat
      /\ gateway.lease <= leases /\ gateway.lease # 0 /\ published \in Seq(Events)
  BY DEF LeaseInv, Gateways
<1>2. /\ e \in Events /\ e.sequence = gateway.sequence + 1 /\ e.lease = gateway.lease
      /\ e.event = name
  BY <1>1, EventTyping
<1>3. /\ gateway' \in Gateways /\ gateway'.owner = after.owner
      /\ gateway'.lease = after.lease /\ gateway'.sequence = gateway.sequence + 1
  <2>1. after.sequence \in Nat /\ gateway.sequence + 1 \in Nat
    BY <1>1
  <2>2. gateway' = [after EXCEPT !.sequence = gateway.sequence + 1]
    BY DEF Emit
  <2> QED
    BY <2>1, <2>2, NumberedGateway
<1>4. published' = Append(published, e) /\ leases' = leases
  BY DEF Emit
<1> HIDE DEF e
<1>5. after.lease \in Nat /\ e.lease \in 1 .. leases
  BY <1>1, <1>2 DEF Gateways
<1>6. Ledger(published, gateway.lease, leases, gateway.sequence)
  BY DEF LeaseInv
<1>7. \/ after.lease \notin 1 .. leases
      \/ after.lease = e.lease /\ e.event \notin Ends
  BY <1>2
<1>8. Ledger(Append(published, e), after.lease, leases, gateway.sequence + 1)
  <2>1. leases <= leases
    BY <1>1
  <2>2. e.lease = gateway.lease /\ e.event # "LEASE_ACQUIRED"
    BY <1>2
  <2> QED
    BY <1>1, <1>2, <1>5, <1>6, <1>7, <2>1, <2>2, LedgerGrows
<1>9. Ledger(published', gateway'.lease, leases', gateway'.sequence)
  BY <1>3, <1>4, <1>8
<1>10. published' \in Seq(Events)
  BY <1>1, <1>2, <1>4, AppendFields
<1> QED
  BY <1>1, <1>3, <1>4, <1>9, <1>10 DEF LeaseInv

(* The new lease: alone, or after the loss of the old one. *)
LEMMA GrantStep ==
    ASSUME LeaseInv, NEW c \in Connections,
           \/ Grant(c, <<>>)
           \/ gateway.owner # NoConnection /\ Grant(c, Revocation)
    PROVE  LeaseInv'
<1>1. /\ gateway.lease \in Nat /\ gateway.sequence \in Nat /\ leases \in Nat
      /\ gateway.lease <= leases /\ published \in Seq(Events)
      /\ gateway.owner # NoConnection => gateway.lease # 0
      /\ Ledger(published, gateway.lease, leases, gateway.sequence)
  BY DEF LeaseInv, Gateways
<1>2. ASSUME NEW n \in Nat, NEW s \in Seq(Events), NEW lease \in Nat,
             Ledger(s, lease, leases, n),
             leases' = leases + 1,
             gateway' = [NoLease EXCEPT !.owner = c, !.lease = leases + 1, !.sequence = n + 1],
             published' = Append(s, Event("LEASE_ACQUIRED", leases + 1, n + 1))
      PROVE  LeaseInv'
  <2> DEFINE e == Event("LEASE_ACQUIRED", leases + 1, n + 1)
  <2>1. /\ e \in Events /\ e.sequence = n + 1 /\ e.lease = leases + 1
        /\ e.event = "LEASE_ACQUIRED"
    <3>1. leases + 1 \in Nat /\ n + 1 \in Nat
      BY <1>1, <1>2
    <3> QED
      BY <3>1, EventTyping
  <2>2. /\ gateway' \in Gateways /\ gateway'.owner = c /\ gateway'.lease = leases + 1
        /\ gateway'.sequence = n + 1
    <3>1. leases + 1 \in Nat /\ n + 1 \in Nat /\ c \in Connections \cup {NoConnection}
      BY <1>1, <1>2
    <3> DEFINE g == [NoLease EXCEPT !.owner = c, !.lease = leases + 1, !.sequence = n + 1]
    <3>2. g \in Gateways /\ g.owner = c /\ g.lease = leases + 1 /\ g.sequence = n + 1
      BY <3>1, NoLeaseTyping DEF Gateways
    <3>3. gateway' = g
      BY <1>2
    <3> HIDE DEF g
    <3> QED
      BY <3>2, <3>3
  <2> HIDE DEF e
  <2>3. leases + 1 \in Nat /\ leases <= leases + 1 /\ e.lease \in 1 .. leases + 1
        /\ e.lease > leases /\ e.event \notin Ends
    BY <1>1, <2>1 DEF Ends
  <2>4. Ledger(Append(s, e), leases + 1, leases + 1, n + 1)
    BY <1>1, <1>2, <2>1, <2>3, LedgerGrows
  <2>5. published' = Append(s, e)
    BY <1>2 DEF e
  <2>6. Ledger(published', gateway'.lease, leases', gateway'.sequence)
    BY <1>2, <2>2, <2>4, <2>5
  <2>7. published' \in Seq(Events)
    BY <1>2, <2>1, <2>5, AppendFields
  <2> QED
    BY <1>1, <1>2, <2>2, <2>6, <2>7 DEF LeaseInv
<1>3. CASE Grant(c, <<>>)
  <2> DEFINE e == Event("LEASE_ACQUIRED", leases + 1, gateway.sequence + 1)
  <2>1. e \in Events
    BY <1>1, EventTyping
  <2>0. gateway.sequence + Len(<<>>) + 1 = gateway.sequence + 1
    BY <1>1
  <2>2. published' = published \o Append(<<>>, e)
    BY <1>3, <2>0 DEF Grant
  <2>3. gateway' = [NoLease EXCEPT !.owner = c, !.lease = leases + 1,
                                   !.sequence = gateway.sequence + 1]
    BY <1>3, <2>0 DEF Grant
  <2>4. leases' = leases + 1
    BY <1>3 DEF Grant
  <2> HIDE DEF e
  <2>5. published \o Append(<<>>, e) = Append(published, e)
    BY <1>1, <2>1
  <2> QED
    BY <1>1, <1>2, <2>2, <2>3, <2>4, <2>5 DEF e
<1>4. CASE gateway.owner # NoConnection /\ Grant(c, Revocation)
  <2> DEFINE lost == Event("LEASE_LOST", gateway.lease, gateway.sequence + 1)
             e == Event("LEASE_ACQUIRED", leases + 1, (gateway.sequence + 1) + 1)
  <2>1. /\ lost \in Events /\ lost.sequence = gateway.sequence + 1
        /\ lost.lease = gateway.lease /\ lost.event = "LEASE_LOST"
    BY <1>1, EventTyping
  <2>2. e \in Events
    BY <1>1, EventTyping
  <2>3. Len(Revocation) = 1 /\ Revocation = <<lost>>
    BY DEF Revocation
  <2>4. gateway.sequence + Len(Revocation) + 1 = (gateway.sequence + 1) + 1
    BY <1>1, <2>3
  <2>5. published' = published \o Append(<<lost>>, e)
    BY <1>4, <2>3, <2>4 DEF Grant
  <2>6. gateway' = [NoLease EXCEPT !.owner = c, !.lease = leases + 1,
                                   !.sequence = (gateway.sequence + 1) + 1]
    BY <1>4, <2>4 DEF Grant
  <2>7. leases' = leases + 1
    BY <1>4 DEF Grant
  <2> HIDE DEF lost, e
  <2>8. published \o Append(<<lost>>, e) = Append(Append(published, lost), e)
    BY <1>1, <2>1, <2>2
  <2>9. Append(published, lost) \in Seq(Events)
    BY <1>1, <2>1, AppendFields
  <2>10. /\ leases + 1 \in Nat /\ leases + 1 \notin 1 .. leases
         /\ lost.lease \in 1 .. leases /\ gateway.sequence + 1 \in Nat /\ leases <= leases
    BY <1>1, <1>4, <2>1
  <2>11. Ledger(Append(published, lost), leases + 1, leases, gateway.sequence + 1)
    BY <1>1, <2>1, <2>10, LedgerGrows
  <2> QED
    BY <1>2, <2>5, <2>6, <2>7, <2>8, <2>9, <2>10, <2>11 DEF e
<1> QED
  BY <1>3, <1>4

(* on_disconnect, of the owner or of anybody else. *)
LEMMA DisconnectStep ==
    ASSUME LeaseInv, NEW c \in Connections, on_disconnect(c)
    PROVE  LeaseInv'
<1>1. CASE Owns(c)
  <2>1. gateway.owner # NoConnection
    BY <1>1, GatewayConstants DEF Owns
  <2>2. /\ Free \in Gateways /\ Free.sequence = gateway.sequence
        /\ Free.owner = NoConnection /\ Free.lease = 0
    BY DEF LeaseInv, Gateways, Free, NoLease
  <2> QED
    BY <1>1, <2>1, <2>2, EmitStep, EventTyping DEF on_disconnect
<1>2. CASE ~Owns(c)
  BY <1>2 DEF on_disconnect, LeaseInv
<1> QED
  BY <1>1, <1>2

(* An event of the owner that changes nothing but RUN and manual. *)
LEMMA OwnerEvent ==
    ASSUME LeaseInv, NEW c \in Connections, Owns(c), NEW run \in BOOLEAN, NEW manual \in BOOLEAN,
           NEW name \in OwnerEvents,
           NEW after, after = [gateway EXCEPT !.run_pressed = run, !.manual_active = manual],
           Emit(after, name)
    PROVE  LeaseInv'
<1>1. gateway.owner # NoConnection
  BY GatewayConstants DEF Owns
<1>2. /\ after \in Gateways /\ after.sequence = gateway.sequence
      /\ after.owner = gateway.owner /\ after.lease = gateway.lease
  BY DEF LeaseInv, Gateways
<1>3. name \in EventNames /\ name # "LEASE_ACQUIRED" /\ name \notin Ends
  BY DEF OwnerEvents
<1> QED
  BY <1>1, <1>2, <1>3, EmitStep

(* handle: each message of the owner, or a change of owner. *)
LEMMA HandleStep ==
    ASSUME LeaseInv, NEW c \in Connections, NEW message, NEW blocked \in BOOLEAN,
           Handle(c, message, blocked)
    PROVE  LeaseInv'
<1>1. CASE _do_acquire(c) \/ _do_takeover(c)
  <2>1. Grant(c, <<>>) \/ (gateway.owner # NoConnection /\ Grant(c, Revocation))
    BY <1>1 DEF _do_acquire, _do_takeover
  <2> QED
    BY <2>1, GrantStep
<1>2. CASE on_disconnect(c)
  BY <1>2, DisconnectStep
<1>3. ASSUME Owns(c), NEW name \in OwnerEvents, Emit(gateway, name)
      PROVE  LeaseInv'
  <2>1. /\ gateway.owner # NoConnection /\ gateway \in Gateways
        /\ name \in EventNames /\ name # "LEASE_ACQUIRED" /\ name \notin Ends
    BY <1>3, GatewayConstants DEF Owns, LeaseInv, OwnerEvents
  <2> QED
    BY <1>3, <2>1, EmitStep
<1>4. ASSUME Owns(c), NEW held \in BOOLEAN, _do_run(held)
      PROVE  LeaseInv'
  <2>1. PICK name \in {"RUN_RELEASED", "HEARTBEAT", "RUN_PRESSED"} :
                Emit([gateway EXCEPT !.run_pressed = held], name)
    BY <1>4 DEF _do_run
  <2>2. [gateway EXCEPT !.run_pressed = held] =
           [gateway EXCEPT !.run_pressed = held, !.manual_active = gateway.manual_active]
    BY DEF LeaseInv, Gateways
  <2>3. gateway.manual_active \in BOOLEAN
    BY DEF LeaseInv, Gateways
  <2> QED
    BY <1>4, <2>1, <2>2, <2>3, OwnerEvent, EventTyping
<1>5. ASSUME Owns(c), NEW active \in BOOLEAN, _do_manual(active)
      PROVE  LeaseInv'
  <2>1. PICK name \in {"MANUAL_ACTIVE", "MANUAL_INACTIVE"} :
                Emit([gateway EXCEPT !.manual_active = active,
                                     !.run_pressed = IF active THEN FALSE ELSE @], name)
    BY <1>5 DEF _do_manual
  <2>2. gateway \in Gateways /\ gateway.run_pressed \in BOOLEAN
    BY DEF LeaseInv, Gateways
  <2>3. PICK run \in BOOLEAN : run = IF active THEN FALSE ELSE gateway.run_pressed
    BY <2>2
  <2>4. [gateway EXCEPT !.manual_active = active,
                        !.run_pressed = IF active THEN FALSE ELSE @] =
           [gateway EXCEPT !.run_pressed = run, !.manual_active = active]
    BY <2>2, <2>3 DEF Gateways
  <2> QED
    BY <1>5, <2>1, <2>4, OwnerEvent, EventTyping
<1>6. ASSUME Owns(c), _do_stop
      PROVE  LeaseInv'
  BY <1>6, OwnerEvent, EventTyping DEF _do_stop
<1>7. ASSUME Owns(c), _do_clear_stop(blocked)
      PROVE  LeaseInv'
  <2>1. CASE ~blocked
    BY <1>3, <1>7, <2>1, EventTyping DEF _do_clear_stop
  <2>2. CASE blocked
    <3>1. /\ gateway' = [gateway EXCEPT !.sequence = @ + 1]
          /\ UNCHANGED <<leases, published>>
      BY <1>7, <2>2 DEF _do_clear_stop
    <3>2. /\ gateway \in Gateways /\ gateway.sequence \in Nat
          /\ Ledger(published, gateway.lease, leases, gateway.sequence)
          /\ published \in Seq(Events)
      BY DEF LeaseInv, Gateways
    <3>3. /\ gateway' \in Gateways /\ gateway'.sequence = gateway.sequence + 1
          /\ gateway'.lease = gateway.lease /\ gateway'.owner = gateway.owner
      BY <3>1, <3>2 DEF Gateways
    <3>4. \A i \in 1 .. Len(published) : published[i].sequence \in Nat
      <4>1. \A i \in 1 .. Len(published) : published[i] \in Events
        BY <3>2
      <4> QED
        BY <4>1 DEF Events
    <3>5. Ledger(published, gateway.lease, leases, gateway.sequence + 1)
      <4>1. ASSUME NEW i \in 1 .. Len(published)
            PROVE  published[i].sequence <= gateway.sequence + 1
        <5>1. published[i].sequence <= gateway.sequence
          BY <3>2 DEF Ledger
        <5> QED
          BY <3>2, <3>4, <5>1
      <4> QED
        BY <3>2, <4>1 DEF Ledger
    <3> QED
      BY <3>1, <3>3, <3>5 DEF LeaseInv
  <2> QED
    BY <2>1, <2>2
<1>8. CASE Owns(c) /\ (_do_heartbeat \/ _do_select_goal)
  BY <1>3, <1>8, EventTyping DEF _do_heartbeat, _do_select_goal
<1> QED
  BY <1>1, <1>2, <1>4, <1>5, <1>6, <1>7, <1>8 DEF Handle

(* The gateway changes in a submission and in a disconnection only. *)
LEMMA LeaseStep ==
    ASSUME LeaseInv, [Next]_vars
    PROVE  LeaseInv'
<1>1. CASE UNCHANGED <<gateway, leases, published>>
  BY <1>1 DEF LeaseInv
<1>2. ASSUME NEW c \in Connections, Submit(c)
      PROVE  LeaseInv'
  <2>1. CASE SubmitControl(c, threads[c])
    <3>1. CASE Refuse(c, threads[c])
      BY <1>1, <3>1 DEF Refuse
    <3>2. CASE Handle(c, threads[c], pose # NoPose)
      <4>1. PICK blocked \in BOOLEAN : blocked = (pose # NoPose)
        OBVIOUS
      <4> QED
        BY <3>2, <4>1, HandleStep
    <3> QED
      BY <2>1, <3>1, <3>2 DEF SubmitControl
  <2>2. CASE Owns(c) /\ SubmitPose
    BY <2>2, OwnerEvent, EventTyping DEF SubmitPose, _do_stop
  <2>3. CASE SubmitParameters(threads[c])
    BY <1>1, <2>3 DEF SubmitParameters
  <2> QED
    BY <1>2, <2>1, <2>2, <2>3 DEF Submit
<1>3. CASE DisconnectConnection
  BY <1>3, DisconnectStep DEF DisconnectConnection, Disconnect
<1>4. CASE ReceiveMessage \/ DropConnection
  BY <1>1, <1>4 DEF ReceiveMessage, Receive, DropConnection, Drop
<1>5. CASE \/ PoseInput \/ PoseStep \/ TuningStep \/ LayerStep \/ LayerChanges
           \/ RecordingInput \/ RecordingStep \/ StreamInput \/ StreamStep
  BY <1>1, <1>5 DEF PoseInput, PoseStep, TuningStep, LayerStep, LayerChanges, RecordingInput,
     RecordingStep, StreamInput, StreamStep, gateVars
<1>6. CASE ViewStep \/ UNCHANGED vars
  BY <1>1, <1>6 DEF ViewStep, gatewayVars, vars
<1> QED
  BY <1>2, <1>3, <1>4, <1>5, <1>6 DEF Next

(***************************************************************************)
(* LeaseInv is an inductive invariant: each lease made is either the one   *)
(* held, under which the gateway signs its events, or has ended for good.  *)
(***************************************************************************)
THEOREM LeaseInductive == Spec => []LeaseInv
<1>1. Init => LeaseInv
  <2> SUFFICES ASSUME Init PROVE LeaseInv
    OBVIOUS
  <2>1. gateway = NoLease /\ leases = 0 /\ published = <<>>
    BY DEF Init, GatewayInit
  <2>2. gateway \in Gateways /\ gateway.lease = 0 /\ gateway.owner = NoConnection
    BY <2>1 DEF NoLease, Gateways
  <2>3. published \in Seq(Events) /\ Len(published) = 0
    BY <2>1
  <2>4. Ledger(published, gateway.lease, leases, gateway.sequence)
    BY <2>3 DEF Ledger, Bracketed
  <2> QED
    BY <2>1, <2>2, <2>3, <2>4 DEF LeaseInv
<1> QED
  BY <1>1, LeaseStep, PTL DEF Spec

(***************************************************************************)
(* Every lease the gateway grants begins with its acquisition and ends     *)
(* with its release or loss, and no event number is used twice.            *)
(***************************************************************************)
THEOREM LeasesBracketed == Spec => []LeasesAreBracketed
<1>1. LeaseInv => LeasesAreBracketed
  <2> SUFFICES ASSUME LeaseInv PROVE LeasesAreBracketed
    OBVIOUS
  <2>1. DOMAIN published = 1 .. Len(published)
    BY DEF LeaseInv
  <2> QED
    BY <2>1 DEF LeaseInv, Ledger, Bracketed, LeasesAreBracketed, Ends
<1> QED
  BY <1>1, LeaseInductive, PTL

-----------------------------------------------------------------------------
(* The initial pose. *)

Stands(s) ==
    \E i \in DOMAIN s : /\ s[i].event = "STOP"
                        /\ \A j \in DOMAIN s : i < j => s[j].event # "CLEAR_STOP"

(* A STOP stands until a CLEAR STOP, whatever else is published. *)
LEMMA StopsStand ==
    ASSUME NEW s \in Seq(Events), NEW e \in Events,
           \/ e.event = "STOP"
           \/ Stands(s) /\ e.event # "CLEAR_STOP"
    PROVE  Stands(Append(s, e))
<1> DEFINE t == Append(s, e)
<1>1. /\ Len(s) \in Nat /\ Len(t) = Len(s) + 1 /\ t[Len(s) + 1] = e
      /\ \A i \in 1 .. Len(s) : t[i] = s[i]
      /\ DOMAIN s = 1 .. Len(s) /\ DOMAIN t = 1 .. Len(s) + 1
  BY AppendFields
<1> HIDE DEF t
<1>2. CASE e.event = "STOP"
  BY <1>1, <1>2 DEF Stands, t
<1>3. CASE Stands(s) /\ e.event # "CLEAR_STOP"
  <2>1. PICK i \in DOMAIN s :
           /\ s[i].event = "STOP"
           /\ \A j \in DOMAIN s : i < j => s[j].event # "CLEAR_STOP"
    BY <1>3 DEF Stands
  <2>2. i \in DOMAIN t /\ t[i].event = "STOP"
    BY <1>1, <2>1
  <2>3. ASSUME NEW j \in DOMAIN t, i < j
        PROVE  t[j].event # "CLEAR_STOP"
    <3>1. CASE j \in 1 .. Len(s)
      BY <1>1, <2>1, <2>3, <3>1
    <3>2. CASE j = Len(s) + 1
      BY <1>1, <1>3, <3>2
    <3> QED
      BY <1>1, <3>1, <3>2
  <2>4. Stands(t)
    BY <2>2, <2>3 DEF Stands
  <2> QED
    BY <2>4 DEF t
<1> QED
  BY <1>2, <1>3

(* _control: a STOP that stands before an event stands after it. *)
LEMMA EmitStands ==
    ASSUME LeaseInv, NEW after, NEW name \in EventNames, Emit(after, name),
           \/ name = "STOP"
           \/ StopStands /\ name # "CLEAR_STOP"
    PROVE  StopStands'
<1> DEFINE e == Event(name, gateway.lease, gateway.sequence + 1)
<1>1. /\ gateway.lease \in Nat /\ gateway.sequence \in Nat /\ published \in Seq(Events)
  BY GatewayTyping DEF LeaseInv
<1>2. e \in Events /\ e.event = name
  BY <1>1, EventTyping
<1>3. published' = Append(published, e)
  BY DEF Emit
<1> HIDE DEF e
<1>4. Stands(Append(published, e))
  <2>1. CASE name = "STOP"
    BY <1>1, <1>2, <2>1, StopsStand
  <2>2. CASE StopStands /\ name # "CLEAR_STOP"
    <3>1. Stands(published)
      BY <2>2 DEF StopStands, Stands
    <3> QED
      BY <1>1, <1>2, <2>2, <3>1, StopsStand
  <2> QED
    BY <2>1, <2>2
<1> QED
  BY <1>3, <1>4 DEF Stands, StopStands

(* A change of owner clears no STOP. *)
LEMMA GrantStands ==
    ASSUME LeaseInv, NEW c \in Connections, Grant(c, <<>>) \/ Grant(c, Revocation), StopStands
    PROVE  StopStands'
<1>1. /\ gateway.lease \in Nat /\ gateway.sequence \in Nat /\ published \in Seq(Events)
      /\ leases \in Nat
  BY GatewayTyping DEF LeaseInv
<1>2. Stands(published)
  BY DEF StopStands, Stands
<1>3. PICK n \in Nat :
         /\ Grant(c, <<>>) =>
               published' = published \o Append(<<>>, Event("LEASE_ACQUIRED", leases + 1, n))
         /\ Grant(c, Revocation) =>
               published' = published \o
                  Append(Revocation, Event("LEASE_ACQUIRED", leases + 1, n))
  <2>1. CASE Grant(c, <<>>) /\ ~Grant(c, Revocation)
    <3>1. gateway.sequence + Len(<<>>) + 1 \in Nat
      BY <1>1
    <3> QED
      BY <2>1, <3>1 DEF Grant
  <2>2. CASE Grant(c, Revocation) /\ ~Grant(c, <<>>)
    <3>1. gateway.sequence + Len(Revocation) + 1 \in Nat
      BY <1>1 DEF Revocation
    <3> QED
      BY <2>2, <3>1 DEF Grant
  <2>3. CASE Grant(c, Revocation) /\ Grant(c, <<>>)
    <3>1. gateway.sequence + Len(<<>>) + 1 = gateway.sequence + Len(Revocation) + 1
      BY <2>3, NoLeaseTyping DEF Grant
    <3> QED
      BY <1>1, <3>1 DEF Revocation
  <2> QED
    BY <2>1, <2>2, <2>3
<1> DEFINE e == Event("LEASE_ACQUIRED", leases + 1, n)
           lost == Event("LEASE_LOST", gateway.lease, gateway.sequence + 1)
<1>4. /\ e \in Events /\ e.event = "LEASE_ACQUIRED"
      /\ lost \in Events /\ lost.event = "LEASE_LOST" /\ Revocation = <<lost>>
  <2>1. leases + 1 \in Nat /\ gateway.sequence + 1 \in Nat
    BY <1>1
  <2> QED
    BY <1>1, <2>1, EventTyping DEF Revocation
<1>5. \/ published' = published \o Append(<<>>, e)
      \/ published' = published \o Append(<<lost>>, e)
  BY <1>3, <1>4
<1> HIDE DEF e, lost
<1>6. CASE published' = published \o Append(<<>>, e)
  <2>1. published' = Append(published, e)
    BY <1>1, <1>4, <1>6
  <2>2. Stands(Append(published, e))
    BY <1>1, <1>2, <1>4, StopsStand
  <2> QED
    BY <2>1, <2>2 DEF Stands, StopStands
<1>7. CASE published' = published \o Append(<<lost>>, e)
  <2>1. published' = Append(Append(published, lost), e) /\ Append(published, lost) \in Seq(Events)
    BY <1>1, <1>4, <1>7
  <2>2. Stands(Append(published, lost))
    BY <1>1, <1>2, <1>4, StopsStand
  <2>3. Stands(Append(Append(published, lost), e))
    BY <1>4, <2>1, <2>2, StopsStand
  <2> QED
    BY <2>1, <2>3 DEF Stands, StopStands
<1> QED
  BY <1>5, <1>6, <1>7

(* A CLEAR STOP that is blocked is not published. *)
LEMMA HandleStands ==
    ASSUME LeaseInv, StopStands, NEW c \in Connections, NEW message,
           NEW blocked, blocked, Handle(c, message, blocked)
    PROVE  StopStands'
<1>1. CASE Grant(c, <<>>) \/ Grant(c, Revocation)
  BY <1>1, GrantStands
<1>2. ASSUME NEW after, NEW name \in EventNames \ {"CLEAR_STOP"}, Emit(after, name)
      PROVE  StopStands'
  BY <1>2, EmitStands
<1>3. CASE UNCHANGED published
  BY <1>3 DEF StopStands
<1>4. CASE _do_acquire(c) \/ _do_takeover(c)
  BY <1>1, <1>4 DEF _do_acquire, _do_takeover
<1>5. CASE on_disconnect(c)
  BY <1>2, <1>3, <1>5 DEF on_disconnect, EventNames
<1>6. ASSUME NEW held, _do_run(held)
      PROVE  StopStands'
  BY <1>2, <1>6 DEF _do_run, EventNames
<1>7. ASSUME NEW active, _do_manual(active)
      PROVE  StopStands'
  BY <1>2, <1>7 DEF _do_manual, EventNames
<1>8. CASE _do_stop \/ _do_heartbeat \/ _do_select_goal
  BY <1>2, <1>8 DEF _do_stop, _do_heartbeat, _do_select_goal, EventNames
<1>9. CASE _do_clear_stop(blocked)
  BY <1>3, <1>9 DEF _do_clear_stop
<1> QED
  BY <1>4, <1>5, <1>6, <1>7, <1>8, <1>9 DEF Handle

(* A step of the transaction. *)
LEMMA PoseAdvances ==
    ASSUME PoseInv, PoseStep
    PROVE  /\ PoseInv'
           /\ pose_state' = "applied" /\ pose_state # "applied" =>
                /\ {[id |-> pose.id, costmap |-> c] : c \in Costmaps} \subseteq served'
                /\ StopStands
<1> DEFINE Whole == pose_state' = "applied" /\ pose_state # "applied" =>
                      /\ {[id |-> pose.id, costmap |-> c] : c \in Costmaps} \subseteq served'
                      /\ StopStands
<1>1. UNCHANGED published
  BY DEF PoseStep, gateVars
<1>2. NoPose = [phase |-> "none", id |-> 0, context |-> 0, pending |-> {}, failed |-> FALSE]
  BY DEF NoPose
<1>3. StopStands' <=> StopStands
  BY <1>1 DEF StopStands
<1>4. ASSUME NEW state, state # "applied", End(state), UNCHANGED <<clearing, served>>
      PROVE  PoseInv' /\ Whole
  BY <1>2, <1>4 DEF PoseInv, End
<1>5. ASSUME NEW b, AdvancePose(b)
      PROVE  PoseInv' /\ Whole
  <2>1. UNCHANGED <<clearing, served>>
    BY <1>5 DEF AdvancePose
  <2>2. CASE End("rejected")
    BY <1>4, <2>1, <2>2
  <2>3. CASE pose' = [pose EXCEPT !.phase = "awaiting_pose"] /\ pose_state' = "localizing"
    <3>1. pose # NoPose
      BY <1>2, <1>5 DEF AdvancePose
    <3>2. StopStands'
      BY <1>3, <3>1 DEF PoseInv
    <3>3. /\ pose' = [phase |-> pose'.phase, id |-> pose'.id, context |-> pose'.context,
                      pending |-> pose'.pending, failed |-> pose'.failed]
          /\ pose'.failed = pose.failed /\ pose'.phase = "awaiting_pose"
      BY <2>3 DEF PoseInv
    <3> QED
      BY <2>1, <2>3, <3>2, <3>3 DEF PoseInv
  <2> QED
    BY <1>5, <2>2, <2>3 DEF AdvancePose
<1>6. ASSUME NEW b, ConfirmPose(b)
      PROVE  PoseInv' /\ Whole
  <2>1. UNCHANGED served
    BY <1>6 DEF ConfirmPose
  <2>2. CASE End("rejected") /\ UNCHANGED clearing
    BY <1>4, <2>1, <2>2
  <2>3. CASE /\ pose' = [pose EXCEPT !.phase = "clearing", !.pending = Costmaps]
             /\ pose_state' = "clearing"
             /\ clearing' = clearing \cup {[id |-> pose.id, costmap |-> c] : c \in Costmaps}
    <3>1. pose # NoPose
      BY <1>2, <1>6 DEF ConfirmPose
    <3>2. StopStands'
      BY <1>3, <3>1 DEF PoseInv
    <3>3. /\ pose' = [phase |-> pose'.phase, id |-> pose'.id, context |-> pose'.context,
                      pending |-> pose'.pending, failed |-> pose'.failed]
          /\ pose'.failed = pose.failed /\ pose'.pending = Costmaps
      BY <2>3 DEF PoseInv
    <3>4. \A call \in clearing' : call = [id |-> call.id, costmap |-> call.costmap]
      BY <2>3 DEF PoseInv
    <3> QED
      BY <2>1, <2>3, <3>2, <3>3, <3>4 DEF PoseInv
  <2> QED
    BY <1>6, <2>2, <2>3 DEF ConfirmPose
<1>7. ASSUME NEW call \in clearing, NEW ok \in BOOLEAN, FinishClear(call, ok)
      PROVE  PoseInv' /\ Whole
  <2>1. /\ clearing' = clearing \ {call}
        /\ served' = IF ok THEN served \cup {call} ELSE served
    BY <1>7 DEF FinishClear
  <2>2. \A x \in clearing' : x = [id |-> x.id, costmap |-> x.costmap]
    BY <2>1 DEF PoseInv
  <2>3. CASE UNCHANGED <<pose, pose_state>>
    BY <1>3, <2>1, <2>2, <2>3 DEF PoseInv
  <2>4. CASE Awaited(call)
    <3> DEFINE after == [pose EXCEPT !.pending = @ \ {call.costmap}, !.failed = @ \/ ~ok]
    <3>1. \/ after.pending # {} /\ pose' = after /\ UNCHANGED pose_state
          \/ End("rejected")
          \/ after.pending = {} /\ ~after.failed /\ End("applied")
      BY <1>7, <2>4 DEF FinishClear
    <3>2. PICK failed \in BOOLEAN : failed = (pose.failed \/ ~ok)
      OBVIOUS
    <3>3. after = [phase |-> pose.phase, id |-> pose.id, context |-> pose.context,
                   pending |-> pose.pending \ {call.costmap}, failed |-> failed]
      <4>1. after = [pose EXCEPT !.pending = @ \ {call.costmap}, !.failed = failed]
        BY <3>2
      <4>2. pose = [phase |-> pose.phase, id |-> pose.id, context |-> pose.context,
                    pending |-> pose.pending, failed |-> pose.failed]
        BY DEF PoseInv
      <4> HIDE DEF after
      <4> QED
        BY <4>1, <4>2
    <3> HIDE DEF after
    <3>4. pose.phase = "clearing" /\ call.id = pose.id /\ call.costmap \in pose.pending
      BY <2>4 DEF Awaited
    <3>5. pose # NoPose
      BY <1>2, <3>4
    <3>6. StopStands
      BY <3>5 DEF PoseInv
    <3>7. call = [id |-> pose.id, costmap |-> call.costmap]
      BY <3>4 DEF PoseInv
    <3>8. ASSUME NEW c \in Costmaps
          PROVE  \/ c \in pose.pending \ {call.costmap} \/ failed
                 \/ [id |-> pose.id, costmap |-> c] \in served'
      <4>1. c \in pose.pending \/ pose.failed \/ [id |-> pose.id, costmap |-> c] \in served
        BY <3>4 DEF PoseInv
      <4>2. CASE c \in pose.pending /\ c # call.costmap
        BY <4>2
      <4>3. CASE pose.failed
        BY <3>2, <4>3
      <4>4. CASE [id |-> pose.id, costmap |-> c] \in served
        BY <2>1, <4>4
      <4>5. CASE c = call.costmap
        <5>1. CASE ok
          BY <2>1, <3>7, <4>5, <5>1
        <5>2. CASE ~ok
          BY <3>2, <5>2
        <5> QED
          BY <5>1, <5>2
      <4> QED
        BY <4>1, <4>2, <4>3, <4>4, <4>5
    <3>9. CASE after.pending # {} /\ pose' = after /\ UNCHANGED pose_state
      <4>1. /\ pose' = [phase |-> pose'.phase, id |-> pose'.id, context |-> pose'.context,
                        pending |-> pose'.pending, failed |-> pose'.failed]
            /\ pose'.failed = failed /\ pose'.id = pose.id
            /\ pose'.pending = pose.pending \ {call.costmap}
        BY <3>3, <3>9
      <4> QED
        BY <1>3, <2>2, <3>6, <3>8, <3>9, <4>1 DEF PoseInv
    <3>10. ASSUME NEW state, End(state)
           PROVE  PoseInv'
      BY <1>2, <2>2, <3>10 DEF PoseInv, End
    <3>11. CASE End("rejected")
      BY <3>10, <3>11 DEF End
    <3>12. CASE after.pending = {} /\ ~after.failed /\ End("applied")
      <4>1. pose.pending \ {call.costmap} = {} /\ ~failed
        BY <3>3, <3>12
      <4>2. Whole
        BY <3>6, <3>8, <4>1
      <4> QED
        BY <3>10, <3>12, <4>2
    <3> QED
      BY <3>1, <3>9, <3>11, <3>12
  <2> QED
    BY <1>7, <2>3, <2>4 DEF FinishClear
<1>8. CASE ExpirePose
  BY <1>4, <1>8 DEF ExpirePose
<1> QED
  BY <1>5, <1>6, <1>7, <1>8 DEF PoseStep

(* The request: the STOP comes first. *)
LEMMA PoseRequested ==
    ASSUME LeaseInv, PoseInv, SubmitPose
    PROVE  PoseInv' /\ (pose_state' # "applied" \/ UNCHANGED pose_state)
<1>1. StopStands'
  BY EmitStands DEF SubmitPose, _do_stop, EventNames
<1>2. PICK subscribed \in BOOLEAN : SetInitialPose(subscribed)
  BY DEF SubmitPose
<1>3. UNCHANGED <<clearing, served>>
  BY <1>2 DEF SetInitialPose
<1>4. NoPose = [phase |-> "none", id |-> 0, context |-> 0, pending |-> {}, failed |-> FALSE]
  BY DEF NoPose
<1>5. CASE End("rejected")
  BY <1>1, <1>3, <1>4, <1>5 DEF PoseInv, End
<1>6. CASE UNCHANGED <<pose, pose_state>>
  BY <1>1, <1>3, <1>6 DEF PoseInv
<1>7. CASE /\ pose' = [NoPose EXCEPT !.phase = "waiting_stop", !.id = pose_id + 1,
                                     !.context = view.context]
           /\ pose_state' = "stopping"
  <2>1. /\ pose' = [phase |-> pose'.phase, id |-> pose'.id, context |-> pose'.context,
                    pending |-> pose'.pending, failed |-> pose'.failed]
        /\ pose'.failed \in BOOLEAN /\ pose'.phase = "waiting_stop"
    BY <1>4, <1>7
  <2> QED
    BY <1>1, <1>3, <1>7, <2>1 DEF PoseInv
<1> QED
  BY <1>2, <1>5, <1>6, <1>7 DEF SetInitialPose

(* No step of the process but a PoseStep or a request moves the pose. *)
LEMMA PoseNext ==
    ASSUME LeaseInv, PoseInv, [Next]_vars
    PROVE  /\ PoseInv'
           /\ pose_state' = "applied" /\ pose_state # "applied" =>
                /\ {[id |-> pose.id, costmap |-> c] : c \in Costmaps} \subseteq served'
                /\ StopStands
<1> DEFINE Whole == pose_state' = "applied" /\ pose_state # "applied" =>
                      /\ {[id |-> pose.id, costmap |-> c] : c \in Costmaps} \subseteq served'
                      /\ StopStands
<1>1. ASSUME UNCHANGED <<pose, pose_state, clearing, served>>, pose # NoPose => StopStands'
      PROVE  PoseInv' /\ Whole
  BY <1>1 DEF PoseInv
<1>2. ASSUME UNCHANGED <<pose, pose_state, clearing, served>>, UNCHANGED published
      PROVE  PoseInv' /\ Whole
  <2>1. pose # NoPose => StopStands'
    BY <1>2 DEF PoseInv, StopStands
  <2> QED
    BY <1>1, <1>2, <2>1
<1>3. ASSUME NEW c \in Connections, Submit(c)
      PROVE  PoseInv' /\ Whole
  <2>1. CASE SubmitControl(c, threads[c])
    <3>1. UNCHANGED <<pose, pose_state, clearing, served>>
      BY <2>1 DEF SubmitControl, poseVars
    <3>2. CASE Refuse(c, threads[c])
      BY <1>2, <3>1, <3>2 DEF Refuse
    <3>3. CASE Handle(c, threads[c], pose # NoPose)
      <4>1. ASSUME pose # NoPose
            PROVE  StopStands'
        <5>1. StopStands
          BY <4>1 DEF PoseInv
        <5> QED
          BY <3>3, <4>1, <5>1, HandleStands
      <4> QED
        BY <1>1, <3>1, <4>1
    <3> QED
      BY <2>1, <3>2, <3>3 DEF SubmitControl
  <2>2. CASE SubmitPose
    BY <2>2, PoseRequested
  <2>3. CASE SubmitParameters(threads[c])
    BY <1>2, <2>3 DEF SubmitParameters, poseVars
  <2> QED
    BY <1>3, <2>1, <2>2, <2>3 DEF Submit
<1>4. CASE DisconnectConnection
  <2>1. UNCHANGED <<pose, pose_state, clearing, served>>
    BY <1>4 DEF DisconnectConnection, poseVars
  <2>2. CASE UNCHANGED published
    BY <1>2, <2>1, <2>2
  <2>3. CASE Emit(Free, "LEASE_RELEASED")
    <3>1. pose # NoPose => StopStands'
      BY <2>3, EmitStands DEF PoseInv, EventNames
    <3> QED
      BY <1>1, <2>1, <3>1
  <2> QED
    BY <1>4, <2>2, <2>3 DEF DisconnectConnection, Disconnect, on_disconnect
<1>5. CASE ReceiveMessage \/ DropConnection
  BY <1>2, <1>5 DEF ReceiveMessage, Receive, DropConnection, Drop, poseVars
<1>6. CASE PoseStep
  BY <1>6, PoseAdvances
<1>7. CASE PoseInput
  BY <1>2, <1>7 DEF PoseInput, Observe, gateVars
<1>8. CASE \/ TuningStep \/ LayerStep \/ LayerChanges
           \/ RecordingInput \/ RecordingStep \/ StreamInput \/ StreamStep
  BY <1>2, <1>8 DEF TuningStep, LayerStep, LayerChanges, RecordingInput, RecordingStep,
     StreamInput, StreamStep, gateVars, poseVars
<1>9. CASE ViewStep \/ UNCHANGED vars
  BY <1>2, <1>9 DEF ViewStep, gatewayVars, vars, poseVars
<1> QED
  BY <1>3, <1>4, <1>5, <1>6, <1>7, <1>8, <1>9 DEF Next

(***************************************************************************)
(* PoseInv is inductive, together with the leases.                         *)
(***************************************************************************)
THEOREM PoseInductive == Spec => []PoseInv
<1>1. Init => PoseInv
  BY DEF Init, PoseInit, PoseInv, NoPose
<1>2. LeaseInv /\ PoseInv /\ [Next]_vars => PoseInv'
  BY PoseNext
<1> QED
  BY <1>1, <1>2, LeaseInductive, PTL DEF Spec

(***************************************************************************)
(* A seed reported as applied has had both costmaps cleared for it, under  *)
(* a STOP that stood the whole time (_finish_initial_pose_clear).          *)
(***************************************************************************)
THEOREM SeedsAreWhole == Spec => AppliedSeedIsWhole
<1>1. LeaseInv /\ PoseInv /\ [Next]_vars =>
        [pose_state' = "applied" /\ pose_state # "applied" =>
           /\ {[id |-> pose.id, costmap |-> c] : c \in Costmaps} \subseteq served'
           /\ StopStands]_vars
  BY PoseNext
<1> QED
  BY <1>1, LeaseInductive, PoseInductive, PTL DEF Spec, AppliedSeedIsWhole

-----------------------------------------------------------------------------
(* Tuning. *)

(* What ReadBacksAreTheirOwn says of a step. *)
ReadBackIsOwn ==
    tuning'.status = "applied" /\ tuning.status # "applied" =>
       \A o \in Owners : <<o, tuning_op.id>> \in reads

(* The absent operation. *)
LEMMA NoOperationFields ==
    /\ NoOperation = [kind |-> NoOperation.kind, id |-> NoOperation.id,
                      pending |-> NoOperation.pending, requested |-> NoOperation.requested,
                      failed |-> NoOperation.failed, values |-> NoOperation.values,
                      verification |-> NoOperation.verification]
    /\ NoOperation.kind = "none"
BY DEF NoOperation

(* No operation, a write, or a read that still waits for every owner. *)
LEMMA OperationBegins ==
    ASSUME TuningInv, UNCHANGED <<answers, reads>>,
           tuning' = [status |-> tuning'.status, available |-> tuning'.available],
           \/ tuning_op' = NoOperation
           \/ \E n, value : tuning_op' = [NoOperation EXCEPT !.kind = "set", !.id = n,
                                            !.pending = Owners, !.requested = value]
           \/ \E n, verification :
                 tuning_op' = [NoOperation EXCEPT !.kind = "read", !.id = n,
                                 !.pending = Owners, !.verification = verification]
    PROVE  TuningInv'
<1>1. CASE tuning_op' = NoOperation
  BY <1>1, NoOperationFields DEF TuningInv
<1>2. CASE \E n, value : tuning_op' = [NoOperation EXCEPT !.kind = "set", !.id = n,
                                         !.pending = Owners, !.requested = value]
  <2>1. PICK n, value : tuning_op' = [NoOperation EXCEPT !.kind = "set", !.id = n,
                                        !.pending = Owners, !.requested = value]
    BY <1>2
  <2>2. /\ tuning_op' = [kind |-> tuning_op'.kind, id |-> tuning_op'.id,
                         pending |-> tuning_op'.pending, requested |-> tuning_op'.requested,
                         failed |-> tuning_op'.failed, values |-> tuning_op'.values,
                         verification |-> tuning_op'.verification]
        /\ tuning_op'.kind = "set"
    BY <2>1, NoOperationFields
  <2> QED
    BY <2>2 DEF TuningInv
<1>3. CASE \E n, verification :
              tuning_op' = [NoOperation EXCEPT !.kind = "read", !.id = n,
                              !.pending = Owners, !.verification = verification]
  <2>1. PICK n, verification :
                tuning_op' = [NoOperation EXCEPT !.kind = "read", !.id = n,
                                !.pending = Owners, !.verification = verification]
    BY <1>3
  <2>2. /\ tuning_op' = [kind |-> tuning_op'.kind, id |-> tuning_op'.id,
                         pending |-> tuning_op'.pending, requested |-> tuning_op'.requested,
                         failed |-> tuning_op'.failed, values |-> tuning_op'.values,
                         verification |-> tuning_op'.verification]
        /\ tuning_op'.pending = Owners
    BY <2>1, NoOperationFields
  <2> QED
    BY <2>2 DEF TuningInv
<1> QED
  BY <1>1, <1>2, <1>3

(* An answer is taken off the list of owners waited for only when it is    *)
(* the current operation's: so the owner has served the current read.      *)
LEMMA AnswerStep ==
    ASSUME TuningInv, NEW a \in answers, FinishTuning(a)
    PROVE  TuningInv' /\ ReadBackIsOwn
<1>1. answers' = answers \ {a} /\ UNCHANGED reads
  BY DEF FinishTuning
<1>2. CASE UNCHANGED <<tuning_op, tuning>>
  BY <1>1, <1>2 DEF TuningInv, ReadBackIsOwn
<1>3. CASE a.kind = "read" /\ IsCurrentRead(a)
  <2> DEFINE op == [tuning_op EXCEPT !.pending = @ \ {a.owner},
                      !.values[a.owner] = a.value, !.failed = @ \/ ~a.ok]
  <2>1. /\ op.pending # {} => tuning_op' = op /\ UNCHANGED tuning
        /\ op.pending = {} => tuning_op' = NoOperation /\ tuning' = ReadBack(op)
    BY <1>3 DEF FinishTuning, FinishTuningRead
  <2>2. PICK failed : failed = (tuning_op.failed \/ ~a.ok)
    OBVIOUS
  <2>3. op = [kind |-> tuning_op.kind, id |-> tuning_op.id,
              pending |-> tuning_op.pending \ {a.owner}, requested |-> tuning_op.requested,
              failed |-> failed, values |-> [tuning_op.values EXCEPT ![a.owner] = a.value],
              verification |-> tuning_op.verification]
    <3>1. op = [tuning_op EXCEPT !.pending = @ \ {a.owner},
                  !.values = [tuning_op.values EXCEPT ![a.owner] = a.value], !.failed = failed]
      BY <2>2
    <3>2. tuning_op = [kind |-> tuning_op.kind, id |-> tuning_op.id,
                       pending |-> tuning_op.pending, requested |-> tuning_op.requested,
                       failed |-> tuning_op.failed, values |-> tuning_op.values,
                       verification |-> tuning_op.verification]
      BY DEF TuningInv
    <3> HIDE DEF op
    <3> QED
      BY <3>1, <3>2
  <2> HIDE DEF op
  <2>4. /\ tuning_op.kind = "read" /\ tuning_op.id = a.id /\ <<a.owner, a.id>> \in reads
    BY <1>3 DEF IsCurrentRead, TuningInv
  <2>5. ASSUME NEW o \in Owners
        PROVE  o \in op.pending \/ <<o, tuning_op.id>> \in reads
    BY <2>3, <2>4 DEF TuningInv
  <2>6. CASE op.pending # {}
    <3>1. /\ tuning_op' = [kind |-> tuning_op'.kind, id |-> tuning_op'.id,
                           pending |-> tuning_op'.pending, requested |-> tuning_op'.requested,
                           failed |-> tuning_op'.failed, values |-> tuning_op'.values,
                           verification |-> tuning_op'.verification]
          /\ tuning_op'.id = tuning_op.id /\ tuning_op'.pending = op.pending
      BY <2>1, <2>3, <2>6
    <3> QED
      BY <1>1, <2>1, <2>5, <2>6, <3>1 DEF TuningInv, ReadBackIsOwn
  <2>7. CASE op.pending = {}
    <3>1. ReadBackIsOwn
      BY <2>5, <2>7 DEF ReadBackIsOwn
    <3>2. tuning_op' = NoOperation
      BY <2>1, <2>7
    <3>3. tuning' = [status |-> tuning'.status, available |-> tuning'.available]
      <4>1. PICK s, v : ReadBack(op) = [available |-> v, status |-> s]
        BY DEF ReadBack
      <4> QED
        BY <2>1, <2>7, <4>1
    <3> QED
      BY <1>1, <3>1, <3>2, <3>3, NoOperationFields DEF TuningInv
  <2> QED
    BY <2>6, <2>7
<1>4. CASE a.kind # "read" /\ IsCurrentSet(a)
  <2> DEFINE op == [tuning_op EXCEPT !.pending = @ \ {a.owner}, !.failed = @ \/ ~a.ok]
  <2>1. UNCHANGED tuning /\ (tuning_op' = op \/ tuning_op' = NoOperation)
    BY <1>4 DEF FinishTuning, FinishTuningSet
  <2>2. PICK failed : failed = (tuning_op.failed \/ ~a.ok)
    OBVIOUS
  <2>3. op = [kind |-> tuning_op.kind, id |-> tuning_op.id,
              pending |-> tuning_op.pending \ {a.owner}, requested |-> tuning_op.requested,
              failed |-> failed, values |-> tuning_op.values,
              verification |-> tuning_op.verification]
    <3>1. op = [tuning_op EXCEPT !.pending = @ \ {a.owner}, !.failed = failed]
      BY <2>2
    <3>2. tuning_op = [kind |-> tuning_op.kind, id |-> tuning_op.id,
                       pending |-> tuning_op.pending, requested |-> tuning_op.requested,
                       failed |-> tuning_op.failed, values |-> tuning_op.values,
                       verification |-> tuning_op.verification]
      BY DEF TuningInv
    <3> HIDE DEF op
    <3> QED
      BY <3>1, <3>2
  <2> HIDE DEF op
  <2>4. tuning_op.kind = "set"
    BY <1>4 DEF IsCurrentSet
  <2>5. /\ tuning_op' = [kind |-> tuning_op'.kind, id |-> tuning_op'.id,
                         pending |-> tuning_op'.pending, requested |-> tuning_op'.requested,
                         failed |-> tuning_op'.failed, values |-> tuning_op'.values,
                         verification |-> tuning_op'.verification]
        /\ tuning_op'.kind # "read"
    BY <2>1, <2>3, <2>4, NoOperationFields
  <2> QED
    BY <1>1, <2>1, <2>5 DEF TuningInv, ReadBackIsOwn
<1> QED
  BY <1>2, <1>3, <1>4 DEF FinishTuning, FinishTuningRead, FinishTuningSet

(* Tuning moves in its own steps and in requests only. *)
LEMMA TuningNext ==
    ASSUME TuningInv, [Next]_vars
    PROVE  TuningInv' /\ ReadBackIsOwn
<1>1. CASE UNCHANGED tuningVars
  BY <1>1 DEF tuningVars, TuningInv, ReadBackIsOwn
<1>2. CASE TuningStep
  <2>1. ASSUME NEW timed_out \in BOOLEAN, RefreshTuning(timed_out)
        PROVE  TuningInv' /\ ReadBackIsOwn
    <3>1. /\ tuning_op' = NoOperation /\ UNCHANGED <<answers, reads>>
          /\ tuning' = [status |-> "failed", available |-> FALSE] \/ UNCHANGED tuning
      BY <2>1 DEF RefreshTuning
    <3>2. tuning' = [status |-> tuning'.status, available |-> tuning'.available]
      BY <3>1 DEF TuningInv
    <3> QED
      BY <3>1, <3>2, OperationBegins DEF ReadBackIsOwn
  <2>2. CASE StartTuningRead
    <3>1. UNCHANGED <<tuning, answers, reads>>
      BY <2>2 DEF StartTuningRead
    <3>2. CASE UNCHANGED tuning_op
      BY <3>1, <3>2 DEF TuningInv, ReadBackIsOwn
    <3>3. CASE tuning_op' = [NoOperation EXCEPT !.kind = "read", !.id = tuning_id + 1,
                               !.pending = Owners, !.verification = begin]
      <4>1. tuning' = [status |-> tuning'.status, available |-> tuning'.available]
        BY <3>1 DEF TuningInv
      <4> QED
        BY <3>1, <3>3, <4>1, OperationBegins DEF ReadBackIsOwn
    <3> QED
      BY <2>2, <3>2, <3>3 DEF StartTuningRead
  <2>3. ASSUME NEW a \in answers, FinishTuning(a)
        PROVE  TuningInv' /\ ReadBackIsOwn
    BY <2>3, AnswerStep
  <2>4. ASSUME NEW call \in calls, NEW ok \in BOOLEAN, Serve(call, ok)
        PROVE  TuningInv' /\ ReadBackIsOwn
    <3>1. /\ UNCHANGED <<tuning, tuning_op>> /\ reads \subseteq reads'
          /\ call.kind = "read" => <<call.owner, call.id>> \in reads'
      BY <2>4 DEF Serve
    <3>2. PICK value : answers' = answers \cup {[owner |-> call.owner, kind |-> call.kind,
                                                id |-> call.id, ok |-> ok, value |-> value]}
      BY <2>4 DEF Serve
    <3>3. \A a \in answers' : a.kind = "read" => <<a.owner, a.id>> \in reads'
      BY <3>1, <3>2 DEF TuningInv
    <3> QED
      BY <3>1, <3>3 DEF TuningInv, ReadBackIsOwn
  <2> QED
    BY <1>2, <2>1, <2>2, <2>3, <2>4 DEF TuningStep
<1>3. ASSUME NEW c \in Connections, Submit(c)
      PROVE  TuningInv' /\ ReadBackIsOwn
  <2>1. CASE SubmitControl(c, threads[c]) \/ SubmitPose
    BY <1>1, <2>1 DEF SubmitControl, SubmitPose, parameterVars
  <2>2. CASE SubmitLayer \/ SubmitFile(threads[c])
    BY <1>1, <2>2 DEF SubmitLayer, SubmitFile
  <2>3. CASE RefuseTuning
    <3>1. UNCHANGED <<tuning_op, answers, reads>>
      BY <2>3 DEF RefuseTuning
    <3>2. tuning' = [tuning EXCEPT !.status = "failed"] \/ UNCHANGED tuning
      BY <2>3 DEF RefuseTuning
    <3>3. /\ tuning' = [status |-> tuning'.status, available |-> tuning'.available]
          /\ tuning'.status \in {"failed", tuning.status}
      BY <3>2 DEF TuningInv
    <3> QED
      BY <3>1, <3>3 DEF TuningInv, ReadBackIsOwn
  <2>4. ASSUME NEW value \in Values, RequestTuning(value)
        PROVE  TuningInv' /\ ReadBackIsOwn
    <3>1. UNCHANGED <<answers, reads>>
      BY <2>4 DEF RequestTuning
    <3>2. CASE UNCHANGED <<tuning, tuning_op>>
      BY <3>1, <3>2 DEF TuningInv, ReadBackIsOwn
    <3>3. CASE /\ tuning' = [status |-> "applying", available |-> TRUE]
               /\ tuning_op' = [NoOperation EXCEPT !.kind = "set", !.id = tuning_id + 1,
                                  !.pending = Owners, !.requested = value]
      <4>1. /\ tuning' = [status |-> tuning'.status, available |-> tuning'.available]
            /\ tuning'.status = "applying"
        BY <3>3
      <4>2. TuningInv'
        BY <3>1, <3>3, <4>1, OperationBegins
      <4> QED
        BY <4>1, <4>2 DEF ReadBackIsOwn
    <3> QED
      BY <2>4, <3>2, <3>3 DEF RequestTuning
  <2> QED
    BY <1>3, <2>1, <2>2, <2>3, <2>4 DEF Submit, SubmitParameters, SubmitTuning
<1>4. CASE \/ ReceiveMessage \/ DropConnection \/ DisconnectConnection \/ PoseInput \/ PoseStep
           \/ LayerStep \/ LayerChanges
           \/ RecordingInput \/ RecordingStep \/ StreamInput \/ StreamStep
  BY <1>1, <1>4 DEF ReceiveMessage, DropConnection, DisconnectConnection, PoseInput, PoseStep,
     LayerStep, LayerChanges, RecordingInput, RecordingStep, StreamInput, StreamStep,
     parameterVars
<1>5. CASE ViewStep \/ UNCHANGED vars
  BY <1>1, <1>5 DEF ViewStep, vars, parameterVars
<1> QED
  BY <1>2, <1>3, <1>4, <1>5 DEF Next

(***************************************************************************)
(* TuningInv is inductive.                                                 *)
(***************************************************************************)
THEOREM TuningInductive == Spec => []TuningInv
<1>1. Init => TuningInv
  BY NoOperationFields DEF Init, ParametersInit, TuningInv
<1> QED
  BY <1>1, TuningNext, PTL DEF Spec

(***************************************************************************)
(* Tuning reported as applied was read back from every owner by the read   *)
(* that reports it, whatever answers came late (_finish_tuning_read).      *)
(***************************************************************************)
THEOREM ReadBacksOwn == Spec => ReadBacksAreTheirOwn
<1>1. TuningInv /\ [Next]_vars =>
        [tuning'.status = "applied" /\ tuning.status # "applied" =>
           \A o \in Owners : <<o, tuning_op.id>> \in reads]_vars
  BY TuningNext DEF ReadBackIsOwn
<1> QED
  BY <1>1, TuningInductive, PTL DEF Spec, ReadBacksAreTheirOwn

-----------------------------------------------------------------------------
(* Recordings. *)

(* poll: a recorder that lives and is not lost stays the executor's; if    *)
(* there is none, the executor is not active afterwards.                   *)
LEMMA PollFacts ==
    ASSUME RecorderInv, recorder_owner = "up"
    PROVE  /\ Polled = [state |-> Polled.state, pid |-> Polled.pid, name |-> Polled.name]
           /\ \A r \in recorders :
                 ~r.lost => Polled.state \in ActiveStates /\ Polled.pid = r.pid
<1>1. /\ rec = [state |-> rec.state, pid |-> rec.pid, name |-> rec.name]
      /\ \A r \in recorders : ~r.lost => rec.state \in ActiveStates /\ rec.pid = r.pid
  BY DEF RecorderInv
<1>2. CASE rec.state \notin ActiveStates
  BY <1>1, <1>2 DEF Polled
<1>3. CASE rec.state \in ActiveStates /\ Alive(rec.pid)
  <2>1. /\ Polled = [state |-> Polled.state, pid |-> rec.pid, name |-> rec.name]
        /\ Polled.state \in {"RECORDING", rec.state}
    BY <1>1, <1>3 DEF Polled
  <2>2. Polled.state \in ActiveStates
    BY <1>3, <2>1 DEF ActiveStates
  <2>3. Polled.pid = rec.pid /\ Polled.name = rec.name
    BY <2>1
  <2> QED
    BY <1>1, <2>1, <2>2, <2>3
<1>4. CASE rec.state \in ActiveStates /\ ~Alive(rec.pid)
  <2>1. \A r \in recorders : r.lost
    BY <1>1, <1>4 DEF Alive
  <2>2. Polled = [state |-> Polled.state, pid |-> 0, name |-> rec.name]
    BY <1>1, <1>4 DEF Polled
  <2>3. Polled.pid = 0 /\ Polled.name = rec.name
    BY <2>2
  <2> QED
    BY <2>1, <2>2, <2>3
<1> QED
  BY <1>2, <1>3, <1>4

(* A recorder that is started is the only one not lost. *)
LEMMA RecorderAdded ==
    ASSUME RecorderInv, NEW name \in Bags,
           recorder_owner' \in {"up", "down"}, pids' = pids + 1,
           recorders' = recorders \cup {[pid |-> pids + 1, name |-> name, lost |-> FALSE]},
           rec' = [state |-> "STARTING", pid |-> pids + 1, name |-> name],
           \A r \in recorders : r.lost
    PROVE  RecorderInv'
<1> DEFINE new == [pid |-> pids + 1, name |-> name, lost |-> FALSE]
<1>1. new \in Recorders /\ new.pid = pids + 1 /\ ~new.lost /\ pids \in Nat
  BY DEF RecorderInv, Recorders
<1>2. recorders' = recorders \cup {new}
  OBVIOUS
<1> HIDE DEF new
<1>3. /\ rec' = [state |-> rec'.state, pid |-> rec'.pid, name |-> rec'.name]
      /\ rec'.state \in ActiveStates /\ rec'.pid = pids + 1
  BY DEF ActiveStates
<1>4. recorders' \subseteq Recorders /\ pids' \in Nat
  BY <1>1, <1>2 DEF RecorderInv
<1>5. \A r \in recorders : r.pid \in Nat /\ r.pid <= pids
  BY DEF RecorderInv, Recorders
<1>6. \A r \in recorders' : r.pid <= pids'
  BY <1>1, <1>2, <1>5
<1>7. \A r, s \in recorders' : r.pid = s.pid => r = s
  BY <1>1, <1>2, <1>5 DEF RecorderInv
<1>8. \A r \in recorders' : ~r.lost => r = new
  BY <1>2
<1> QED
  BY <1>1, <1>3, <1>4, <1>6, <1>7, <1>8 DEF RecorderInv

(* Recorders that end leave the others as they are. *)
LEMMA RecordersLeave ==
    ASSUME RecorderInv, recorders' \subseteq recorders, pids' = pids,
           recorder_owner' \in {"up", "down"},
           rec' = [state |-> rec'.state, pid |-> rec'.pid, name |-> rec'.name],
           recorder_owner' = "up" =>
             \A r \in recorders : ~r.lost => rec'.state \in ActiveStates /\ rec'.pid = r.pid
    PROVE  RecorderInv'
<1>1. recorders' \subseteq Recorders /\ pids' \in Nat /\ \A r \in recorders' : r.pid <= pids'
  BY DEF RecorderInv
<1>2. /\ \A r, s \in recorders' : r.pid = s.pid => r = s
      /\ \A r, s \in recorders' : ~r.lost /\ ~s.lost => r = s
  BY DEF RecorderInv
<1> QED
  BY <1>1, <1>2 DEF RecorderInv

(* An executor that starts knows the recorder on the record it could read. *)
LEMMA RecorderFound ==
    ASSUME RecorderInv, NEW readable \in BOOLEAN, NEW ok \in BOOLEAN, OwnerStarts(readable, ok)
    PROVE  RecorderInv'
<1> DEFINE found(r) == [r EXCEPT !.lost = ~readable \/ r.pid # record.pid]
<1>1. recorders' = {found(r) : r \in recorders} /\ pids' = pids /\ recorder_owner' = "up"
  BY DEF OwnerStarts
<1>2. \A r \in recorders :
         /\ found(r) \in Recorders /\ found(r).pid = r.pid
         /\ found(r).lost = (~readable \/ r.pid # record.pid)
  BY DEF RecorderInv, Recorders
<1> HIDE DEF found
<1>3. recorders' \subseteq Recorders /\ pids' \in Nat /\ \A r \in recorders' : r.pid <= pids'
  BY <1>1, <1>2 DEF RecorderInv
<1>4. \A r, s \in recorders' : r.pid = s.pid => r = s
  <2> SUFFICES ASSUME NEW r \in recorders, NEW s \in recorders, found(r).pid = found(s).pid
               PROVE  found(r) = found(s)
    BY <1>1
  <2> QED
    BY <1>2 DEF RecorderInv
<1>5. \A r \in recorders' : ~r.lost => readable /\ r.pid = record.pid
  BY <1>1, <1>2
<1>6. \A r \in recorders' : ~r.lost => Adopted
  <2> SUFFICES ASSUME NEW r \in recorders, ~found(r).lost
               PROVE  Adopted
    BY <1>1
  <2> QED
    BY <1>2 DEF Adopted, Alive
<1>7. /\ rec' = [state |-> rec'.state, pid |-> rec'.pid, name |-> rec'.name]
      /\ readable /\ Adopted => rec'.state \in ActiveStates /\ rec'.pid = record.pid
  <2>1. CASE readable /\ Adopted
    <3>1. rec' = [state |-> "RECORDING", pid |-> record.pid, name |-> record.name]
      BY <2>1 DEF OwnerStarts
    <3> QED
      BY <3>1 DEF ActiveStates
  <2>2. CASE ~(readable /\ Adopted)
    <3>1. rec' = NotRecording
      BY <2>2 DEF OwnerStarts
    <3> QED
      BY <2>2, <3>1 DEF NotRecording
  <2> QED
    BY <2>1, <2>2
<1> QED
  BY <1>1, <1>3, <1>4, <1>5, <1>6, <1>7 DEF RecorderInv

(* Recordings move in requests, polls, deaths and starts only. *)
LEMMA RecorderStep ==
    ASSUME RecorderInv, [Next]_vars
    PROVE  RecorderInv'
<1>1. CASE UNCHANGED <<recorder_owner, rec, recorders, pids>>
  BY <1>1 DEF RecorderInv
<1>2. ASSUME recorder_owner = "up", UNCHANGED <<recorder_owner, recorders, pids>>, rec' = Polled
      PROVE  RecorderInv'
  BY <1>2, PollFacts, RecordersLeave
<1>3. ASSUME NEW name \in Bags, NEW launched \in BOOLEAN, NEW settled \in BOOLEAN,
             NEW ok \in BOOLEAN, StartRecording(name, launched, settled, ok)
      PROVE  RecorderInv'
  <2>1. recorder_owner = "up" /\ recorder_owner' = "up"
    BY <1>3 DEF StartRecording
  <2>2. CASE rec' = Polled /\ UNCHANGED <<recorders, pids>>
    BY <1>2, <2>1, <2>2
  <2>3. CASE /\ Polled.state \notin ActiveStates
             /\ pids' = pids + 1
             /\ rec' = [state |-> "STARTING", pid |-> pids + 1, name |-> name]
             /\ recorders' = recorders \cup {[pid |-> pids + 1, name |-> name, lost |-> FALSE]}
    <3>1. \A r \in recorders : r.lost
      BY <2>1, <2>3, PollFacts
    <3> QED
      BY <2>1, <2>3, <3>1, RecorderAdded
  <2>4. CASE /\ Polled.state \notin ActiveStates /\ UNCHANGED <<recorders, pids>>
             /\ rec' = [state |-> "FAILED", pid |-> Polled.pid, name |-> name]
    <3>1. \A r \in recorders : r.lost
      BY <2>1, <2>4, PollFacts
    <3>2. rec' = [state |-> rec'.state, pid |-> rec'.pid, name |-> rec'.name]
      BY <2>4
    <3> QED
      BY <2>1, <2>4, <3>1, <3>2, RecordersLeave
  <2>5. \/ rec' = Polled /\ UNCHANGED <<recorders, pids>>
        \/ /\ Polled.state \notin ActiveStates
           /\ pids' = pids + 1
           /\ rec' = [state |-> "STARTING", pid |-> pids + 1, name |-> name]
           /\ recorders' = recorders \cup {[pid |-> pids + 1, name |-> name, lost |-> FALSE]}
        \/ /\ Polled.state \notin ActiveStates /\ UNCHANGED <<recorders, pids>>
           /\ rec' = [state |-> "FAILED", pid |-> Polled.pid, name |-> name]
    BY <1>3 DEF StartRecording
  <2> QED
    BY <2>2, <2>3, <2>4, <2>5
<1>4. ASSUME NEW ok \in BOOLEAN, StopRecording(ok)
      PROVE  RecorderInv'
  <2>1. recorder_owner = "up" /\ UNCHANGED <<recorder_owner, recorders, pids>>
    BY <1>4 DEF StopRecording
  <2>2. CASE rec' = [Polled EXCEPT !.state = "STOPPING"]
    <3>1. /\ rec' = [state |-> rec'.state, pid |-> rec'.pid, name |-> rec'.name]
          /\ rec'.state = "STOPPING" /\ rec'.pid = Polled.pid
      BY <2>1, <2>2, PollFacts
    <3>2. rec'.state \in ActiveStates
      BY <3>1 DEF ActiveStates
    <3> QED
      BY <2>1, <3>1, <3>2, PollFacts, RecordersLeave
  <2> QED
    BY <1>2, <1>4, <2>1, <2>2 DEF StopRecording
<1>5. ASSUME NEW unit \in BOOLEAN, OwnerDies(unit)
      PROVE  RecorderInv'
  <2>1. /\ recorder_owner' = "down" /\ rec' = NotRecording /\ pids' = pids
        /\ recorders' \subseteq recorders
    BY <1>5 DEF OwnerDies
  <2>2. rec' = [state |-> rec'.state, pid |-> rec'.pid, name |-> rec'.name]
    BY <2>1 DEF NotRecording
  <2> QED
    BY <2>1, <2>2, RecordersLeave
<1>6. CASE RecordingInput
  <2>1. ASSUME NEW name \in Bags, DeleteRecording(name)
        PROVE  RecorderInv'
    BY <1>1, <2>1 DEF DeleteRecording
  <2>2. CASE RecordVanishes
    BY <1>1, <2>2 DEF RecordVanishes
  <2> QED
    BY <1>3, <1>4, <1>5, <1>6, <2>1, <2>2 DEF RecordingInput
<1>7. CASE RecordingStep
  <2>1. ASSUME NEW ok \in BOOLEAN, PollRecorder(ok)
        PROVE  RecorderInv'
    BY <1>2, <2>1 DEF PollRecorder
  <2>2. ASSUME NEW r \in recorders, BagOpens(r)
        PROVE  RecorderInv'
    BY <1>1, <2>2 DEF BagOpens
  <2>3. ASSUME NEW r \in recorders, NEW closes \in BOOLEAN, RecorderEnds(r, closes)
        PROVE  RecorderInv'
    <3>1. recorders' \subseteq recorders /\ UNCHANGED <<recorder_owner, rec, pids>>
      BY <2>3 DEF RecorderEnds
    <3> QED
      BY <3>1, RecordersLeave DEF RecorderInv
  <2> QED
    BY <1>7, <2>1, <2>2, <2>3, RecorderFound DEF RecordingStep
<1>8. CASE UNCHANGED recordingVars
  BY <1>1, <1>8 DEF recordingVars
<1>9. CASE \E c \in Connections : Submit(c)
  BY <1>8, <1>9 DEF Submit
<1>10. CASE \/ ReceiveMessage \/ DropConnection \/ DisconnectConnection \/ PoseInput \/ PoseStep
            \/ TuningStep \/ LayerStep \/ LayerChanges \/ StreamInput \/ StreamStep
  BY <1>8, <1>10 DEF ReceiveMessage, DropConnection, DisconnectConnection, PoseInput, PoseStep,
     TuningStep, LayerStep, LayerChanges, StreamInput, StreamStep
<1>11. CASE ViewStep \/ UNCHANGED vars
  BY <1>8, <1>11 DEF ViewStep, vars
<1> QED
  BY <1>6, <1>7, <1>9, <1>10, <1>11 DEF Next

(***************************************************************************)
(* RecorderInv is inductive: what the executor knows, or finds on a record *)
(* it can read, is the one recorder that is not lost.                      *)
(***************************************************************************)
THEOREM RecorderInductive == Spec => []RecorderInv
<1>1. Init => RecorderInv
  BY DEF Init, RecordingInit, RecorderInv, NotRecording, ActiveStates
<1> QED
  BY <1>1, RecorderStep, PTL DEF Spec

(***************************************************************************)
(* Of the recorders that were on the record when the executor last started *)
(* or were started since, there are never two, nor one it does not know    *)
(* of: over its own death, failed launches, failed writes, a record that   *)
(* vanishes or cannot be read, and ends that nobody asked for.             *)
(***************************************************************************)
THEOREM OneRecorder == Spec => []OneKnownRecorder
<1>1. RecorderInv => OneKnownRecorder
  <2> SUFFICES ASSUME RecorderInv PROVE OneKnownRecorder
    OBVIOUS
  <2> DEFINE known == {r \in recorders : ~r.lost}
  <2>1. Cardinality(known) <= 1
    <3>1. CASE known = {}
      BY <3>1, FS_EmptySet
    <3>2. ASSUME NEW r \in known
          PROVE  Cardinality(known) <= 1
      <4>1. known = {r}
        BY DEF RecorderInv
      <4> QED
        BY <4>1, FS_Singleton
    <3> QED
      BY <3>1, <3>2
  <2> QED
    BY <2>1 DEF RecorderInv, OneKnownRecorder
<1> QED
  BY <1>1, RecorderInductive, PTL

-----------------------------------------------------------------------------
(* Map and route. *)

(* The fields of what the view keeps. *)
LEMMA ViewFields ==
    /\ \A x \in Sents : /\ x.plans \in 0 .. MaxRoutes /\ x.profiles \in SUBSET Routes
                        /\ x.mission \in Nat /\ x.runtimes \in Nat /\ x.demands \in Nat
    /\ \A x \in Nodes : /\ x.runtime \in Nat /\ x.reader \in Nat /\ x.plan_readers \in BOOLEAN
                        /\ x.candidates \in Seq(Routes) /\ x.profiles \in SUBSET Routes
                        /\ x.committed \in Nat /\ x.mission \in Nat
    /\ \A x \in Seens : x.map \in Nat /\ x.route \in 0 .. MaxRoutes
    /\ \A x \in Sinces : /\ x.changes \in Nat /\ x.plan \in [Routes -> Nat]
                         /\ x.profile \in [Routes -> Nat]
BY DEF Sents, Nodes, Seens, Sinces


(* What the map depends on. *)
LEMMA MapStays ==
    ASSUME MapInv, UNCHANGED <<running, status, map_messages>>, sent'.runtimes = sent.runtimes,
           node'.runtime = node.runtime, node'.reader = node.reader, seen'.map = seen.map
    PROVE  MapInv'
BY DEF MapInv

(* What the route depends on. *)
LEMMA RouteStays ==
    ASSUME RouteInv, node'.candidates = node.candidates, node'.profiles = node.profiles,
           seen'.route = seen.route, UNCHANGED since
    PROVE  RouteInv'
BY DEF RouteInv

(* The map: a reader is given only what its runtime or a later one made. *)
LEMMA MapPart ==
    ASSUME ViewInv, MapStep
    PROVE  ViewInv'
<1>1. /\ running \in Nat /\ status \in Nat /\ sent.runtimes \in Nat /\ node.runtime \in Nat
      /\ node.reader \in Nat /\ seen.map \in Nat
  BY ViewFields DEF ViewInv, ViewTypeOK
<1>2. \A m \in map_messages : m.reader \in Nat \ {0} /\ m.of \in Nat
  BY DEF ViewInv, ViewTypeOK
<1>3. CASE RuntimeStarts
  <2>1. /\ sent' = [sent EXCEPT !.runtimes = @ + 1] /\ running' = sent'.runtimes
        /\ UNCHANGED <<status, node, heard, map_messages, seen, since>>
    BY <1>3 DEF RuntimeStarts
  <2>2. sent' \in Sents /\ sent'.runtimes = sent.runtimes + 1
    BY <2>1 DEF ViewInv, ViewTypeOK, Sents
  <2>3. ViewTypeOK'
    BY <1>1, <2>1, <2>2 DEF ViewInv, ViewTypeOK
  <2>4. MapInv'
    BY <1>1, <1>2, <2>1, <2>2 DEF ViewInv, MapInv
  <2> QED
    BY <2>1, <2>3, <2>4, RouteStays DEF ViewInv
<1>4. CASE RuntimeEnds
  BY <1>4 DEF RuntimeEnds, ViewInv, ViewTypeOK, MapInv, RouteInv
<1>5. CASE StatusChanges
  <2>1. /\ status' \in {0, running}
        /\ UNCHANGED <<running, sent, node, heard, map_messages, seen, since>>
    BY <1>5 DEF StatusChanges
  <2>2. ViewTypeOK'
    BY <1>1, <2>1 DEF ViewInv, ViewTypeOK
  <2>3. MapInv'
    BY <1>1, <2>1 DEF ViewInv, MapInv
  <2> QED
    BY <2>1, <2>2, <2>3, RouteStays DEF ViewInv
<1>6. CASE OnMode
  <2>1. /\ node' = [node EXCEPT !.runtime = status, !.reader = 0]
        /\ seen' = [seen EXCEPT !.map = 0]
        /\ UNCHANGED <<running, status, sent, heard, map_messages, since>>
    BY <1>6 DEF OnMode, SelectMapSubscription
  <2>2. /\ node' \in Nodes /\ node'.runtime = status /\ node'.reader = 0
        /\ node'.candidates = node.candidates /\ node'.profiles = node.profiles
    BY <1>1, <2>1 DEF ViewInv, ViewTypeOK, Nodes
  <2>3. seen' \in Seens /\ seen'.map = 0 /\ seen'.route = seen.route
    BY <2>1 DEF ViewInv, ViewTypeOK, Seens
  <2>4. ViewTypeOK'
    BY <2>1, <2>2, <2>3 DEF ViewInv, ViewTypeOK
  <2>5. MapInv'
    BY <1>1, <2>1, <2>2, <2>3 DEF ViewInv, MapInv
  <2> QED
    BY <2>1, <2>2, <2>3, <2>4, <2>5, RouteStays DEF ViewInv
<1>7. CASE TakeMap
  <2>1. /\ node.reader # 0 /\ running # 0
        /\ map_messages' = map_messages \cup {[reader |-> node.reader, of |-> running]}
        /\ UNCHANGED <<running, status, sent, node, heard, seen, since>>
    BY <1>7 DEF TakeMap
  <2>2. node.reader <= running /\ running <= sent.runtimes
    BY <1>1, <2>1 DEF ViewInv, MapInv
  <2>3. ViewTypeOK'
    BY <1>1, <2>1 DEF ViewInv, ViewTypeOK
  <2>4. \A m \in map_messages' : m.reader <= m.of /\ m.of <= sent.runtimes
    BY <2>1, <2>2 DEF ViewInv, MapInv
  <2>5. MapInv'
    BY <2>1, <2>4 DEF ViewInv, MapInv
  <2> QED
    BY <2>1, <2>3, <2>5, RouteStays DEF ViewInv
<1>8. CASE OnMap
  <2>1. PICK m \in map_messages :
           /\ map_messages' = map_messages \ {m}
           /\ seen' = IF IsReaders(m) THEN [seen EXCEPT !.map = m.of] ELSE seen
           /\ UNCHANGED <<running, status, sent, node, heard, since>>
    BY <1>8 DEF OnMap
  <2>2. /\ seen' \in Seens /\ seen'.route = seen.route
        /\ seen'.map = IF m.reader = node.reader THEN m.of ELSE seen.map
    BY <1>2, <2>1 DEF ViewInv, ViewTypeOK, Seens, IsReaders
  <2>3. ViewTypeOK'
    BY <2>1, <2>2 DEF ViewInv, ViewTypeOK
  <2>4. /\ m.reader <= m.of /\ m.of <= sent.runtimes /\ m.reader \in Nat \ {0} /\ m.of \in Nat
        /\ node.reader # 0 => node.reader = node.runtime
    BY <1>2 DEF ViewInv, MapInv
  <2>5. /\ node.runtime = 0 => seen'.map = 0
        /\ seen'.map # 0 => node.runtime <= seen'.map /\ seen'.map <= sent.runtimes
    BY <1>1, <2>2, <2>4 DEF ViewInv, MapInv
  <2>6. MapInv'
    BY <2>1, <2>5 DEF ViewInv, MapInv
  <2> QED
    BY <2>1, <2>2, <2>3, <2>6, RouteStays DEF ViewInv
<1> QED
  BY <1>3, <1>4, <1>5, <1>6, <1>7, <1>8 DEF MapStep

(* The demand. *)
LEMMA DemandPart ==
    ASSUME ViewInv, DemandStep
    PROVE  ViewInv'
<1>1. CASE SetVisualizationDemand
  <2>1. PICK wants \in SUBSET {"map", "plan"} : node' = [node EXCEPT !.wants = wants]
    BY <1>1 DEF SetVisualizationDemand
  <2>2. /\ sent' = [sent EXCEPT !.demands = @ + 1]
        /\ UNCHANGED <<running, status, heard, map_messages, seen, since>>
    BY <1>1 DEF SetVisualizationDemand
  <2>3. sent' \in Sents /\ sent'.runtimes = sent.runtimes
    BY <2>2 DEF ViewInv, ViewTypeOK, Sents
  <2>4. /\ node' \in Nodes /\ node'.runtime = node.runtime /\ node'.reader = node.reader
        /\ node'.candidates = node.candidates /\ node'.profiles = node.profiles
    BY <2>1 DEF ViewInv, ViewTypeOK, Nodes
  <2>5. ViewTypeOK'
    BY <2>2, <2>3, <2>4 DEF ViewInv, ViewTypeOK
  <2>6. MapInv'
    BY <2>2, <2>3, <2>4, MapStays DEF ViewInv
  <2> QED
    BY <2>2, <2>4, <2>5, <2>6, RouteStays DEF ViewInv
<1>2. CASE Reconcile
  <2>1. PICK readers \in BOOLEAN : readers <=> "plan" \in node.wants
    <3>1. CASE "plan" \in node.wants
      BY <3>1
    <3>2. CASE "plan" \notin node.wants
      BY <3>2
    <3> QED
      BY <3>1, <3>2
  <2>2. PICK reader \in {0, node.runtime, node.reader} :
                node' = [node EXCEPT !.plan_readers = readers, !.reader = reader]
    BY <1>2, <2>1 DEF Reconcile, Reconciled
  <2>3. UNCHANGED <<running, status, sent, map_messages, seen, since>>
    BY <1>2 DEF Reconcile
  <2>4. reader \in Nat
    BY <2>2, ViewFields DEF ViewInv, ViewTypeOK
  <2>5. /\ node' \in Nodes /\ node'.runtime = node.runtime /\ node'.reader = reader
        /\ node'.candidates = node.candidates /\ node'.profiles = node.profiles
    BY <2>2, <2>4 DEF ViewInv, ViewTypeOK, Nodes
  <2>6. heard' = [plan |-> heard'.plan, profile |-> heard'.profile] /\ heard'.plan \in Nat
    <3>1. sent.plans \in Nat
      BY RouteConstants DEF ViewInv, ViewTypeOK, Sents
    <3>2. CASE heard' = heard
      BY <3>2 DEF ViewInv, ViewTypeOK
    <3>3. CASE \E profile : heard' = [plan |-> sent.plans, profile |-> profile]
      BY <3>1, <3>3
    <3> QED
      BY <1>2, <3>2, <3>3 DEF Reconcile
  <2>7. ViewTypeOK'
    BY <2>3, <2>5, <2>6 DEF ViewInv, ViewTypeOK
  <2>8. MapInv'
    BY <2>2, <2>3, <2>5 DEF ViewInv, MapInv
  <2> QED
    BY <2>3, <2>5, <2>7, <2>8, RouteStays DEF ViewInv
<1> QED
  BY <1>1, <1>2 DEF DemandStep

(* _commit_profiled_route: halves that came within the mission are joined. *)
LEMMA JoinStep ==
    ASSUME ViewInv, NEW v \in Nodes, NEW kept \in 0 .. MaxRoutes, NEW r \in Routes,
           Join(v, kept, r), since' \in Sinces,
           \A i \in 1 .. Len(v.candidates) : since'.plan[v.candidates[i]] = since'.changes,
           \A p \in v.profiles : since'.profile[p] = since'.changes,
           kept # 0 => since'.plan[kept] = since'.changes /\ since'.profile[kept] = since'.changes
    PROVE  /\ RouteInv' /\ node' \in Nodes /\ seen' \in Seens
           /\ node'.runtime = v.runtime /\ node'.reader = v.reader /\ seen'.map = seen.map
<1>1. seen \in Seens /\ Routes \subseteq 0 .. MaxRoutes
  BY RouteConstants DEF ViewInv, ViewTypeOK, Routes
<1>2. CASE BothKnown(v, r)
  <2>1. /\ seen' = [seen EXCEPT !.route = r]
        /\ node' = [v EXCEPT !.candidates = <<>>, !.profiles = {}]
    BY <1>2 DEF Join
  <2>2. /\ seen' \in Seens /\ seen'.route = r /\ seen'.map = seen.map
    BY <1>1, <2>1 DEF Seens
  <2>3. /\ node' \in Nodes /\ node'.runtime = v.runtime /\ node'.reader = v.reader
        /\ node'.candidates = <<>> /\ node'.profiles = {}
    <3>1. <<>> \in Seq(Routes) /\ {} \in SUBSET Routes
      OBVIOUS
    <3> QED
      BY <2>1, <3>1 DEF Nodes
  <2>4. since'.plan[r] = since'.changes /\ since'.profile[r] = since'.changes
    BY <1>2 DEF BothKnown, Contains
  <2>5. RouteInv'
    BY <2>2, <2>3, <2>4 DEF RouteInv
  <2> QED
    BY <2>2, <2>3, <2>5
<1>3. CASE ~BothKnown(v, r)
  <2>1. seen' = [seen EXCEPT !.route = kept] /\ node' = v
    BY <1>3 DEF Join
  <2>2. seen' \in Seens /\ seen'.route = kept /\ seen'.map = seen.map
    BY <1>1, <2>1 DEF Seens
  <2> QED
    BY <2>1, <2>2 DEF RouteInv
<1> QED
  BY <1>2, <1>3

(* A path that joins the candidates; the oldest may have to go. *)
LEMMA NewestFacts ==
    ASSUME NEW s \in Seq(Routes), NEW r \in Routes
    PROVE  /\ Newest(Append(s, r)) \in Seq(Routes)
           /\ \A i \in 1 .. Len(Newest(Append(s, r))) :
                 \/ Newest(Append(s, r))[i] = r
                 \/ \E j \in 1 .. Len(s) : Newest(Append(s, r))[i] = s[j]
<1> DEFINE t == Append(s, r)
<1>1. /\ t \in Seq(Routes) /\ Len(s) \in Nat /\ Len(t) = Len(s) + 1 /\ t[Len(s) + 1] = r
      /\ \A i \in 1 .. Len(s) : t[i] = s[i]
  OBVIOUS
<1> HIDE DEF t
<1>2. \A i \in 1 .. Len(t) : t[i] = r \/ \E j \in 1 .. Len(s) : t[i] = s[j]
  BY <1>1
<1>3. t # <<>>
  BY <1>1
<1>4. /\ Tail(t) \in Seq(Routes) /\ Len(Tail(t)) = Len(t) - 1
      /\ \A i \in 1 .. Len(Tail(t)) : Tail(t)[i] = t[i + 1] /\ i + 1 \in 1 .. Len(t)
  BY <1>1, <1>3
<1>5. \A i \in 1 .. Len(Tail(t)) : Tail(t)[i] = r \/ \E j \in 1 .. Len(s) : Tail(t)[i] = s[j]
  BY <1>2, <1>4
<1>6. Newest(t) = t \/ Newest(t) = Tail(t)
  BY DEF Newest
<1>7. /\ Newest(t) \in Seq(Routes)
      /\ \A i \in 1 .. Len(Newest(t)) :
            Newest(t)[i] = r \/ \E j \in 1 .. Len(s) : Newest(t)[i] = s[j]
  <2>1. CASE Newest(t) = t
    BY <1>1, <1>2, <2>1
  <2>2. CASE Newest(t) = Tail(t)
    BY <1>4, <1>5, <2>2
  <2> QED
    BY <1>6, <2>1, <2>2
<1> QED
  BY <1>7 DEF t

(* The route. *)
LEMMA RoutePart ==
    ASSUME ViewInv, RouteStep
    PROVE  ViewInv'
<1>1. /\ sent \in Sents /\ node \in Nodes /\ seen \in Seens /\ since \in Sinces
      /\ heard.plan \in Nat /\ heard = [plan |-> heard.plan, profile |-> heard.profile]
  BY DEF ViewInv, ViewTypeOK
<1>2. MaxRoutes \in Nat /\ Routes = 1 .. MaxRoutes
  BY RouteConstants DEF Routes
<1>3. ASSUME sent' \in Sents, sent'.runtimes = sent.runtimes,
             UNCHANGED <<running, status, node, heard, map_messages, seen, since>>
      PROVE  ViewInv'
  BY <1>3, MapStays, RouteStays DEF ViewInv, ViewTypeOK
<1>4. CASE PlannerPublishes
  <2>1. sent' = [sent EXCEPT !.plans = @ + 1] /\ sent.plans < MaxRoutes
    BY <1>4 DEF PlannerPublishes
  <2>2. sent.plans \in 0 .. MaxRoutes
    BY <1>1, ViewFields
  <2>3. sent.plans + 1 \in 0 .. MaxRoutes
    BY <1>2, <2>1, <2>2
  <2>4. sent' \in Sents /\ sent'.runtimes = sent.runtimes
    BY <1>1, <2>1, <2>3 DEF Sents
  <2> QED
    BY <1>3, <1>4, <2>4 DEF PlannerPublishes
<1>5. CASE CommitmentPublishes
  <2>1. sent' = [sent EXCEPT !.profiles = @ \cup {sent.plans}] /\ sent.plans > 0
    BY <1>5 DEF CommitmentPublishes
  <2>2. sent.plans \in Routes
    BY <1>1, <1>2, <2>1, ViewFields
  <2>3. sent' \in Sents /\ sent'.runtimes = sent.runtimes
    BY <1>1, <2>1, <2>2 DEF Sents
  <2> QED
    BY <1>3, <1>5, <2>3 DEF CommitmentPublishes
<1>6. CASE MissionChanges
  <2>1. sent' = [sent EXCEPT !.mission = @ + 1]
    BY <1>6 DEF MissionChanges
  <2>2. sent' \in Sents /\ sent'.runtimes = sent.runtimes
    BY <1>1, <2>1 DEF Sents
  <2> QED
    BY <1>3, <1>6, <2>2 DEF MissionChanges
<1>7. ASSUME NEW v \in Nodes, v.runtime = node.runtime, v.reader = node.reader,
             NEW kept \in 0 .. MaxRoutes, NEW r \in Routes, Join(v, kept, r), since' \in Sinces,
             \A i \in 1 .. Len(v.candidates) : since'.plan[v.candidates[i]] = since'.changes,
             \A p \in v.profiles : since'.profile[p] = since'.changes,
             kept # 0 => /\ since'.plan[kept] = since'.changes
                         /\ since'.profile[kept] = since'.changes,
             heard' = [plan |-> heard'.plan, profile |-> heard'.profile], heard'.plan \in Nat,
             UNCHANGED <<running, status, sent, map_messages>>
      PROVE  ViewInv'
  <2>1. /\ RouteInv' /\ node' \in Nodes /\ seen' \in Seens
        /\ node'.runtime = v.runtime /\ node'.reader = v.reader /\ seen'.map = seen.map
    BY <1>7, JoinStep
  <2>2. MapInv'
    BY <1>7, <2>1, MapStays DEF ViewInv
  <2> QED
    BY <1>1, <1>7, <2>1, <2>2 DEF ViewInv, ViewTypeOK
<1>8. CASE OnPlan
  <2>1. PICK r \in heard.plan + 1 .. sent.plans :
           /\ heard' = [heard EXCEPT !.plan = r]
           /\ since' = [since EXCEPT !.plan[r] = since.changes]
           /\ Join([node EXCEPT !.candidates = Newest(Append(@, r))], seen.route, r)
    BY <1>8 DEF OnPlan
  <2>2. UNCHANGED <<running, status, sent, map_messages>>
    BY <1>8 DEF OnPlan
  <2>3. r \in Routes /\ r \in Nat
    BY <1>1, <1>2, <2>1, ViewFields
  <2> DEFINE s == Newest(Append(node.candidates, r))
             v == [node EXCEPT !.candidates = s]
  <2>4. /\ s \in Seq(Routes)
        /\ \A i \in 1 .. Len(s) : s[i] = r \/ \E j \in 1 .. Len(node.candidates) :
                                                s[i] = node.candidates[j]
    BY <1>1, <2>3, NewestFacts, ViewFields
  <2>5. Join(v, seen.route, r)
    BY <2>1
  <2> HIDE DEF s
  <2>6. /\ v \in Nodes /\ v.runtime = node.runtime /\ v.reader = node.reader
        /\ v.candidates = s /\ v.profiles = node.profiles
    BY <1>1, <2>4 DEF Nodes
  <2> HIDE DEF v
  <2>7. /\ since.changes \in Nat /\ since.plan \in [Routes -> Nat]
        /\ seen.route \in 0 .. MaxRoutes /\ node.candidates \in Seq(Routes)
    BY <1>1, ViewFields
  <2>8. /\ since' \in Sinces /\ since'.changes = since.changes
        /\ since'.profile = since.profile
        /\ since'.plan = [since.plan EXCEPT ![r] = since.changes]
    BY <1>1, <2>1, <2>3, <2>7 DEF Sinces
  <2>9. \A p \in Routes : since'.plan[p] = IF p = r THEN since.changes ELSE since.plan[p]
    BY <2>3, <2>7, <2>8
  <2>10. ASSUME NEW i \in 1 .. Len(v.candidates)
         PROVE  since'.plan[v.candidates[i]] = since'.changes
    <3>1. CASE s[i] = r
      BY <2>3, <2>6, <2>8, <2>9, <3>1
    <3>2. ASSUME NEW j \in 1 .. Len(node.candidates), s[i] = node.candidates[j]
          PROVE  since'.plan[v.candidates[i]] = since'.changes
      <4>1. node.candidates[j] \in Routes
        BY <2>7
      <4>2. since.plan[node.candidates[j]] = since.changes
        BY DEF ViewInv, RouteInv
      <4> QED
        BY <2>6, <2>8, <2>9, <3>2, <4>1, <4>2
    <3> QED
      BY <2>4, <2>6, <3>1, <3>2
  <2>11. \A p \in v.profiles : since'.profile[p] = since'.changes
    BY <2>6, <2>8 DEF ViewInv, RouteInv
  <2>12. ASSUME seen.route # 0
         PROVE  /\ since'.plan[seen.route] = since'.changes
                /\ since'.profile[seen.route] = since'.changes
    <3>1. since.plan[seen.route] = since.changes /\ since.profile[seen.route] = since.changes
      BY <2>12 DEF ViewInv, RouteInv
    <3>2. seen.route \in Routes
      BY <1>2, <2>7, <2>12
    <3> QED
      BY <2>8, <2>9, <3>1, <3>2
  <2>13. heard' = [plan |-> heard'.plan, profile |-> heard'.profile] /\ heard'.plan \in Nat
    BY <1>1, <2>1, <2>3
  <2> QED
    BY <1>7, <2>2, <2>3, <2>5, <2>6, <2>7, <2>8, <2>10, <2>11, <2>12, <2>13
<1>9. CASE OnPathSpeedProfile
  <2> DEFINE Shown(r) ==
               IF r # node.committed /\ ~Contains(node.candidates, r) THEN 0 ELSE seen.route
  <2>1. PICK r \in sent.profiles :
           /\ heard' = [heard EXCEPT !.profile = r]
           /\ since' = [since EXCEPT !.profile[r] = since.changes]
           /\ Join([node EXCEPT !.committed = r, !.profiles = @ \cup {r}], Shown(r), r)
    BY <1>9 DEF OnPathSpeedProfile
  <2>2. UNCHANGED <<running, status, sent, map_messages>>
    BY <1>9 DEF OnPathSpeedProfile
  <2>3. r \in Routes /\ r \in Nat
    BY <1>1, <1>2, <2>1, ViewFields
  <2> DEFINE kept == Shown(r)
             v == [node EXCEPT !.committed = r, !.profiles = @ \cup {r}]
  <2>4. kept \in {0, seen.route}
    OBVIOUS
  <2>5. Join(v, kept, r)
    BY <2>1
  <2> HIDE DEF kept
  <2>6. /\ v \in Nodes /\ v.runtime = node.runtime /\ v.reader = node.reader
        /\ v.candidates = node.candidates /\ v.profiles = node.profiles \cup {r}
    BY <1>1, <2>3 DEF Nodes
  <2> HIDE DEF v
  <2>7. /\ since.changes \in Nat /\ since.profile \in [Routes -> Nat]
        /\ seen.route \in 0 .. MaxRoutes /\ node.profiles \in SUBSET Routes
    BY <1>1, ViewFields
  <2>8. /\ since' \in Sinces /\ since'.changes = since.changes /\ since'.plan = since.plan
        /\ since'.profile = [since.profile EXCEPT ![r] = since.changes]
    BY <1>1, <2>1, <2>3, <2>7 DEF Sinces
  <2>9. \A p \in Routes : since'.profile[p] = IF p = r THEN since.changes ELSE since.profile[p]
    BY <2>3, <2>7, <2>8
  <2>10. \A i \in 1 .. Len(v.candidates) : since'.plan[v.candidates[i]] = since'.changes
    BY <2>6, <2>8 DEF ViewInv, RouteInv
  <2>11. ASSUME NEW p \in v.profiles
         PROVE  since'.profile[p] = since'.changes
    <3>1. p \in Routes /\ (p = r \/ p \in node.profiles)
      BY <2>3, <2>6, <2>7
    <3>2. CASE p = r
      BY <2>3, <2>8, <2>9, <3>2
    <3>3. CASE p \in node.profiles
      <4>1. since.profile[p] = since.changes
        BY <3>3 DEF ViewInv, RouteInv
      <4> QED
        BY <2>8, <2>9, <3>1, <4>1
    <3> QED
      BY <3>1, <3>2, <3>3
  <2>12. ASSUME kept # 0
         PROVE  since'.plan[kept] = since'.changes /\ since'.profile[kept] = since'.changes
    <3>1. since.plan[kept] = since.changes /\ since.profile[kept] = since.changes
      BY <2>4, <2>12 DEF ViewInv, RouteInv
    <3>2. kept \in Routes
      BY <1>2, <2>4, <2>7, <2>12
    <3> QED
      BY <2>8, <2>9, <3>1, <3>2
  <2>13. heard' = [plan |-> heard'.plan, profile |-> heard'.profile] /\ heard'.plan \in Nat
    BY <1>1, <2>1
  <2>14. kept \in 0 .. MaxRoutes
    BY <1>2, <2>4, <2>7
  <2> QED
    BY <1>7, <2>2, <2>3, <2>5, <2>6, <2>8, <2>10, <2>11, <2>12, <2>13, <2>14
<1>10. CASE OnNavigationState
  <2>1. PICK m \in node.mission + 1 .. sent.mission :
           /\ node' = [(IF node.mission = 0 THEN node ELSE Cleared(node)) EXCEPT !.mission = m]
           /\ seen' = IF node.mission = 0 THEN seen ELSE [seen EXCEPT !.route = 0]
           /\ since' = IF node.mission = 0 THEN since ELSE [since EXCEPT !.changes = @ + 1]
           /\ UNCHANGED <<running, status, sent, heard, map_messages>>
    BY <1>10 DEF OnNavigationState
  <2>2. m \in Nat
    <3>1. node.mission \in Nat /\ sent.mission \in Nat
      BY <1>1, ViewFields
    <3> QED
      BY <2>1, <3>1
  <2>3. CASE node.mission = 0
    <3>1. node' = [node EXCEPT !.mission = m] /\ UNCHANGED <<seen, since>>
      BY <2>1, <2>3
    <3>2. /\ node' \in Nodes /\ node'.runtime = node.runtime /\ node'.reader = node.reader
          /\ node'.candidates = node.candidates /\ node'.profiles = node.profiles
      BY <1>1, <2>2, <3>1 DEF Nodes
    <3>3. MapInv' /\ RouteInv'
      BY <2>1, <3>1, <3>2, MapStays, RouteStays DEF ViewInv
    <3> QED
      BY <2>1, <3>1, <3>2, <3>3 DEF ViewInv, ViewTypeOK
  <2>4. CASE node.mission # 0
    <3>1. /\ node' = [node EXCEPT !.candidates = <<>>, !.profiles = {}, !.committed = 0,
                                  !.mission = m]
          /\ seen' = [seen EXCEPT !.route = 0] /\ since' = [since EXCEPT !.changes = @ + 1]
      <4>1. node' = [Cleared(node) EXCEPT !.mission = m]
        BY <2>1, <2>4
      <4> QED
        BY <1>1, <2>1, <2>4, <4>1 DEF Cleared, Nodes
    <3>2. /\ node' \in Nodes /\ node'.runtime = node.runtime /\ node'.reader = node.reader
          /\ node'.candidates = <<>> /\ node'.profiles = {}
      <4>1. <<>> \in Seq(Routes) /\ {} \in SUBSET Routes
        OBVIOUS
      <4> QED
        BY <1>1, <2>2, <3>1, <4>1 DEF Nodes
    <3>3. /\ seen' \in Seens /\ seen'.route = 0 /\ seen'.map = seen.map
      BY <1>1, <1>2, <3>1 DEF Seens
    <3>4. since' \in Sinces
      BY <1>1, <3>1 DEF Sinces
    <3>5. MapInv' /\ RouteInv'
      <4>1. MapInv'
        BY <2>1, <3>2, <3>3, MapStays DEF ViewInv
      <4>2. RouteInv'
        BY <3>2, <3>3 DEF RouteInv
      <4> QED
        BY <4>1, <4>2
    <3> QED
      BY <2>1, <3>2, <3>3, <3>4, <3>5 DEF ViewInv, ViewTypeOK
  <2> QED
    BY <2>3, <2>4
<1> QED
  BY <1>4, <1>5, <1>6, <1>8, <1>9, <1>10 DEF RouteStep

(* The view moves in its own steps only. *)
LEMMA ViewNext ==
    ASSUME ViewInv, [Next]_vars
    PROVE  ViewInv'
<1>1. CASE UNCHANGED routeVars
  BY <1>1 DEF routeVars, ViewInv, ViewTypeOK, MapInv, RouteInv
<1>2. CASE ViewStep
  BY <1>2, MapPart, RoutePart, DemandPart DEF ViewStep
<1>3. CASE \E c \in Connections : Submit(c)
  BY <1>1, <1>3 DEF Submit
<1>4. CASE \/ ReceiveMessage \/ DropConnection \/ DisconnectConnection \/ PoseInput \/ PoseStep
           \/ TuningStep \/ LayerStep \/ LayerChanges
           \/ RecordingInput \/ RecordingStep \/ StreamInput \/ StreamStep
  BY <1>1, <1>4 DEF ReceiveMessage, DropConnection, DisconnectConnection, PoseInput, PoseStep,
     TuningStep, LayerStep, LayerChanges, RecordingInput, RecordingStep, StreamInput, StreamStep
<1>5. CASE UNCHANGED vars
  BY <1>1, <1>5 DEF vars
<1> QED
  BY <1>2, <1>3, <1>4, <1>5 DEF Next

(***************************************************************************)
(* ViewInv is inductive.                                                   *)
(***************************************************************************)
THEOREM ViewInductive == Spec => []ViewInv
<1>1. Init => ViewInv
  <2> SUFFICES ASSUME Init PROVE ViewInv
    OBVIOUS
  <2>1. MaxRoutes \in Nat
    BY RouteConstants
  <2>2. ViewTypeOK
    BY <2>1 DEF Init, RouteInit, ViewTypeOK, Sents, Nodes, Seens, Sinces, Routes
  <2>3. MapInv
    BY DEF Init, RouteInit, MapInv
  <2>4. RouteInv
    BY DEF Init, RouteInit, RouteInv
  <2> QED
    BY <2>2, <2>3, <2>4 DEF ViewInv
<1> QED
  BY <1>1, ViewNext, PTL DEF Spec

(***************************************************************************)
(* What the browsers are shown is of the present: a map of the runtime the *)
(* node knows to run, a route both of whose halves came in the mission     *)
(* that it knows (_on_map, _select_map_subscription,                       *)
(* _on_navigation_state).                                                  *)
(***************************************************************************)
THEOREM ShownPresent == Spec => []ShownIsPresent
<1>1. ViewInv => ShownIsPresent
  <2> SUFFICES ASSUME ViewInv PROVE ShownIsPresent
    OBVIOUS
  <2>1. running \in Nat /\ seen.map \in Nat /\ node.runtime \in Nat /\ sent.runtimes \in Nat
    BY ViewFields DEF ViewInv, ViewTypeOK
  <2> QED
    BY <2>1 DEF ViewInv, MapInv, RouteInv, ShownIsPresent
<1> QED
  BY <1>1, ViewInductive, PTL
-----------------------------------------------------------------------------
(***************************************************************************)
(* The stream.  Pending frames are tidy: one of each kind, and the whole   *)
(* state before any section.  It is offered only to a reader that waits    *)
(* for no section, which is one that is not marked.  misled holds the      *)
(* sections of a stale whole state until their next update.                *)
(***************************************************************************)
Keys == [revision : Nat, fresh : BOOLEAN]
Snapshots == [Sections -> Keys]
Frames ==
    [kind : {"state"}, keys : Snapshots] \cup [kind : Sections, keys : Keys]
    \cup [kind : {"large"}, keys : Nat]
Readers == [up : BOOLEAN, sections : Snapshots \cup {Nothing}, pending : Seq(Frames),
            demand : BOOLEAN, large : Nat \cup {Unsent}, misled : SUBSET Sections]
Views == [sections : Snapshots, large : Nat]

Tidy(p) ==
    /\ \A i, j \in 1 .. Len(p) : p[i].kind = p[j].kind => i = j
    /\ \A i, j \in 1 .. Len(p) : i < j /\ p[i].kind \in Sections => p[j].kind # "state"

(* A reader x whose browser shows v. *)
ReaderOK(x, v) ==
    /\ x \in Readers /\ v \in Views /\ Tidy(x.pending)
    /\ x.sections = Nothing => \A i \in 1 .. Len(x.pending) : x.pending[i].kind = "large"
    /\ x.sections # Nothing =>
         \A s \in Sections \ x.misled : WillShow(x.pending, v.sections[s], s, x.sections[s])
    /\ x.large \notin {Unsent, 0} => WillShow(x.pending, v.large, "large", x.large)

Caches ==
    [sections : Snapshots, large : Nat, values : [Sections \cup {"large"} -> Contents]]

HubTypes ==
    /\ cache \in Caches
    /\ hub \in [phase : {"idle", "state", "section", "large"}, keys : Snapshots, next : 1 .. 2,
                frame : Snapshots \cup {Nothing}, kept : Snapshots]
    /\ DOMAIN clients = Connections /\ DOMAIN shown = Connections

StreamInv == HubTypes /\ \A c \in Connections : ReaderOK(clients[c], shown[c])

(* The two sections stand for all. *)
LEMMA SectionNames ==
    /\ Sections = {"pose", "mode"} /\ SectionOrder = <<"pose", "mode">>
    /\ Len(SectionOrder) = 2 /\ NoKeys \in Snapshots /\ \A k \in Snapshots : k # Nothing
<1>1. SectionOrder = <<"pose", "mode">> /\ Len(SectionOrder) = 2
  BY DEF SectionOrder
<1>2. Sections = {"pose", "mode"}
  <2>1. DOMAIN SectionOrder = 1 .. 2
    BY DEF SectionOrder
  <2>2. SectionOrder[1] = "pose" /\ SectionOrder[2] = "mode"
    BY DEF SectionOrder
  <2>3. 1 .. 2 = {1, 2}
    OBVIOUS
  <2> QED
    BY <2>1, <2>2, <2>3 DEF Sections, Range
<1>3. NoKeys \in Snapshots
  BY DEF NoKeys, NoKey, Snapshots, Keys
<1>4. ASSUME NEW k \in Snapshots PROVE k # Nothing
  <2>1. DOMAIN k = Sections
    BY DEF Snapshots
  <2>2. DOMAIN Nothing = {}
    BY DEF Nothing
  <2> QED
    BY <1>2, <2>1, <2>2
<1> QED
  BY <1>1, <1>2, <1>3, <1>4

(* What a frame is about. *)
LEMMA FrameFields ==
    ASSUME NEW f \in Frames
    PROVE  /\ f.kind \in Sections \cup {"state", "large"}
           /\ f.kind = "state" => f.keys \in Snapshots
           /\ f.kind \in Sections => f.keys \in Keys
           /\ f.kind = "large" => f.keys \in Nat
           /\ Concerns(f, "large") <=> f.kind = "large"
           /\ \A s \in Sections : Concerns(f, s) <=> f.kind \in {"state", s}
<1>1. /\ f.kind \in Sections \cup {"state", "large"}
      /\ f.kind = "state" => f.keys \in Snapshots
      /\ f.kind \in Sections => f.keys \in Keys
      /\ f.kind = "large" => f.keys \in Nat
  BY SectionNames DEF Frames
<1>2. Concerns(f, "large") <=> f.kind = "large"
  BY SectionNames DEF Concerns
<1>3. \A s \in Sections : Concerns(f, s) <=> f.kind \in {"state", s}
  BY DEF Concerns
<1> QED
  BY <1>1, <1>2, <1>3

(* r is p with f in the place of the frame of its kind, or with f behind. *)
Replaced(p, f, r) ==
    /\ Len(r) = Len(p)
    /\ \E n \in 1 .. Len(p) :
         /\ p[n].kind = f.kind /\ r[n] = f
         /\ \A i \in 1 .. Len(p) : i # n => r[i] = p[i] /\ p[i].kind # f.kind

Added(p, f, r) ==
    /\ Len(r) = Len(p) + 1 /\ r[Len(p) + 1] = f
    /\ \A i \in 1 .. Len(p) : r[i] = p[i] /\ p[i].kind # f.kind

(* Offering a frame: those pending of the same kind are replaced in place, *)
(* or it comes last.                                                       *)
LEMMA OfferShape ==
    ASSUME NEW p \in Seq(Frames), NEW f \in Frames, Tidy(p)
    PROVE  /\ Offer(p, f) \in Seq(Frames)
           /\ Replaced(p, f, Offer(p, f)) \/ Added(p, f, Offer(p, f))
<1>1. Len(p) \in Nat /\ DOMAIN p = 1 .. Len(p) /\ \A i \in 1 .. Len(p) : p[i] \in Frames
  BY LenProperties, ElementOfSeq
<1>2. CASE \E i \in DOMAIN p : p[i].kind = f.kind
  <2>1. PICK n \in 1 .. Len(p) : p[n].kind = f.kind
    BY <1>1, <1>2
  <2>2. \A i \in 1 .. Len(p) : i # n => p[i].kind # f.kind
    BY <2>1 DEF Tidy
  <2> DEFINE r == [i \in 1 .. Len(p) |-> IF p[i].kind = f.kind THEN f ELSE p[i]]
  <2>3. Offer(p, f) = r
    BY <1>1, <1>2 DEF Offer
  <2>4. \A i \in 1 .. Len(p) : r[i] \in Frames
    BY <1>1
  <2>5. r \in Seq(Frames) /\ Len(r) = Len(p)
    BY <1>1, <2>4
  <2>6. r[n] = f /\ \A i \in 1 .. Len(p) : i # n => r[i] = p[i]
    BY <2>1, <2>2
  <2> HIDE DEF r
  <2> QED
    BY <2>1, <2>2, <2>3, <2>5, <2>6 DEF Replaced
<1>3. CASE ~\E i \in DOMAIN p : p[i].kind = f.kind
  <2>1. Offer(p, f) = Append(p, f)
    BY <1>3 DEF Offer
  <2>2. /\ Append(p, f) \in Seq(Frames) /\ Len(Append(p, f)) = Len(p) + 1
        /\ Append(p, f)[Len(p) + 1] = f
        /\ \A i \in 1 .. Len(p) : Append(p, f)[i] = p[i]
    BY <1>1
  <2> QED
    BY <1>1, <1>3, <2>1, <2>2 DEF Added
<1> QED
  BY <1>2, <1>3

(* A sequence r that agrees with p but for one frame that it has now and   *)
(* that is not about kind shows the same key of that kind.                 *)
LEMMA OfferKeeps ==
    ASSUME NEW p \in Seq(Frames), NEW f \in Frames, Tidy(p),
           NEW kind \in Sections \cup {"large"}, ~Concerns(f, kind), NEW now, NEW key,
           WillShow(p, now, kind, key)
    PROVE  WillShow(Offer(p, f), now, kind, key)
<1> DEFINE r == Offer(p, f)
<1>1. r \in Seq(Frames) /\ (Replaced(p, f, r) \/ Added(p, f, r))
  BY OfferShape
<1> HIDE DEF r
<1>2. /\ Len(p) \in Nat /\ DOMAIN p = 1 .. Len(p)
      /\ Len(r) \in Nat /\ DOMAIN r = 1 .. Len(r)
  BY <1>1, LenProperties
<1>3. \A g : g.kind = f.kind => ~Concerns(g, kind)
  BY DEF Concerns
<1>4. /\ \A i \in 1 .. Len(p) : Concerns(p[i], kind) => i \in 1 .. Len(r) /\ r[i] = p[i]
      /\ \A i \in 1 .. Len(r) :
           Concerns(r[i], kind) => i \in 1 .. Len(p) /\ Concerns(p[i], kind)
  <2>1. CASE Replaced(p, f, r)
    BY <1>2, <1>3, <2>1 DEF Replaced
  <2>2. CASE Added(p, f, r)
    <3>1. Len(r) = Len(p) + 1 /\ r[Len(p) + 1] = f /\ \A i \in 1 .. Len(p) : r[i] = p[i]
      BY <2>2 DEF Added
    <3>2. /\ \A i \in 1 .. Len(r) : i \in 1 .. Len(p) \/ i = Len(p) + 1
          /\ \A i \in 1 .. Len(p) : i \in 1 .. Len(r)
      BY <1>2, <3>1
    <3> QED
      BY <3>1, <3>2
  <2> QED
    BY <1>1, <2>1, <2>2
<1>6. CASE now = key /\ \A i \in 1 .. Len(p) : ~Concerns(p[i], kind)
  BY <1>2, <1>4, <1>6 DEF WillShow, r
<1>7. ASSUME NEW n \in 1 .. Len(p), Concerns(p[n], kind), KeyOf(p[n], kind) = key,
             \A j \in 1 .. Len(p) : n < j => ~Concerns(p[j], kind)
      PROVE  WillShow(r, now, kind, key)
  <2>1. n \in DOMAIN r /\ Concerns(r[n], kind) /\ KeyOf(r[n], kind) = key
    BY <1>2, <1>4, <1>7
  <2>2. \A j \in DOMAIN r : n < j => ~Concerns(r[j], kind)
    BY <1>2, <1>4, <1>7
  <2> QED
    BY <2>1, <2>2 DEF WillShow
<1> QED
  BY <1>2, <1>6, <1>7 DEF WillShow, r

(* After an offer the browser will show the frame, if the whole state is   *)
(* not offered behind a section.                                           *)
LEMMA OfferShows ==
    ASSUME NEW p \in Seq(Frames), NEW f \in Frames, Tidy(p),
           f.kind = "state" => \A i \in 1 .. Len(p) : p[i].kind = "large",
           NEW kind \in Sections \cup {"large"}, Concerns(f, kind), NEW now
    PROVE  WillShow(Offer(p, f), now, kind, KeyOf(f, kind))
<1> DEFINE r == Offer(p, f)
<1>1. r \in Seq(Frames) /\ (Replaced(p, f, r) \/ Added(p, f, r))
  BY OfferShape
<1> HIDE DEF r
<1>2. /\ Len(p) \in Nat /\ DOMAIN p = 1 .. Len(p)
      /\ Len(r) \in Nat /\ DOMAIN r = 1 .. Len(r)
  BY <1>1, LenProperties
<1>3. \E n \in 1 .. Len(r) : r[n] = f /\ \A j \in 1 .. Len(r) : n < j => ~Concerns(r[j], kind)
  <2>1. CASE Added(p, f, r)
    <3>1. Len(r) = Len(p) + 1 /\ r[Len(p) + 1] = f
      BY <2>1 DEF Added
    <3>2. Len(p) + 1 \in 1 .. Len(r) /\ \A j \in 1 .. Len(r) : ~(Len(p) + 1 < j)
      BY <1>2, <3>1
    <3> QED
      BY <3>1, <3>2
  <2>2. CASE Replaced(p, f, r)
    <3>1. PICK n \in 1 .. Len(p) :
            /\ p[n].kind = f.kind /\ r[n] = f
            /\ \A i \in 1 .. Len(p) : i # n => r[i] = p[i] /\ p[i].kind # f.kind
      BY <2>2 DEF Replaced
    <3>2. ASSUME NEW j \in 1 .. Len(p), n < j
          PROVE  ~Concerns(r[j], kind)
      <4>1. r[j] = p[j] /\ p[j].kind # f.kind
        BY <3>1, <3>2
      <4>2. f.kind # "state"
        BY <3>1, SectionNames
      <4>3. f.kind = kind /\ f.kind \in Sections \cup {"large"}
        BY <4>2 DEF Concerns
      <4>4. kind \in Sections => p[j].kind # "state"
        BY <3>1, <3>2, <4>3 DEF Tidy
      <4> QED
        BY <4>1, <4>3, <4>4, SectionNames DEF Concerns
    <3> QED
      BY <2>2, <3>1, <3>2 DEF Replaced
  <2> QED
    BY <1>1, <2>1, <2>2
<1> QED
  BY <1>2, <1>3 DEF WillShow, r

(* The pending frames stay tidy. *)
LEMMA OfferTidy ==
    ASSUME NEW p \in Seq(Frames), NEW f \in Frames, Tidy(p),
           f.kind = "state" => \A i \in 1 .. Len(p) : p[i].kind = "large"
    PROVE  Tidy(Offer(p, f))
<1> DEFINE r == Offer(p, f)
<1>1. r \in Seq(Frames) /\ (Replaced(p, f, r) \/ Added(p, f, r))
  BY OfferShape
<1> HIDE DEF r
<1>2. Len(p) \in Nat /\ Len(r) \in Nat
  BY <1>1, LenProperties
<1>3. CASE Replaced(p, f, r)
  <2>1. \A i \in 1 .. Len(p) : r[i].kind = p[i].kind
    BY <1>3 DEF Replaced
  <2> QED
    BY <1>3, <2>1 DEF Tidy, Replaced, r
<1>4. CASE Added(p, f, r)
  <2>1. \A i \in 1 .. Len(p) : r[i] = p[i] /\ p[i].kind # f.kind
    BY <1>4 DEF Added
  <2>2. r[Len(p) + 1] = f
    BY <1>4 DEF Added
  <2>3. \A i \in 1 .. Len(r) : i \in 1 .. Len(p) \/ i = Len(p) + 1
    BY <1>2, <1>4 DEF Added
  <2>4. \A i, j \in 1 .. Len(r) : r[i].kind = r[j].kind => i = j
    BY <1>2, <2>1, <2>2, <2>3 DEF Tidy
  <2>5. ASSUME NEW i \in 1 .. Len(r), NEW j \in 1 .. Len(r), i < j, r[i].kind \in Sections
        PROVE  r[j].kind # "state"
    <3>1. i \in 1 .. Len(p)
      BY <1>2, <1>4, <2>5 DEF Added
    <3>2. p[i].kind \in Sections
      BY <2>1, <2>5, <3>1
    <3>3. f.kind # "state"
      BY <3>1, <3>2, SectionNames
    <3> QED
      BY <2>1, <2>2, <2>3, <2>5, <3>1, <3>2, <3>3 DEF Tidy
  <2> QED
    BY <2>4, <2>5 DEF Tidy, r
<1> QED
  BY <1>1, <1>3, <1>4

(* The first frame is sent. *)
LEMMA SentShows ==
    ASSUME NEW p \in Seq(Frames), p # <<>>, NEW kind \in Sections \cup {"large"},
           NEW now, NEW key, WillShow(p, now, kind, key), NEW then,
           then = IF Concerns(Head(p), kind) THEN KeyOf(Head(p), kind) ELSE now
    PROVE  WillShow(Tail(p), then, kind, key)
<1> DEFINE r == Tail(p)
<1>1. /\ Len(p) \in Nat /\ Len(p) >= 1 /\ DOMAIN p = 1 .. Len(p) /\ Head(p) = p[1]
      /\ r \in Seq(Frames) /\ Len(r) = Len(p) - 1
      /\ \A i \in 1 .. Len(r) : r[i] = p[i + 1]
  BY HeadTailProperties, LenProperties, EmptySeq
<1> HIDE DEF r
<1>2. DOMAIN r = 1 .. Len(r)
  BY <1>1, LenProperties
<1>3. CASE now = key /\ \A i \in 1 .. Len(p) : ~Concerns(p[i], kind)
  <2>1. 1 \in 1 .. Len(p) /\ \A i \in 1 .. Len(r) : i + 1 \in 1 .. Len(p)
    BY <1>1
  <2>2. then = key
    BY <1>1, <1>3, <2>1
  <2>3. \A i \in 1 .. Len(r) : ~Concerns(r[i], kind)
    BY <1>1, <1>3, <2>1
  <2> QED
    BY <1>2, <2>2, <2>3 DEF WillShow, r
<1>4. ASSUME NEW n \in 1 .. Len(p), Concerns(p[n], kind), KeyOf(p[n], kind) = key,
             \A j \in 1 .. Len(p) : n < j => ~Concerns(p[j], kind)
      PROVE  WillShow(r, then, kind, key)
  <2>1. CASE n = 1
    <3>1. \A i \in 1 .. Len(r) : i + 1 \in 1 .. Len(p) /\ n < i + 1
      BY <1>1, <2>1
    <3>2. then = key
      BY <1>1, <1>4, <2>1
    <3>3. \A i \in 1 .. Len(r) : ~Concerns(r[i], kind)
      BY <1>1, <1>4, <3>1
    <3> QED
      BY <1>2, <3>2, <3>3 DEF WillShow
  <2>2. CASE n # 1
    <3>1. n - 1 \in 1 .. Len(r) /\ (n - 1) + 1 = n
      BY <1>1, <2>2
    <3>2. r[n - 1] = p[n]
      BY <1>1, <3>1
    <3>3. \A j \in 1 .. Len(r) : n - 1 < j => ~Concerns(r[j], kind)
      <4>1. ASSUME NEW j \in 1 .. Len(r), n - 1 < j
            PROVE  ~Concerns(r[j], kind)
        <5>1. j + 1 \in 1 .. Len(p) /\ n < j + 1
          BY <1>1, <4>1
        <5> QED
          BY <1>1, <1>4, <5>1
      <4> QED
        BY <4>1
    <3> QED
      BY <1>2, <1>4, <3>1, <3>2, <3>3 DEF WillShow
  <2> QED
    BY <2>1, <2>2
<1> QED
  BY <1>1, <1>3, <1>4 DEF WillShow, r

(* What is left is tidy, and of no kind that was not there. *)
LEMMA SentTidy ==
    ASSUME NEW p \in Seq(Frames), p # <<>>, Tidy(p)
    PROVE  /\ Tail(p) \in Seq(Frames) /\ Head(p) \in Frames /\ Tidy(Tail(p))
           /\ (\A i \in 1 .. Len(p) : p[i].kind = "large") =>
                /\ Head(p).kind = "large"
                /\ \A i \in 1 .. Len(Tail(p)) : Tail(p)[i].kind = "large"
<1> DEFINE r == Tail(p)
<1>1. /\ Len(p) \in Nat /\ Len(p) >= 1 /\ Head(p) = p[1] /\ Head(p) \in Frames
      /\ r \in Seq(Frames) /\ Len(r) = Len(p) - 1
      /\ \A i \in 1 .. Len(r) : r[i] = p[i + 1]
  BY HeadTailProperties, LenProperties, EmptySeq
<1> HIDE DEF r
<1>2. 1 \in 1 .. Len(p) /\ \A i \in 1 .. Len(r) : i + 1 \in 1 .. Len(p)
  BY <1>1
<1>3. Tidy(r)
  <2>1. ASSUME NEW i \in 1 .. Len(r), NEW j \in 1 .. Len(r)
        PROVE  /\ r[i].kind = r[j].kind => i = j
               /\ i < j /\ r[i].kind \in Sections => r[j].kind # "state"
    <3>1. r[i] = p[i + 1] /\ r[j] = p[j + 1] /\ i + 1 \in 1 .. Len(p) /\ j + 1 \in 1 .. Len(p)
      BY <1>1, <1>2
    <3>2. /\ p[i + 1].kind = p[j + 1].kind => i + 1 = j + 1
          /\ i + 1 < j + 1 /\ p[i + 1].kind \in Sections => p[j + 1].kind # "state"
      BY <3>1 DEF Tidy
    <3> QED
      BY <3>1, <3>2
  <2> QED
    BY <2>1 DEF Tidy
<1> QED
  BY <1>1, <1>2, <1>3 DEF r

(* A reader that has just registered, or is forgotten. *)
LEMMA NewReader ==
    ASSUME NEW v \in Views
    PROVE  ReaderOK(NoClient, v) /\ ReaderOK([NoClient EXCEPT !.up = TRUE], v)
<1>1. <<>> \in Seq(Frames) /\ Len(<<>>) = 0
  OBVIOUS
<1>2. /\ NoClient \in Readers /\ NoClient.pending = <<>> /\ NoClient.sections = Nothing
      /\ NoClient.large = 0 /\ NoClient.misled = {}
  BY <1>1 DEF NoClient, Readers
<1> DEFINE y == [NoClient EXCEPT !.up = TRUE]
<1>3. /\ y \in Readers /\ y.pending = <<>> /\ y.sections = Nothing /\ y.large = 0
      /\ y.misled = {}
  BY <1>2 DEF Readers
<1> HIDE DEF y
<1>4. Tidy(<<>>)
  BY <1>1 DEF Tidy
<1> QED
  BY <1>1, <1>2, <1>3, <1>4 DEF ReaderOK, y

(* The large kind is wanted, or no longer. *)
LEMMA ReaderDemands ==
    ASSUME NEW x, NEW v, ReaderOK(x, v), NEW wanted \in BOOLEAN, NEW y,
           y = [x EXCEPT !.demand = wanted,
                         !.large = IF wanted /\ ~x.demand THEN Unsent ELSE x.large]
    PROVE  ReaderOK(y, v)
<1>1. x \in Readers
  BY DEF ReaderOK
<1>2. /\ y \in Readers /\ y.pending = x.pending /\ y.sections = x.sections
      /\ y.large \in {x.large, Unsent} /\ y.misled = x.misled
  BY <1>1 DEF Readers
<1> QED
  BY <1>2 DEF ReaderOK

(* Sending a frame to the browser. *)
LEMMA ReaderSends ==
    ASSUME NEW x, NEW v, ReaderOK(x, v), x.pending # <<>>, NEW y,
           y = [x EXCEPT !.pending = Tail(x.pending)]
    PROVE  ReaderOK(y, Show(v, Head(x.pending)))
<1> DEFINE f == Head(x.pending)
           w == Show(v, f)
<1>1. x \in Readers /\ x.pending \in Seq(Frames) /\ Tidy(x.pending) /\ v \in Views
  BY DEF ReaderOK, Readers
<1>2. f \in Frames /\ Tail(x.pending) \in Seq(Frames) /\ Tidy(Tail(x.pending))
  BY <1>1, SentTidy
<1>3. /\ y \in Readers /\ y.pending = Tail(x.pending) /\ y.sections = x.sections
      /\ y.large = x.large /\ y.misled = x.misled
  BY <1>1, <1>2 DEF Readers
<1> HIDE DEF f
<1>4. /\ w \in Views
      /\ w.large = IF f.kind = "large" THEN f.keys ELSE v.large
      /\ \A s \in Sections : w.sections[s] = IF Concerns(f, s) THEN KeyOf(f, s)
                                             ELSE v.sections[s]
  <2>1. v.sections \in Snapshots /\ v.large \in Nat
    BY <1>1 DEF Views
  <2>2. CASE f.kind = "state"
    <3>1. w = [v EXCEPT !.sections = f.keys] /\ f.keys \in Snapshots
      BY <1>2, <2>2, FrameFields DEF Show
    <3>2. w \in Views /\ w.large = v.large /\ w.sections = f.keys
      BY <1>1, <3>1 DEF Views
    <3> QED
      BY <2>2, <3>2 DEF Concerns, KeyOf
  <2>3. CASE f.kind = "large"
    <3>1. w = [v EXCEPT !.large = f.keys] /\ f.keys \in Nat
      BY <1>2, <2>3, FrameFields DEF Show
    <3>2. w \in Views /\ w.large = f.keys /\ w.sections = v.sections
      BY <1>1, <3>1 DEF Views
    <3> QED
      BY <2>3, <3>2, SectionNames DEF Concerns
  <2>4. CASE f.kind \in Sections
    <3>1. w = [v EXCEPT !.sections[f.kind] = f.keys] /\ f.keys \in Keys
      BY <1>2, <2>4, FrameFields, SectionNames DEF Show
    <3>2. w.large = v.large /\ w.sections = [v.sections EXCEPT ![f.kind] = f.keys]
      BY <1>1, <3>1 DEF Views
    <3>3. [v.sections EXCEPT ![f.kind] = f.keys] \in Snapshots
      BY <2>1, <3>1 DEF Snapshots
    <3>4. w \in Views
      BY <1>1, <3>1, <3>3 DEF Views
    <3>5. \A s \in Sections : w.sections[s] = IF s = f.kind THEN f.keys ELSE v.sections[s]
      BY <2>1, <2>4, <3>2 DEF Snapshots
    <3> QED
      BY <2>4, <3>2, <3>4, <3>5, SectionNames DEF Concerns, KeyOf
  <2> QED
    BY <1>2, <2>2, <2>3, <2>4, FrameFields
<1> HIDE DEF w
<1>5. x.sections = Nothing => \A i \in 1 .. Len(y.pending) : y.pending[i].kind = "large"
  BY <1>1, <1>3, SentTidy DEF ReaderOK
<1>6. ASSUME x.sections # Nothing, NEW s \in Sections \ x.misled
      PROVE  WillShow(y.pending, w.sections[s], s, x.sections[s])
  BY <1>1, <1>3, <1>4, <1>6, SentShows DEF ReaderOK, f
<1>7. ASSUME x.large \notin {Unsent, 0}
      PROVE  WillShow(y.pending, w.large, "large", x.large)
  <2>1. WillShow(x.pending, v.large, "large", x.large)
    BY <1>7 DEF ReaderOK
  <2>2. w.large = IF Concerns(f, "large") THEN KeyOf(f, "large") ELSE v.large
    BY <1>2, <1>4, FrameFields DEF KeyOf
  <2> QED
    BY <1>1, <1>3, <2>1, <2>2, SentShows DEF f
<1> QED
  BY <1>2, <1>3, <1>4, <1>5, <1>6, <1>7 DEF ReaderOK, w, f

(* The whole state is offered to a reader that has none. *)
LEMMA ReaderSynchronizes ==
    ASSUME NEW x, NEW v, ReaderOK(x, v), x.sections = Nothing,
           NEW k \in Snapshots, NEW g \in Snapshots, NEW m \in SUBSET Sections,
           \A s \in Sections \ m : g[s] = k[s], NEW y,
           y = [x EXCEPT !.pending = Offer(x.pending, Frame("state", g)), !.sections = k,
                         !.misled = m]
    PROVE  ReaderOK(y, v)
<1> DEFINE f == Frame("state", g)
           r == Offer(x.pending, f)
<1>1. f \in Frames /\ f.kind = "state" /\ f.keys = g
  BY DEF Frame, Frames
<1> HIDE DEF f
<1>2. /\ x \in Readers /\ x.pending \in Seq(Frames) /\ Tidy(x.pending) /\ v \in Views
      /\ \A i \in 1 .. Len(x.pending) : x.pending[i].kind = "large"
  BY DEF ReaderOK, Readers
<1>3. r \in Seq(Frames) /\ Tidy(r)
  BY <1>1, <1>2, OfferShape, OfferTidy
<1>4. ASSUME NEW s \in Sections \ m PROVE WillShow(r, v.sections[s], s, k[s])
  <2>1. Concerns(f, s) /\ KeyOf(f, s) = k[s]
    BY <1>1 DEF Concerns, KeyOf
  <2> QED
    BY <1>1, <1>2, <2>1, OfferShows
<1>5. ASSUME x.large \notin {Unsent, 0} PROVE WillShow(r, v.large, "large", x.large)
  <2>1. ~Concerns(f, "large")
    BY <1>1, FrameFields
  <2>2. WillShow(x.pending, v.large, "large", x.large)
    BY <1>5 DEF ReaderOK
  <2> QED
    BY <1>1, <1>2, <2>1, <2>2, OfferKeeps
<1>6. y = [x EXCEPT !.pending = r, !.sections = k, !.misled = m]
  BY DEF f
<1> HIDE DEF r
<1>7. /\ y \in Readers /\ y.pending = r /\ y.sections = k /\ y.large = x.large
      /\ y.misled = m
  BY <1>2, <1>3, <1>6 DEF Readers
<1> QED
  BY <1>2, <1>3, <1>4, <1>5, <1>7, SectionNames DEF ReaderOK

(* One section is offered to a reader that is marked with another key. *)
LEMMA ReaderUpdates ==
    ASSUME NEW x, NEW v, ReaderOK(x, v), x.sections # Nothing, NEW s \in Sections,
           NEW key \in Keys, NEW y,
           y = [x EXCEPT !.pending = Offer(x.pending, Frame(s, key)), !.sections[s] = key,
                         !.misled = x.misled \ {s}]
    PROVE  ReaderOK(y, v)
<1> DEFINE f == Frame(s, key)
           r == Offer(x.pending, f)
           k == [x.sections EXCEPT ![s] = key]
<1>1. f \in Frames /\ f.kind = s /\ f.keys = key /\ f.kind # "state"
  BY SectionNames DEF Frame, Frames
<1> HIDE DEF f
<1>2. /\ x \in Readers /\ x.pending \in Seq(Frames) /\ Tidy(x.pending) /\ v \in Views
      /\ x.sections \in Snapshots
  BY DEF ReaderOK, Readers
<1>3. r \in Seq(Frames) /\ Tidy(r)
  BY <1>1, <1>2, OfferShape, OfferTidy
<1>4. k \in Snapshots /\ k[s] = key /\ \A t \in Sections : t # s => k[t] = x.sections[t]
  BY <1>2 DEF Snapshots
<1>5. ASSUME NEW t \in Sections \ (x.misled \ {s}) PROVE WillShow(r, v.sections[t], t, k[t])
  <2>1. CASE t = s
    <3>1. Concerns(f, s) /\ KeyOf(f, s) = key
      BY <1>1 DEF Concerns, KeyOf
    <3>2. WillShow(r, v.sections[s], s, KeyOf(f, s))
      BY <1>1, <1>2, <3>1, OfferShows
    <3> QED
      BY <1>4, <2>1, <3>1, <3>2
  <2>2. CASE t # s
    <3>1. ~Concerns(f, t)
      BY <1>1, <2>2 DEF Concerns
    <3>2. WillShow(x.pending, v.sections[t], t, x.sections[t])
      BY <2>2 DEF ReaderOK
    <3>3. WillShow(r, v.sections[t], t, x.sections[t])
      BY <1>1, <1>2, <3>1, <3>2, OfferKeeps
    <3> QED
      BY <1>4, <2>2, <3>3
  <2> QED
    BY <2>1, <2>2
<1>6. ASSUME x.large \notin {Unsent, 0} PROVE WillShow(r, v.large, "large", x.large)
  <2>1. ~Concerns(f, "large")
    BY <1>1, SectionNames DEF Concerns
  <2>2. WillShow(x.pending, v.large, "large", x.large)
    BY <1>6 DEF ReaderOK
  <2> QED
    BY <1>1, <1>2, <2>1, <2>2, OfferKeeps
<1> HIDE DEF r
<1>7. /\ y.pending = r /\ y.sections = k /\ y.large = x.large /\ y.up = x.up
      /\ y.misled = x.misled \ {s}
  BY <1>2 DEF Readers, r, f
<1>8. y \in Readers
  BY <1>2, <1>3, <1>4 DEF Readers, r, f
<1> HIDE DEF k
<1> QED
  BY <1>2, <1>3, <1>4, <1>5, <1>6, <1>7, <1>8, SectionNames DEF ReaderOK

(* The large kind is offered. *)
LEMMA ReaderEnlarges ==
    ASSUME NEW x, NEW v, ReaderOK(x, v), NEW n \in Nat, NEW y,
           y = [x EXCEPT !.pending = Offer(x.pending, Frame("large", n)), !.large = n]
    PROVE  ReaderOK(y, v)
<1> DEFINE f == Frame("large", n)
           r == Offer(x.pending, f)
<1>1. f \in Frames /\ f.kind = "large" /\ f.keys = n
  BY DEF Frame, Frames
<1> HIDE DEF f
<1>2. x \in Readers /\ x.pending \in Seq(Frames) /\ Tidy(x.pending) /\ v \in Views
  BY DEF ReaderOK, Readers
<1>3. r \in Seq(Frames) /\ Tidy(r) /\ (Replaced(x.pending, f, r) \/ Added(x.pending, f, r))
  BY <1>1, <1>2, OfferShape, OfferTidy
<1>4. ASSUME x.sections # Nothing, NEW s \in Sections \ x.misled
      PROVE  WillShow(r, v.sections[s], s, x.sections[s])
  <2>1. ~Concerns(f, s)
    BY <1>1, FrameFields, SectionNames
  <2>2. WillShow(x.pending, v.sections[s], s, x.sections[s])
    BY <1>4 DEF ReaderOK
  <2> QED
    BY <1>1, <1>2, <2>1, <2>2, OfferKeeps
<1>5. WillShow(r, v.large, "large", n)
  <2>1. Concerns(f, "large") /\ KeyOf(f, "large") = n
    BY <1>1 DEF Concerns, KeyOf
  <2> QED
    BY <1>1, <1>2, <2>1, OfferShows
<1>6. ASSUME x.sections = Nothing
      PROVE  \A i \in 1 .. Len(r) : r[i].kind = "large"
  <2>1. \A i \in 1 .. Len(x.pending) : x.pending[i].kind = "large"
    BY <1>6 DEF ReaderOK
  <2>2. Len(x.pending) \in Nat
    BY <1>2, LenProperties
  <2> HIDE DEF r
  <2>3. CASE Replaced(x.pending, f, r)
    BY <1>1, <2>1, <2>3 DEF Replaced
  <2>4. CASE Added(x.pending, f, r)
    <3>1. /\ Len(r) = Len(x.pending) + 1 /\ r[Len(x.pending) + 1] = f
          /\ \A i \in 1 .. Len(x.pending) : r[i] = x.pending[i]
      BY <2>4 DEF Added
    <3>2. \A i \in 1 .. Len(r) : i \in 1 .. Len(x.pending) \/ i = Len(x.pending) + 1
      BY <2>2, <3>1
    <3> QED
      BY <1>1, <2>1, <3>1, <3>2
  <2> QED
    BY <1>3, <2>3, <2>4
<1>7. y = [x EXCEPT !.pending = r, !.large = n]
  BY DEF f
<1> HIDE DEF r
<1>8. /\ y \in Readers /\ y.pending = r /\ y.sections = x.sections /\ y.large = n
      /\ y.misled = x.misled
  BY <1>2, <1>3, <1>7 DEF Readers
<1> QED
  BY <1>2, <1>3, <1>4, <1>5, <1>6, <1>8 DEF ReaderOK

(* Callbacks change the cache at any time and nothing else. *)
LEMMA CacheSteps ==
    ASSUME StreamInv,
           \/ \E s \in Sections, changed \in BOOLEAN, value \in Contents :
                CacheUpdate(s, changed, value)
           \/ \E s \in Sections : CacheExpire(s) \/ CacheInvalidate(s)
           \/ \E value \in Contents : CacheLarge(value)
    PROVE  StreamInv'
<1>1. UNCHANGED <<hub, clients, shown>>
  BY DEF CacheUpdate, CacheExpire, CacheInvalidate, CacheLarge
<1>2. /\ cache \in Caches
      /\ cache = [sections |-> cache.sections, large |-> cache.large, values |-> cache.values]
      /\ cache.sections \in Snapshots /\ cache.large \in Nat
      /\ cache.values \in [Sections \cup {"large"} -> Contents]
  BY DEF StreamInv, HubTypes, Caches
<1>3. \A s \in Sections : /\ cache.sections[s].revision \in Nat
                          /\ cache.sections[s].revision + 1 \in Nat
                          /\ cache.sections[s].fresh \in BOOLEAN
                          /\ cache.sections[s] \in Keys
  BY <1>2 DEF Snapshots, Keys
<1>4. ASSUME NEW s \in Sections, NEW key \in Keys, NEW value \in Contents,
             cache' = [sections |-> [cache.sections EXCEPT ![s] = key], large |-> cache.large,
                       values |-> [cache.values EXCEPT ![s] = value]]
      PROVE  cache' \in Caches
  <2>1. [cache.sections EXCEPT ![s] = key] \in Snapshots
    BY <1>2 DEF Snapshots
  <2>2. [cache.values EXCEPT ![s] = value] \in [Sections \cup {"large"} -> Contents]
    BY <1>2
  <2> QED
    BY <1>2, <1>4, <2>1, <2>2 DEF Caches
<1>5. \A s \in Sections : /\ cache.values[s] \in Contents
                          /\ [cache.values EXCEPT ![s] = cache.values[s]] = cache.values
  BY <1>2
<1>6. "none" \in Contents
  BY DEF Contents
<1>7. cache' \in Caches
  <2>1. ASSUME NEW s \in Sections, NEW changed \in BOOLEAN, NEW value \in Contents,
               CacheUpdate(s, changed, value)
        PROVE  cache' \in Caches
    <3> DEFINE key == [revision |-> IF changed THEN cache.sections[s].revision + 1
                                    ELSE cache.sections[s].revision,
                       fresh |-> TRUE]
    <3>1. key \in Keys
      BY <1>3 DEF Keys
    <3>2. cache' = [sections |-> [cache.sections EXCEPT ![s] = key], large |-> cache.large,
                    values |-> [cache.values EXCEPT ![s] = value]]
      BY <1>2, <2>1 DEF CacheUpdate
    <3> QED
      BY <1>4, <3>1, <3>2
  <2>2. ASSUME NEW s \in Sections, CacheExpire(s)
        PROVE  cache' \in Caches
    <3> DEFINE key == [cache.sections[s] EXCEPT !.fresh = FALSE]
    <3>1. key \in Keys
      BY <1>3 DEF Keys
    <3>2. cache' = [sections |-> [cache.sections EXCEPT ![s] = key], large |-> cache.large,
                    values |-> cache.values]
      BY <1>2, <2>2 DEF CacheExpire
    <3> QED
      BY <1>4, <1>5, <3>1, <3>2
  <2>3. ASSUME NEW s \in Sections, CacheInvalidate(s)
        PROVE  cache' \in Caches
    <3> DEFINE key == [revision |-> cache.sections[s].revision + 1, fresh |-> FALSE]
    <3>1. key \in Keys
      BY <1>3 DEF Keys
    <3>2. cache' = [sections |-> [cache.sections EXCEPT ![s] = key], large |-> cache.large,
                    values |-> [cache.values EXCEPT ![s] = "none"]]
      BY <1>2, <2>3 DEF CacheInvalidate
    <3> QED
      BY <1>4, <1>6, <3>1, <3>2
  <2>4. ASSUME NEW value \in Contents, CacheLarge(value)
        PROVE  cache' \in Caches
    <3>1. cache' = [sections |-> cache.sections, large |-> cache.large + 1,
                    values |-> [cache.values EXCEPT !["large"] = value]]
      BY <1>2, <2>4 DEF CacheLarge
    <3>2. cache.large + 1 \in Nat
      BY <1>2
    <3>3. [cache.values EXCEPT !["large"] = value] \in [Sections \cup {"large"} -> Contents]
      BY <1>2
    <3> QED
      BY <1>2, <3>1, <3>2, <3>3 DEF Caches
  <2> QED
    BY <2>1, <2>2, <2>3, <2>4
<1> QED
  BY <1>1, <1>7 DEF StreamInv, HubTypes

(* The readers are looked at one by one. *)
LEMMA ReadersStep ==
    ASSUME StreamInv, HubTypes',
           \A c \in Connections : ReaderOK(clients[c], shown[c]) =>
                                  ReaderOK(clients'[c], shown'[c])
    PROVE  StreamInv'
  BY DEF StreamInv

(* The event loop between two publications. *)
LEMMA ReaderSteps ==
    ASSUME StreamInv, NEW c \in Connections,
           \/ Register(c) \/ Unregister(c) \/ NextFrame(c)
           \/ \E wanted \in BOOLEAN : SetDemand(c, wanted)
    PROVE  StreamInv'
<1>1. /\ ReaderOK(clients[c], shown[c]) /\ clients[c] \in Readers /\ shown[c] \in Views
      /\ HubTypes /\ DOMAIN clients = Connections /\ DOMAIN shown = Connections
  BY DEF StreamInv, ReaderOK, HubTypes
<1>2. UNCHANGED <<cache, hub>>
  BY DEF Register, Unregister, NextFrame, SetDemand
<1>3. ASSUME NEW y, clients' = [clients EXCEPT ![c] = y], ReaderOK(y, shown[c]),
             UNCHANGED shown
      PROVE  StreamInv'
  <2>1. DOMAIN clients' = Connections /\ HubTypes'
    BY <1>1, <1>2, <1>3 DEF HubTypes
  <2>2. \A d \in Connections : clients'[d] = IF d = c THEN y ELSE clients[d]
    BY <1>1, <1>3
  <2> QED
    BY <1>3, <2>1, <2>2, ReadersStep
<1>4. CASE Register(c)
  BY <1>1, <1>3, <1>4, NewReader DEF Register
<1>5. CASE Unregister(c)
  BY <1>1, <1>3, <1>5, NewReader DEF Unregister
<1>6. ASSUME NEW wanted \in BOOLEAN, SetDemand(c, wanted)
      PROVE  StreamInv'
  <2> DEFINE y == [clients[c] EXCEPT !.demand = wanted,
                     !.large = IF wanted /\ ~clients[c].demand THEN Unsent
                               ELSE clients[c].large]
  <2>1. clients' = [clients EXCEPT ![c] = y] /\ UNCHANGED shown
    BY <1>1, <1>6 DEF SetDemand
  <2>2. ReaderOK(y, shown[c])
    BY <1>1, ReaderDemands
  <2> HIDE DEF y
  <2> QED
    BY <1>3, <2>1, <2>2
<1>7. CASE NextFrame(c)
  <2> DEFINE y == [clients[c] EXCEPT !.pending = Tail(clients[c].pending)]
             w == Show(shown[c], Head(clients[c].pending))
  <2>1. clients' = [clients EXCEPT ![c] = y] /\ shown' = [shown EXCEPT ![c] = w]
    BY <1>1, <1>7 DEF NextFrame
  <2>2. ReaderOK(y, w)
    BY <1>1, <1>7, ReaderSends DEF NextFrame
  <2> HIDE DEF y, w
  <2>3. /\ DOMAIN clients' = Connections /\ DOMAIN shown' = Connections
        /\ \A d \in Connections : /\ clients'[d] = IF d = c THEN y ELSE clients[d]
                                  /\ shown'[d] = IF d = c THEN w ELSE shown[d]
    BY <1>1, <2>1
  <2>4. HubTypes'
    BY <1>1, <1>2, <2>3 DEF HubTypes
  <2> QED
    BY <2>2, <2>3, <2>4, ReadersStep
<1> QED
  BY <1>4, <1>5, <1>6, <1>7

(* Synchronizing with a frame whose keys are the marks but for m. *)
LEMMA SynchronizedReaders ==
    ASSUME StreamInv, NEW k \in Snapshots, NEW g \in Snapshots, NEW m \in SUBSET Sections,
           \A s \in Sections \ m : g[s] = k[s],
           clients' = Synchronized(g, k, m), UNCHANGED shown,
           NEW c \in Connections
    PROVE  ReaderOK(clients'[c], shown'[c])
<1>1. ReaderOK(clients[c], shown[c])
  BY DEF StreamInv
<1>2. CASE c \in Unsynchronized
  <2>1. clients[c].sections = Nothing
    BY <1>2 DEF Unsynchronized
  <2>2. clients'[c] = [clients[c] EXCEPT !.pending = Offer(clients[c].pending, Frame("state", g)),
                                         !.sections = k, !.misled = m]
    BY <1>2 DEF Synchronized
  <2> DEFINE y == [clients[c] EXCEPT !.pending = Offer(clients[c].pending, Frame("state", g)),
                                     !.sections = k, !.misled = m]
  <2>3. ReaderOK(y, shown[c])
    BY <1>1, <2>1, ReaderSynchronizes
  <2> QED
    BY <2>2, <2>3
<1>3. CASE c \notin Unsynchronized
  BY <1>1, <1>3 DEF Synchronized
<1> QED
  BY <1>2, <1>3

(* The hub's record after a publication has taken its keys, and a frame. *)
LEMMA HubKeyed ==
    ASSUME NEW k \in Snapshots, NEW f \in Snapshots \cup {Nothing},
           HubTypes, UNCHANGED <<cache, shown>>, DOMAIN clients' = Connections,
           \/ hub' = [hub EXCEPT !.phase = "section", !.keys = k, !.next = 1]
           \/ hub' = [hub EXCEPT !.phase = "section", !.next = 1]
           \/ hub' = [hub EXCEPT !.phase = "section", !.next = 1, !.keys = k, !.frame = f]
    PROVE  HubTypes'
<1> DEFINE P == {"idle", "state", "section", "large"}
           F == Snapshots \cup {Nothing}
           R == [phase : P, keys : Snapshots, next : 1 .. 2, frame : F, kept : Snapshots]
<1>1. "section" \in P /\ 1 \in 1 .. 2 /\ f \in F
  OBVIOUS
<1>2. hub \in R
  BY DEF HubTypes
<1>3. hub' \in R
  <2> DEFINE N == 1 .. 2
  <2>1. 1 \in N /\ hub \in [phase : P, keys : Snapshots, next : N, frame : F, kept : Snapshots]
    BY <1>2
  <2> HIDE DEF P, F, N
  <2>2. hub' \in [phase : P, keys : Snapshots, next : N, frame : F, kept : Snapshots]
    BY <1>1, <2>1
  <2> QED
    BY <2>2 DEF N
<1> QED
  BY <1>3 DEF HubTypes

(* A publication, each time it takes the cache lock. *)
LEMMA PublicationSteps ==
    ASSUME StreamInv, PublishKeys \/ PublishState \/ PublishSection \/ PublishLarge
    PROVE  StreamInv'
<1>1. HubTypes /\ UNCHANGED <<cache, shown>>
  BY DEF StreamInv, PublishKeys, PublishState, PublishSection, PublishLarge
<1>2. /\ cache.sections \in Snapshots /\ cache.large \in Nat
      /\ hub.keys \in Snapshots /\ hub.kept \in Snapshots /\ hub.next \in 1 .. 2
      /\ hub.frame \in Snapshots \cup {Nothing}
  BY <1>1 DEF HubTypes, Caches
<1>3. \A c \in Connections : ReaderOK(clients[c], shown[c])
  BY DEF StreamInv
<1>4. CASE PublishKeys
  <2>1. CASE Unsynchronized # {} /\ cache.sections # hub.frame
    <3>1. hub' = [hub EXCEPT !.phase = "state", !.keys = cache.sections] /\ UNCHANGED clients
      BY <1>4, <2>1 DEF PublishKeys
    <3>2. HubTypes'
      BY <1>1, <1>2, <3>1 DEF HubTypes
    <3> QED
      BY <1>1, <3>1, <3>2, ReadersStep
  <2>2. CASE ~(Unsynchronized # {} /\ cache.sections # hub.frame)
    <3>1. /\ hub' = [hub EXCEPT !.phase = "section", !.keys = cache.sections, !.next = 1]
          /\ clients' = Synchronized(hub.frame, cache.sections, {})
      BY <1>4, <2>2 DEF PublishKeys
    <3>2. DOMAIN clients' = Connections
      BY <3>1 DEF Synchronized
    <3>3. HubTypes'
      BY <1>1, <1>2, <3>1, <3>2, HubKeyed
    <3>4. CASE Unsynchronized = {}
      <4>1. \A c \in Connections : clients'[c] = clients[c]
        BY <3>1, <3>4 DEF Synchronized
      <4> QED
        BY <1>1, <3>3, <4>1, ReadersStep
    <3>5. CASE cache.sections = hub.frame
      <4>1. \A c \in Connections : ReaderOK(clients'[c], shown'[c])
        BY <1>1, <1>2, <3>1, <3>5, SynchronizedReaders
      <4> QED
        BY <3>3, <4>1, ReadersStep
    <3> QED
      BY <2>2, <3>4, <3>5
  <2> QED
    BY <2>1, <2>2
<1>5. CASE PublishState
  <2>1. CASE Encodes(Sections)
    <3>1. /\ clients' = Synchronized(cache.sections, cache.sections, {})
          /\ hub' = [hub EXCEPT !.phase = "section", !.next = 1, !.keys = cache.sections,
                                !.frame = cache.sections]
      BY <1>5, <2>1 DEF PublishState, SnapshotKeys
    <3>2. DOMAIN clients' = Connections
      BY <3>1 DEF Synchronized
    <3>3. HubTypes'
      BY <1>1, <1>2, <3>1, <3>2, HubKeyed
    <3>4. \A c \in Connections : ReaderOK(clients'[c], shown'[c])
      BY <1>1, <1>2, <3>1, SynchronizedReaders
    <3> QED
      BY <3>3, <3>4, ReadersStep
  <2>2. CASE ~Encodes(Sections)
    <3> DEFINE m == {s \in Sections : hub.frame[s] # hub.keys[s]}
    <3>1. /\ clients' = IF hub.frame = Nothing THEN clients
                        ELSE Synchronized(hub.frame, hub.keys, m)
          /\ hub' = [hub EXCEPT !.phase = "section", !.next = 1]
      BY <1>5, <2>2 DEF PublishState
    <3>2. DOMAIN clients' = Connections
      BY <1>1, <3>1 DEF Synchronized, HubTypes
    <3>3. HubTypes'
      BY <1>1, <1>2, <3>1, <3>2, HubKeyed
    <3>4. CASE hub.frame = Nothing
      BY <1>1, <3>1, <3>3, <3>4, ReadersStep
    <3>5. CASE hub.frame # Nothing
      <4>1. /\ hub.frame \in Snapshots /\ m \in SUBSET Sections
            /\ \A s \in Sections \ m : hub.frame[s] = hub.keys[s]
        BY <1>2, <3>5
      <4>2. clients' = Synchronized(hub.frame, hub.keys, m)
        BY <3>1, <3>5
      <4> HIDE DEF m
      <4>3. \A c \in Connections : ReaderOK(clients'[c], shown'[c])
        BY <1>1, <1>2, <4>1, <4>2, SynchronizedReaders
      <4> QED
        BY <3>3, <4>3, ReadersStep
    <3> QED
      BY <3>4, <3>5
  <2> QED
    BY <2>1, <2>2
<1>6. CASE PublishSection
  <2> DEFINE s == SectionOrder[hub.next]
             kept == hub.kept[s] = hub.keys[s]
             wanting == {c \in Up : /\ clients[c].sections # Nothing
                                    /\ clients[c].sections[s] # hub.keys[s]
                                    /\ kept \/ Encodes({s})}
             key == IF kept THEN hub.keys[s] ELSE cache.sections[s]
  <2>1. /\ clients' = [c \in Connections |->
              IF c \in wanting
              THEN [clients[c] EXCEPT !.pending = Offer(@, Frame(s, key)),
                                      !.sections[s] = key, !.misled = @ \ {s}]
              ELSE clients[c]]
        /\ hub' = [hub EXCEPT !.kept[s] = IF wanting = {} THEN @ ELSE key,
                     !.phase = IF hub.next = Len(SectionOrder) THEN "large" ELSE @,
                     !.next = IF hub.next = Len(SectionOrder) THEN 1 ELSE @ + 1]
    BY <1>6 DEF PublishSection
  <2>2. s \in Sections
    BY <1>2, SectionNames
  <2>3. key \in Keys
    BY <1>2, <2>2 DEF Snapshots
  <2>4. \A c \in wanting : clients[c].sections # Nothing
    OBVIOUS
  <2> HIDE DEF s, wanting, key
  <2>5. DOMAIN clients' = Connections
    BY <2>1
  <2>6. HubTypes'
    <3> DEFINE k == IF wanting = {} THEN hub.kept[s] ELSE key
               p == IF hub.next = Len(SectionOrder) THEN "large" ELSE hub.phase
               n == IF hub.next = Len(SectionOrder) THEN 1 ELSE hub.next + 1
    <3>1. k \in Keys
      BY <1>2, <2>2, <2>3 DEF Snapshots
    <3>2. [hub.kept EXCEPT ![s] = k] \in Snapshots
      BY <1>2, <3>1 DEF Snapshots
    <3>3. n \in 1 .. 2
      BY <1>2, SectionNames
    <3>4. p \in {"idle", "state", "section", "large"}
      BY <1>1 DEF HubTypes
    <3>5. hub' = [hub EXCEPT !.kept = [hub.kept EXCEPT ![s] = k], !.phase = p, !.next = n]
      BY <1>1, <2>1 DEF HubTypes
    <3> HIDE DEF k, p, n
    <3> QED
      BY <1>1, <2>5, <3>2, <3>3, <3>4, <3>5 DEF HubTypes
  <2>7. ASSUME NEW c \in Connections PROVE ReaderOK(clients'[c], shown'[c])
    <3>1. CASE c \in wanting
      <4>1. clients'[c] = [clients[c] EXCEPT
              !.pending = Offer(clients[c].pending, Frame(s, key)), !.sections[s] = key,
              !.misled = clients[c].misled \ {s}]
        BY <2>1, <3>1
      <4>2. ReaderOK(clients[c], shown[c]) /\ clients[c].sections # Nothing
        BY <1>3, <2>4, <3>1
      <4>3. ReaderOK([clients[c] EXCEPT
              !.pending = Offer(clients[c].pending, Frame(s, key)), !.sections[s] = key,
              !.misled = clients[c].misled \ {s}], shown[c])
        BY <2>2, <2>3, <4>2, ReaderUpdates
      <4> QED
        BY <1>1, <4>1, <4>3
    <3>2. CASE c \notin wanting
      BY <1>1, <1>3, <2>1, <3>2
    <3> QED
      BY <3>1, <3>2
  <2> QED
    BY <2>6, <2>7, ReadersStep
<1>7. CASE PublishLarge
  <2> DEFINE wants(c) == /\ clients[c].up /\ clients[c].demand /\ clients[c].large # cache.large
                         /\ Encodes({"large"})
  <2>1. /\ clients' = [c \in Connections |->
              IF wants(c)
              THEN [clients[c] EXCEPT !.pending = Offer(@, Frame("large", cache.large)),
                                      !.large = cache.large]
              ELSE clients[c]]
        /\ hub' = [hub EXCEPT !.phase = "idle", !.keys = NoKeys]
    BY <1>7 DEF PublishLarge
  <2>2. DOMAIN clients' = Connections
    BY <2>1
  <2>3. HubTypes'
    BY <1>1, <2>1, <2>2, SectionNames DEF HubTypes
  <2>4. ASSUME NEW c \in Connections PROVE ReaderOK(clients'[c], shown'[c])
    <3>1. CASE wants(c)
      <4>1. clients'[c] = [clients[c] EXCEPT
              !.pending = Offer(clients[c].pending, Frame("large", cache.large)),
              !.large = cache.large]
        BY <2>1, <3>1
      <4> QED
        BY <1>1, <1>2, <1>3, <4>1, ReaderEnlarges
    <3>2. CASE ~wants(c)
      BY <1>1, <1>3, <2>1, <3>2
    <3> QED
      BY <3>1, <3>2
  <2> QED
    BY <2>3, <2>4, ReadersStep
<1> QED
  BY <1>4, <1>5, <1>6, <1>7

(* Only the stream, and a connection that ends, touch it. *)
LEMMA StreamNext ==
    ASSUME StreamInv, [Next]_vars
    PROVE  StreamInv'
<1>1. CASE UNCHANGED streamVars
  BY <1>1 DEF streamVars, StreamInv, HubTypes
<1>2. CASE StreamInput
  BY <1>2, CacheSteps, ReaderSteps DEF StreamInput
<1>3. CASE StreamStep
  BY <1>3, ReaderSteps, PublicationSteps DEF StreamStep
<1>4. CASE DropConnection
  BY <1>4, ReaderSteps DEF DropConnection
<1>5. CASE \E c \in Connections : Submit(c)
  BY <1>1, <1>5 DEF Submit
<1>6. CASE \/ ReceiveMessage \/ DisconnectConnection \/ PoseInput \/ PoseStep
           \/ TuningStep \/ LayerStep \/ LayerChanges \/ RecordingInput \/ RecordingStep
           \/ ViewStep
  BY <1>1, <1>6 DEF ReceiveMessage, DisconnectConnection, PoseInput, PoseStep, TuningStep,
     LayerStep, LayerChanges, RecordingInput, RecordingStep, ViewStep
<1>7. CASE UNCHANGED vars
  BY <1>1, <1>7 DEF vars
<1> QED
  BY <1>2, <1>3, <1>4, <1>5, <1>6, <1>7 DEF Next

(***************************************************************************)
(* StreamInv is inductive.                                                 *)
(***************************************************************************)
THEOREM StreamInductive == Spec => []StreamInv
<1>1. Init => StreamInv
  <2> SUFFICES ASSUME StreamInit PROVE StreamInv
    BY DEF Init
  <2>1. HubTypes
    BY SectionNames DEF StreamInit, HubTypes, Caches, Contents
  <2>2. [sections |-> NoKeys, large |-> 0] \in Views
    BY SectionNames DEF Views
  <2>3. ASSUME NEW c \in Connections PROVE ReaderOK(clients[c], shown[c])
    BY <2>2, NewReader DEF StreamInit
  <2> QED
    BY <2>1, <2>3 DEF StreamInv
<1> QED
  BY <1>1, StreamNext, PTL DEF Spec

(***************************************************************************)
(* A reader is marked with what its browser shows once the pending frames  *)
(* are sent, for any number of readers and frames, whatever callbacks      *)
(* change between the lockings of one publication and whatever cannot be   *)
(* encoded, but for the sections of a stale whole state until their next   *)
(* update (ClientHub.publish).                                             *)
(***************************************************************************)
THEOREM MarksAreSent == Spec => []MarkedIsSent
<1>1. StreamInv => MarkedIsSent
  BY DEF StreamInv, ReaderOK, MarkedIsSent, MarksAreShown, Up
<1> QED
  BY <1>1, StreamInductive, PTL
=============================================================================
