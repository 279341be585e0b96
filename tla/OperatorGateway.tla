-------------------------- MODULE OperatorGateway --------------------------
(***************************************************************************)
(* The operator gateway of the web process (gateway.py) and the two ways   *)
(* in which a browser connection reaches it (web_app.py): its messages are *)
(* handed one by one to a thread pool, and so is the end of the connection *)
(* without waiting for a message that is still in the pool.  What follows  *)
(* runs under the gateway lock, which threads get in no particular order.  *)
(*                                                                         *)
(* A malformed message is rejected without effect and is not modelled; the *)
(* pose of a goal, names and speeds are left out.                          *)
(***************************************************************************)
EXTENDS Naturals, Sequences

CONSTANTS
    Connections,    \* browser connections
    NoConnection,
    MaxActions      \* bound: browser messages and other counted inputs

ASSUME GatewayConstants == MaxActions \in Nat /\ NoConnection \notin Connections

VARIABLES
    actions,      \* inputs counted so far
    sockets,      \* each connection: "open", "closing" or "gone"
    threads,      \* the message of each connection that is in the pool
    gateway,      \* OperatorGateway
    leases,       \* lease ids made so far
    published     \* the control events published, oldest first

gatewayVars == <<actions, sockets, threads, gateway, leases, published>>

NoMessage == "none"
ControlMessages ==
    {"acquire", "takeover", "release", "heartbeat", "run_held", "run_idle", "stop",
     "clear_stop", "manual_on", "manual_off", "select_goal"}

NoLease ==
    [owner |-> NoConnection, lease |-> 0, run_pressed |-> FALSE, manual_active |-> FALSE,
     sequence |-> 0]

GatewayInit ==
    /\ actions = 0
    /\ sockets = [c \in Connections |-> "open"]
    /\ threads = [c \in Connections |-> NoMessage]
    /\ gateway = NoLease /\ leases = 0 /\ published = <<>>

Counted == actions < MaxActions /\ actions' = actions + 1

-----------------------------------------------------------------------------
(* Connections. *)

(* pump_actions: one message at a time. *)
Receive(c, message) ==
    /\ sockets[c] = "open" /\ threads[c] = NoMessage /\ Counted
    /\ threads' = [threads EXCEPT ![c] = message]
    /\ UNCHANGED <<sockets, gateway, leases, published>>

(* The connection ends.  Its tasks are cancelled: a message the pool has   *)
(* not begun is dropped with them, one that waits for the lock is not.     *)
Drop(c, begun) ==
    /\ sockets[c] = "open"
    /\ sockets' = [sockets EXCEPT ![c] = "closing"]
    /\ threads' = IF begun THEN threads ELSE [threads EXCEPT ![c] = NoMessage]
    /\ UNCHANGED <<actions, gateway, leases, published>>

-----------------------------------------------------------------------------
(* Control events (_control): numbered, under the lease of the moment. *)

Event(name, lease, sequence) == [event |-> name, lease |-> lease, sequence |-> sequence]

Emit(after, name) ==
    /\ gateway' = [after EXCEPT !.sequence = @ + 1]
    /\ published' = Append(published, Event(name, gateway.lease, gateway.sequence + 1))
    /\ UNCHANGED leases

Free == [NoLease EXCEPT !.sequence = gateway.sequence]
Owns(c) == gateway.owner = c

Grant(c, before) ==
    /\ leases' = leases + 1
    /\ gateway' = [NoLease EXCEPT !.owner = c, !.lease = leases + 1,
                                  !.sequence = gateway.sequence + Len(before) + 1]
    /\ published' = published \o Append(before,
          Event("LEASE_ACQUIRED", leases + 1, gateway.sequence + Len(before) + 1))

_do_acquire(c) == gateway.owner = NoConnection /\ Grant(c, <<>>)

(* Mutant of Revocation: the event names the lease that is to come. *)
RevocationOfNext == <<Event("LEASE_LOST", leases + 1, gateway.sequence + 1)>>

Revocation == <<Event("LEASE_LOST", gateway.lease, gateway.sequence + 1)>>

_do_takeover(c) ==
    \/ _do_acquire(c)
    \/ gateway.owner \notin {c, NoConnection} /\ Grant(c, Revocation)

(* on_disconnect, also the release of a live connection. *)
on_disconnect(c) ==
    IF Owns(c) THEN Emit(Free, "LEASE_RELEASED") ELSE UNCHANGED <<gateway, leases, published>>

_do_run(held) ==
    /\ held \/ gateway.run_pressed
    /\ Emit([gateway EXCEPT !.run_pressed = held],
            IF ~held THEN "RUN_RELEASED"
            ELSE IF gateway.run_pressed THEN "HEARTBEAT" ELSE "RUN_PRESSED")

_do_manual(active) ==
    /\ active \/ gateway.manual_active
    /\ Emit([gateway EXCEPT !.manual_active = active,
                            !.run_pressed = IF active THEN FALSE ELSE @],
            IF active THEN "MANUAL_ACTIVE" ELSE "MANUAL_INACTIVE")

(* _do_stop; _do_set_initial_pose begins with it. *)
_do_stop ==
    Emit([gateway EXCEPT !.run_pressed = FALSE, !.manual_active = FALSE], "STOP")

(* A CLEAR STOP that is blocked has still used a number. *)
_do_clear_stop(blocked) ==
    IF blocked
    THEN gateway' = [gateway EXCEPT !.sequence = @ + 1] /\ UNCHANGED <<leases, published>>
    ELSE Emit(gateway, "CLEAR_STOP")

_do_heartbeat == Emit(gateway, "HEARTBEAT")
_do_select_goal == Emit(gateway, "GOAL_SELECTED")

(* handle: a control message of the owner, or a change of owner. *)
Handle(c, message, blocked) ==
    \/ message = "acquire" /\ _do_acquire(c)
    \/ message = "takeover" /\ _do_takeover(c)
    \/ /\ Owns(c)
       /\ \/ message = "release" /\ on_disconnect(c)
          \/ message = "heartbeat" /\ _do_heartbeat
          \/ message = "run_held" /\ _do_run(TRUE)
          \/ message = "run_idle" /\ _do_run(FALSE)
          \/ message = "stop" /\ _do_stop
          \/ message = "clear_stop" /\ _do_clear_stop(blocked)
          \/ message = "manual_on" /\ _do_manual(TRUE)
          \/ message = "manual_off" /\ _do_manual(FALSE)
          \/ message = "select_goal" /\ _do_select_goal

(* Rejected, or nothing to do: no effect. *)
Idle(c, message) ==
    \/ message = "acquire" /\ gateway.owner # NoConnection
    \/ message = "takeover" /\ Owns(c)
    \/ message \notin {"acquire", "takeover"} /\ ~Owns(c)
    \/ message = "run_idle" /\ ~gateway.run_pressed
    \/ message = "manual_off" /\ ~gateway.manual_active

Refuse(c, message) == Idle(c, message) /\ UNCHANGED <<gateway, leases, published>>

(* The pool runs the disconnection. *)
Disconnect(c) ==
    /\ sockets[c] = "closing"
    /\ sockets' = [sockets EXCEPT ![c] = "gone"]
    /\ on_disconnect(c)
    /\ UNCHANGED <<actions, threads>>

-----------------------------------------------------------------------------
(* Every lease has one beginning and one end: its first event acquires it, *)
(* nothing follows its release or its loss, and no number is used twice,   *)
(* whichever connections come, go, or take over (OperatorGateway).         *)
LeasesAreBracketed ==
    \A i, j \in DOMAIN published :
        LET first == published[i]
            later == published[j]
        IN  i < j => /\ first.sequence < later.sequence
                     /\ first.lease = later.lease =>
                           /\ first.event \notin {"LEASE_RELEASED", "LEASE_LOST"}
                           /\ later.event # "LEASE_ACQUIRED"

(* A connection that has gone does not hold the lease (on_disconnect:      *)
(* "never leaves it stuck").                                               *)
LeaseIsNeverStuck ==
    gateway.owner # NoConnection => sockets[gateway.owner] # "gone"
=============================================================================
