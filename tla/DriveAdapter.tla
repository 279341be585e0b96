---------------------------- MODULE DriveAdapter ----------------------------
(***************************************************************************)
(* The way of a browser's manual demand: gateway sequence number, lease of *)
(* the command authority, conversion to effort by the drive adapter        *)
(* (drive_adapter_node.py, drive_adapter.py), and back through the         *)
(* authority's check of the command's provenance.                          *)
(*                                                                         *)
(* The two channels are ordered and arbitrarily slow; authority, web       *)
(* process and runtime may change at any moment.  The speed controller     *)
(* keeps the sign of the command or brings it to zero.                     *)
(***************************************************************************)
EXTENDS Integers, Sequences

CONSTANTS
    MaxChannel,    \* bound: messages under way on one channel
    MaxSequence,   \* bound: control events of one web process
    MaxGenerations,\* bound: lease generations of one authority process
    MaxEpochs      \* bound: runtime epochs

ASSUME AdapterConstants ==
    {MaxChannel, MaxSequence, MaxGenerations, MaxEpochs} \subseteq Nat

VARIABLES
    authority,     \* CommandAuthorityNode and its supervisor
    web,           \* GatewayCore: process (history) and _sequence
    runtime,       \* the mode supervisor's runtime epoch
    adapter,       \* DriveAdapterNode and DriveAdapter
    demands,       \* /paddock/manual_demand
    converted,     \* /cmd_vel_paddock_manual_raw
    forwarded      \* history: origin of the last manual command forwarded

adapterVars == <<authority, web, runtime, adapter, demands, converted, forwarded>>

(* Where a demand comes from, as no message says it in full. *)
Origin(a, w, e) == [authority |-> a.process, web |-> w.process, sequence |-> w.sequence, epoch |-> e]
Nav == [authority |-> 0, web |-> 0, sequence |-> 0, epoch |-> 0]
Nothing == [Nav EXCEPT !.epoch = -1]

(* A new authority process knows no runtime yet. *)
NewAuthority(n) ==
    [process |-> n, generation |-> 0, owner |-> 0, epoch |-> 0, demand |-> 0,
     asserted |-> FALSE, of |-> Nothing]

AdapterInit ==
    /\ authority = NewAuthority(1) /\ web = [process |-> 1, sequence |-> 0] /\ runtime = 1
    /\ adapter = [manual |-> FALSE, provenance |-> <<>>, command |-> Nothing]
    /\ demands = <<>> /\ converted = <<>> /\ forwarded = Nothing

-----------------------------------------------------------------------------
(* The authority. *)

(* _apply with no demand to send: one that was asserted is withdrawn when  *)
(* manual control has ended.                                               *)
Withdraw(a) ==
    IF a.asserted /\ a.demand = 0
    THEN /\ Len(demands) < MaxChannel
         /\ demands' = Append(demands, [active |-> FALSE])
         /\ authority' = [a EXCEPT !.asserted = FALSE]
    ELSE UNCHANGED demands /\ authority' = a

EndManual(a) == [a EXCEPT !.demand = 0, !.of = Nothing]

AcquireLease ==
    /\ authority.owner = 0 /\ authority.generation < MaxGenerations /\ web.sequence < MaxSequence
    /\ web' = [web EXCEPT !.sequence = @ + 1]
    /\ authority' = [authority EXCEPT !.owner = web.process, !.generation = @ + 1]
    /\ UNCHANGED <<runtime, adapter, demands, converted, forwarded>>

(* Released, lost or expired. *)
LoseLease ==
    /\ authority.owner # 0
    /\ Withdraw([EndManual(authority) EXCEPT !.owner = 0, !.generation = @ + 1])
    /\ UNCHANGED <<web, runtime, adapter, converted, forwarded>>

(* MANUAL_ACTIVE of the owner. *)
OnManualActive ==
    /\ authority.owner = web.process /\ authority.epoch # 0
    /\ web.sequence < MaxSequence /\ Len(demands) < MaxChannel
    /\ web' = [web EXCEPT !.sequence = @ + 1]
    /\ authority' = [authority EXCEPT !.demand = web'.sequence, !.asserted = TRUE,
                                      !.of = Origin(authority, web', authority.epoch)]
    /\ demands' = Append(demands,
         [active |-> TRUE, of |-> authority'.of, sequence |-> web'.sequence,
          generation |-> authority.generation, epoch |-> authority.epoch])
    /\ UNCHANGED <<runtime, adapter, converted, forwarded>>

(* MANUAL_INACTIVE, a demand that expired, a takeover or STOP. *)
OnManualInactive ==
    /\ authority.demand # 0
    /\ Withdraw(EndManual(authority))
    /\ UNCHANGED <<web, runtime, adapter, converted, forwarded>>

(* The mode status: a change of runtime disarms (set_runtime_mode). *)
OnModeState ==
    /\ authority.epoch # runtime
    /\ Withdraw([EndManual(authority) EXCEPT !.epoch = runtime])
    /\ UNCHANGED <<web, runtime, adapter, converted, forwarded>>

(* Mutant of IsCurrentDemand: the lease generation is taken to be enough. *)
IsCurrentLease(m) ==
    m.epoch = authority.epoch /\ m.generation = authority.generation /\ authority.demand # 0

(* _on_raw_manual and receive_raw_manual *)
IsCurrentDemand(m) ==
    /\ m.epoch = authority.epoch /\ m.generation = authority.generation
    /\ authority.demand # 0 /\ m.sequence = authority.demand

OnRawManual ==
    /\ converted # <<>> /\ converted' = Tail(converted)
    /\ forwarded' = IF IsCurrentDemand(Head(converted)) THEN Head(converted).of ELSE Nothing
    /\ UNCHANGED <<authority, web, runtime, adapter, demands>>

-----------------------------------------------------------------------------
(* The adapter. *)

(* _on_command: Nav2 is ignored while manual is selected. *)
OnCommand ==
    /\ ~adapter.manual /\ adapter' = [adapter EXCEPT !.command = Nav]
    /\ UNCHANGED <<authority, web, runtime, demands, converted, forwarded>>

(* _on_manual_demand *)
Selected(m) ==
    IF m.active
    THEN [manual |-> TRUE, provenance |-> <<m.sequence, m.generation, m.epoch>>, command |-> m.of]
    ELSE [manual |-> FALSE, provenance |-> <<>>, command |-> Nothing]

OnManualDemand ==
    /\ demands # <<>> /\ demands' = Tail(demands)
    /\ adapter' = Selected(Head(demands))
    /\ UNCHANGED <<authority, web, runtime, converted, forwarded>>

(* _publish and step: silent without a command or when it is stale, which  *)
(* it may be at any time here.  A converted Nav2 command goes to           *)
(* CommandOutput's raw autonomy.                                           *)
Publish ==
    /\ adapter.command # Nothing /\ adapter.manual /\ Len(converted) < MaxChannel
    /\ converted' = Append(converted,
         [sequence |-> adapter.provenance[1], generation |-> adapter.provenance[2],
          epoch |-> adapter.provenance[3], of |-> adapter.command])
    /\ UNCHANGED <<authority, web, runtime, adapter, demands, forwarded>>

-----------------------------------------------------------------------------
(* The web process and the authority restart.  Both within the 0.25 s that *)
(* the adapter keeps a command is left out: either is longer in starting.  *)
Restarts == authority.process + web.process - 2

RestartAuthority ==
    /\ Restarts = 0
    /\ authority' = NewAuthority(authority.process + 1)
    /\ forwarded' = Nothing
    /\ UNCHANGED <<web, runtime, adapter, demands, converted>>

(* The lease of the process that died runs out (LoseLease). *)
RestartWeb ==
    /\ Restarts = 0 /\ web' = [process |-> web.process + 1, sequence |-> 0]
    /\ UNCHANGED <<authority, runtime, adapter, demands, converted, forwarded>>

ChangeRuntime ==
    /\ runtime < MaxEpochs /\ runtime' = runtime + 1
    /\ UNCHANGED <<authority, web, adapter, demands, converted, forwarded>>

AdapterNext ==
    \/ AcquireLease \/ LoseLease \/ OnManualActive \/ OnManualInactive \/ OnModeState
    \/ OnRawManual \/ OnCommand \/ OnManualDemand \/ Publish
    \/ RestartAuthority \/ RestartWeb \/ ChangeRuntime

-----------------------------------------------------------------------------
(* A manual command that the authority passes on towards the wheels was    *)
(* demanded from this authority process, by this web process and under     *)
(* the runtime the authority knows, although none of the two processes is  *)
(* named in any message and each numbers from the start again when it      *)
(* restarts (_on_raw_manual, receive_raw_manual).                          *)
ConvertedIsCurrent ==
    [][Len(converted') < Len(converted) /\ forwarded' # Nothing
         => forwarded' = authority.of]_adapterVars
=============================================================================
