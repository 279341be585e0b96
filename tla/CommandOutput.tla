--------------------------- MODULE CommandOutput ---------------------------
(***************************************************************************)
(* How a remote command reaches the wheels, and how a takeover ends it:    *)
(* the local-control watch and the autonomy output gate of the command     *)
(* authority node (command_authority_node.py), in front of twist_mux.      *)
(*                                                                         *)
(* A grant is a RUN press that the supervisor turned into autonomy (the    *)
(* rules are those of PaddockStateMachine: none is made during a takeover, *)
(* and a takeover ends the one there is).  Grants are numbered.            *)
(*                                                                         *)
(* twist_mux is external: it passes a message on when no input of a        *)
(* higher priority had a message within its timeout.  The STOP inputs,     *)
(* above all others, are modelled in StopEnforcer.                         *)
(***************************************************************************)
EXTENDS Teleop

CONSTANTS MaxGrants       \* bound: grants made

ASSUME OutputConstants == MaxGrants \in Nat

VARIABLES
    local,     \* CommandAuthorityNode: what it knows of local control
    grant,     \* CommandAuthorityNode: the grant in force, 0 for none
    gate,      \* CommandAuthorityNode: _AutonomyOutputGate
    status,    \* /paddock/local_control_state: the message under way
    mask,      \* twist_mux: age of the last message of teleop
    cmd,       \* twist_mux: the last command passed on, with history
    granted    \* history: per grant, the ticks since a takeover began under it

outputVars == <<local, grant, gate, status, mask, cmd, granted>>

LocalControlTimeout == 2     \* local_control_timeout_sec: 0.1 s
MuxTimeout == 3              \* twist_mux teleop timeout: 0.15 s
YieldTicks == 3

NoStatus == [process |-> 0, takeovers |-> 0, active |-> FALSE]
Unengaged == YieldTicks + 2  \* no takeover began under this grant

OutputInit ==
    /\ local = [process |-> 0, takeovers |-> 0, active |-> FALSE, known |-> FALSE, age |-> 0]
    /\ grant = 0 /\ granted = <<>> /\ status = NoStatus /\ mask = MuxTimeout + 1
    /\ gate = [forwarding |-> FALSE, braking |-> FALSE]
    /\ cmd = [from |-> "none", grant |-> 0, moves |-> FALSE, waited |-> 0, overridden |-> 0]

-----------------------------------------------------------------------------
(* A remote message that teleop does not mask becomes the command. *)
RemoteMessage(moves) ==
    [from |-> "autonomy", grant |-> IF moves THEN grant ELSE 0, moves |-> moves,
     overridden |-> cmd.overridden,
     waited |-> IF moves /\ granted[grant] # Unengaged THEN granted[grant] ELSE 0]

MuxRemote(moves, mask_over) ==
    /\ Over(mask_over, mask, MuxTimeout)
    /\ IF mask_over THEN cmd' = RemoteMessage(moves) ELSE UNCHANGED cmd
    /\ UNCHANGED mask

(* teleop has the highest priority: its message always passes.  A command  *)
(* of a takeover overrides every grant made so far.                        *)
MuxTeleop(p) ==
    IF p.sent
    THEN /\ mask' = 0
         /\ cmd' = [from |-> "teleop", grant |-> 0, moves |-> p.command # "zero", waited |-> 0,
                    overridden |-> IF p.takeover THEN Len(granted) ELSE cmd.overridden]
    ELSE UNCHANGED <<mask, cmd>>

(* _AutonomyOutputGate.update without a sample: a revoke edge opens the    *)
(* brake window, which is braked and then silent.  How long it is          *)
(* (auto_brake_window_sec) is left open.                                   *)
Gate(permitted, window_over) ==
    LET edge == ~permitted /\ gate.forwarding
        braking == ~permitted /\ (edge \/ (gate.braking /\ ~window_over))
    IN  [forwarding |-> gate.forwarding /\ ~edge, braking |-> braking]

(* _apply, after a change that leaves the grant g, with no sample to       *)
(* forward.  open: the other interlocks (STOP clear, action active, lease  *)
(* and raw command fresh).                                                 *)
Apply(g, open, window_over, mask_over) ==
    /\ (open => g # 0) /\ (window_over => gate.braking)
    /\ grant' = g
    /\ gate' = Gate(g # 0 /\ open, window_over)
    /\ IF gate'.braking THEN MuxRemote(FALSE, mask_over)
       ELSE ~mask_over /\ UNCHANGED <<mask, cmd>>

-----------------------------------------------------------------------------
(* _on_local_control: another process or takeover ends the grant even if   *)
(* it is over by now.                                                      *)
IsNewIdentity(m) == ~local.known \/ <<m.process, m.takeovers>> # <<local.process, local.takeovers>>

OnLocalControl(open, window_over, mask_over) ==
    LET ends == IsNewIdentity(status) \/ status.active
    IN  /\ status # NoStatus /\ status' = NoStatus
        /\ local' = [process |-> status.process, takeovers |-> status.takeovers,
                     active |-> status.active, known |-> TRUE, age |-> 0]
        /\ Apply(IF ends THEN 0 ELSE grant, open, window_over, mask_over)
        /\ UNCHANGED granted

LoseStatus == status # NoStatus /\ status' = NoStatus
              /\ UNCHANGED <<local, grant, gate, mask, cmd, granted>>

(* Mutant of Missing: the silence of the teleop node is never noticed. *)
MissingNever(over) == ~over

(* local_control_timeout_sec *)
Missing(over) ==
    OverIf(local.known /\ ~local.active, over, local.age, LocalControlTimeout)

(* _on_supervision_timer: missing status ends the grant as a takeover does. *)
OnSupervisionTimer(over, open, window_over, mask_over) ==
    LET missing == ~local.active /\ (~local.known \/ over)
    IN  /\ Missing(over)
        /\ local' = [local EXCEPT !.active = @ \/ missing]
        /\ Apply(IF missing THEN 0 ELSE grant, open, window_over, mask_over)
        /\ UNCHANGED <<status, granted>>

(* RUN pressed with every interlock met. *)
Grant ==
    /\ ~local.active /\ local.known /\ grant = 0 /\ Len(granted) < MaxGrants
    /\ granted' = Append(granted, Unengaged)
    /\ grant' = Len(granted')
    /\ UNCHANGED <<local, gate, status, mask, cmd>>

(* RUN released. *)
Revoke(window_over, mask_over) ==
    grant # 0 /\ Apply(0, FALSE, window_over, mask_over) /\ UNCHANGED <<local, status, granted>>

(* _on_raw_autonomy: a sample under a grant is forwarded. *)
OnRawAutonomy(mask_over) ==
    /\ grant # 0
    /\ gate' = [forwarding |-> TRUE, braking |-> FALSE]
    /\ MuxRemote(TRUE, mask_over)
    /\ UNCHANGED <<local, grant, status, granted>>

(* A takeover begins: history. *)
Engaged(ages) == [g \in DOMAIN ages |-> IF ages[g] = Unengaged THEN 0 ELSE ages[g]]

OlderOutput ==
    /\ local' = [local EXCEPT !.age = IF local.known /\ ~local.active
                                      THEN Older(@, LocalControlTimeout) ELSE 0]
    /\ mask' = Older(mask, MuxTimeout)
    /\ granted' = [g \in DOMAIN granted |->
                     IF granted[g] > YieldTicks THEN granted[g] ELSE granted[g] + 1]
    /\ status = NoStatus
    /\ UNCHANGED <<grant, gate, status, cmd>>
=============================================================================
