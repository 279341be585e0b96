------------------------- MODULE CommandSupervisor -------------------------
(***************************************************************************)
(* The clock-injected supervisor of the command authority                  *)
(* (command_supervisor.py): it owns the control lease, orders the browser  *)
(* events of its owner, and lets a velocity sample through only while      *)
(* every gate is open.                                                     *)
(*                                                                         *)
(* The object is one record, self, and a method is an action that rewrites *)
(* it.  A receive time is kept as what the code ever asks of it: whether   *)
(* its age is within a bound.  The lease has two bounds, the motion        *)
(* deadman (fresh) and the ownership backstop (stale, but still live);     *)
(* every sample may grow old between any two inputs.  Velocities, the      *)
(* clamping of a manual demand and the reason strings are left out.        *)
(*                                                                         *)
(* demand.by is a history field: the lease generation of the demand.       *)
(***************************************************************************)
EXTENDS PaddockStateMachine

CONSTANTS
    SequenceModulus,      \* 2^64 in the code
    MaxLeaseGeneration,   \* bound: no lease is granted past this generation
    MaxModeRequest        \* bound: mode request ids

ASSUME SupervisorConstants ==
    /\ SequenceModulus \in Nat /\ SequenceModulus > 1
    /\ MaxLeaseGeneration \in Nat
    /\ MaxModeRequest \in Nat

VARIABLES
    self,       \* the CommandSupervisor object
    forwarded   \* the sample the last input let through: to which output

supervisorVars == <<self, forwarded>>

SequenceNumbers == 0 .. SequenceModulus - 1
NoSequence == -1
NoDemand == [sequence |-> NoSequence, by |-> 0]
Demands == [sequence : SequenceNumbers, by : Nat] \cup {NoDemand}

Supervisors ==
    [ state : PaddockState,
      lease_age : {"none", "fresh", "stale", "lapsed"},
      raw_fresh : BOOLEAN, manual_fresh : BOOLEAN, raw_manual_fresh : BOOLEAN,
      demand : Demands,
      last_control_sequence : SequenceNumbers \cup {NoSequence},
      lapsed_lease : Sessions \cup {None} ]

SupervisorTypeOK ==
    /\ self \in Supervisors
    /\ forwarded \in {"none", "autonomy", "manual"}

-----------------------------------------------------------------------------
(***************************************************************************)
(* Helpers: each maps the object x to the object the Python method leaves. *)
(***************************************************************************)

(* The object of a process that has just started. *)
Fresh ==
    [ state |-> Restarted(None), lease_age |-> "none", raw_fresh |-> FALSE,
      manual_fresh |-> FALSE, raw_manual_fresh |-> FALSE, demand |-> NoDemand,
      last_control_sequence |-> NoSequence, lapsed_lease |-> None ]

IsNewerSequence(candidate, previous) ==
    LET delta == (candidate - previous) % SequenceModulus
    IN  0 < delta /\ 2 * delta < SequenceModulus

LeaseIsFresh(x) == lease_active(x.state) /\ x.lease_age = "fresh"
LeaseIsLive(x) == lease_active(x.state) /\ x.lease_age \in {"fresh", "stale"}

WithoutDemand(x) == [x EXCEPT !.demand = NoDemand, !.manual_fresh = FALSE]

(* Mutant of ClearManualIfInactive: the demand stays. *)
ClearManualNever(x) == x

ClearManualIfInactive(x) == IF x.state.manual_active THEN x ELSE WithoutDemand(x)

(* Assigning a reduced state, followed by _clear_manual_if_inactive. *)
Settle(x, s) == ClearManualIfInactive([x EXCEPT !.state = s])

(* Only the ownership backstop drops the lease. *)
ExpireLease(x) ==
    IF ~lease_active(x.state) \/ LeaseIsLive(x) THEN x
    ELSE Settle([x EXCEPT !.last_control_sequence = NoSequence,
                          !.lapsed_lease = x.state.lease],
                LoseLease(x.state))

ExpireManual(x) ==
    IF ~x.state.manual_active \/ x.manual_fresh THEN x
    ELSE WithoutDemand([x EXCEPT !.state = ManualInactive(@)])

(* Mutant of Granted: the lapsed lease is not forgotten. *)
GrantedKeepsLapsed(x, session, sequence) ==
    [x EXCEPT !.state = AcquireLease(@, session), !.lease_age = "fresh",
              !.last_control_sequence = sequence]

Granted(x, session, sequence) ==
    [x EXCEPT !.state = AcquireLease(@, session), !.lease_age = "fresh",
              !.last_control_sequence = sequence, !.lapsed_lease = None]

(* Mutant of InOrder: the sequence is not looked at. *)
InOrderUnchecked(x, session, sequence) ==
    lease_active(x.state) /\ session = x.state.lease

(* The event is the owner's and newer than the last one taken from it. *)
InOrder(x, session, sequence) ==
    /\ lease_active(x.state)
    /\ session = x.state.lease
    /\ \/ x.last_control_sequence = NoSequence
       \/ IsNewerSequence(sequence, x.last_control_sequence)

Refreshed(x, sequence) ==
    [x EXCEPT !.lease_age = "fresh", !.last_control_sequence = sequence]

Released(x) == [x EXCEPT !.lease_age = "none", !.last_control_sequence = NoSequence]

(* A MANUAL_ACTIVE event: the state is reduced first; a demand that is not *)
(* finite, or not eligible, is refused after that, and an earlier demand   *)
(* is left in place.                                                       *)
Demanded(x, sequence, finite) ==
    LET s == ManualActive(x.state)
    IN  IF ~finite THEN [x EXCEPT !.state = ManualInactive(s)]
        ELSE IF authority(s) # "PADDOCK_MANUAL" THEN [x EXCEPT !.state = s]
        ELSE [x EXCEPT !.state = s, !.manual_fresh = TRUE,
                       !.demand = [sequence |-> sequence, by |-> s.lease_generation]]

(* The events that carry no payload, as reduced for their owner. *)
PlainEvents == {"RUN_PRESSED", "RUN_RELEASED", "STOP", "CLEAR_STOP", "MANUAL_INACTIVE",
                "LEASE_RELEASED", "LEASE_LOST", "HEARTBEAT"}

Reduced(x, event) ==
    CASE event = "HEARTBEAT" -> x
      [] event = "CLEAR_STOP" -> [x EXCEPT !.state = Stop(@)]
      [] event = "STOP" -> Settle(x, Stop(x.state))
      [] event = "RUN_PRESSED" -> Settle(x, RunPress(x.state))
      [] event = "RUN_RELEASED" -> Settle(x, RunRelease(x.state))
      [] event = "MANUAL_INACTIVE" -> Settle(x, ManualInactive(x.state))
      [] event = "LEASE_RELEASED" -> Settle(Released(x), LoseLease(x.state))
      [] event = "LEASE_LOST" -> Settle(x, LoseLease(x.state))

AutonomyOpen(x) == autonomy_permitted(x.state) /\ LeaseIsFresh(x)

ManualOpen(x) ==
    authority(x.state) = "PADDOCK_MANUAL" /\ x.manual_fresh /\ x.raw_manual_fresh

BrakeIntent(x) == ~(AutonomyOpen(x) /\ x.raw_fresh) /\ ~ManualOpen(x)

-----------------------------------------------------------------------------
(***************************************************************************)
(* The inputs of the supervisor.  Every method expires the lease first.    *)
(***************************************************************************)

(* Mutant of Tick: the timer leaves the lease to the next message. *)
TickForgetsLease ==
    /\ self' = ExpireManual(self)
    /\ forwarded' = "none"

Tick ==
    /\ self' = ExpireManual(ExpireLease(self))
    /\ forwarded' = "none"

(* HEARTBEAT of the session whose lease lapsed, nobody having taken over.  *)
Reinstates(x, event, session) ==
    event = "HEARTBEAT" /\ ~lease_active(x.state) /\ x.lapsed_lease = session

PlainEvent(event, session, sequence) ==
    LET x == ExpireLease(self)
    IN  /\ Reinstates(x, event, session) => x.state.lease_generation < MaxLeaseGeneration
        /\ self' = IF Reinstates(x, event, session) THEN Granted(x, session, sequence)
                   ELSE IF InOrder(x, session, sequence)
                        THEN Reduced(Refreshed(x, sequence), event) ELSE x
        /\ forwarded' = "none"

LeaseAcquired(session, sequence) ==
    LET x == ExpireLease(self)
    IN  /\ lease_active(x.state) \/ x.state.lease_generation < MaxLeaseGeneration
        /\ self' = IF lease_active(x.state) THEN x ELSE Granted(x, session, sequence)
        /\ forwarded' = "none"

(* pose = None is a pose that is not finite: refused, the lease refreshed. *)
GoalSelected(session, sequence, pose) ==
    LET x == ExpireLease(self)
        y == Refreshed(x, sequence)
    IN  /\ self' = IF ~InOrder(x, session, sequence) THEN x
                   ELSE IF pose = None THEN y ELSE Settle(y, SelectGoal(y.state, pose))
        /\ forwarded' = "none"

ManualDemanded(session, sequence, finite) ==
    LET x == ExpireLease(self)
    IN  /\ self' = IF ~InOrder(x, session, sequence) THEN x
                   ELSE Demanded(Refreshed(x, sequence), sequence, finite)
        /\ forwarded' = "none"

(* Follows the ModeState of the mode supervisor; anything but a stable and *)
(* ready runtime counts as IDLE and disarms.                               *)
SetRuntimeMode(mode, map, stable) ==
    LET x == ExpireLease(self)
        effective == IF stable THEN mode ELSE "IDLE"
        changed == effective # x.state.mode \/ map # x.state.active_autonomy_map \/ ~stable
        moved == [x.state EXCEPT !.mode = effective, !.active_autonomy_map = map]
    IN  /\ self' = Settle(x, IF changed THEN [Disarm(moved) EXCEPT !.goal = NoGoal]
                             ELSE moved)
        /\ forwarded' = "none"

(* No node calls request_mode today; it does not settle a manual demand. *)
RequestRuntimeMode(mode, id, session) ==
    LET x == ExpireLease(self)
    IN  /\ self' = IF session = x.state.lease
                   THEN [x EXCEPT !.state = RequestMode(@, mode, id)] ELSE x
        /\ forwarded' = "none"

SetDualsenseActive(active) ==
    LET x == ExpireLease(self)
    IN  /\ self' = Settle(x, IF active THEN DualsenseActive(x.state)
                             ELSE DualsenseInactive(x.state))
        /\ forwarded' = "none"

ReceiveRawAutonomy(valid) ==
    LET x == [ExpireLease(self) EXCEPT !.raw_fresh = valid]
    IN  /\ self' = x
        /\ forwarded' = IF /\ valid
                           /\ authority(x.state) = "PADDOCK_AUTONOMY"
                           /\ LeaseIsFresh(x)
                           /\ ~BrakeIntent(x)
                        THEN "autonomy" ELSE "none"

(* A converted manual sample counts only for the demand in place. *)
ReceiveRawManual(sequence, valid) ==
    LET x == ExpireManual(ExpireLease(self))
        y == [x EXCEPT !.raw_manual_fresh = TRUE]
        current == valid /\ x.demand # NoDemand /\ sequence = x.demand.sequence
    IN  /\ self' = IF current THEN y ELSE x
        /\ forwarded' = IF /\ current
                           /\ authority(y.state) = "PADDOCK_MANUAL"
                           /\ y.manual_fresh
                           /\ ~BrakeIntent(y)
                        THEN "manual" ELSE "none"

Restart ==
    /\ self' = Fresh
    /\ forwarded' = "none"

(***************************************************************************)
(* The passage of time: an age crosses its bound.  The age of a lease that *)
(* nobody holds is never read.                                             *)
(***************************************************************************)
LeaseAges ==
    /\ lease_active(self.state)
    /\ \/ self.lease_age = "fresh" /\ self' = [self EXCEPT !.lease_age = "stale"]
       \/ self.lease_age = "stale" /\ self' = [self EXCEPT !.lease_age = "lapsed"]
    /\ forwarded' = "none"

RawAges ==
    /\ self.raw_fresh
    /\ self' = [self EXCEPT !.raw_fresh = FALSE]
    /\ forwarded' = "none"

ManualAges ==
    /\ self.manual_fresh
    /\ self' = [self EXCEPT !.manual_fresh = FALSE]
    /\ forwarded' = "none"

RawManualAges ==
    /\ self.raw_manual_fresh
    /\ self' = [self EXCEPT !.raw_manual_fresh = FALSE]
    /\ forwarded' = "none"

-----------------------------------------------------------------------------
SupervisorInit ==
    /\ self = Fresh
    /\ forwarded = "none"

ControlEvents ==
    \E session \in Sessions, sequence \in SequenceNumbers :
        \/ \E event \in PlainEvents : PlainEvent(event, session, sequence)
        \/ LeaseAcquired(session, sequence)
        \/ \E pose \in Poses \cup {None} : GoalSelected(session, sequence, pose)
        \/ \E finite \in BOOLEAN : ManualDemanded(session, sequence, finite)

RuntimeInputs ==
    \/ \E mode \in Modes, map \in Maps \cup {None}, stable \in BOOLEAN :
           SetRuntimeMode(mode, map, stable)
    \/ \E mode \in Modes, id \in 1 .. MaxModeRequest, session \in Sessions :
           RequestRuntimeMode(mode, id, session)
    \/ \E active \in BOOLEAN : SetDualsenseActive(active)
    \/ \E valid \in BOOLEAN : ReceiveRawAutonomy(valid)
    \/ \E sequence \in SequenceNumbers, valid \in BOOLEAN : ReceiveRawManual(sequence, valid)

Time == LeaseAges \/ RawAges \/ ManualAges \/ RawManualAges

SupervisorNext == Tick \/ ControlEvents \/ RuntimeInputs \/ Restart \/ Time

SupervisorSpec == SupervisorInit /\ [][SupervisorNext]_supervisorVars

(* The 100 Hz supervision timer always fires again, and time passes. *)
FairSupervisorSpec ==
    SupervisorSpec /\ WF_supervisorVars(Tick) /\ WF_supervisorVars(LeaseAges)

-----------------------------------------------------------------------------
(***************************************************************************)
(* Properties.                                                             *)
(***************************************************************************)

(* Navigation is active exactly while the interlock permits autonomy, and  *)
(* RUN, the goal and manual control are grants of the lease, the map and   *)
(* the mode of this moment: no order of takeover, mode change, lapse,      *)
(* reinstatement and delayed events leaves one behind for a later owner    *)
(* (the rewrites of PaddockState in command_supervisor.py).                *)
GrantsAreCurrent ==
    /\ NavigationMatchesPermit(self.state)
    /\ GrantsOfCurrentLease(self.state)
    /\ TakeoverBlocksRun(self.state)

(* Manual control always has a demand behind it, and the demand belongs to *)
(* the lease held now: a converted sample of an earlier owner can match    *)
(* nothing, although several early returns of handle_control_event leave   *)
(* the demand in place.                                                    *)
DemandIsCurrent ==
    /\ self.state.manual_active =>
          /\ self.demand # NoDemand
          /\ self.state.mode # "IDLE"
          /\ ~self.state.dualsense_active
    /\ self.demand # NoDemand =>
          lease_active(self.state) /\ self.demand.by = self.state.lease_generation

(* A lapsed lease waits for its session only while nobody holds the lease, *)
(* so a heartbeat of the old owner cannot take it from a new one.          *)
LapsedLeaseIsFree == self.lapsed_lease # None => ~lease_active(self.state)

SupervisorInv == GrantsAreCurrent /\ DemandIsCurrent /\ LapsedLeaseIsFree

(* Autonomy opens only by a deliberate act of the lease owner: RUN pressed *)
(* or a goal selected.  The end of a takeover, a reinstated lease, a mode  *)
(* change, the end of manual control or the clearing of STOP never open    *)
(* it (command_supervisor.py: "Autonomous motion does not resume until RUN *)
(* is deliberately pressed again").                                        *)
OwnerArms(session, sequence) ==
    /\ session = self'.state.lease
    /\ \/ PlainEvent("RUN_PRESSED", session, sequence)
       \/ \E pose \in Poses : GoalSelected(session, sequence, pose)

GrantIsDeliberate ==
    [][ ~autonomy_permitted(self.state) /\ autonomy_permitted(self'.state)
        => \E session \in Sessions, sequence \in SequenceNumbers :
               OwnerArms(session, sequence) ]_supervisorVars

(* A live lease is never handed to another session, and whoever receives   *)
(* or loses the lease does so under a new generation and is left with no   *)
(* RUN, no goal and no manual demand, although one call may both expire    *)
(* the old lease and grant the new one.                                    *)
OwnershipChangeDisarms ==
    [][ self'.state.lease # self.state.lease =>
        /\ LeaseIsLive(self) => self'.state.lease = None
        /\ ~self'.state.run_held /\ self'.state.goal = NoGoal
        /\ ~self'.state.manual_active /\ self'.demand = NoDemand
        /\ \/ self'.state.lease_generation > self.state.lease_generation
           \/ self' = Fresh ]_supervisorVars

(* While a lease lasts, the events taken from its owner are in sequence    *)
(* order modulo 2^64: a delayed or duplicated event is never applied.      *)
SequencesAdvance ==
    [][ /\ self'.state.lease_generation = self.state.lease_generation
        /\ self'.last_control_sequence # self.last_control_sequence
        /\ lease_active(self.state)
        => /\ IsNewerSequence(self'.last_control_sequence, self.last_control_sequence)
           /\ ~IsNewerSequence(self.last_control_sequence, self'.last_control_sequence)
      ]_supervisorVars

(* A lease whose owner has gone silent is eventually free again, whatever  *)
(* other browsers, the runtime and the navigation stack keep sending, so   *)
(* that another browser can acquire it (the ownership backstop of          *)
(* _expire_lease and the supervision timer).                               *)
OwnerSpeaks ==
    \E session \in Sessions \cap {self.state.lease, self'.state.lease},
       sequence \in SequenceNumbers :
        \/ \E event \in PlainEvents : PlainEvent(event, session, sequence)
        \/ LeaseAcquired(session, sequence)
        \/ \E pose \in Poses \cup {None} : GoalSelected(session, sequence, pose)
        \/ \E finite \in BOOLEAN : ManualDemanded(session, sequence, finite)

SilentLeaseLapses ==
    <>[][~OwnerSpeaks]_supervisorVars => <>[]~lease_active(self.state)

(* The transition contract of docs/runner_spec_v1.3.md: releasing manual   *)
(* control returns to IDLE, never to autonomy.                             *)
ManualReleaseReturnsIdle ==
    [][ authority(self.state) = "PADDOCK_MANUAL"
        => authority(self'.state) # "PADDOCK_AUTONOMY" ]_supervisorVars

=============================================================================
