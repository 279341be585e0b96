---------------------- MODULE CommandSupervisorProofs ----------------------
(***************************************************************************)
(* The grants of the command authority, for any number of sessions, maps   *)
(* and sequence numbers.  The reducer is taken operator by operator: each  *)
(* keeps StateOK.  The methods of the supervisor then keep SelfOK, because *)
(* each is a composition of those operators.  What a step may never do     *)
(* follows from what it can do to the lease.                               *)
(***************************************************************************)
EXTENDS CommandSupervisor, TLAPS

(* What every PaddockState that the reducer produces satisfies.  The last  *)
(* conjunct is what makes an accepted demand eligible.                     *)
StateOK(s) ==
    /\ NavigationMatchesPermit(s)
    /\ GrantsOfCurrentLease(s)
    /\ TakeoverBlocksRun(s)
    /\ s.manual_active => s.mode # "IDLE" /\ ~s.dualsense_active

(* Only GOAL_SELECTED makes a goal, and a goal is on a real map. *)
LEMMA GoalShape ==
    ASSUME NEW map \in Maps, NEW pose \in Poses, NEW by \in Nat
    PROVE  /\ [map |-> map, pose |-> pose, by |-> by]
                 \in [map : Maps, pose : Poses, by : Nat]
           /\ [map |-> map, pose |-> pose, by |-> by] # NoGoal
  BY PaddockConstants DEF NoGoal

(* A state with no grants is a good one. *)
LEMMA RestartedOK == Restarted(None) \in PaddockState /\ StateOK(Restarted(None))
  BY DEF Restarted, PaddockState, StateOK, NavigationMatchesPermit, GrantsOfCurrentLease,
         TakeoverBlocksRun, autonomy_permitted, lease_active, Modes

(* Acquiring a lease grants nothing else. *)
LEMMA AcquireLeaseOK ==
    ASSUME NEW s \in PaddockState, StateOK(s), NEW session \in Sessions
    PROVE  AcquireLease(s, session) \in PaddockState /\ StateOK(AcquireLease(s, session))
  <1>1. CASE lease_active(s)
    BY <1>1 DEF AcquireLease
  <1>2. CASE ~lease_active(s)
    <2>1. s.lease_generation + 1 \in Nat
      BY DEF PaddockState
    <2>2. AcquireLease(s, session) \in PaddockState
      BY <1>2, <2>1 DEF AcquireLease, PaddockState
    <2>3. StateOK(AcquireLease(s, session))
      BY <1>2, PaddockConstants
         DEF AcquireLease, PaddockState, StateOK, NavigationMatchesPermit,
             GrantsOfCurrentLease, TakeoverBlocksRun, autonomy_permitted, lease_active
    <2> QED BY <2>2, <2>3
  <1> QED BY <1>1, <1>2

(* Losing the lease drops every grant. *)
LEMMA LoseLeaseOK ==
    ASSUME NEW s \in PaddockState, StateOK(s)
    PROVE  LoseLease(s) \in PaddockState /\ StateOK(LoseLease(s))
  <1>1. CASE ~lease_active(s)
    BY <1>1 DEF LoseLease
  <1>2. CASE lease_active(s)
    <2>1. s.lease_generation + 1 \in Nat
      BY DEF PaddockState
    <2>2. LoseLease(s) \in PaddockState
      BY <1>2, <2>1 DEF LoseLease, Disarm, PaddockState
    <2>3. StateOK(LoseLease(s))
      BY <1>2 DEF LoseLease, Disarm, PaddockState, StateOK, NavigationMatchesPermit,
                  GrantsOfCurrentLease, TakeoverBlocksRun, autonomy_permitted, lease_active
    <2> QED BY <2>2, <2>3
  <1> QED BY <1>1, <1>2

(* A takeover blocks RUN, and its end unblocks nothing. *)
LEMMA DualsenseOK ==
    ASSUME NEW s \in PaddockState, StateOK(s)
    PROVE  /\ DualsenseActive(s) \in PaddockState /\ StateOK(DualsenseActive(s))
           /\ DualsenseInactive(s) \in PaddockState /\ StateOK(DualsenseInactive(s))
  BY DEF DualsenseActive, DualsenseInactive, PaddockState, StateOK, NavigationMatchesPermit,
         GrantsOfCurrentLease, TakeoverBlocksRun, autonomy_permitted, lease_active

(* A requested mode disarms before it takes effect. *)
LEMMA RequestModeOK ==
    ASSUME NEW s \in PaddockState, StateOK(s), NEW mode \in Modes, NEW id \in Nat
    PROVE  RequestMode(s, mode, id) \in PaddockState /\ StateOK(RequestMode(s, mode, id))
  BY DEF RequestMode, Disarm, PaddockState, StateOK, NavigationMatchesPermit,
         GrantsOfCurrentLease, TakeoverBlocksRun, autonomy_permitted, lease_active

(* RUN opens autonomy only as far as the interlock does. *)
LEMMA RunOK ==
    ASSUME NEW s \in PaddockState, StateOK(s)
    PROVE  /\ RunPress(s) \in PaddockState /\ StateOK(RunPress(s))
           /\ RunRelease(s) \in PaddockState /\ StateOK(RunRelease(s))
  <1>1. RunPress(s) \in PaddockState /\ StateOK(RunPress(s))
    <2>1. CASE ~lease_active(s) \/ s.run_held
      BY <2>1 DEF RunPress
    <2>2. CASE lease_active(s) /\ ~s.run_held
      <3> DEFINE t == [s EXCEPT !.run_held = TRUE, !.run_by = s.lease_generation,
                                !.run_blocked_until_release = s.dualsense_active]
                 u == [t EXCEPT !.navigation_active = autonomy_permitted(t)]
      <3>1. ~s.navigation_active
        BY <2>2 DEF StateOK, NavigationMatchesPermit, autonomy_permitted
      <3>2. t \in PaddockState /\ t.navigation_active = FALSE
        BY <3>1 DEF PaddockState
      <3>3. RunPress(s) = u
        BY <2>2, <3>2 DEF RunPress, PaddockState, autonomy_permitted
      <3>4. u \in PaddockState /\ StateOK(u)
        BY <2>2 DEF PaddockState, StateOK, NavigationMatchesPermit,
               GrantsOfCurrentLease, TakeoverBlocksRun, autonomy_permitted, lease_active
      <3> QED BY <3>3, <3>4
    <2> QED BY <2>1, <2>2
  <1>2. RunRelease(s) \in PaddockState /\ StateOK(RunRelease(s))
    BY DEF RunRelease, PaddockState, StateOK, NavigationMatchesPermit,
           GrantsOfCurrentLease, TakeoverBlocksRun, autonomy_permitted, lease_active
  <1> QED BY <1>1, <1>2

(* STOP disarms and manual control replaces RUN. *)
LEMMA StopManualOK ==
    ASSUME NEW s \in PaddockState, StateOK(s)
    PROVE  /\ Stop(s) \in PaddockState /\ StateOK(Stop(s))
           /\ ManualActive(s) \in PaddockState /\ StateOK(ManualActive(s))
           /\ ManualInactive(s) \in PaddockState /\ StateOK(ManualInactive(s))
  BY DEF Stop, ManualActive, ManualInactive, Disarm, PaddockState, StateOK,
         NavigationMatchesPermit, GrantsOfCurrentLease, TakeoverBlocksRun,
         autonomy_permitted, lease_active

(* A new goal belongs to the lease and the map of this moment. *)
LEMMA SelectGoalOK ==
    ASSUME NEW s \in PaddockState, StateOK(s), NEW pose \in Poses
    PROVE  SelectGoal(s, pose) \in PaddockState /\ StateOK(SelectGoal(s, pose))
  <1> DEFINE g == [map |-> s.active_autonomy_map, pose |-> pose, by |-> s.lease_generation]
  <1>1. CASE ~lease_active(s) \/ s.mode # "AUTONOMY" \/ s.active_autonomy_map = None
    BY <1>1 DEF SelectGoal
  <1>2. CASE ~(~lease_active(s) \/ s.mode # "AUTONOMY" \/ s.active_autonomy_map = None)
    <2>1. /\ g \in [map : Maps, pose : Poses, by : Nat]
          /\ g # NoGoal
          /\ g.map = s.active_autonomy_map /\ g.by = s.lease_generation
      BY <1>2, GoalShape DEF PaddockState
    <2> DEFINE t == [s EXCEPT !.goal = g]
               u == [t EXCEPT !.navigation_active = autonomy_permitted(t)]
    <2>2. SelectGoal(s, pose) = u
      BY <1>2 DEF SelectGoal
    <2> HIDE DEF g
    <2>3. u \in PaddockState /\ StateOK(u)
      BY <1>2, <2>1 DEF PaddockState, StateOK, NavigationMatchesPermit, Modes,
                        GrantsOfCurrentLease, TakeoverBlocksRun, autonomy_permitted, lease_active
    <2> QED BY <2>2, <2>3
  <1> QED BY <1>1, <1>2

-----------------------------------------------------------------------------
(* The inductive invariant, of the object: its state is good, its demand   *)
(* and its lapsed lease fit the state.                                     *)
DemandOK(x) ==
    /\ x.state.manual_active => x.demand # NoDemand
    /\ x.demand # NoDemand =>
          lease_active(x.state) /\ x.demand.by = x.state.lease_generation

SelfOK(x) ==
    /\ x \in Supervisors
    /\ StateOK(x.state)
    /\ DemandOK(x)
    /\ x.lapsed_lease # None => ~lease_active(x.state)

(* t is s with the same lease and no new manual control. *)
SameLease(s, t) ==
    /\ t.lease = s.lease
    /\ t.lease_generation = s.lease_generation
    /\ t.manual_active => s.manual_active

(* Every reduction but a grant and a loss of the lease, and MANUAL_ACTIVE, *)
(* leaves the lease alone.                                                 *)
LEMMA ReductionsKeepLease ==
    ASSUME NEW s \in PaddockState
    PROVE  /\ SameLease(s, Stop(s)) /\ SameLease(s, ManualInactive(s))
           /\ SameLease(s, RunPress(s)) /\ SameLease(s, RunRelease(s))
           /\ SameLease(s, DualsenseActive(s)) /\ SameLease(s, DualsenseInactive(s))
           /\ \A mode \in Modes, id \in Nat : SameLease(s, RequestMode(s, mode, id))
           /\ \A pose \in Poses : SameLease(s, SelectGoal(s, pose))
  <1>1. SameLease(s, Stop(s)) /\ SameLease(s, ManualInactive(s))
    BY DEF SameLease, Stop, ManualInactive, Disarm, PaddockState
  <1>2. SameLease(s, RunPress(s)) /\ SameLease(s, RunRelease(s))
    BY DEF SameLease, RunPress, RunRelease, PaddockState
  <1>3. SameLease(s, DualsenseActive(s)) /\ SameLease(s, DualsenseInactive(s))
    BY DEF SameLease, DualsenseActive, DualsenseInactive, PaddockState
  <1>4. \A mode \in Modes, id \in Nat : SameLease(s, RequestMode(s, mode, id))
    BY DEF SameLease, RequestMode, Disarm, PaddockState
  <1>5. \A pose \in Poses : SameLease(s, SelectGoal(s, pose))
    BY DEF SameLease, SelectGoal, PaddockState
  <1> QED BY <1>1, <1>2, <1>3, <1>4, <1>5

(* Dropping the demand of an object whose manual control is off. *)
LEMMA WithoutDemandOK ==
    ASSUME NEW x \in Supervisors, StateOK(x.state), ~x.state.manual_active,
           x.lapsed_lease # None => ~lease_active(x.state)
    PROVE  SelfOK(WithoutDemand(x)) /\ WithoutDemand(x).state = x.state
  <1>1. NoDemand \in Demands
    BY DEF Demands
  <1> DEFINE y == WithoutDemand(x)
  <1>2. /\ y \in Supervisors /\ y.state = x.state /\ y.demand = NoDemand
        /\ y.lapsed_lease = x.lapsed_lease
    BY <1>1 DEF WithoutDemand, Supervisors
  <1> QED BY <1>2 DEF SelfOK, DemandOK

(* A reduction that keeps the lease keeps the object good, settled or not. *)
LEMMA SettleOK ==
    ASSUME NEW x, SelfOK(x), NEW s \in PaddockState, StateOK(s), SameLease(x.state, s)
    PROVE  SelfOK([x EXCEPT !.state = s]) /\ SelfOK(Settle(x, s))
  <1> DEFINE y == [x EXCEPT !.state = s]
  <1>1. /\ y \in Supervisors /\ y.state = s /\ y.demand = x.demand
        /\ y.lapsed_lease = x.lapsed_lease
    BY DEF SelfOK, Supervisors
  <1>2. SelfOK(y)
    BY <1>1 DEF SelfOK, DemandOK, SameLease, lease_active
  <1>3. ~s.manual_active => SelfOK(WithoutDemand(y))
    BY <1>1, <1>2, WithoutDemandOK DEF SelfOK
  <1> QED BY <1>1, <1>2, <1>3 DEF Settle, ClearManualIfInactive

(* Losing the lease, settled. *)
LEMMA SettleLossOK ==
    ASSUME NEW x \in Supervisors, StateOK(x.state), lease_active(x.state)
    PROVE  SelfOK(Settle(x, LoseLease(x.state)))
  <1> DEFINE s == LoseLease(x.state)
             y == [x EXCEPT !.state = s]
  <1>1. s \in PaddockState /\ StateOK(s)
    BY LoseLeaseOK DEF Supervisors
  <1>2. ~lease_active(s) /\ ~s.manual_active
    <2>1. x.state \in PaddockState
      BY DEF Supervisors
    <2> QED BY <2>1 DEF LoseLease, lease_active, Disarm, PaddockState
  <1> HIDE DEF s
  <1>3. /\ y \in Supervisors /\ y.state = s
    BY <1>1 DEF Supervisors
  <1>4. SelfOK(WithoutDemand(y))
    BY <1>1, <1>2, <1>3, WithoutDemandOK
  <1> QED BY <1>2, <1>3, <1>4 DEF Settle, ClearManualIfInactive, s

(* The expiry with which every method begins. *)
LEMMA ExpireLeaseOK ==
    ASSUME NEW x, SelfOK(x)
    PROVE  SelfOK(ExpireLease(x))
  <1>1. CASE ~lease_active(x.state) \/ LeaseIsLive(x)
    BY <1>1 DEF ExpireLease
  <1>2. CASE ~(~lease_active(x.state) \/ LeaseIsLive(x))
    <2> DEFINE y == [x EXCEPT !.last_control_sequence = NoSequence,
                              !.lapsed_lease = x.state.lease]
    <2>1. y \in Supervisors /\ y.state = x.state
      BY DEF SelfOK, Supervisors, PaddockState
    <2>2. ExpireLease(x) = Settle(y, LoseLease(x.state))
      BY <1>2 DEF ExpireLease
    <2> HIDE DEF y
    <2>3. SelfOK(Settle(y, LoseLease(y.state)))
      BY <1>2, <2>1, SettleLossOK DEF SelfOK
    <2> QED BY <2>1, <2>2, <2>3
  <1> QED BY <1>1, <1>2

(* The expiry of a manual demand that is no longer fresh. *)
LEMMA ExpireManualOK ==
    ASSUME NEW x, SelfOK(x)
    PROVE  SelfOK(ExpireManual(x))
  <1> DEFINE s == ManualInactive(x.state)
             y == [x EXCEPT !.state = s]
  <1>1. CASE ~x.state.manual_active \/ x.manual_fresh
    BY <1>1 DEF ExpireManual
  <1>2. CASE ~(~x.state.manual_active \/ x.manual_fresh)
    <2>1. x.state \in PaddockState
      BY DEF SelfOK, Supervisors
    <2>2. s \in PaddockState /\ StateOK(s) /\ SameLease(x.state, s)
      BY <2>1, StopManualOK DEF SelfOK, SameLease, ManualInactive, PaddockState
    <2>3. ~s.manual_active
      BY <1>2, <2>1 DEF ManualInactive, PaddockState, SelfOK, StateOK, GrantsOfCurrentLease
    <2> HIDE DEF s
    <2>4. SelfOK(y)
      BY <2>2, SettleOK
    <2>5. y.state = s
      BY DEF SelfOK, Supervisors
    <2>6. SelfOK(WithoutDemand(y))
      BY <2>3, <2>4, <2>5, WithoutDemandOK DEF SelfOK
    <2> QED BY <1>2, <2>6 DEF ExpireManual, s
  <1> QED BY <1>1, <1>2

-----------------------------------------------------------------------------
(* A fresh object, a refreshed one and one with other sample ages. *)
LEMMA FreshOK == SelfOK(Fresh)
  <1>1. NoDemand \in Demands
    BY DEF Demands
  <1>2. Fresh \in Supervisors
    BY <1>1, RestartedOK DEF Fresh, Supervisors
  <1>3. Restarted(None).manual_active = FALSE
    BY DEF Restarted
  <1> QED BY <1>2, <1>3, RestartedOK DEF SelfOK, DemandOK, Fresh

(* The ages of samples and of the lease are no part of the invariant. *)
LEMMA AgesOK ==
    ASSUME NEW x, SelfOK(x), NEW y \in Supervisors, y.state = x.state, y.demand = x.demand,
           y.lapsed_lease = x.lapsed_lease
    PROVE  SelfOK(y)
  BY DEF SelfOK, DemandOK

(* An accepted event refreshes the lease and nothing else. *)
LEMMA RefreshedOK ==
    ASSUME NEW x, SelfOK(x), NEW sequence \in SequenceNumbers
    PROVE  /\ SelfOK(Refreshed(x, sequence)) /\ Refreshed(x, sequence).state = x.state
  <1> DEFINE y == Refreshed(x, sequence)
  <1>1. /\ y \in Supervisors /\ y.state = x.state /\ y.demand = x.demand
        /\ y.lapsed_lease = x.lapsed_lease
    BY DEF Refreshed, SelfOK, Supervisors
  <1> QED BY <1>1, AgesOK

(* A grant to a session, when nobody holds the lease. *)
LEMMA GrantedOK ==
    ASSUME NEW x, SelfOK(x), ~lease_active(x.state),
           NEW session \in Sessions, NEW sequence \in SequenceNumbers
    PROVE  SelfOK(Granted(x, session, sequence))
  <1> DEFINE s == AcquireLease(x.state, session)
             y == Granted(x, session, sequence)
  <1>1. x.state \in PaddockState /\ x.demand = NoDemand /\ ~x.state.manual_active
    BY DEF SelfOK, DemandOK, Supervisors
  <1>2. s \in PaddockState /\ StateOK(s)
    BY <1>1, AcquireLeaseOK DEF SelfOK
  <1>3. ~s.manual_active
    BY <1>1 DEF AcquireLease, PaddockState
  <1> HIDE DEF s
  <1>4. /\ y \in Supervisors /\ y.state = s /\ y.demand = x.demand
        /\ y.lapsed_lease = None
    BY <1>2 DEF Granted, SelfOK, Supervisors, s
  <1> QED BY <1>1, <1>2, <1>3, <1>4 DEF SelfOK, DemandOK

(* MANUAL_ACTIVE from the owner, with all its early returns. *)
LEMMA DemandedOK ==
    ASSUME NEW x, SelfOK(x), NEW sequence \in SequenceNumbers, NEW finite \in BOOLEAN
    PROVE  SelfOK(Demanded(x, sequence, finite))
  <1> DEFINE s == ManualActive(x.state)
             u == ManualInactive(s)
             d == [sequence |-> sequence, by |-> s.lease_generation]
  <1>1. x.state \in PaddockState /\ StateOK(x.state)
    BY DEF SelfOK, Supervisors
  <1>2. /\ s \in PaddockState /\ StateOK(s)
        /\ u \in PaddockState /\ StateOK(u)
    BY <1>1, StopManualOK
  <1>3. s.lease = x.state.lease /\ s.lease_generation = x.state.lease_generation
    BY <1>1 DEF ManualActive, Disarm, PaddockState
  <1>4. CASE ~finite
    <2>1. ~u.manual_active
      BY <1>2 DEF ManualInactive, PaddockState, StateOK, GrantsOfCurrentLease, lease_active
    <2>2. SameLease(x.state, u)
      BY <1>2, <1>3, <2>1 DEF SameLease, ManualInactive, PaddockState
    <2> HIDE DEF s, u
    <2>3. SelfOK([x EXCEPT !.state = u])
      BY <1>2, <2>2, SettleOK
    <2> QED BY <1>4, <2>3 DEF Demanded, s, u
  <1>5. CASE finite /\ authority(s) # "PADDOCK_MANUAL"
    <2>1. ~s.manual_active
      BY <1>2, <1>5 DEF authority, PaddockState, StateOK, GrantsOfCurrentLease, Modes
    <2>2. SameLease(x.state, s)
      BY <1>3, <2>1 DEF SameLease
    <2> HIDE DEF s, u
    <2>3. SelfOK([x EXCEPT !.state = s])
      BY <1>2, <2>2, SettleOK
    <2> QED BY <1>5, <2>3 DEF Demanded, s
  <1>6. CASE finite /\ authority(s) = "PADDOCK_MANUAL"
    <2>1. lease_active(s)
      BY <1>2, <1>6 DEF authority, autonomy_permitted, PaddockState, Modes
    <2>2. d \in Demands /\ d # NoDemand /\ d.by = s.lease_generation
      BY <1>2, SupervisorConstants DEF Demands, NoDemand, NoSequence, SequenceNumbers, PaddockState
    <2> DEFINE y == [x EXCEPT !.state = s, !.manual_fresh = TRUE, !.demand = d]
    <2>3. Demanded(x, sequence, finite) = y
      BY <1>6 DEF Demanded
    <2> HIDE DEF s, d
    <2>4. /\ y \in Supervisors /\ y.state = s /\ y.demand = d
          /\ y.lapsed_lease = x.lapsed_lease
      BY <1>2, <2>2 DEF SelfOK, Supervisors
    <2>5. SelfOK(y)
      BY <1>2, <1>3, <2>1, <2>2, <2>4 DEF SelfOK, DemandOK, lease_active
    <2> QED BY <2>3, <2>5
  <1> QED BY <1>4, <1>5, <1>6

(* The events without payload, from the owner. *)
LEMMA ReducedOK ==
    ASSUME NEW x, SelfOK(x), lease_active(x.state), NEW event \in PlainEvents
    PROVE  SelfOK(Reduced(x, event))
  <1>1. x.state \in PaddockState /\ StateOK(x.state)
    BY DEF SelfOK, Supervisors
  <1>2. \A s \in PaddockState : StateOK(s) /\ SameLease(x.state, s)
            => SelfOK([x EXCEPT !.state = s]) /\ SelfOK(Settle(x, s))
    BY SettleOK
  <1>3. /\ SameLease(x.state, Stop(x.state)) /\ SameLease(x.state, ManualInactive(x.state))
        /\ SameLease(x.state, RunPress(x.state)) /\ SameLease(x.state, RunRelease(x.state))
    BY <1>1, ReductionsKeepLease
  <1>4. CASE event = "HEARTBEAT"
    BY <1>4 DEF Reduced
  <1>5. CASE event \in {"CLEAR_STOP", "STOP"}
    BY <1>1, <1>2, <1>3, <1>5, StopManualOK DEF Reduced
  <1>6. CASE event \in {"RUN_PRESSED", "RUN_RELEASED"}
    BY <1>1, <1>2, <1>3, <1>6, RunOK DEF Reduced
  <1>7. CASE event = "MANUAL_INACTIVE"
    BY <1>1, <1>2, <1>3, <1>7, StopManualOK DEF Reduced
  <1>8. CASE event = "LEASE_LOST"
    BY <1>1, <1>8, SettleLossOK DEF Reduced, SelfOK
  <1>9. CASE event = "LEASE_RELEASED"
    <2>1. Released(x) \in Supervisors /\ Released(x).state = x.state
      BY DEF Released, SelfOK, Supervisors
    <2>2. SelfOK(Settle(Released(x), LoseLease(Released(x).state)))
      BY <1>1, <2>1, SettleLossOK
    <2> QED BY <1>9, <2>1, <2>2 DEF Reduced
  <1> QED BY <1>4, <1>5, <1>6, <1>7, <1>8, <1>9 DEF PlainEvents

-----------------------------------------------------------------------------
(* Every browser event keeps the invariant. *)
LEMMA ControlEventsOK ==
    ASSUME SelfOK(self), ControlEvents
    PROVE  SelfOK(self')
  <1> DEFINE x == ExpireLease(self)
  <1>1. SelfOK(x)
    BY ExpireLeaseOK
  <1>2. PICK session \in Sessions, sequence \in SequenceNumbers :
            \/ \E event \in PlainEvents : PlainEvent(event, session, sequence)
            \/ LeaseAcquired(session, sequence)
            \/ \E pose \in Poses \cup {None} : GoalSelected(session, sequence, pose)
            \/ \E finite \in BOOLEAN : ManualDemanded(session, sequence, finite)
    BY DEF ControlEvents
  <1> DEFINE y == Refreshed(x, sequence)
  <1>3. SelfOK(y) /\ y.state = x.state
    BY <1>1, <1>2, RefreshedOK
  <1>4. InOrder(x, session, sequence) => lease_active(x.state)
    BY DEF InOrder
  <1>5. ~lease_active(x.state) => SelfOK(Granted(x, session, sequence))
    BY <1>1, <1>2, GrantedOK
  <1>6. ASSUME NEW event \in PlainEvents, PlainEvent(event, session, sequence)
        PROVE  SelfOK(self')
    <2>1. Reinstates(x, event, session) => ~lease_active(x.state)
      BY DEF Reinstates
    <2>2. InOrder(x, session, sequence) => SelfOK(Reduced(y, event))
      BY <1>3, <1>4, <1>6, ReducedOK
    <2>3. \/ self' = Granted(x, session, sequence) /\ Reinstates(x, event, session)
          \/ self' = Reduced(y, event) /\ InOrder(x, session, sequence)
          \/ self' = x
      BY <1>6 DEF PlainEvent
    <2> HIDE DEF x, y
    <2> QED BY <1>1, <1>5, <2>1, <2>2, <2>3
  <1>7. CASE LeaseAcquired(session, sequence)
    <2>1. \/ self' = x
          \/ self' = Granted(x, session, sequence) /\ ~lease_active(x.state)
      BY <1>7 DEF LeaseAcquired
    <2> HIDE DEF x
    <2> QED BY <1>1, <1>5, <2>1
  <1>8. ASSUME NEW pose \in Poses \cup {None}, GoalSelected(session, sequence, pose)
        PROVE  SelfOK(self')
    <2>1. \/ self' = x
          \/ self' = y
          \/ pose \in Poses /\ self' = Settle(y, SelectGoal(y.state, pose))
      BY <1>8 DEF GoalSelected
    <2> HIDE DEF x, y
    <2>2. pose \in Poses => SelfOK(Settle(y, SelectGoal(y.state, pose)))
      <3>1. y.state \in PaddockState /\ StateOK(y.state)
        BY <1>3 DEF SelfOK, Supervisors
      <3>2. pose \in Poses =>
              /\ SelectGoal(y.state, pose) \in PaddockState
              /\ StateOK(SelectGoal(y.state, pose))
              /\ SameLease(y.state, SelectGoal(y.state, pose))
        BY <3>1, SelectGoalOK, ReductionsKeepLease
      <3> QED BY <1>3, <3>2, SettleOK
    <2> QED BY <1>1, <1>3, <2>1, <2>2
  <1>9. ASSUME NEW finite \in BOOLEAN, ManualDemanded(session, sequence, finite)
        PROVE  SelfOK(self')
    <2>1. self' = x \/ self' = Demanded(y, sequence, finite)
      BY <1>9 DEF ManualDemanded
    <2> HIDE DEF x, y
    <2> QED BY <1>1, <1>2, <1>3, <1>9, <2>1, DemandedOK
  <1> QED BY <1>2, <1>6, <1>7, <1>8, <1>9

(* So does every input from the runtime, the pad and the velocity topics. *)
LEMMA RuntimeInputsOK ==
    ASSUME SelfOK(self), RuntimeInputs
    PROVE  SelfOK(self')
  <1> DEFINE x == ExpireLease(self)
  <1>1. SelfOK(x) /\ x.state \in PaddockState /\ StateOK(x.state)
    BY ExpireLeaseOK DEF SelfOK, Supervisors
  <1>2. ASSUME NEW mode \in Modes, NEW map \in Maps \cup {None}, NEW stable \in BOOLEAN,
               SetRuntimeMode(mode, map, stable)
        PROVE  SelfOK(self')
    <2> DEFINE effective == IF stable THEN mode ELSE "IDLE"
               moved == [x.state EXCEPT !.mode = effective, !.active_autonomy_map = map]
               changed == \/ effective # x.state.mode
                          \/ map # x.state.active_autonomy_map
                          \/ ~stable
               s == IF changed THEN [Disarm(moved) EXCEPT !.goal = NoGoal] ELSE moved
    <2>1. self' = Settle(x, s)
      BY <1>2 DEF SetRuntimeMode
    <2>2. effective \in Modes
      BY DEF Modes
    <2> HIDE DEF x, effective
    <2>3. moved \in PaddockState
      BY <1>1, <2>2 DEF PaddockState
    <2>4. CASE changed
      <3>1. s \in PaddockState /\ StateOK(s) /\ SameLease(x.state, s)
        BY <1>1, <2>2, <2>3, <2>4
           DEF Disarm, PaddockState, StateOK, SameLease, NavigationMatchesPermit,
               GrantsOfCurrentLease, TakeoverBlocksRun, autonomy_permitted, lease_active
      <3> QED BY <1>1, <2>1, <3>1, SettleOK
    <2>5. CASE ~changed
      <3>1. s = x.state
        BY <1>1, <2>5 DEF PaddockState
      <3>2. SameLease(x.state, x.state)
        BY DEF SameLease
      <3> QED BY <1>1, <2>1, <3>1, <3>2, SettleOK
    <2> QED BY <2>4, <2>5
  <1>3. ASSUME NEW mode \in Modes, NEW id \in 1 .. MaxModeRequest, NEW session \in Sessions,
               RequestRuntimeMode(mode, id, session)
        PROVE  SelfOK(self')
    <2>1. self' = x \/ self' = [x EXCEPT !.state = RequestMode(x.state, mode, id)]
      BY <1>3 DEF RequestRuntimeMode
    <2>2. id \in Nat
      BY SupervisorConstants
    <2> HIDE DEF x
    <2>3. /\ RequestMode(x.state, mode, id) \in PaddockState
          /\ StateOK(RequestMode(x.state, mode, id))
          /\ SameLease(x.state, RequestMode(x.state, mode, id))
      BY <1>1, <2>2, RequestModeOK, ReductionsKeepLease
    <2> QED BY <1>1, <2>1, <2>3, SettleOK
  <1>4. ASSUME NEW active \in BOOLEAN, SetDualsenseActive(active)
        PROVE  SelfOK(self')
    <2>1. \/ self' = Settle(x, DualsenseActive(x.state))
          \/ self' = Settle(x, DualsenseInactive(x.state))
      BY <1>4 DEF SetDualsenseActive
    <2> HIDE DEF x
    <2> QED BY <1>1, <2>1, DualsenseOK, ReductionsKeepLease, SettleOK
  <1>5. ASSUME NEW valid \in BOOLEAN, ReceiveRawAutonomy(valid)
        PROVE  SelfOK(self')
    <2> DEFINE y == [x EXCEPT !.raw_fresh = valid]
    <2>1. self' = y
      BY <1>5 DEF ReceiveRawAutonomy
    <2> HIDE DEF x
    <2>2. /\ y \in Supervisors /\ y.state = x.state /\ y.demand = x.demand
          /\ y.lapsed_lease = x.lapsed_lease
      BY <1>1 DEF SelfOK, Supervisors
    <2> QED BY <1>1, <2>1, <2>2, AgesOK
  <1>6. ASSUME NEW sequence \in SequenceNumbers, NEW valid \in BOOLEAN,
               ReceiveRawManual(sequence, valid)
        PROVE  SelfOK(self')
    <2> DEFINE z == ExpireManual(x)
               y == [z EXCEPT !.raw_manual_fresh = TRUE]
    <2>1. self' = y \/ self' = z
      BY <1>6 DEF ReceiveRawManual
    <2> HIDE DEF x
    <2>2. SelfOK(z)
      BY <1>1, ExpireManualOK
    <2> HIDE DEF z
    <2>3. /\ y \in Supervisors /\ y.state = z.state /\ y.demand = z.demand
          /\ y.lapsed_lease = z.lapsed_lease
      BY <2>2 DEF SelfOK, Supervisors
    <2> QED BY <2>1, <2>2, <2>3, AgesOK
  <1> QED BY <1>2, <1>3, <1>4, <1>5, <1>6 DEF RuntimeInputs

(* The passage of time only changes ages. *)
LEMMA TimeOK ==
    ASSUME SelfOK(self), Time
    PROVE  SelfOK(self')
  <1>1. /\ self' \in Supervisors /\ self'.state = self.state /\ self'.demand = self.demand
        /\ self'.lapsed_lease = self.lapsed_lease
    BY DEF Time, LeaseAges, RawAges, ManualAges, RawManualAges, SelfOK, Supervisors
  <1> QED BY <1>1, AgesOK

SupervisorIInv == SelfOK(self)

(* The inductive invariant holds in every reachable state. *)
THEOREM SupervisorInductive == SupervisorSpec => []SupervisorIInv
  <1>1. SupervisorInit => SupervisorIInv
    BY FreshOK DEF SupervisorInit, SupervisorIInv
  <1>2. SupervisorIInv /\ [SupervisorNext]_supervisorVars => SupervisorIInv'
    <2> SUFFICES ASSUME SelfOK(self), [SupervisorNext]_supervisorVars
                 PROVE  SelfOK(self')
      BY DEF SupervisorIInv
    <2>1. CASE Tick
      BY <2>1, ExpireLeaseOK, ExpireManualOK DEF Tick
    <2>2. CASE ControlEvents
      BY <2>2, ControlEventsOK
    <2>3. CASE RuntimeInputs
      BY <2>3, RuntimeInputsOK
    <2>4. CASE Restart
      BY <2>4, FreshOK DEF Restart
    <2>5. CASE Time
      BY <2>5, TimeOK
    <2>6. CASE UNCHANGED supervisorVars
      BY <2>6 DEF supervisorVars
    <2> QED BY <2>1, <2>2, <2>3, <2>4, <2>5, <2>6 DEF SupervisorNext
  <1> QED BY <1>1, <1>2, PTL DEF SupervisorSpec

(* Navigation follows the interlock, and RUN, goal and manual control are  *)
(* always grants of the lease, map and mode of the moment, for any number  *)
(* of browsers and maps (the reducer and the rewrites of its state in      *)
(* command_supervisor.py).                                                 *)
THEOREM SupervisorGrantsCurrent == SupervisorSpec => []GrantsAreCurrent
  <1>1. SupervisorIInv => GrantsAreCurrent
    BY DEF SupervisorIInv, SelfOK, StateOK, GrantsAreCurrent
  <1> QED BY <1>1, SupervisorInductive, PTL

(* Manual control always has a demand, of the lease held now. *)
THEOREM SupervisorDemandCurrent == SupervisorSpec => []DemandIsCurrent
  <1>1. SupervisorIInv => DemandIsCurrent
    BY DEF SupervisorIInv, SelfOK, StateOK, DemandOK, DemandIsCurrent
  <1> QED BY <1>1, SupervisorInductive, PTL

(* No heartbeat of an old owner can find a lapsed lease while another      *)
(* session holds it.                                                       *)
THEOREM SupervisorLapsedFree == SupervisorSpec => []LapsedLeaseIsFree
  <1>1. SupervisorIInv => LapsedLeaseIsFree
    BY DEF SupervisorIInv, SelfOK, LapsedLeaseIsFree
  <1> QED BY <1>1, SupervisorInductive, PTL

ForwardedOK == forwarded \in {"none", "autonomy", "manual"}

(* The type invariant. *)
THEOREM SupervisorTypeCorrect == SupervisorSpec => []SupervisorTypeOK
  <1>1. SupervisorInit => ForwardedOK
    BY DEF SupervisorInit, ForwardedOK
  <1>2. ForwardedOK /\ [SupervisorNext]_supervisorVars => ForwardedOK'
    BY DEF ForwardedOK, SupervisorNext, supervisorVars, Tick, ControlEvents, RuntimeInputs,
           Restart, Time, PlainEvent, LeaseAcquired, GoalSelected, ManualDemanded,
           SetRuntimeMode, RequestRuntimeMode, SetDualsenseActive, ReceiveRawAutonomy,
           ReceiveRawManual, LeaseAges, RawAges, ManualAges, RawManualAges
  <1>3. SupervisorIInv /\ ForwardedOK => SupervisorTypeOK
    BY DEF SupervisorIInv, SelfOK, ForwardedOK, SupervisorTypeOK
  <1> QED BY <1>1, <1>2, <1>3, SupervisorInductive, PTL DEF SupervisorSpec

-----------------------------------------------------------------------------
(***************************************************************************)
(* What a step may do to the lease.  Every input first expires the lease   *)
(* and then does one of four things: it keeps lease and sequence, takes an *)
(* event of the owner, ends the lease, or grants it to a session.          *)
(***************************************************************************)

(* Autonomy is not opened. *)
Quiet(s, t) == autonomy_permitted(t) => autonomy_permitted(s)

(* y is x after the loss of the lease. *)
Lost(x, y) ==
    /\ lease_active(x.state)
    /\ ~lease_active(y.state)
    /\ y.state.lease_generation = x.state.lease_generation + 1

(* x is the object a method goes on with, after the expiry. *)
Expired(x) == x = self \/ (Lost(self, x) /\ ~LeaseIsLive(self))

SameOwner(x, y) ==
    y.state.lease = x.state.lease /\ y.state.lease_generation = x.state.lease_generation

KeepsLease(x, y) ==
    /\ SameOwner(x, y)
    /\ y.last_control_sequence = x.last_control_sequence
    /\ Quiet(x.state, y.state)

Arms(session, sequence) ==
    \/ PlainEvent("RUN_PRESSED", session, sequence)
    \/ \E pose \in Poses : GoalSelected(session, sequence, pose)

Takes(x, session, sequence) ==
    /\ InOrder(x, session, sequence)
    /\ SameOwner(x, self')
    /\ self'.last_control_sequence = sequence
    /\ Quiet(x.state, self'.state) \/ Arms(session, sequence)

Grants(x, session, sequence) ==
    /\ ~lease_active(x.state)
    /\ self'.state = AcquireLease(x.state, session)
    /\ self'.last_control_sequence = sequence
    /\ self'.demand = x.demand

StepFrom(x) ==
    \/ KeepsLease(x, self')
    \/ Lost(x, self')
    \/ \E session \in Sessions, sequence \in SequenceNumbers :
           Takes(x, session, sequence) \/ Grants(x, session, sequence)

(* Only RUN and a new goal open autonomy. *)
LEMMA ReductionsQuiet ==
    ASSUME NEW s \in PaddockState, StateOK(s)
    PROVE  /\ Quiet(s, Stop(s)) /\ Quiet(s, ManualInactive(s)) /\ Quiet(s, ManualActive(s))
           /\ Quiet(s, RunRelease(s))
           /\ Quiet(s, DualsenseActive(s)) /\ Quiet(s, DualsenseInactive(s))
           /\ \A mode \in Modes, id \in Nat : Quiet(s, RequestMode(s, mode, id))
  <1> USE DEF Quiet, autonomy_permitted, lease_active, PaddockState
  <1>1. Quiet(s, Stop(s)) /\ Quiet(s, ManualInactive(s)) /\ Quiet(s, ManualActive(s))
    BY DEF Stop, ManualInactive, ManualActive, Disarm
  <1>2. Quiet(s, RunRelease(s))
    BY DEF RunRelease
  <1>3. Quiet(s, DualsenseActive(s))
    BY DEF DualsenseActive
  <1>4. Quiet(s, DualsenseInactive(s))
    BY DEF DualsenseInactive, StateOK, TakeoverBlocksRun
  <1>5. \A mode \in Modes, id \in Nat : Quiet(s, RequestMode(s, mode, id))
    BY DEF RequestMode, Disarm
  <1> QED
    BY <1>1, <1>2, <1>3, <1>4, <1>5

(* Settling changes demand and sample ages only. *)
LEMMA SettleFields ==
    ASSUME NEW x \in Supervisors, NEW s \in PaddockState
    PROVE  /\ Settle(x, s).state = s
           /\ Settle(x, s).last_control_sequence = x.last_control_sequence
  BY DEF Settle, ClearManualIfInactive, WithoutDemand, Supervisors

(* A lease that was active and is lost. *)
LEMMA LossOfLease ==
    ASSUME NEW x \in Supervisors, NEW y \in Supervisors, y.state = x.state,
           StateOK(x.state), lease_active(x.state)
    PROVE  Lost(x, Settle(y, LoseLease(x.state)))
  <1> DEFINE s == LoseLease(x.state)
  <1>1. x.state \in PaddockState
    BY DEF Supervisors
  <1>2. ~lease_active(s) /\ s.lease_generation = x.state.lease_generation + 1
    BY <1>1 DEF LoseLease, lease_active, Disarm, PaddockState
  <1>3. s \in PaddockState
    BY <1>1, LoseLeaseOK
  <1> HIDE DEF s
  <1>4. Settle(y, s).state = s
    BY <1>3, SettleFields
  <1> QED
    BY <1>2, <1>4 DEF Lost, s

(* The expiry loses a lease that is not live, or does nothing. *)
LEMMA ExpiryOfLease ==
    ASSUME SelfOK(self)
    PROVE  Expired(ExpireLease(self)) /\ SelfOK(ExpireLease(self))
  <1>1. CASE ~lease_active(self.state) \/ LeaseIsLive(self)
    BY <1>1 DEF ExpireLease, Expired
  <1>2. CASE ~(~lease_active(self.state) \/ LeaseIsLive(self))
    <2> DEFINE y == [self EXCEPT !.last_control_sequence = NoSequence,
                                 !.lapsed_lease = self.state.lease]
    <2>1. self \in Supervisors /\ y \in Supervisors /\ y.state = self.state
      BY DEF SelfOK, Supervisors, PaddockState
    <2>2. ExpireLease(self) = Settle(y, LoseLease(self.state))
      BY <1>2 DEF ExpireLease
    <2> HIDE DEF y
    <2> QED
      BY <1>2, <2>1, <2>2, LossOfLease, ExpireLeaseOK DEF Expired, SelfOK
  <1> QED
    BY <1>1, <1>2, ExpireLeaseOK

(* The expiry of a manual demand keeps the lease. *)
LEMMA ExpiryOfManual ==
    ASSUME NEW x, SelfOK(x)
    PROVE  KeepsLease(x, ExpireManual(x))
  <1>1. x.state \in PaddockState /\ StateOK(x.state)
    BY DEF SelfOK, Supervisors
  <1> DEFINE s == ManualInactive(x.state)
  <1>2. Quiet(x.state, s) /\ SameLease(x.state, s)
    BY <1>1, ReductionsQuiet, ReductionsKeepLease
  <1> HIDE DEF s
  <1>3. \/ ExpireManual(x) = x
        \/ ExpireManual(x) = WithoutDemand([x EXCEPT !.state = s])
    BY DEF ExpireManual, s
  <1>4. /\ WithoutDemand([x EXCEPT !.state = s]).state = s
        /\ WithoutDemand([x EXCEPT !.state = s]).last_control_sequence
              = x.last_control_sequence
    BY DEF WithoutDemand, SelfOK, Supervisors
  <1>5. Quiet(x.state, x.state)
    BY DEF Quiet
  <1> QED
    BY <1>2, <1>3, <1>4, <1>5 DEF KeepsLease, SameOwner, SameLease

(* A reduction that keeps the lease, settled or not. *)
LEMMA ReductionKeeps ==
    ASSUME NEW x \in Supervisors, NEW s \in PaddockState, SameLease(x.state, s)
    PROVE  /\ SameOwner(x, Settle(x, s)) /\ SameOwner(x, [x EXCEPT !.state = s])
           /\ Settle(x, s).last_control_sequence = x.last_control_sequence
           /\ [x EXCEPT !.state = s].last_control_sequence = x.last_control_sequence
           /\ Settle(x, s).state = s /\ [x EXCEPT !.state = s].state = s
  <1>1. /\ [x EXCEPT !.state = s].last_control_sequence = x.last_control_sequence
        /\ [x EXCEPT !.state = s].state = s
    BY DEF Supervisors
  <1> QED
    BY <1>1, SettleFields DEF SameOwner, SameLease

(* The events without payload, from the owner. *)
LEMMA ReducedKinds ==
    ASSUME NEW x, SelfOK(x), lease_active(x.state), NEW event \in PlainEvents
    PROVE  \/ Lost(x, Reduced(x, event))
           \/ /\ SameOwner(x, Reduced(x, event))
              /\ Reduced(x, event).last_control_sequence = x.last_control_sequence
              /\ event = "RUN_PRESSED" \/ Quiet(x.state, Reduced(x, event).state)
  <1>1. x \in Supervisors /\ x.state \in PaddockState /\ StateOK(x.state)
    BY DEF SelfOK, Supervisors
  <1>2. /\ SameLease(x.state, Stop(x.state)) /\ SameLease(x.state, ManualInactive(x.state))
        /\ SameLease(x.state, RunPress(x.state)) /\ SameLease(x.state, RunRelease(x.state))
    BY <1>1, ReductionsKeepLease
  <1>3. /\ Quiet(x.state, Stop(x.state)) /\ Quiet(x.state, ManualInactive(x.state))
        /\ Quiet(x.state, RunRelease(x.state))
    BY <1>1, ReductionsQuiet
  <1>4. /\ Stop(x.state) \in PaddockState /\ ManualInactive(x.state) \in PaddockState
        /\ RunPress(x.state) \in PaddockState /\ RunRelease(x.state) \in PaddockState
    BY <1>1, StopManualOK, RunOK
  <1>5. CASE event = "HEARTBEAT"
    BY <1>5 DEF Reduced, SameOwner, Quiet
  <1>6. CASE event \in {"CLEAR_STOP", "STOP"}
    BY <1>1, <1>2, <1>3, <1>4, <1>6, ReductionKeeps DEF Reduced
  <1>7. CASE event \in {"RUN_PRESSED", "RUN_RELEASED"}
    BY <1>1, <1>2, <1>3, <1>4, <1>7, ReductionKeeps DEF Reduced
  <1>8. CASE event = "MANUAL_INACTIVE"
    BY <1>1, <1>2, <1>3, <1>4, <1>8, ReductionKeeps DEF Reduced
  <1>9. CASE event = "LEASE_LOST"
    BY <1>1, <1>9, LossOfLease DEF Reduced
  <1>10. CASE event = "LEASE_RELEASED"
    <2>1. Released(x) \in Supervisors /\ Released(x).state = x.state
      BY DEF Released, SelfOK, Supervisors
    <2> QED
      BY <1>1, <1>10, <2>1, LossOfLease DEF Reduced
  <1> QED
    BY <1>5, <1>6, <1>7, <1>8, <1>9, <1>10 DEF PlainEvents

(* MANUAL_ACTIVE from the owner. *)
LEMMA DemandedKinds ==
    ASSUME NEW x, SelfOK(x), NEW sequence \in SequenceNumbers, NEW finite \in BOOLEAN
    PROVE  KeepsLease(x, Demanded(x, sequence, finite))
  <1> DEFINE s == ManualActive(x.state)
             u == ManualInactive(s)
             d == [sequence |-> sequence, by |-> s.lease_generation]
             y == Demanded(x, sequence, finite)
  <1>1. x \in Supervisors /\ x.state \in PaddockState /\ StateOK(x.state)
    BY DEF SelfOK, Supervisors
  <1>2. /\ s \in PaddockState /\ StateOK(s) /\ Quiet(x.state, s)
        /\ u \in PaddockState /\ Quiet(s, u)
    BY <1>1, StopManualOK, ReductionsQuiet
  <1>3. s.lease = x.state.lease /\ s.lease_generation = x.state.lease_generation
    BY <1>1 DEF ManualActive, Disarm, PaddockState
  <1>4. u.lease = s.lease /\ u.lease_generation = s.lease_generation
    BY <1>2 DEF ManualInactive, PaddockState
  <1>5. \/ y = [x EXCEPT !.state = u]
        \/ y = [x EXCEPT !.state = s]
        \/ y = [x EXCEPT !.state = s, !.manual_fresh = TRUE, !.demand = d]
    BY DEF Demanded
  <1> HIDE DEF s, u, d, y
  <1>6. y.state \in {s, u} /\ y.last_control_sequence = x.last_control_sequence
    BY <1>1, <1>5 DEF Supervisors
  <1> QED
    BY <1>2, <1>3, <1>4, <1>6 DEF KeepsLease, SameOwner, Quiet, y

(* Browser events, after the expiry. *)
LEMMA ControlEventKinds ==
    ASSUME SelfOK(self), ControlEvents
    PROVE  StepFrom(ExpireLease(self))
  <1> DEFINE x == ExpireLease(self)
  <1>1. SelfOK(x)
    BY ExpireLeaseOK
  <1>2. PICK session \in Sessions, sequence \in SequenceNumbers :
            \/ \E event \in PlainEvents : PlainEvent(event, session, sequence)
            \/ LeaseAcquired(session, sequence)
            \/ \E pose \in Poses \cup {None} : GoalSelected(session, sequence, pose)
            \/ \E finite \in BOOLEAN : ManualDemanded(session, sequence, finite)
    BY DEF ControlEvents
  <1> DEFINE y == Refreshed(x, sequence)
  <1>3. SelfOK(y) /\ y.state = x.state /\ y.last_control_sequence = sequence
    <2>1. y.last_control_sequence = sequence
      BY <1>1 DEF Refreshed, SelfOK, Supervisors
    <2> QED
      BY <1>1, <1>2, <2>1, RefreshedOK
  <1>4. ASSUME self' = x
        PROVE  StepFrom(x)
    BY <1>4 DEF StepFrom, KeepsLease, SameOwner, Quiet
  <1>5. ASSUME self' = Granted(x, session, sequence), ~lease_active(x.state)
        PROVE  Grants(x, session, sequence)
    <2> HIDE DEF x
    <2>1. /\ self'.state = AcquireLease(x.state, session)
          /\ self'.last_control_sequence = sequence /\ self'.demand = x.demand
      BY <1>1, <1>5 DEF Granted, SelfOK, Supervisors
    <2> QED
      BY <1>5, <2>1 DEF Grants
  <1>6. InOrder(x, session, sequence) => lease_active(x.state)
    BY DEF InOrder
  <1>7. ASSUME NEW event \in PlainEvents, PlainEvent(event, session, sequence)
        PROVE  StepFrom(x)
    <2>1. \/ self' = Granted(x, session, sequence) /\ Reinstates(x, event, session)
          \/ self' = Reduced(y, event) /\ InOrder(x, session, sequence)
          \/ self' = x
      BY <1>7 DEF PlainEvent
    <2>2. Reinstates(x, event, session) => ~lease_active(x.state)
      BY DEF Reinstates
    <2> HIDE DEF x, y
    <2>3. CASE self' = Reduced(y, event) /\ InOrder(x, session, sequence)
      <3>1. \/ Lost(y, self')
            \/ /\ SameOwner(y, self')
               /\ self'.last_control_sequence = y.last_control_sequence
               /\ event = "RUN_PRESSED" \/ Quiet(y.state, self'.state)
        BY <1>3, <1>6, <2>3, ReducedKinds
      <3>2. \/ Lost(x, self')
            \/ /\ SameOwner(x, self')
               /\ self'.last_control_sequence = sequence
               /\ event = "RUN_PRESSED" \/ Quiet(x.state, self'.state)
        BY <1>3, <3>1 DEF Lost, SameOwner
      <3>3. event = "RUN_PRESSED" => Arms(session, sequence)
        BY <1>7 DEF Arms
      <3> QED
        BY <1>2, <2>3, <3>2, <3>3 DEF StepFrom, Takes
    <2> QED
      BY <1>2, <1>4, <1>5, <2>1, <2>2, <2>3 DEF StepFrom
  <1>8. ASSUME LeaseAcquired(session, sequence)
        PROVE  StepFrom(x)
    <2>1. \/ self' = x
          \/ self' = Granted(x, session, sequence) /\ ~lease_active(x.state)
      BY <1>8 DEF LeaseAcquired
    <2> HIDE DEF x
    <2>2. Grants(x, session, sequence) => StepFrom(x)
      BY <1>2 DEF StepFrom
    <2> QED
      BY <1>4, <1>5, <2>1, <2>2
  <1>9. ASSUME NEW pose \in Poses \cup {None}, GoalSelected(session, sequence, pose)
        PROVE  StepFrom(x)
    <2>1. \/ self' = x
          \/ InOrder(x, session, sequence) /\ self' = y
          \/ /\ pose \in Poses /\ InOrder(x, session, sequence)
             /\ self' = Settle(y, SelectGoal(y.state, pose))
      BY <1>9 DEF GoalSelected
    <2> HIDE DEF x, y
    <2>2. CASE InOrder(x, session, sequence) /\ self' = y
      BY <1>2, <1>3, <2>2 DEF StepFrom, Takes, SameOwner, Quiet
    <2>3. CASE /\ pose \in Poses /\ InOrder(x, session, sequence)
               /\ self' = Settle(y, SelectGoal(y.state, pose))
      <3>1. y \in Supervisors /\ y.state \in PaddockState /\ StateOK(y.state)
        BY <1>3 DEF SelfOK, Supervisors
      <3>2. /\ SelectGoal(y.state, pose) \in PaddockState
            /\ SameLease(y.state, SelectGoal(y.state, pose))
        BY <2>3, <3>1, SelectGoalOK, ReductionsKeepLease
      <3>3. SameOwner(y, self') /\ self'.last_control_sequence = y.last_control_sequence
        BY <2>3, <3>1, <3>2, ReductionKeeps
      <3>4. SameOwner(x, self') /\ self'.last_control_sequence = sequence
        BY <1>3, <3>3 DEF SameOwner
      <3>5. Arms(session, sequence)
        BY <1>9, <2>3 DEF Arms
      <3> QED
        BY <1>2, <2>3, <3>4, <3>5 DEF StepFrom, Takes
    <2> QED
      BY <1>4, <2>1, <2>2, <2>3
  <1>10. ASSUME NEW finite \in BOOLEAN, ManualDemanded(session, sequence, finite)
         PROVE  StepFrom(x)
    <2>1. \/ self' = x
          \/ InOrder(x, session, sequence) /\ self' = Demanded(y, sequence, finite)
      BY <1>10 DEF ManualDemanded
    <2> HIDE DEF x, y
    <2>2. CASE InOrder(x, session, sequence) /\ self' = Demanded(y, sequence, finite)
      <3>1. KeepsLease(y, self')
        BY <1>2, <1>3, <1>10, <2>2, DemandedKinds
      <3>2. /\ SameOwner(x, self') /\ self'.last_control_sequence = sequence
            /\ Quiet(x.state, self'.state)
        BY <1>3, <3>1 DEF KeepsLease, SameOwner
      <3> QED
        BY <1>2, <2>2, <3>2 DEF StepFrom, Takes
    <2> QED
      BY <1>4, <2>1, <2>2
  <1> QED
    BY <1>2, <1>7, <1>8, <1>9, <1>10

(* Inputs of the runtime, the pad and the velocity topics keep the lease   *)
(* that the expiry left.                                                   *)
LEMMA RuntimeInputKinds ==
    ASSUME SelfOK(self), RuntimeInputs
    PROVE  KeepsLease(ExpireLease(self), self')
  <1> DEFINE x == ExpireLease(self)
  <1>1. SelfOK(x) /\ x \in Supervisors /\ x.state \in PaddockState /\ StateOK(x.state)
    BY ExpireLeaseOK DEF SelfOK, Supervisors
  <1>2. ASSUME self' = x
        PROVE  KeepsLease(x, self')
    BY <1>2 DEF KeepsLease, SameOwner, Quiet
  <1>3. ASSUME NEW s \in PaddockState, SameLease(x.state, s), Quiet(x.state, s),
               self' = Settle(x, s) \/ self' = [x EXCEPT !.state = s]
        PROVE  KeepsLease(x, self')
    <2> HIDE DEF x
    <2>1. /\ SameOwner(x, Settle(x, s)) /\ SameOwner(x, [x EXCEPT !.state = s])
          /\ Settle(x, s).last_control_sequence = x.last_control_sequence
          /\ [x EXCEPT !.state = s].last_control_sequence = x.last_control_sequence
          /\ Settle(x, s).state = s /\ [x EXCEPT !.state = s].state = s
      BY <1>1, <1>3, ReductionKeeps
    <2>2. /\ SameOwner(x, self') /\ self'.state = s
          /\ self'.last_control_sequence = x.last_control_sequence
      BY <1>3, <2>1
    <2> QED
      BY <1>3, <2>2 DEF KeepsLease
  <1>4. ASSUME NEW mode \in Modes, NEW map \in Maps \cup {None}, NEW stable \in BOOLEAN,
               SetRuntimeMode(mode, map, stable)
        PROVE  KeepsLease(x, self')
    <2> DEFINE effective == IF stable THEN mode ELSE "IDLE"
               moved == [x.state EXCEPT !.mode = effective, !.active_autonomy_map = map]
               changed == \/ effective # x.state.mode
                          \/ map # x.state.active_autonomy_map
                          \/ ~stable
               s == IF changed THEN [Disarm(moved) EXCEPT !.goal = NoGoal] ELSE moved
    <2>1. self' = Settle(x, s)
      BY <1>4 DEF SetRuntimeMode
    <2>2. effective \in Modes
      BY DEF Modes
    <2> HIDE DEF x, effective
    <2>3. CASE changed
      <3>1. s \in PaddockState /\ SameLease(x.state, s)
        BY <1>1, <2>2, <2>3 DEF Disarm, PaddockState, SameLease
      <3>2. Quiet(x.state, s)
        BY <1>1, <2>2, <2>3 DEF Disarm, PaddockState, Quiet, autonomy_permitted
      <3> HIDE DEF s
      <3> QED
        BY <1>3, <2>1, <3>1, <3>2
    <2>4. CASE ~changed
      <3>1. s = x.state
        BY <1>1, <2>4 DEF PaddockState
      <3>2. SameLease(x.state, x.state) /\ Quiet(x.state, x.state)
        BY DEF SameLease, Quiet
      <3> HIDE DEF s
      <3> QED
        BY <1>1, <1>3, <2>1, <3>1, <3>2
    <2> QED
      BY <2>3, <2>4
  <1>5. ASSUME NEW mode \in Modes, NEW id \in 1 .. MaxModeRequest, NEW session \in Sessions,
               RequestRuntimeMode(mode, id, session)
        PROVE  KeepsLease(x, self')
    <2> DEFINE s == RequestMode(x.state, mode, id)
    <2>1. self' = x \/ self' = [x EXCEPT !.state = s]
      BY <1>5 DEF RequestRuntimeMode
    <2>2. id \in Nat
      BY SupervisorConstants
    <2>3. s \in PaddockState /\ SameLease(x.state, s) /\ Quiet(x.state, s)
      BY <1>1, <2>2, RequestModeOK, ReductionsKeepLease, ReductionsQuiet
    <2> HIDE DEF x, s
    <2> QED
      BY <1>2, <1>3, <2>1, <2>3
  <1>6. ASSUME NEW active \in BOOLEAN, SetDualsenseActive(active)
        PROVE  KeepsLease(x, self')
    <2> DEFINE s == DualsenseActive(x.state)
               u == DualsenseInactive(x.state)
    <2>1. self' = Settle(x, s) \/ self' = Settle(x, u)
      BY <1>6 DEF SetDualsenseActive
    <2>2. /\ s \in PaddockState /\ SameLease(x.state, s) /\ Quiet(x.state, s)
          /\ u \in PaddockState /\ SameLease(x.state, u) /\ Quiet(x.state, u)
      BY <1>1, DualsenseOK, ReductionsKeepLease, ReductionsQuiet
    <2> HIDE DEF x, s, u
    <2> QED
      BY <1>3, <2>1, <2>2
  <1>7. ASSUME NEW valid \in BOOLEAN, ReceiveRawAutonomy(valid)
        PROVE  KeepsLease(x, self')
    <2>1. self' = [x EXCEPT !.raw_fresh = valid]
      BY <1>7 DEF ReceiveRawAutonomy
    <2> HIDE DEF x
    <2> QED
      BY <1>1, <2>1 DEF KeepsLease, SameOwner, Quiet, Supervisors
  <1>8. ASSUME NEW sequence \in SequenceNumbers, NEW valid \in BOOLEAN,
               ReceiveRawManual(sequence, valid)
        PROVE  KeepsLease(x, self')
    <2> DEFINE z == ExpireManual(x)
    <2>1. self' = [z EXCEPT !.raw_manual_fresh = TRUE] \/ self' = z
      BY <1>8 DEF ReceiveRawManual
    <2>2. SelfOK(z) /\ KeepsLease(x, z)
      BY <1>1, ExpireManualOK, ExpiryOfManual
    <2> HIDE DEF x, z
    <2>3. /\ self'.state = z.state
          /\ self'.last_control_sequence = z.last_control_sequence
      BY <2>1, <2>2 DEF SelfOK, Supervisors
    <2> QED
      BY <2>2, <2>3 DEF KeepsLease, SameOwner
  <1> QED
    BY <1>4, <1>5, <1>6, <1>7, <1>8 DEF RuntimeInputs

(* The passage of time keeps the lease. *)
LEMMA TimeKinds ==
    ASSUME SelfOK(self), Time
    PROVE  KeepsLease(self, self')
  <1>1. self'.state = self.state /\ self'.last_control_sequence = self.last_control_sequence
    BY DEF Time, LeaseAges, RawAges, ManualAges, RawManualAges, SelfOK, Supervisors
  <1> QED
    BY <1>1 DEF KeepsLease, SameOwner, Quiet

(* Every step, by what it does to the lease. *)
LEMMA StepKinds ==
    ASSUME SelfOK(self), SupervisorNext
    PROVE  self' = Fresh \/ \E x : Expired(x) /\ SelfOK(x) /\ StepFrom(x)
  <1> DEFINE x == ExpireLease(self)
  <1>1. Expired(x) /\ SelfOK(x)
    BY ExpiryOfLease
  <1>2. KeepsLease(x, self') => StepFrom(x)
    BY DEF StepFrom
  <1>3. CASE Tick
    BY <1>1, <1>2, <1>3, ExpiryOfManual DEF Tick
  <1>4. CASE ControlEvents
    BY <1>1, <1>4, ControlEventKinds
  <1>5. CASE RuntimeInputs
    BY <1>1, <1>2, <1>5, RuntimeInputKinds
  <1>6. CASE Restart
    BY <1>6 DEF Restart
  <1>7. CASE Time
    <2>1. StepFrom(self)
      BY <1>7, TimeKinds DEF StepFrom
    <2> QED
      BY <2>1 DEF Expired
  <1> QED
    BY <1>3, <1>4, <1>5, <1>6, <1>7 DEF SupervisorNext

-----------------------------------------------------------------------------
(* RUN pressed and a goal selected, by the owner, are the only steps that  *)
(* open autonomy, for any number of browsers and sequence numbers and over *)
(* lapsed and reinstated leases, takeovers and changes of runtime          *)
(* (handle_control_event and set_runtime_mode of command_supervisor.py).   *)
THEOREM GrantsAreDeliberate == SupervisorSpec => GrantIsDeliberate
  <1>1. ASSUME SupervisorIInv, SupervisorNext,
               ~autonomy_permitted(self.state), autonomy_permitted(self'.state)
        PROVE  \E session \in Sessions, sequence \in SequenceNumbers :
                   OwnerArms(session, sequence)
    <2>1. lease_active(self'.state)
      BY <1>1 DEF autonomy_permitted
    <2>2. self' # Fresh
      BY <2>1 DEF Fresh, Restarted, lease_active
    <2>3. PICK x : Expired(x) /\ SelfOK(x) /\ StepFrom(x)
      BY <1>1, <2>2, StepKinds DEF SupervisorIInv
    <2>4. ~autonomy_permitted(x.state)
      BY <1>1, <2>3 DEF Expired, Lost, autonomy_permitted
    <2>5. ~Lost(x, self') /\ ~Quiet(x.state, self'.state)
      BY <1>1, <2>1, <2>4 DEF Lost, Quiet
    <2>6. PICK session \in Sessions, sequence \in SequenceNumbers :
              Takes(x, session, sequence) \/ Grants(x, session, sequence)
      BY <2>3, <2>5 DEF StepFrom, KeepsLease
    <2>7. ~Grants(x, session, sequence)
      <3>1. SUFFICES ASSUME Grants(x, session, sequence)
                     PROVE  FALSE
        OBVIOUS
      <3>2. x.state \in PaddockState /\ x.state.goal = NoGoal
        BY <2>3, <3>1 DEF Grants, SelfOK, StateOK, GrantsOfCurrentLease, Supervisors
      <3>3. self'.state.goal = NoGoal
        BY <3>1, <3>2 DEF Grants, AcquireLease, PaddockState
      <3> QED
        BY <1>1, <3>3 DEF autonomy_permitted
    <2>8. /\ Arms(session, sequence)
          /\ session = self'.state.lease
      BY <2>5, <2>6, <2>7 DEF Takes, InOrder, SameOwner
    <2> QED
      BY <2>8 DEF Arms, OwnerArms
  <1>2. SupervisorIInv /\ [SupervisorNext]_supervisorVars =>
          [~autonomy_permitted(self.state) /\ autonomy_permitted(self'.state)
           => \E session \in Sessions, sequence \in SequenceNumbers :
                  OwnerArms(session, sequence)]_supervisorVars
    BY <1>1
  <1> QED
    BY <1>2, SupervisorInductive, PTL DEF SupervisorSpec, GrantIsDeliberate

(* A live lease is never handed over, and a change of owner comes with a   *)
(* new generation and without RUN, goal and demand, for any number of      *)
(* browsers (_expire_lease, LEASE_ACQUIRED and the reinstating HEARTBEAT). *)
THEOREM OwnershipChangesDisarm == SupervisorSpec => OwnershipChangeDisarms
  <1>1. ASSUME SupervisorIInv, SupervisorIInv', SupervisorNext,
               self'.state.lease # self.state.lease
        PROVE  /\ LeaseIsLive(self) => self'.state.lease = None
               /\ ~self'.state.run_held /\ self'.state.goal = NoGoal
               /\ ~self'.state.manual_active /\ self'.demand = NoDemand
               /\ \/ self'.state.lease_generation > self.state.lease_generation
                  \/ self' = Fresh
    <2> DEFINE unarmed == /\ ~self'.state.run_held /\ self'.state.goal = NoGoal
                          /\ ~self'.state.manual_active /\ self'.demand = NoDemand
    <2>1. /\ SelfOK(self') /\ self'.state \in PaddockState
          /\ SelfOK(self) /\ self.state \in PaddockState
      BY <1>1 DEF SupervisorIInv, SelfOK, Supervisors
    <2>2. ~lease_active(self'.state) => unarmed /\ self'.state.lease = None
      BY <2>1 DEF SelfOK, StateOK, GrantsOfCurrentLease, DemandOK, lease_active
    <2>3. CASE self' = Fresh
      <3>1. ~lease_active(self'.state)
        BY <2>3 DEF Fresh, Restarted, lease_active
      <3> QED
        BY <2>2, <2>3, <3>1
    <2>4. ASSUME NEW x, Expired(x), SelfOK(x), StepFrom(x)
          PROVE  /\ LeaseIsLive(self) => self'.state.lease = None
                 /\ unarmed
                 /\ self'.state.lease_generation > self.state.lease_generation
      <3>1. x.state \in PaddockState
        BY <2>4 DEF SelfOK, Supervisors
      <3>2. CASE Lost(x, self')
        <4>1. ~lease_active(self'.state)
          BY <3>2 DEF Lost
        <4>2. self'.state.lease_generation > self.state.lease_generation
          BY <2>1, <2>4, <3>1, <3>2 DEF Lost, Expired, PaddockState
        <4> QED
          BY <2>2, <4>1, <4>2
      <3>3. CASE SameOwner(x, self')
        <4>1. Lost(self, x) /\ ~LeaseIsLive(self)
          BY <1>1, <2>4, <3>3 DEF SameOwner, Expired
        <4>2. ~lease_active(self'.state)
          BY <3>3, <4>1 DEF SameOwner, Lost, lease_active
        <4>3. self'.state.lease_generation > self.state.lease_generation
          BY <2>1, <3>3, <4>1 DEF SameOwner, Lost, PaddockState
        <4> QED
          BY <2>2, <4>1, <4>2, <4>3
      <3>4. ASSUME NEW session \in Sessions, NEW sequence \in SequenceNumbers,
                   Grants(x, session, sequence)
            PROVE  /\ ~LeaseIsLive(self)
                   /\ unarmed
                   /\ self'.state.lease_generation > self.state.lease_generation
        <4>1. /\ ~lease_active(x.state)
              /\ self'.state = AcquireLease(x.state, session) /\ self'.demand = x.demand
          BY <3>4 DEF Grants
        <4>2. /\ ~x.state.run_held /\ x.state.goal = NoGoal
              /\ ~x.state.manual_active /\ x.demand = NoDemand
          BY <2>4, <4>1 DEF SelfOK, StateOK, GrantsOfCurrentLease, DemandOK
        <4>3. unarmed
          BY <3>1, <4>1, <4>2 DEF AcquireLease, PaddockState
        <4>4. self'.state.lease_generation = x.state.lease_generation + 1
          BY <3>1, <4>1 DEF AcquireLease, PaddockState
        <4>5. self'.state.lease_generation > self.state.lease_generation
          BY <2>1, <2>4, <3>1, <4>4 DEF Expired, Lost, PaddockState
        <4>6. ~LeaseIsLive(self)
          BY <2>4, <4>1 DEF Expired, LeaseIsLive
        <4> QED
          BY <4>3, <4>5, <4>6
      <3> QED
        BY <2>4, <3>2, <3>3, <3>4 DEF StepFrom, KeepsLease, Takes
    <2> QED
      BY <1>1, <2>1, <2>3, <2>4, StepKinds
  <1>2. SupervisorIInv /\ SupervisorIInv' /\ [SupervisorNext]_supervisorVars =>
          [self'.state.lease # self.state.lease =>
             /\ LeaseIsLive(self) => self'.state.lease = None
             /\ ~self'.state.run_held /\ self'.state.goal = NoGoal
             /\ ~self'.state.manual_active /\ self'.demand = NoDemand
             /\ \/ self'.state.lease_generation > self.state.lease_generation
                \/ self' = Fresh]_supervisorVars
    BY <1>1
  <1> QED
    BY <1>2, SupervisorInductive, PTL DEF SupervisorSpec, OwnershipChangeDisarms

(* Of two different sequence numbers at most one is newer than the other,  *)
(* whatever the modulus.                                                   *)
LEMMA NewerIsOneWay ==
    ASSUME NEW a \in SequenceNumbers, NEW b \in SequenceNumbers, IsNewerSequence(a, b)
    PROVE  ~IsNewerSequence(b, a)
  <1> DEFINE M == SequenceModulus
  <1>1. M \in Nat /\ M > 1 /\ a \in 0 .. M - 1 /\ b \in 0 .. M - 1
    BY SupervisorConstants DEF SequenceNumbers
  <1>2. \A d \in 0 .. M - 1 : d % M = d /\ (d > 0 => (-d) % M = M - d)
    BY <1>1
  <1>3. a # b
    <2>1. a - a = 0 /\ 0 % M = 0
      BY <1>1, <1>2
    <2> QED
      BY <2>1 DEF IsNewerSequence
  <1>4. CASE a > b
    <2>1. a - b \in 0 .. M - 1 /\ a - b > 0 /\ b - a = -(a - b)
      BY <1>1, <1>4
    <2>2. (a - b) % M = a - b /\ (b - a) % M = M - (a - b)
      BY <1>2, <2>1
    <2> QED
      BY <1>1, <2>2 DEF IsNewerSequence
  <1>5. CASE b > a
    <2>1. b - a \in 0 .. M - 1 /\ b - a > 0 /\ a - b = -(b - a)
      BY <1>1, <1>5
    <2>2. (b - a) % M = b - a /\ (a - b) % M = M - (b - a)
      BY <1>2, <2>1
    <2> QED
      BY <1>1, <2>2 DEF IsNewerSequence
  <1> QED
    BY <1>1, <1>3, <1>4, <1>5

(* A lease that is held has a number and a sequence that began with its    *)
(* acquisition.                                                            *)
LeaseBegan(x) ==
    lease_active(x.state) =>
        /\ x.state.lease_generation > 0
        /\ x.last_control_sequence \in SequenceNumbers

SequenceIInv == SelfOK(self) /\ LeaseBegan(self)

(* Every step keeps it: only a grant makes an owner, and it numbers both.  *)
LEMMA LeaseBeganKept ==
    ASSUME SequenceIInv, SelfOK(self'), SupervisorNext
    PROVE  LeaseBegan(self')
  <1>1. CASE self' = Fresh
    BY <1>1 DEF LeaseBegan, Fresh, Restarted, lease_active
  <1>2. ASSUME NEW x, Expired(x), SelfOK(x), StepFrom(x)
        PROVE  LeaseBegan(self')
    <2>1. x.state \in PaddockState
      BY <1>2 DEF SelfOK, Supervisors
    <2>2. LeaseBegan(x)
      BY <1>2 DEF Expired, Lost, SequenceIInv, LeaseBegan
    <2>3. CASE KeepsLease(x, self')
      BY <2>2, <2>3 DEF KeepsLease, SameOwner, LeaseBegan, lease_active
    <2>4. CASE Lost(x, self')
      BY <2>4 DEF Lost, LeaseBegan
    <2>5. ASSUME NEW session \in Sessions, NEW sequence \in SequenceNumbers,
                 Takes(x, session, sequence)
          PROVE  LeaseBegan(self')
      BY <2>2, <2>5 DEF Takes, SameOwner, LeaseBegan, lease_active
    <2>6. ASSUME NEW session \in Sessions, NEW sequence \in SequenceNumbers,
                 Grants(x, session, sequence)
          PROVE  LeaseBegan(self')
      <3>1. self'.state.lease_generation = x.state.lease_generation + 1
        BY <2>1, <2>6 DEF Grants, AcquireLease, PaddockState
      <3> QED
        BY <2>1, <2>6, <3>1 DEF Grants, LeaseBegan, PaddockState
    <2> QED
      BY <1>2, <2>3, <2>4, <2>5, <2>6 DEF StepFrom
  <1> QED
    BY <1>1, <1>2, StepKinds DEF SequenceIInv

(* The invariant of the sequence numbers. *)
THEOREM SequencesBegin == SupervisorSpec => []SequenceIInv
  <1>1. SupervisorInit => LeaseBegan(self)
    BY DEF SupervisorInit, LeaseBegan, Fresh, Restarted, lease_active
  <1>2. /\ SupervisorIInv /\ SupervisorIInv' /\ LeaseBegan(self)
        /\ [SupervisorNext]_supervisorVars
        => LeaseBegan(self)'
    <2>1. ASSUME SupervisorIInv, SupervisorIInv', LeaseBegan(self), SupervisorNext
          PROVE  LeaseBegan(self')
      BY <2>1, LeaseBeganKept DEF SupervisorIInv, SequenceIInv
    <2> QED
      BY <2>1 DEF supervisorVars, LeaseBegan
  <1>3. SupervisorIInv /\ LeaseBegan(self) => SequenceIInv
    BY DEF SupervisorIInv, SequenceIInv
  <1> QED
    BY <1>1, <1>2, <1>3, SupervisorInductive, PTL DEF SupervisorSpec

(* While a lease lasts no delayed or duplicated event is applied, for any  *)
(* modulus (_is_newer_sequence, checked by handle_control_event).          *)
THEOREM SequencesOnlyAdvance == SupervisorSpec => SequencesAdvance
  <1>1. ASSUME SequenceIInv, SequenceIInv', SupervisorNext,
               self'.state.lease_generation = self.state.lease_generation,
               self'.last_control_sequence # self.last_control_sequence,
               lease_active(self.state)
        PROVE  /\ IsNewerSequence(self'.last_control_sequence, self.last_control_sequence)
               /\ ~IsNewerSequence(self.last_control_sequence, self'.last_control_sequence)
    <2>1. /\ self.state \in PaddockState /\ self.state.lease_generation > 0
          /\ self.last_control_sequence \in SequenceNumbers
      BY <1>1 DEF SequenceIInv, LeaseBegan, SelfOK, Supervisors
    <2>2. self' # Fresh
      BY <1>1, <2>1 DEF Fresh, Restarted
    <2>3. PICK x : Expired(x) /\ SelfOK(x) /\ StepFrom(x)
      BY <1>1, <2>2, StepKinds DEF SequenceIInv
    <2>4. x.state \in PaddockState
      BY <2>3 DEF SelfOK, Supervisors
    <2>5. self'.state.lease_generation >= x.state.lease_generation
      <3>1. \A session \in Sessions, sequence \in SequenceNumbers :
              Grants(x, session, sequence) =>
                self'.state.lease_generation = x.state.lease_generation + 1
        BY <2>4 DEF Grants, AcquireLease, PaddockState
      <3>2. \/ SameOwner(x, self')
            \/ self'.state.lease_generation = x.state.lease_generation + 1
        BY <2>3, <3>1 DEF StepFrom, KeepsLease, Takes, Lost
      <3> QED
        BY <2>4, <3>2 DEF SameOwner, PaddockState
    <2>6. x = self
      BY <1>1, <2>1, <2>3, <2>4, <2>5 DEF Expired, Lost, PaddockState
    <2>7. ~KeepsLease(x, self') /\ ~Lost(x, self')
      BY <1>1, <2>1, <2>6 DEF KeepsLease, Lost, PaddockState
    <2>8. PICK session \in Sessions, sequence \in SequenceNumbers :
              Takes(x, session, sequence) \/ Grants(x, session, sequence)
      BY <2>3, <2>7 DEF StepFrom
    <2>9. Takes(self, session, sequence)
      BY <1>1, <2>6, <2>8 DEF Grants
    <2>10. /\ self'.last_control_sequence = sequence
           /\ IsNewerSequence(sequence, self.last_control_sequence)
      BY <2>1, <2>9, SupervisorConstants DEF Takes, InOrder, NoSequence, SequenceNumbers
    <2> QED
      BY <2>1, <2>10, NewerIsOneWay
  <1>2. SequenceIInv /\ SequenceIInv' /\ [SupervisorNext]_supervisorVars =>
          [/\ self'.state.lease_generation = self.state.lease_generation
           /\ self'.last_control_sequence # self.last_control_sequence
           /\ lease_active(self.state)
           => /\ IsNewerSequence(self'.last_control_sequence, self.last_control_sequence)
              /\ ~IsNewerSequence(self.last_control_sequence, self'.last_control_sequence)
          ]_supervisorVars
    BY <1>1
  <1> QED
    BY <1>2, SequencesBegin, PTL DEF SupervisorSpec, SequencesAdvance

=============================================================================
