------------------------ MODULE ChargeControl_proofs ------------------------
(* Proofs about the charge ceiling, the control loop that uses it and the    *)
(* split of its budget, for all thresholds, factors, snapshots, tunings and  *)
(* bounds.                                                                   *)
EXTENDS ChargeControl, FiniteSetTheorems, SequenceTheorems, TLAPS

-----------------------------------------------------------------------------
(* The ceiling by itself: module ChargeCeiling.                              *)

\* Whatever the factor, an allowance is from nothing to the BMS limit.
LEMMA AllowanceBound ==
  ASSUME NEW c \in Nat, NEW f \in Int
  PROVE  Allowance(c, f) \in 0 .. c
<1>1. c * f \in Int
  OBVIOUS
<1>2. Scaled(c, f) \in Int
  BY <1>1 DEF Scaled
<1> QED
  BY <1>2 DEF Allowance

USE DEF ceilingVars, latches

\* The factor, the latches and the result have their types in every state.
THEOREM CeilingTyped == CeilingSpec => []CeilingTypeOK
<1>1. CeilingInit => CeilingTypeOK
  BY FactorAssumption DEF CeilingInit, CeilingTypeOK, Reasons
<1>2. CeilingTypeOK /\ [CeilingNext]_ceilingVars => CeilingTypeOK'
  <2> SUFFICES ASSUME CeilingTypeOK, [CeilingNext]_ceilingVars
               PROVE  CeilingTypeOK'
    OBVIOUS
  <2> USE DEF CeilingTypeOK
  <2>1. ASSUME NEW b \in Batteries, NEW enabled \in BOOLEAN, Evaluate(b, enabled)
        PROVE  CeilingTypeOK'
    <3>1. b \in Battery \cup {Null}
      BY BatteryAssumption
    <3>2. {lowTempLatched, cellLatched, fullLatched}' \subseteq BOOLEAN
      BY <2>1 DEF Evaluate, Latch, LatchFull
    <3>3. factor' \in MinFactor .. MaxFactor /\ seen' \in Battery \cup {Null}
      BY <2>1, <3>1 DEF Evaluate
    <3>4. reason' \in Reasons
      BY <2>1 DEF Evaluate, Reasons
    <3>5. ceiling' \in Nat \cup {Null}
      <4>1. CASE reason' = "BMS CCL fraction"
        <5>1. b # Null /\ b.ccl # Null /\ ~(b.ccl <= 0)
          BY <2>1, <4>1 DEF Evaluate
        <5>2. ceiling' = Allowance(b.ccl, factor)
          BY <2>1, <4>1 DEF Evaluate, Unconstrained
        <5>3. factor \in Int
          BY FactorAssumption
        <5>4. b.ccl \in Nat
          BY <3>1, <5>1 DEF Battery, Reading
        <5>5. Allowance(b.ccl, factor) \in 0 .. b.ccl
          BY <5>3, <5>4, AllowanceBound
        <5> QED
          BY <5>2, <5>4, <5>5
      <4>2. CASE reason' # "BMS CCL fraction"
        BY <2>1, <4>2 DEF Evaluate, Unconstrained
      <4> QED
        BY <4>1, <4>2
    <3> QED
      BY <3>2, <3>3, <3>4, <3>5
  <2>2. ASSUME NEW f \in Factors, SetScalingFactor(f)
        PROVE  CeilingTypeOK'
    BY <2>2 DEF SetScalingFactor
  <2>3. ASSUME NEW f \in Factors, NudgeScalingFactor(f)
        PROVE  CeilingTypeOK'
    BY <2>3 DEF NudgeScalingFactor
  <2>4. CASE CeilingRestart
    BY <2>4 DEF CeilingRestart, Reasons
  <2>5. CASE UNCHANGED ceilingVars
    BY <2>5
  <2> QED
    BY <2>1, <2>2, <2>3, <2>4, <2>5 DEF CeilingNext
<1> QED
  BY <1>1, <1>2, PTL DEF CeilingSpec

\* An allowance is granted only past all three stops, each of them consulted
\* and left clear.
LEMMA GrantedPastTheStops ==
  ASSUME CeilingTypeOK, NEW b \in Batteries, NEW enabled \in BOOLEAN, Evaluate(b, enabled), granted'
  PROVE  /\ seen' = b /\ Consulted(b, enabled)
         /\ lowTempLatched' = FALSE
         /\ lowTempLatched' = Latch(lowTempLatched, LowTempTrip(b), LowTempRecovered(b))
         /\ cellLatched' = FALSE
         /\ cellLatched' = Latch(cellLatched, CellTrip(b), CellRecovered(b))
         /\ fullLatched' = FALSE
         /\ fullLatched' = LatchFull(fullLatched, b)
<1>1. reason' \in {"unconstrained", "BMS CCL fraction"}
  BY DEF granted, Grants
<1>2. seen' = b /\ Consulted(b, enabled)
  <2>1. seen' = b /\ b # Null /\ enabled /\ b.ccl # Null /\ ~(b.ccl <= 0)
    BY <1>1 DEF Evaluate
  <2>2. b.ccl \in Int
    BY <2>1, BatteryAssumption DEF Battery, Reading
  <2> QED
    BY <2>1, <2>2 DEF Consulted
<1>3. lowTempLatched' = Latch(lowTempLatched, LowTempTrip(b), LowTempRecovered(b))
  BY <1>2 DEF Evaluate
<1>4. lowTempLatched' = FALSE
  BY <1>1, <1>2 DEF Evaluate, Latch
<1>5. cellLatched' = Latch(cellLatched, CellTrip(b), CellRecovered(b))
  BY <1>2, <1>3, <1>4 DEF Evaluate
<1>6. cellLatched' = FALSE
  BY <1>1, <1>2, <1>3, <1>4, <1>5 DEF Evaluate, Latch
<1>7. fullLatched' = LatchFull(fullLatched, b)
  BY <1>2, <1>3, <1>4, <1>5, <1>6 DEF Evaluate
<1>8. fullLatched' = FALSE
  BY <1>1, <1>2, <1>3, <1>4, <1>5, <1>6, <1>7 DEF Evaluate, LatchFull
<1> QED
  BY <1>2, <1>3, <1>4, <1>5, <1>6, <1>7, <1>8

\* The low-temperature latch implements the hysteresis stop.
THEOREM LowTempImplementsStop == CeilingSpec => LowTempHolds
<1> USE DEF LowTemp!stopVars
<1>1. CeilingInit => LowTemp!Init
  BY DEF CeilingInit, LowTemp!Init, LowTempReading, granted, Grants
<1>2. CeilingTypeOK /\ [CeilingNext]_ceilingVars => [LowTemp!Next]_(LowTemp!stopVars)
  <2> SUFFICES ASSUME CeilingTypeOK, [CeilingNext]_ceilingVars
               PROVE  [LowTemp!Next]_(LowTemp!stopVars)
    OBVIOUS
  <2>1. ASSUME NEW b \in Batteries, NEW enabled \in BOOLEAN, Evaluate(b, enabled)
        PROVE  LowTemp!Next
    <3>1. lowTempLatched \in BOOLEAN /\ lowTempLatched' \in BOOLEAN
      BY <2>1 DEF CeilingTypeOK, Evaluate, Latch
    <3>2. b # Null => LowTempReading' = ReadingOf(MinTemp(b), LowTempTrip(b), LowTempRecovered(b))
      BY <2>1 DEF Evaluate, LowTempReading
    <3>3. \/ lowTempLatched' = lowTempLatched
          \/ b # Null /\ lowTempLatched' = Latch(lowTempLatched, LowTempTrip(b), LowTempRecovered(b))
      BY <2>1 DEF Evaluate, Consulted
    <3>4. CASE granted'
      <4>1. b # Null /\ lowTempLatched' = FALSE /\ lowTempLatched' = Latch(lowTempLatched, LowTempTrip(b), LowTempRecovered(b))
        BY <2>1, <3>4, GrantedPastTheStops DEF Consulted
      <4>2. LowTempReading' # "trip" /\ (lowTempLatched => LowTempReading' = "recovered")
        BY <3>1, <3>2, <4>1 DEF Latch, ReadingOf
      <4> QED
        BY <3>1, <4>1, <4>2 DEF LowTemp!Next, LowTemp!Clear, LowTemp!Pass
    <3>5. CASE ~granted'
      <4>1. lowTempLatched /\ ~lowTempLatched' => LowTempReading' = "recovered"
        BY <3>1, <3>2, <3>3 DEF Latch, ReadingOf
      <4>2. ~lowTempLatched /\ lowTempLatched' => LowTempReading' = "trip"
        BY <3>1, <3>2, <3>3 DEF Latch, ReadingOf
      <4> QED
        BY <3>1, <3>5, <4>1, <4>2
        DEF LowTemp!Next, LowTemp!Trip, LowTemp!Hold, LowTemp!Clear, LowTemp!Pass
    <3> QED
      BY <3>4, <3>5
  <2>2. ASSUME NEW f \in Factors, SetScalingFactor(f) \/ NudgeScalingFactor(f)
        PROVE  UNCHANGED LowTemp!stopVars
    BY <2>2 DEF SetScalingFactor, NudgeScalingFactor, LowTempReading, granted
  <2>3. CASE CeilingRestart
    BY <2>3 DEF CeilingRestart, LowTempReading, granted, Grants, LowTemp!Next, LowTemp!Forget
  <2>4. CASE UNCHANGED ceilingVars
    BY <2>4 DEF LowTempReading, granted
  <2> QED
    BY <2>1, <2>2, <2>3, <2>4 DEF CeilingNext
<1> QED
  BY <1>1, <1>2, CeilingTyped, PTL DEF CeilingSpec, LowTemp!Spec, LowTempHolds

\* The cell-voltage and cell-delta latch implements the hysteresis stop.
THEOREM CellImplementsStop == CeilingSpec => CellHolds
<1> USE DEF Cell!stopVars
<1>1. CeilingInit => Cell!Init
  BY DEF CeilingInit, Cell!Init, CellReading, granted, Grants
<1>2. CeilingTypeOK /\ [CeilingNext]_ceilingVars => [Cell!Next]_(Cell!stopVars)
  <2> SUFFICES ASSUME CeilingTypeOK, [CeilingNext]_ceilingVars
               PROVE  [Cell!Next]_(Cell!stopVars)
    OBVIOUS
  <2>1. ASSUME NEW b \in Batteries, NEW enabled \in BOOLEAN, Evaluate(b, enabled)
        PROVE  Cell!Next
    <3>1. cellLatched \in BOOLEAN /\ cellLatched' \in BOOLEAN
      BY <2>1 DEF CeilingTypeOK, Evaluate, Latch
    <3>2. b # Null => CellReading' = ReadingOf(b.maxCell, CellTrip(b), CellRecovered(b))
      BY <2>1 DEF Evaluate, CellReading
    <3>3. \/ cellLatched' = cellLatched
          \/ b # Null /\ cellLatched' = Latch(cellLatched, CellTrip(b), CellRecovered(b))
      BY <2>1 DEF Evaluate, Consulted
    <3>4. CASE granted'
      <4>1. b # Null /\ cellLatched' = FALSE /\ cellLatched' = Latch(cellLatched, CellTrip(b), CellRecovered(b))
        BY <2>1, <3>4, GrantedPastTheStops DEF Consulted
      <4>2. CellReading' # "trip" /\ (cellLatched => CellReading' = "recovered")
        BY <3>1, <3>2, <4>1 DEF Latch, ReadingOf
      <4> QED
        BY <3>1, <4>1, <4>2 DEF Cell!Next, Cell!Clear, Cell!Pass
    <3>5. CASE ~granted'
      <4>1. cellLatched /\ ~cellLatched' => CellReading' = "recovered"
        BY <3>1, <3>2, <3>3 DEF Latch, ReadingOf
      <4>2. ~cellLatched /\ cellLatched' => CellReading' = "trip"
        BY <3>1, <3>2, <3>3 DEF Latch, ReadingOf
      <4> QED
        BY <3>1, <3>5, <4>1, <4>2
        DEF Cell!Next, Cell!Trip, Cell!Hold, Cell!Clear, Cell!Pass
    <3> QED
      BY <3>4, <3>5
  <2>2. ASSUME NEW f \in Factors, SetScalingFactor(f) \/ NudgeScalingFactor(f)
        PROVE  UNCHANGED Cell!stopVars
    BY <2>2 DEF SetScalingFactor, NudgeScalingFactor, CellReading, granted
  <2>3. CASE CeilingRestart
    BY <2>3 DEF CeilingRestart, CellReading, granted, Grants, Cell!Next, Cell!Forget
  <2>4. CASE UNCHANGED ceilingVars
    BY <2>4 DEF CellReading, granted
  <2> QED
    BY <2>1, <2>2, <2>3, <2>4 DEF CeilingNext
<1> QED
  BY <1>1, <1>2, CeilingTyped, PTL DEF CeilingSpec, Cell!Spec, CellHolds

\* A pack that reads full does not read rested.
LEMMA FullIsNotRested ==
  ASSUME NEW b \in Battery
  PROVE  ~(FullTrip(b) /\ Rested(b))
<1>1. b.soc \in Int \cup {Null}
  BY DEF Battery, Reading
<1> QED
  BY <1>1, ThresholdAssumption DEF FullTrip, Rested

\* The full-charge latch implements the hysteresis stop.
THEOREM FullImplementsStop == CeilingSpec => FullHolds
<1> USE DEF Full!stopVars
<1>1. CeilingInit => Full!Init
  BY DEF CeilingInit, Full!Init, FullReading, granted, Grants
<1>2. CeilingTypeOK /\ [CeilingNext]_ceilingVars => [Full!Next]_(Full!stopVars)
  <2> SUFFICES ASSUME CeilingTypeOK, [CeilingNext]_ceilingVars
               PROVE  [Full!Next]_(Full!stopVars)
    OBVIOUS
  <2>1. ASSUME NEW b \in Batteries, NEW enabled \in BOOLEAN, Evaluate(b, enabled)
        PROVE  Full!Next
    <3>1. fullLatched \in BOOLEAN /\ fullLatched' \in BOOLEAN
      BY <2>1 DEF CeilingTypeOK, Evaluate, LatchFull
    <3>2. b # Null => FullReading' = ReadingOf(b.soc, FullTrip(b), Rested(b))
      BY <2>1 DEF Evaluate, FullReading
    <3>3. \/ fullLatched' = fullLatched
          \/ b # Null /\ fullLatched' = LatchFull(fullLatched, b)
      BY <2>1 DEF Evaluate, Consulted
    <3>4. b # Null => ~(FullTrip(b) /\ Rested(b))
      BY BatteryAssumption, FullIsNotRested
    <3>5. CASE granted'
      <4>1. b # Null /\ fullLatched' = FALSE /\ fullLatched' = LatchFull(fullLatched, b)
        BY <2>1, <3>5, GrantedPastTheStops DEF Consulted
      <4>2. FullReading' # "trip" /\ (fullLatched => FullReading' = "recovered")
        BY <3>1, <3>2, <3>4, <4>1 DEF LatchFull, ReadingOf
      <4> QED
        BY <3>1, <4>1, <4>2 DEF Full!Next, Full!Clear, Full!Pass
    <3>6. CASE ~granted'
      <4>1. fullLatched /\ ~fullLatched' => FullReading' = "recovered"
        BY <3>1, <3>2, <3>3, <3>4 DEF LatchFull, ReadingOf
      <4>2. ~fullLatched /\ fullLatched' => FullReading' = "trip"
        BY <3>1, <3>2, <3>3, <3>4 DEF LatchFull, ReadingOf
      <4> QED
        BY <3>1, <3>6, <4>1, <4>2
        DEF Full!Next, Full!Trip, Full!Hold, Full!Clear, Full!Pass
    <3> QED
      BY <3>5, <3>6
  <2>2. ASSUME NEW f \in Factors, SetScalingFactor(f) \/ NudgeScalingFactor(f)
        PROVE  UNCHANGED Full!stopVars
    BY <2>2 DEF SetScalingFactor, NudgeScalingFactor, FullReading, granted
  <2>3. CASE CeilingRestart
    BY <2>3 DEF CeilingRestart, FullReading, granted, Grants, Full!Next, Full!Forget
  <2>4. CASE UNCHANGED ceilingVars
    BY <2>4 DEF FullReading, granted
  <2> QED
    BY <2>1, <2>2, <2>3, <2>4 DEF CeilingNext
<1> QED
  BY <1>1, <1>2, CeilingTyped, PTL DEF CeilingSpec, Full!Spec, FullHolds

-----------------------------------------------------------------------------
(* The control loop: module ChargeControl.                                   *)

USE DEF vars, ceilingState, resolverVars, overrideVars, deviceVars, tickVars, tickUnchanged

\* Every step but a tick's start, a restart and an operator's factor leaves the
\* ceiling, the decision and its effective targets as they are.
Quiet == UNCHANGED <<ceilingState, decision, effective>>

LEMMA QuietSteps ==
  ASSUME [Next]_vars
  PROVE  \/ Quiet
         \/ \E in \in Inputs : Tick(in)
         \/ \E f \in Factors : OperatorFactor(f)
         \/ Restart
<1>1. ASSUME NEW in \in Inputs, EmptyTick(in) PROVE Quiet
  BY <1>1 DEF EmptyTick, Quiet
<1>2. CASE CoilSkipped \/ CoilWritten \/ CoilFailed
  BY <1>2 DEF CoilSkipped, CoilWritten, CoilFailed, Quiet
<1>3. ASSUME NEW c \in Controllers, LimitSkipped(c) \/ LimitWritten(c) \/ LimitFailed(c)
      PROVE  Quiet
  BY <1>3 DEF LimitSkipped, LimitWritten, LimitFailed, Quiet
<1>4. CASE RelayStep
  BY <1>4 DEF RelayStep, Quiet
<1>5. ASSUME NEW c \in Controllers, ActorRuns(c) PROVE Quiet
  BY <1>5 DEF ActorRuns, Quiet
<1>6. ASSUME NEW p \in OperatorPauses, SetPaused(p) PROVE Quiet
  BY <1>6 DEF SetPaused, Quiet
<1>7. ASSUME NEW c \in Controllers, NEW amps, SetManualLimit(c, amps) PROVE Quiet
  BY <1>7 DEF SetManualLimit, Quiet
<1>8. ASSUME NEW on \in OperatorSwitches, OperatorCoil(on) \/ OperatorRelay(on) PROVE Quiet
  BY <1>8 DEF OperatorCoil, OperatorRelay, Quiet
<1>10. ASSUME NEW c \in Controllers, NEW amps \in OperatorLimits, OperatorLimit(c, amps)
       PROVE  Quiet
  BY <1>10 DEF OperatorLimit, Quiet
<1>9. CASE UNCHANGED vars
  BY <1>9 DEF Quiet
<1> QED
  BY <1>1, <1>2, <1>3, <1>4, <1>5, <1>6, <1>7, <1>8, <1>9, <1>10
  DEF Next, TickStep, Operator

-----------------------------------------------------------------------------
\* The resolver's state keeps its type.
THEOREM ResolverTyped == Spec => []ResolverTypeOK
<1>1. Init => ResolverTypeOK
  BY HoldAssumption DEF Init, ResolverInit, ResolverTypeOK
<1>2. ResolverTypeOK /\ [Next]_vars => ResolverTypeOK'
  <2> SUFFICES ASSUME ResolverTypeOK, [Next]_vars PROVE ResolverTypeOK'
    OBVIOUS
  <2>1. Aged \in 0 .. HoldTicks
    BY HoldAssumption DEF Aged, ResolverTypeOK
  <2>2. ASSUME NEW in \in Inputs, Tick(in) PROVE ResolverTypeOK'
    <3>1. in.flag \in BOOLEAN \cup {Null}
      BY InputAssumption DEF Input
    <3> QED
      BY <2>1, <2>2, <3>1, HoldAssumption DEF Tick, Resolve, ResolverTypeOK
  <2>3. ASSUME NEW in \in Inputs, EmptyTick(in) PROVE ResolverTypeOK'
    BY <2>1, <2>3 DEF EmptyTick, ResolverAges, ResolverTypeOK
  <2>4. CASE Restart
    BY <2>4, HoldAssumption DEF Restart, ResolverTypeOK
  <2>5. CASE UNCHANGED resolverVars
    BY <2>5 DEF ResolverTypeOK
  <2>6. \/ \E in \in Inputs : Tick(in) \/ EmptyTick(in)
        \/ Restart
        \/ UNCHANGED resolverVars
    BY DEF Next, TickStep, Operator, CoilSkipped, CoilWritten, CoilFailed, LimitSkipped,
           LimitWritten, LimitFailed, RelayStep, ActorRuns, SetPaused, SetManualLimit,
           OperatorCoil, OperatorRelay, OperatorLimit, OperatorFactor
  <2> QED
    BY <2>2, <2>3, <2>4, <2>5, <2>6
<1> QED
  BY <1>1, <1>2, PTL DEF Spec

\* Inside the control loop the ceiling behaves as its own specification says,
\* so everything proved of ChargeCeiling holds of it there.
THEOREM ControlImplementsCeiling == Spec => CeilingSpec
<1>1. Init => CeilingInit
  BY DEF Init
<1>2. ResolverTypeOK /\ [Next]_vars => [CeilingNext]_ceilingVars
  <2> SUFFICES ASSUME ResolverTypeOK, [Next]_vars PROVE [CeilingNext]_ceilingVars
    OBVIOUS
  <2>1. ASSUME NEW in \in Inputs, Tick(in) PROVE CeilingNext
    <3>1. in.battery \in Batteries /\ in.flag \in BOOLEAN \cup {Null} /\ in.cold \in BOOLEAN
      BY InputAssumption DEF Input
    <3>2. ChargeEnabled(in.flag, in.cold) \in BOOLEAN
      BY <3>1 DEF ChargeEnabled, ResolverTypeOK
    <3> QED
      BY <2>1, <3>1, <3>2 DEF Tick, CeilingNext
  <2>2. ASSUME NEW f \in Factors, OperatorFactor(f) PROVE CeilingNext
    BY <2>2 DEF OperatorFactor, CeilingNext
  <2>3. CASE Restart
    BY <2>3 DEF Restart, CeilingNext
  <2>4. CASE Quiet
    BY <2>4 DEF Quiet, ceilingVars
  <2>5. \/ Quiet
        \/ \E in \in Inputs : Tick(in)
        \/ \E f \in Factors : OperatorFactor(f)
        \/ Restart
    BY QuietSteps
  <2> QED
    BY <2>1, <2>2, <2>3, <2>4, <2>5
<1> QED
  BY <1>1, <1>2, ResolverTyped, PTL DEF Spec, CeilingSpec

-----------------------------------------------------------------------------
(* Which targets are hard stops.                                            *)

IsTarget(t) == DOMAIN t = {"amps", "write", "disable"}

\* What every stage of a tick keeps: targets for exactly the controllers that
\* answered, a stop only for a ceiling of 0, and then for every one of them.
Honest(targets, controllers, top, known) ==
  /\ DOMAIN targets = controllers
  /\ \A c \in controllers :
       /\ IsTarget(targets[c])
       /\ targets[c].disable => top = 0
       /\ top = 0 /\ known => targets[c].disable

LEMMA DecideHonest ==
  ASSUME NEW ccl, NEW current, NEW load, NEW chargers, NEW top \in Nat \cup {Null}, NEW why
  PROVE  Honest(Decide(ccl, current, load, chargers, top, why).targets,
                DOMAIN chargers, top, ccl # Null)
<1> SUFFICES ASSUME NEW decided, decided = Decide(ccl, current, load, chargers, top, why)
             PROVE  Honest(decided.targets, DOMAIN chargers, top, ccl # Null)
  OBVIOUS
<1>1. CASE ccl = Null
  <2>1. decided.targets = [c \in DOMAIN chargers |-> NoTarget]
    BY <1>1 DEF Decide
  <2> QED
    BY <1>1, <2>1 DEF Honest, IsTarget, NoTarget
<1>2. CASE ccl # Null /\ top = 0
  <2>1. decided.targets = [c \in DOMAIN chargers |-> StopTarget(chargers[c])]
    BY <1>2, NullAssumption DEF Decide
  <2> QED
    BY <1>2, <2>1 DEF Honest, IsTarget, StopTarget
<1>3. CASE ccl # Null /\ top # 0
  <2>1. ~(top # Null /\ top <= 0)
    BY <1>3
  <2>2. PICK amount, reasoned : decided = Apportion(chargers, amount, reasoned)
    BY <1>3, <2>1 DEF Decide
  <2>3. DOMAIN decided.targets = DOMAIN chargers
    BY <2>2 DEF Apportion
  <2>4. ASSUME NEW c \in DOMAIN chargers
        PROVE  IsTarget(decided.targets[c]) /\ decided.targets[c].disable = FALSE
    <3> DEFINE amps == Allocation(amount, Active(chargers))
    <3>1. decided.targets[c] = IF chargers[c].active THEN ShareTarget(c, chargers[c], amps[c])
                               ELSE ReleaseTarget(c, chargers[c])
      BY <2>2 DEF Apportion
    <3> HIDE DEF amps
    <3> QED
      BY <3>1 DEF ShareTarget, ReleaseTarget, IsTarget
  <2> QED
    BY <1>3, <2>3, <2>4 DEF Honest
<1> QED
  BY <1>1, <1>2, <1>3

\* A decision keeps its fields: EXCEPT needs to know that "targets" is one.
LEMMA DecideShape ==
  ASSUME NEW ccl, NEW current, NEW load, NEW chargers, NEW top, NEW why
  PROVE  DOMAIN Decide(ccl, current, load, chargers, top, why)
           = {"reason", "budget", "shared", "targets"}
BY DEF Decide, Apportion

LEMMA StabilizedHonest ==
  ASSUME NEW d, NEW chargers, NEW top, NEW known,
         "targets" \in DOMAIN d, Honest(d.targets, DOMAIN chargers, top, known)
  PROVE  Honest(Stabilized(d, chargers).targets, DOMAIN chargers, top, known)
<1> SUFFICES ASSUME NEW t, t = Stabilized(d, chargers).targets
             PROVE  Honest(t, DOMAIN chargers, top, known)
  OBVIOUS
<1>1. DOMAIN t = DOMAIN chargers
  BY DEF Stabilized
<1>2. ASSUME NEW c \in DOMAIN chargers
      PROVE  t[c] = d.targets[c] \/ (IsTarget(t[c]) /\ t[c].disable = FALSE
                                     /\ ~d.targets[c].disable)
  BY DEF Stabilized, IsTarget
<1> QED
  BY <1>1, <1>2 DEF Honest

LEMMA OverrideHonest ==
  ASSUME NEW targets, NEW controllers, NEW top, NEW known, NEW p, NEW m,
         Honest(targets, controllers, top, known)
  PROVE  Honest(Override(targets, p, m), controllers, top, known)
<1> SUFFICES ASSUME NEW o, o = Override(targets, p, m)
             PROVE  Honest(o, controllers, top, known)
  OBVIOUS
<1>1. DOMAIN o = controllers
  BY DEF Override, Honest
<1>2. ASSUME NEW c \in controllers
      PROVE  IsTarget(o[c]) /\ o[c].disable = targets[c].disable
  <2>1. IsTarget(targets[c])
    BY DEF Honest
  <2> QED
    BY <2>1 DEF Override, Honest, IsTarget
<1> QED
  BY <1>1, <1>2 DEF Honest

\* The inductive invariant: the targets being applied are honest about the
\* ceiling they were decided under.
HonestTick ==
  /\ seen = Null => ceiling = Null
  /\ Honest(effective, DOMAIN effective, ceiling, seen # Null /\ seen.ccl # Null)

LEMMA HonestTickHolds == Spec => []HonestTick
<1>1. ASSUME Init PROVE HonestTick
  <2>1. effective = <<>> /\ ceiling = Null
    BY <1>1 DEF Init, CeilingInit
  <2>2. DOMAIN effective = {}
    BY <2>1
  <2> QED
    BY <2>1, <2>2 DEF HonestTick, Honest
<1>2. CeilingTypeOK' /\ HonestTick /\ [Next]_vars => HonestTick'
  <2> SUFFICES ASSUME CeilingTypeOK', HonestTick, [Next]_vars PROVE HonestTick'
    OBVIOUS
  <2>1. ASSUME NEW in \in Inputs, Tick(in) PROVE HonestTick'
    <3>1. seen' = in.battery /\ (seen' = Null => ceiling' = Null)
      BY <2>1 DEF Tick, Evaluate, Unconstrained
    <3>2. (Limit(in.battery) # Null) = (seen' # Null /\ seen'.ccl # Null)
      BY <3>1 DEF Limit
    <3>3. ceiling' \in Nat \cup {Null}
      BY DEF CeilingTypeOK
    <3>4. PICK chargers, d : /\ d = Decide(Limit(in.battery), in.current, in.load, chargers,
                                           ceiling', reason')
                             /\ decision' = Stabilized(d, chargers)
      BY <2>1 DEF Tick
    <3>5. Honest(d.targets, DOMAIN chargers, ceiling', Limit(in.battery) # Null)
      BY <3>3, <3>4, DecideHonest
    <3>6. "targets" \in DOMAIN d
      BY <3>4, DecideShape
    <3>7. Honest(decision'.targets, DOMAIN chargers, ceiling', Limit(in.battery) # Null)
      BY <3>4, <3>5, <3>6, StabilizedHonest
    <3>8. effective' = Override(decision'.targets, paused, manual)
      BY <2>1 DEF Tick
    <3>9. Honest(effective', DOMAIN chargers, ceiling', Limit(in.battery) # Null)
      BY <3>7, <3>8, OverrideHonest
    <3>10. DOMAIN effective' = DOMAIN chargers
      BY <3>9 DEF Honest
    <3>11. Honest(effective', DOMAIN effective', ceiling', seen' # Null /\ seen'.ccl # Null)
      BY <3>2, <3>9, <3>10, Zenon
    <3> QED
      BY <3>1, <3>11 DEF HonestTick
  <2>2. ASSUME NEW f \in Factors, OperatorFactor(f) PROVE HonestTick'
    BY <2>2 DEF OperatorFactor, SetScalingFactor, NudgeScalingFactor, HonestTick
  <2>3. CASE Restart
    <3>1. effective' = <<>> /\ ceiling' = Null
      BY <2>3 DEF Restart, CeilingRestart
    <3>2. DOMAIN effective' = {}
      BY <3>1
    <3> QED
      BY <3>1, <3>2 DEF HonestTick, Honest
  <2>4. CASE Quiet
    BY <2>4 DEF Quiet, HonestTick
  <2>5. \/ Quiet
        \/ \E in \in Inputs : Tick(in)
        \/ \E f \in Factors : OperatorFactor(f)
        \/ Restart
    BY QuietSteps
  <2> QED
    BY <2>1, <2>2, <2>3, <2>4, <2>5
<1> QED
  BY <1>1, <1>2, ControlImplementsCeiling, CeilingTyped, PTL DEF Spec

\* No charger is ever switched off but for a resolved allowance of 0 A.
THEOREM StopsAreReserved == Spec => []DisableOnlyOnStop
<1>1. HonestTick => DisableOnlyOnStop
  BY DEF HonestTick, Honest, DisableOnlyOnStop
<1> QED
  BY <1>1, HonestTickHolds, PTL

\* A resolved allowance of 0 A reaches every controller that answered.
THEOREM StopsReachEveryController == Spec => []StopReachesEveryController
<1>1. HonestTick => StopReachesEveryController
  BY NullAssumption DEF HonestTick, Honest, StopReachesEveryController, LimitWanted
<1> QED
  BY <1>1, HonestTickHolds, PTL

-----------------------------------------------------------------------------
\* While the tick that read a snapshot runs on, the ceiling it resolved is a
\* stop if a stop is being held.
GapInv ==
  pc # "idle" /\ ~lastEnable /\ silentFor < HoldTicks => seen = Null \/ ceiling = 0

\* Resolving answers with the request that is held: leave to charge is given
\* only by the frame itself, or when the hold time is over.
LEMMA HeldMeansDisabled ==
  ASSUME ResolverTypeOK, NEW flag \in BOOLEAN \cup {Null}, NEW cold \in BOOLEAN,
         Resolve(flag), ~lastEnable', silentFor' < HoldTicks
  PROVE  ChargeEnabled(flag, cold) = FALSE
<1>1. CASE flag # Null
  BY <1>1, NullAssumption DEF Resolve, ChargeEnabled
<1>2. CASE flag = Null
  <2>1. lastEnable = FALSE
    BY <1>2 DEF Resolve, ResolverTypeOK
  <2>2. WithinHold
    BY <1>2, HoldAssumption DEF Resolve, Aged, WithinHold, ResolverTypeOK, HoldAssumption
  <2> QED
    BY <1>2, <2>1, <2>2 DEF ChargeEnabled
<1> QED
  BY <1>1, <1>2

LEMMA DisabledMeansZero ==
  ASSUME NEW b, Evaluate(b, FALSE)
  PROVE  seen' = b /\ (b # Null => ceiling' = 0)
BY DEF Evaluate, Unconstrained

LEMMA GapHolds == Spec => []GapInv
<1>1. Init => GapInv
  BY DEF Init, GapInv
<1>2. ResolverTypeOK /\ GapInv /\ [Next]_vars => GapInv'
  <2> SUFFICES ASSUME ResolverTypeOK, GapInv, [Next]_vars PROVE GapInv'
    OBVIOUS
  <2>1. ASSUME NEW in \in Inputs, Tick(in) PROVE GapInv'
    <3> SUFFICES ASSUME ~lastEnable', silentFor' < HoldTicks PROVE seen' = Null \/ ceiling' = 0
      BY DEF GapInv
    <3>1. in.flag \in BOOLEAN \cup {Null} /\ in.cold \in BOOLEAN
      BY InputAssumption DEF Input
    <3>2. Resolve(in.flag) /\ Evaluate(in.battery, ChargeEnabled(in.flag, in.cold))
      BY <2>1 DEF Tick
    <3>3. ChargeEnabled(in.flag, in.cold) = FALSE
      BY <3>1, <3>2, HeldMeansDisabled
    <3> QED
      BY <3>2, <3>3, DisabledMeansZero
  <2>2. ASSUME NEW in \in Inputs, EmptyTick(in) PROVE GapInv'
    BY <2>2 DEF EmptyTick, GapInv
  <2>3. CASE Restart
    BY <2>3 DEF Restart, GapInv
  <2>4. ASSUME NEW f \in Factors, OperatorFactor(f) PROVE GapInv'
    BY <2>4 DEF OperatorFactor, SetScalingFactor, NudgeScalingFactor, GapInv
  <2>5. CASE UNCHANGED <<seen, ceiling, lastEnable, silentFor>> /\ (pc' # "idle" => pc # "idle")
    BY <2>5 DEF GapInv
  <2>6. CoilSkipped \/ CoilWritten \/ CoilFailed \/ RelayStep
          => UNCHANGED <<seen, ceiling, lastEnable, silentFor>> /\ (pc' # "idle" => pc # "idle")
    BY DEF CoilSkipped, CoilWritten, CoilFailed, RelayStep
  <2>7. ASSUME NEW c \in Controllers, LimitSkipped(c) \/ LimitWritten(c) \/ LimitFailed(c)
        PROVE  UNCHANGED <<seen, ceiling, lastEnable, silentFor>> /\ (pc' # "idle" => pc # "idle")
    BY <2>7 DEF LimitSkipped, LimitWritten, LimitFailed, Controllers
  <2>8. (\E c \in Controllers : ActorRuns(c)) \/ UNCHANGED vars
        \/ (\E p \in OperatorPauses : SetPaused(p))
        \/ (\E c \in Controllers, amps \in ManualLimits \cup {Null} : SetManualLimit(c, amps))
        \/ (\E on \in OperatorSwitches : OperatorCoil(on) \/ OperatorRelay(on))
        \/ (\E c \in Controllers, amps \in OperatorLimits : OperatorLimit(c, amps))
          => UNCHANGED <<seen, ceiling, lastEnable, silentFor, pc>>
    BY DEF ActorRuns, SetPaused, SetManualLimit, OperatorCoil, OperatorRelay, OperatorLimit
  <2> QED
    BY <2>1, <2>2, <2>3, <2>4, <2>5, <2>6, <2>7, <2>8 DEF Next, TickStep, Operator
<1> QED
  BY <1>1, <1>2, ResolverTyped, PTL DEF Spec

\* A stop the BMS asked for is held, on every controller that answers, over
\* snapshots without the flags frame until the hold time is over.
THEOREM GapsAreBridged == Spec => []GapHoldsStop
<1>1. HonestTick /\ GapInv => GapHoldsStop
  BY DEF HonestTick, Honest, GapInv, GapHoldsStop
<1> QED
  BY <1>1, HonestTickHolds, GapHolds, PTL

-----------------------------------------------------------------------------
(* The split of the budget, by itself: module ChargeAllocator.               *)

\* A quotient is a natural number that fits its dividend.
LEMMA QuotientFits ==
  ASSUME NEW x \in Nat, NEW y \in Nat \ {0}
  PROVE  x \div y \in Nat /\ (x \div y) * y <= x /\ x < (x \div y) * y + y
OBVIOUS

\* A bucket lies at most half a quantum above what it stands for.
LEMMA NearestBucketFits ==
  ASSUME NEW amps \in Nat
  PROVE  /\ NearestBucket(amps) \in Nat
         /\ NearestBucket(amps) <= amps + Quantum \div 2
         /\ 2 * amps < Quantum => NearestBucket(amps) = 0
<1> DEFINE k == (2 * amps + Quantum) \div (2 * Quantum)
<1>1. Quantum \in Nat /\ Quantum # 0 /\ Quantum % 2 = 1
  BY TuningAssumption
<1>2. 2 * amps + Quantum \in Nat /\ 2 * Quantum \in Nat \ {0}
  BY <1>1
<1>3. k \in Nat /\ k * (2 * Quantum) <= 2 * amps + Quantum
  BY <1>2, QuotientFits
<1>4. NearestBucket(amps) = k * Quantum
  BY DEF NearestBucket
<1>5. k * Quantum \in Nat /\ k * (2 * Quantum) = 2 * (k * Quantum)
  BY <1>1, <1>3
<1>6. Quantum = 2 * (Quantum \div 2) + 1 /\ Quantum \div 2 \in Nat
  BY <1>1
<1>7. ASSUME 2 * amps < Quantum PROVE k = 0
  <2>1. 2 * amps + Quantum < 2 * Quantum
    BY <1>1, <1>7
  <2> HIDE DEF k
  <2>2. k * (2 * Quantum) < 2 * Quantum
    BY <1>1, <1>2, <1>3, <2>1
  <2> QED
    BY <1>1, <1>3, <2>2
<1> HIDE DEF k
<1>8. k * Quantum <= amps + Quantum \div 2
  BY <1>1, <1>3, <1>5, <1>6
<1> QED
  BY <1>1, <1>4, <1>5, <1>7, <1>8

\* How many of the two controllers a set holds.
LEMMA Sharers ==
  ASSUME NEW R \in SUBSET Controllers
  PROVE  Cardinality(R) = (IF "classic" \in R THEN 1 ELSE 0) + (IF "epever" \in R THEN 1 ELSE 0)
<1>1. CASE "classic" \notin R /\ "epever" \notin R
  <2>1. R = {}
    BY <1>1 DEF Controllers
  <2> QED
    BY <1>1, <2>1, FS_EmptySet
<1>2. CASE "classic" \in R /\ "epever" \notin R
  <2>1. R = {"classic"}
    BY <1>2 DEF Controllers
  <2> QED
    BY <1>2, <2>1, FS_Singleton
<1>3. CASE "classic" \notin R /\ "epever" \in R
  <2>1. R = {"epever"}
    BY <1>3 DEF Controllers
  <2> QED
    BY <1>3, <2>1, FS_Singleton
<1>4. CASE "classic" \in R /\ "epever" \in R
  <2>1. R = {"classic"} \cup {"epever"}
    BY <1>4 DEF Controllers
  <2>2. IsFiniteSet({"classic"}) /\ Cardinality({"classic"}) = 1 /\ "epever" \notin {"classic"}
    BY FS_Singleton
  <2>3. Cardinality({"classic"} \cup {"epever"}) = 1 + 1
    BY <2>2, FS_AddElement
  <2> QED
    BY <1>4, <2>1, <2>3
<1> QED
  BY <1>1, <1>2, <1>3, <1>4

\* Caps add up to a natural number.
LEMMA CapacityNat ==
  ASSUME NEW S
  PROVE  Capacity(S) \in Nat
BY AmpsAssumption DEF Capacity, Amperes, Controllers

\* What a round of the water-fill hands out at the cap fits the budget.
LEMMA RoundFits ==
  ASSUME NEW budget \in Nat, NEW S \in SUBSET Controllers, NEW R \in SUBSET S,
         10 * Capacity(S \ R) <= budget
  PROVE  /\ Uncapped(budget, S, R) \in SUBSET R
         /\ 10 * Capacity(S \ Uncapped(budget, S, R)) <= budget
<1> DEFINE U == Uncapped(budget, S, R)
           a == MaxAmps["classic"]
           b == MaxAmps["epever"]
           left == budget - 10 * Capacity(S \ R)
           n == Cardinality(R)
<1>1. U \in SUBSET R
  BY DEF Uncapped
<1>2. a \in Nat /\ b \in Nat
  BY AmpsAssumption DEF Controllers
<1>3. \A T : Capacity(T) = (IF "classic" \in T THEN a ELSE 0) + (IF "epever" \in T THEN b ELSE 0)
  BY DEF Capacity, Amperes
<1>4. n = (IF "classic" \in R THEN 1 ELSE 0) + (IF "epever" \in R THEN 1 ELSE 0)
  BY Sharers
<1>5. "classic" \in R \ U => left >= 10 * a * n
  BY <1>2, <1>3, <1>4 DEF Uncapped
<1>6. "epever" \in R \ U => left >= 10 * b * n
  BY <1>2, <1>3, <1>4 DEF Uncapped
<1>7. left \in Nat /\ Capacity(S \ R) \in Nat
  BY CapacityNat
<1> HIDE DEF U, a, b, left, n
<1>8. 10 * Capacity(S \ U) <= 10 * Capacity(S \ R) + left
  <2>1. CASE n = 2
    BY <1>1, <1>2, <1>3, <1>4, <1>5, <1>6, <1>7, <2>1
  <2>2. CASE n # 2
    BY <1>1, <1>2, <1>3, <1>4, <1>5, <1>6, <1>7, <2>2
  <2> QED
    BY <2>1, <2>2
<1> QED
  BY <1>1, <1>8, CapacityNat DEF U, left

\* Shares never add up to more than the budget.
LEMMA SharesFit ==
  ASSUME NEW budget \in Nat, NEW S \in SUBSET Controllers
  PROVE  /\ \A c \in S : Allocation(budget, S)[c] \in Nat
         /\ 10 * Amperes(Allocation(budget, S), S) <= budget
<1> DEFINE R == Sharing(budget, S)
           left == budget - 10 * Capacity(S \ R)
           n == Cardinality(R)
           whole == left \div (10 * n)
           spare == left \div 10 - n * whole
           share == Allocation(budget, S)
<1>1. 10 * Capacity(S \ S) <= budget
  BY DEF Capacity, Amperes
<1>2. R \in SUBSET S /\ 10 * Capacity(S \ R) <= budget
  BY <1>1, RoundFits DEF Sharing
<1>3. left \in Nat /\ Capacity(S \ R) \in Nat
  BY <1>2, CapacityNat
<1>4. n = (IF "classic" \in R THEN 1 ELSE 0) + (IF "epever" \in R THEN 1 ELSE 0)
  BY <1>2, Sharers
<1>5. \A c \in S : share[c] = IF c \notin R THEN MaxAmps[c]
                              ELSE IF Cardinality(Before(c, R)) < spare THEN whole + 1 ELSE whole
  BY DEF Allocation
<1>6. Cardinality(Before("classic", R)) = 0
  <2>1. Before("classic", R) = {}
    BY DEF Before
  <2> QED
    BY <2>1, FS_EmptySet
<1>7. Cardinality(Before("epever", R)) = IF "classic" \in R THEN 1 ELSE 0
  <2>1. Before("epever", R) = IF "classic" \in R THEN {"classic"} ELSE {}
    BY DEF Before
  <2> QED
    BY <2>1, FS_EmptySet, FS_Singleton
<1>8. \A c \in S : MaxAmps[c] \in Nat
  BY AmpsAssumption
<1>9. n # 0 => whole \in Nat /\ spare \in Int
  BY <1>3, <1>4
<1>10. left \div 10 \in Nat /\ 10 * (left \div 10) <= left
  BY <1>3
<1>11. n = 1 => spare = 0 /\ whole = left \div 10
  <2>1. n = 1 => 10 * n = 10 /\ n * whole = whole /\ whole \in Int
    BY <1>3
  <2> HIDE DEF n
  <2> QED
    BY <1>3, <1>10, <2>1
<1>12. ASSUME n = 2 PROVE 2 * whole + spare = left \div 10 /\ spare \in {0, 1}
  <2> DEFINE tens == left \div 10
             twenties == left \div 20
  <2>1. 10 * n = 20
    BY <1>12
  <2>2. whole = twenties
    BY <2>1
  <2>3. spare = tens - 2 * twenties
    BY <1>12, <2>2
  <2>4. tens - 2 * twenties \in {0, 1} /\ tens \in Int /\ twenties \in Int
    BY <1>3
  <2> HIDE DEF whole, spare, tens, twenties
  <2>5. 2 * whole + spare = tens /\ spare \in {0, 1}
    BY <2>2, <2>3, <2>4
  <2> QED
    BY <2>5 DEF tens
<1>13. R # {} => n # 0
  <2>1. R # {} => "classic" \in R \/ "epever" \in R
    BY <1>2 DEF Controllers
  <2> HIDE DEF R, n
  <2> QED
    BY <1>4, <2>1
<1>14. \A f : Amperes(f, S) = (IF "classic" \in S THEN f["classic"] ELSE 0)
                              + (IF "epever" \in S THEN f["epever"] ELSE 0)
  BY DEF Amperes
<1>15. budget = left + 10 * Capacity(S \ R)
  BY <1>3
<1>16. Capacity(S \ R) = (IF "classic" \in S \ R THEN MaxAmps["classic"] ELSE 0)
                         + (IF "epever" \in S \ R THEN MaxAmps["epever"] ELSE 0)
  BY DEF Capacity, Amperes
<1> HIDE DEF R, left, n, whole, spare, share
<1>17. \A c \in S : share[c] \in Nat
  BY <1>2, <1>5, <1>8, <1>9, <1>13
<1>18. Amperes(share, S) <= Capacity(S \ R) + left \div 10
  <2>1. ASSUME NEW c \in S \ R PROVE share[c] = MaxAmps[c]
    BY <1>5
  <2>2. ASSUME "classic" \in R PROVE share["classic"] = IF 0 < spare THEN whole + 1 ELSE whole
    BY <1>2, <1>5, <1>6, <2>2
  <2>3. ASSUME "epever" \in R
        PROVE  share["epever"] = IF (IF "classic" \in R THEN 1 ELSE 0) < spare THEN whole + 1 ELSE whole
    BY <1>2, <1>5, <1>7, <2>3
  <2>4. CASE R = {}
    BY <1>8, <1>10, <1>14, <1>16, <2>1, <2>4
  <2>5. CASE n = 1
    BY <1>2, <1>4, <1>8, <1>9, <1>10, <1>11, <1>14, <1>16, <2>1, <2>2, <2>3, <2>5
  <2>6. CASE n = 2
    BY <1>2, <1>4, <1>8, <1>9, <1>10, <1>12, <1>14, <1>16, <2>1, <2>2, <2>3, <2>6
  <2>7. CASE n = 0
    BY <1>2, <1>4, <1>13, <2>4, <2>7
  <2> QED
    BY <1>4, <2>5, <2>6, <2>7
<1>19. Amperes(share, S) \in Nat
  BY <1>14, <1>17
<1>20. 10 * Amperes(share, S) <= budget
  BY <1>3, <1>10, <1>15, <1>18, <1>19
<1> QED
  BY <1>17, <1>20 DEF share

\* A slack is what any one of its parts may be.
LEMMA SlackParts ==
  ASSUME NEW c \in Controllers
  PROVE  /\ MinAmps[c] \in {0, 1}
         /\ Quantum \div 2 \in Nat
         /\ Slack(c) \in Nat
         /\ MinAmps[c] <= Slack(c)
         /\ MinAmps[c] + Deadband - 1 <= Slack(c)
         /\ Quantum \div 2 <= Slack(c)
<1>1. MinAmps[c] \in {0, 1}
  BY DEF MinAmps, Controllers
<1>2. Quantum \div 2 \in Nat /\ Deadband \in Nat
  BY TuningAssumption
<1> QED
  BY <1>1, <1>2 DEF Slack, Bigger

\* A bucket is no further above a share than half a bucket or the floor.
LEMMA QuantizedFits ==
  ASSUME NEW c \in Controllers, NEW share \in Nat
  PROVE  /\ Quantized(c, Bigger(share, MinAmps[c])) \in Nat
         /\ Quantized(c, Bigger(share, MinAmps[c])) <= share + Slack(c)
<1> DEFINE held == Bigger(share, MinAmps[c])
           near == NearestBucket(held)
           q == Bigger(MinAmps[c], Smaller(MaxAmps[c], near))
<1>1. MinAmps[c] \in {0, 1} /\ held \in Nat /\ (share = 0 => held = MinAmps[c]) /\ (share > 0 => held = share)
  BY SlackParts DEF Bigger
<1>2. near \in Nat /\ near <= held + Quantum \div 2 /\ (2 * held < Quantum => near = 0)
  BY <1>1, NearestBucketFits
<1>3. MaxAmps[c] \in Nat \ {0}
  BY AmpsAssumption
<1>4. Quantized(c, held) = IF held = 0 THEN 0 ELSE IF q = 0 THEN Bigger(MinAmps[c], 1) ELSE q
  BY DEF Quantized
<1>5. q \in Nat /\ (q = MinAmps[c] \/ q <= near)
  <2> HIDE DEF near
  <2> QED
    BY <1>1, <1>2, <1>3 DEF Bigger, Smaller
<1>6. Quantum \in Nat /\ Quantum % 2 = 1 /\ Quantum \div 2 \in Nat
  BY TuningAssumption
<1>7. share = 0 /\ held = 1 => near <= 1
  <2>1. CASE Quantum = 1
    <3>1. Quantum \div 2 = 0
      BY <2>1
    <3> HIDE DEF near, held
    <3> QED
      BY <1>2, <3>1
  <2>2. CASE Quantum # 1
    <3>1. Quantum > 2
      BY <1>6, <2>2
    <3> HIDE DEF near, held
    <3> QED
      BY <1>2, <1>6, <3>1
  <2> QED
    BY <2>1, <2>2
<1>8. Bigger(MinAmps[c], 1) = 1
  BY <1>1 DEF Bigger
<1>9. /\ Slack(c) \in Nat
      /\ MinAmps[c] <= Slack(c)
      /\ Quantum \div 2 <= Slack(c)
  BY SlackParts
<1> DEFINE z == Quantized(c, held)
<1> HIDE DEF held, near, q, z
<1>10. z = 0 \/ z = 1 \/ (held # 0 /\ z = q /\ z \in Nat)
  BY <1>4, <1>5, <1>8 DEF z
<1>11. CASE share = 0
  <2>1. held = MinAmps[c]
    BY <1>1, <1>11
  <2>2. held = 0 => z = 0
    BY <1>4 DEF z
  <2>3. held = 1 => z <= 1
    BY <1>1, <1>2, <1>5, <1>7, <1>10, <1>11, <2>1
  <2> QED
    BY <1>1, <1>9, <1>10, <1>11, <2>1, <2>2, <2>3 DEF z, held
<1>12. CASE share > 0
  <2>1. held = share
    BY <1>1, <1>12
  <2>2. z = q => z <= share + Slack(c)
    BY <1>1, <1>2, <1>5, <1>6, <1>9, <1>12, <2>1
  <2> QED
    BY <1>1, <1>9, <1>10, <1>12, <2>1, <2>2 DEF z, held
<1> QED
  BY <1>11, <1>12

\* A smoothed limit is no further above the share it was held for than the slack.
LEMMA SmoothedFits ==
  ASSUME NEW c \in Controllers, NEW share \in Nat, NEW old \in Nat, NEW exact \in BOOLEAN
  PROVE  /\ Smoothed(c, old, Bigger(share, MinAmps[c]), exact) \in Nat
         /\ Smoothed(c, old, Bigger(share, MinAmps[c]), exact) <= share + Slack(c)
<1> DEFINE held == Bigger(share, MinAmps[c])
           z == Smoothed(c, old, held, exact)
<1>1. /\ MinAmps[c] \in {0, 1}
      /\ Slack(c) \in Nat
      /\ MinAmps[c] <= Slack(c)
      /\ MinAmps[c] + Deadband - 1 <= Slack(c)
  BY SlackParts
<1>2. held \in Nat /\ held <= share + MinAmps[c]
  BY <1>1 DEF Bigger
<1>3. Deadband \in Nat
  BY TuningAssumption
<1>4. Distance(held, old) < Deadband => old <= held + Deadband - 1
  <2> HIDE DEF held
  <2> QED
    BY <1>2, <1>3 DEF Distance, Bigger, Smaller
<1>5. Quantized(c, held) \in Nat /\ Quantized(c, held) <= share + Slack(c)
  BY QuantizedFits
<1>6. \/ z = held
      \/ Distance(held, old) < Deadband /\ z = old
      \/ z = Quantized(c, held)
  BY DEF Smoothed
<1> HIDE DEF held, z
<1>7. z \in Nat /\ z <= share + Slack(c)
  BY <1>1, <1>2, <1>3, <1>4, <1>5, <1>6
<1> QED
  BY <1>7 DEF z, held

\* The limit a target asks for, from the share it was decided on.
IsShare(t, c, share) ==
  \/ t.amps = Bigger(share, MinAmps[c])
  \/ t.amps = 0 /\ t.disable

Charger == [limit : Nat \cup {Null}, active : BOOLEAN]

\* Smoothing adds no more to a share than the slack.
LEMMA StabilizedFits ==
  ASSUME NEW d, "targets" \in DOMAIN d, NEW chargers, NEW c \in Controllers, NEW share \in Nat,
         c \in DOMAIN chargers, chargers[c] \in Charger, IsShare(d.targets[c], c, share)
  PROVE  /\ Stabilized(d, chargers).targets[c].amps \in Nat
         /\ Stabilized(d, chargers).targets[c].amps <= share + Slack(c)
<1> DEFINE t == d.targets[c]
           old == chargers[c].limit
           exact == Uneven(d, chargers)
           s == Stabilized(d, chargers).targets[c]
<1>1. old \in Nat \cup {Null}
  BY DEF Charger
<1>2. /\ MinAmps[c] \in {0, 1}
      /\ Slack(c) \in Nat
      /\ MinAmps[c] <= Slack(c)
  BY SlackParts
<1>3. exact \in BOOLEAN
  BY DEF Uneven
<1>4. s = IF t.amps = Null \/ t.disable \/ old = Null \/ d.reason \in Immediate THEN t
          ELSE [amps |-> Smoothed(c, old, t.amps, exact), disable |-> FALSE,
                write |-> Drifted(old, Smoothed(c, old, t.amps, exact))]
  BY DEF Stabilized
<1>5. CASE s = t
  BY <1>2, <1>5 DEF IsShare, Bigger
<1>6. CASE ~t.disable /\ old # Null /\ s.amps = Smoothed(c, old, t.amps, exact)
  <2>1. t.amps = Bigger(share, MinAmps[c])
    BY <1>6 DEF IsShare
  <2> QED
    BY <1>1, <1>3, <1>6, <2>1, SmoothedFits
<1> QED
  BY <1>4, <1>5, <1>6

\* A budget is a natural number.
LEMMA BudgetNat ==
  ASSUME NEW current \in Int, NEW load \in Nat, NEW top \in Nat
  PROVE  Budget(current, load, top).amount \in Nat
<1>1. Reserve \in Nat
  BY TuningAssumption
<1>2. Bigger(0, top + load - Reserve) \in Nat
  BY <1>1 DEF Bigger
<1>3. Bigger(0, Bigger(0, top + load - Reserve) - (current - top)) \in Nat
  BY <1>2 DEF Bigger
<1> QED
  BY <1>2, <1>3 DEF Budget

\* A decision that is neither missing nor a stop splits some budget.
LEMMA Apportioned ==
  ASSUME NEW ccl, ccl # Null, NEW current \in Int, NEW load \in Nat, NEW chargers,
         NEW top \in Nat \cup {Null}, top # 0, NEW why
  PROVE  \E amount, reasoned :
           /\ amount \in Nat
           /\ Decide(ccl, current, load, chargers, top, why) = Apportion(chargers, amount, reasoned)
<1> DEFINE d == Decide(ccl, current, load, chargers, top, why)
           full == 10 * Capacity(Active(chargers))
<1>1. ~(top # Null /\ top <= 0)
  OBVIOUS
<1>2. CASE top = Null \/ full <= top
  <2>1. d = Apportion(chargers, full, "unconstrained")
    BY <1>1, <1>2 DEF Decide
  <2>2. full \in Nat
    BY CapacityNat
  <2> QED
    BY <2>1, <2>2
<1>3. CASE ~(top = Null \/ full <= top)
  <2> DEFINE b == Budget(current, load, top)
  <2>1. d = Apportion(chargers, b.amount, IF b.clamped THEN "feedback_clamp" ELSE why)
    BY <1>1, <1>3 DEF Decide
  <2>2. b.amount \in Nat
    BY <1>3, BudgetNat
  <2> HIDE DEF b
  <2> QED
    BY <2>1, <2>2
<1> QED
  BY <1>2, <1>3

\* Every decision that names a budget splits no more than that among the
\* chargers in use.
LEMMA DecidedShares ==
  ASSUME NEW ccl, NEW current \in Int, NEW load \in Nat, NEW chargers, NEW top \in Nat \cup {Null},
         NEW why, DOMAIN chargers \subseteq Controllers,
         NEW d, d = Decide(ccl, current, load, chargers, top, why), d.budget # Null
  PROVE  /\ d.budget \in Nat
         /\ \E share :
              /\ \A c \in Active(chargers) : share[c] \in Nat /\ IsShare(d.targets[c], c, share[c])
              /\ 10 * Amperes(share, Active(chargers)) <= d.budget
<1> DEFINE S == Active(chargers)
<1>0. S \in SUBSET Controllers /\ S \subseteq DOMAIN chargers
  BY DEF Active
<1>1. ccl # Null
  BY DEF Decide
<1>2. CASE top = 0
  <2>1. d.budget = 0 /\ d.targets = [c \in DOMAIN chargers |-> StopTarget(chargers[c])]
    BY <1>1, <1>2, NullAssumption DEF Decide
  <2>2. PICK share : share = [c \in Controllers |-> 0]
    OBVIOUS
  <2>3. 10 * Amperes(share, S) <= d.budget
    BY <2>1, <2>2 DEF Amperes, Controllers
  <2>4. ASSUME NEW c \in S PROVE share[c] \in Nat /\ IsShare(d.targets[c], c, share[c])
    <3>1. share[c] = 0 /\ d.targets[c] = StopTarget(chargers[c])
      BY <1>0, <2>1, <2>2
    <3> QED
      BY <3>1 DEF IsShare, StopTarget
  <2> HIDE DEF S
  <2>5. /\ \A c \in S : share[c] \in Nat /\ IsShare(d.targets[c], c, share[c])
        /\ 10 * Amperes(share, S) <= d.budget
    BY <2>3, <2>4
  <2> QED
    BY <2>1, <2>5 DEF S
<1>3. CASE top # 0
  <2>1. PICK amount, reasoned : amount \in Nat /\ d = Apportion(chargers, amount, reasoned)
    BY <1>1, <1>3, Apportioned
  <2>2. PICK share : share = Allocation(amount, S)
    OBVIOUS
  <2>3. d.budget = amount
    BY <2>1 DEF Apportion
  <2>4. (\A c \in S : share[c] \in Nat) /\ 10 * Amperes(share, S) <= amount
    BY <1>0, <2>1, <2>2, SharesFit
  <2>5. ASSUME NEW c \in S PROVE IsShare(d.targets[c], c, share[c])
    <3>1. c \in DOMAIN chargers /\ chargers[c].active
      BY DEF Active
    <3>2. d.targets[c] = ShareTarget(c, chargers[c], share[c])
      BY <2>1, <2>2, <3>1 DEF Apportion
    <3> QED
      BY <3>2 DEF ShareTarget, IsShare
  <2> HIDE DEF S
  <2>6. /\ \A c \in S : share[c] \in Nat /\ IsShare(d.targets[c], c, share[c])
        /\ 10 * Amperes(share, S) <= d.budget
    BY <2>3, <2>4, <2>5
  <2> QED
    BY <2>1, <2>3, <2>6 DEF S
<1> QED
  BY <1>2, <1>3

\* Larger limits have the larger sum.
LEMMA AmperesMonotone ==
  ASSUME NEW S \in SUBSET Controllers, NEW f, NEW g,
         \A c \in S : f[c] \in Int /\ g[c] \in Int /\ f[c] <= g[c]
  PROVE  /\ Amperes(f, S) \in Int /\ Amperes(g, S) \in Int
         /\ Amperes(f, S) <= Amperes(g, S)
BY DEF Amperes

-----------------------------------------------------------------------------
(* Types of the tick's targets.                                             *)

\* A decision has a typed target for every controller that answered.
LEMMA DecideTyped ==
  ASSUME NEW ccl, NEW current \in Int, NEW load \in Nat, NEW S \in SUBSET Controllers,
         NEW chargers \in [S -> Charger], NEW top \in Nat \cup {Null}, NEW why,
         NEW d, d = Decide(ccl, current, load, chargers, top, why)
  PROVE  d.targets \in [S -> Target]
<1>1. CASE ccl = Null
  <2>1. d.targets = [c \in S |-> NoTarget]
    BY <1>1 DEF Decide
  <2> QED
    BY <2>1 DEF Target, NoTarget
<1>2. CASE ccl # Null /\ top = 0
  <2>1. d.targets = [c \in S |-> StopTarget(chargers[c])]
    BY <1>2, NullAssumption DEF Decide
  <2>2. ASSUME NEW c \in S PROVE StopTarget(chargers[c]) \in Target
    BY DEF StopTarget, Target
  <2> QED
    BY <2>1, <2>2
<1>3. CASE ccl # Null /\ top # 0
  <2>1. PICK amount, reasoned : amount \in Nat /\ d = Apportion(chargers, amount, reasoned)
    BY <1>3, Apportioned
  <2>2. PICK share : share = Allocation(amount, Active(chargers))
    OBVIOUS
  <2>3. Active(chargers) \in SUBSET Controllers
    BY DEF Active
  <2>4. \A c \in Active(chargers) : share[c] \in Nat
    BY <2>1, <2>2, <2>3, SharesFit
  <2>5. d.targets = [c \in S |-> IF chargers[c].active THEN ShareTarget(c, chargers[c], share[c])
                                 ELSE ReleaseTarget(c, chargers[c])]
    BY <2>1, <2>2 DEF Apportion
  <2>6. ASSUME NEW c \in S, chargers[c].active PROVE ShareTarget(c, chargers[c], share[c]) \in Target
    <3>1. share[c] \in Nat
      BY <2>4, <2>6 DEF Active
    <3>2. MinAmps[c] \in Nat
      BY SlackParts
    <3>3. Bigger(share[c], MinAmps[c]) \in Nat
      BY <3>1, <3>2 DEF Bigger
    <3> QED
      BY <3>3 DEF ShareTarget, Target, Drifted
  <2>7. ASSUME NEW c \in S PROVE ReleaseTarget(c, chargers[c]) \in Target
    BY AmpsAssumption DEF ReleaseTarget, Target, Drifted
  <2> QED
    BY <2>5, <2>6, <2>7
<1> QED
  BY <1>1, <1>2, <1>3

\* Smoothing a limit gives a limit.
LEMMA SmoothedNat ==
  ASSUME NEW c \in Controllers, NEW amps \in Nat, NEW old \in Nat, NEW exact \in BOOLEAN
  PROVE  Smoothed(c, old, amps, exact) \in Nat
<1>1. NearestBucket(amps) \in Nat
  BY NearestBucketFits
<1>2. MinAmps[c] \in Nat /\ MaxAmps[c] \in Nat
  BY SlackParts, AmpsAssumption
<1>3. Quantized(c, amps) \in Nat
  BY <1>1, <1>2 DEF Quantized, Bigger, Smaller
<1> QED
  BY <1>3 DEF Smoothed

\* Smoothing keeps the types of the targets.
LEMMA StabilizedTyped ==
  ASSUME NEW d, "targets" \in DOMAIN d, NEW S \in SUBSET Controllers,
         NEW chargers \in [S -> Charger], d.targets \in [S -> Target]
  PROVE  Stabilized(d, chargers).targets \in [S -> Target]
<1> DEFINE t == Stabilized(d, chargers).targets
           exact == Uneven(d, chargers)
<1>1. exact \in BOOLEAN
  BY DEF Uneven
<1>2. ASSUME NEW c \in S, NEW amps, amps = Smoothed(c, chargers[c].limit, d.targets[c].amps, exact)
      PROVE  IF d.targets[c].amps = Null \/ d.targets[c].disable \/ chargers[c].limit = Null
                \/ d.reason \in Immediate
             THEN d.targets[c] \in Target
             ELSE [amps |-> amps, disable |-> FALSE, write |-> Drifted(chargers[c].limit, amps)] \in Target
  <2>1. CASE d.targets[c].amps = Null \/ chargers[c].limit = Null
    BY <2>1
  <2>2. CASE d.targets[c].amps # Null /\ chargers[c].limit # Null
    <3>1. d.targets[c].amps \in Nat /\ chargers[c].limit \in Nat
      BY <2>2 DEF Target, Charger
    <3>2. amps \in Nat
      BY <1>1, <1>2, <3>1, SmoothedNat
    <3> QED
      BY <3>2 DEF Target, Drifted
  <2> QED
    BY <2>1, <2>2
<1>3. t = [c \in S |->
             IF d.targets[c].amps = Null \/ d.targets[c].disable \/ chargers[c].limit = Null
                \/ d.reason \in Immediate
             THEN d.targets[c]
             ELSE [amps |-> Smoothed(c, chargers[c].limit, d.targets[c].amps, exact), disable |-> FALSE,
                   write |-> Drifted(chargers[c].limit,
                                     Smoothed(c, chargers[c].limit, d.targets[c].amps, exact))]]
  BY DEF Stabilized
<1> HIDE DEF t, exact
<1>4. \A c \in S : t[c] \in Target
  BY <1>2, <1>3
<1>5. t \in [S -> Target]
  BY <1>3, <1>4
<1> QED
  BY <1>5 DEF t

\* An override keeps the types of the targets.
LEMMA OverrideTyped ==
  ASSUME NEW S \in SUBSET Controllers, NEW targets \in [S -> Target], NEW p \in BOOLEAN,
         NEW m \in [Controllers -> Nat \cup {Null}]
  PROVE  Override(targets, p, m) \in [S -> Target]
<1>1. ASSUME NEW c \in S PROVE Override(targets, p, m)[c] \in Target
  <2>1. targets[c] \in Target /\ m[c] \in Nat \cup {Null}
    OBVIOUS
  <2>2. DOMAIN targets[c] = {"amps", "write", "disable"}
    BY <2>1 DEF Target
  <2>3. CASE p
    BY <2>1, <2>2, <2>3 DEF Override, Target
  <2>4. CASE ~p /\ m[c] = Null
    BY <2>1, <2>2, <2>4 DEF Override
  <2>5. CASE ~p /\ m[c] # Null
    <3> DEFINE t == targets[c]
               amps == IF t.amps = Null THEN m[c] ELSE Smaller(t.amps, m[c])
    <3>1. Override(targets, p, m)[c] = [[t EXCEPT !.write = TRUE] EXCEPT !.amps = amps]
      BY <2>2, <2>5 DEF Override
    <3>2. amps \in Nat
      BY <2>1, <2>5 DEF Target, Smaller
    <3> HIDE DEF amps
    <3> QED
      BY <2>1, <2>2, <3>1, <3>2 DEF Target
  <2> QED
    BY <2>3, <2>4, <2>5
<1>2. Override(targets, p, m) = [c \in S |-> Override(targets, p, m)[c]]
  BY DEF Override
<1> QED
  BY <1>1, <1>2, Zenon

\* What a tick hands to _apply() is typed, for a snapshot that is.
LEMMA ChargersTyped ==
  ASSUME NEW in \in Input, NEW idle, limit \in [Controllers -> Nat]
  PROVE  ChargerInputs(in, idle) \in [in.present -> Charger]
BY DEF Input, ChargerInputs, Charger, Awake

\* The two kinds of command are typed.
LEMMA CommandsTyped ==
  /\ \A on \in BOOLEAN : CoilTo(on) \in Command
  /\ \A amps \in Nat : LimitTo(amps) \in Command
BY DEF CoilTo, LimitTo, Command

\* A command leaves coil and limits typed.
LEMMA ApplyTyped ==
  ASSUME DeviceTypeOK, NEW device \in Controllers, NEW command \in Command, Apply(device, command)
  PROVE  coil' \in BOOLEAN /\ limit' \in [Controllers -> Nat]
<1>1. CASE command \in [register : {"coil"}, value : BOOLEAN]
  BY <1>1 DEF Apply, DeviceTypeOK
<1>2. CASE command \in [register : {"limit"}, value : Nat]
  BY <1>2 DEF Apply, DeviceTypeOK
<1> QED
  BY <1>1, <1>2 DEF Command

\* Whatever becomes of a command the devices keep their types.
LEMMA CommandTyped ==
  ASSUME DeviceTypeOK, NEW device \in Controllers, NEW command \in Command, UNCHANGED relay,
         Done(device, command) \/ Refused \/ TimedOut(device, command)
  PROVE  DeviceTypeOK'
<1>1. CASE Done(device, command)
  <2>1. coil' \in BOOLEAN /\ limit' \in [Controllers -> Nat]
    BY <1>1, ApplyTyped DEF Done
  <2> QED
    BY <1>1, <2>1 DEF Done, DeviceTypeOK
<1>2. CASE Refused
  BY <1>2 DEF Refused, DeviceTypeOK
<1>3. CASE TimedOut(device, command)
  <2>1. Append(pending[device], command) \in Seq(Command)
        /\ Len(Append(pending[device], command)) = Len(pending[device]) + 1
    BY AppendProperties DEF DeviceTypeOK
  <2>2. pending' \in [Controllers -> Seq(Command)]
    BY <1>3, <2>1 DEF TimedOut, DeviceTypeOK
  <2>3. ASSUME NEW c \in Controllers PROVE Len(pending'[c]) <= MaxPending
    <3>1. CASE c = device
      <4>1. pending'[c] = Append(pending[device], command)
        BY <1>3, <3>1 DEF TimedOut, DeviceTypeOK
      <4>2. Len(pending[device]) \in Nat /\ MaxPending \in Nat /\ Len(pending[device]) < MaxPending
        BY <1>3, BoundAssumption, LenProperties DEF TimedOut, DeviceTypeOK
      <4> QED
        BY <2>1, <4>1, <4>2
    <3>2. CASE c # device
      BY <1>3, <3>2 DEF TimedOut, DeviceTypeOK
    <3> QED
      BY <3>1, <3>2
  <2> QED
    BY <1>3, <2>2, <2>3 DEF TimedOut, DeviceTypeOK
<1> QED
  BY <1>1, <1>2, <1>3

\* An actor that runs a queued command leaves the devices typed.
LEMMA ActorTyped ==
  ASSUME DeviceTypeOK, NEW device \in Controllers, ActorRuns(device)
  PROVE  DeviceTypeOK'
<1>1. pending[device] \in Seq(Command) /\ pending[device] # <<>>
  BY DEF ActorRuns, DeviceTypeOK
<1>2. /\ Head(pending[device]) \in Command /\ Tail(pending[device]) \in Seq(Command)
      /\ Len(Tail(pending[device])) = Len(pending[device]) - 1
  BY <1>1, HeadTailProperties
<1>3. coil' \in BOOLEAN /\ limit' \in [Controllers -> Nat]
  BY <1>2, ApplyTyped DEF ActorRuns, DeviceTypeOK
<1>4. pending' \in [Controllers -> Seq(Command)]
  BY <1>2 DEF ActorRuns, DeviceTypeOK
<1>5. ASSUME NEW c \in Controllers PROVE Len(pending'[c]) <= MaxPending
  <2>1. Len(pending[c]) \in Nat /\ Len(pending[c]) <= MaxPending /\ MaxPending \in Nat
    BY BoundAssumption, LenProperties DEF DeviceTypeOK
  <2>2. CASE c = device
    <3>1. pending'[c] = Tail(pending[device])
      BY <2>2 DEF ActorRuns, DeviceTypeOK
    <3> QED
      BY <1>2, <2>1, <2>2, <3>1
  <2>3. CASE c # device
    BY <2>1, <2>3 DEF ActorRuns, DeviceTypeOK
  <2> QED
    BY <2>2, <2>3
<1> QED
  BY <1>3, <1>4, <1>5 DEF ActorRuns, DeviceTypeOK

\* What the operator and the cached state range over.
MemoryTypeOK ==
  /\ cachedCoil \in BOOLEAN \cup {Null}
  /\ paused \in BOOLEAN
  /\ manual \in [Controllers -> Nat \cup {Null}]

\* The sleep debounce stays within its bound.
LEMMA DebouncedTyped ==
  ASSUME idleFor \in [Controllers -> 0 .. SleepTicks + 1 \cup {Null}], NEW in
  PROVE  Debounced(in) \in [Controllers -> 0 .. SleepTicks + 1 \cup {Null}]
<1>1. SleepTicks \in Nat
  BY SleepAssumption
<1>2. ASSUME NEW c \in Controllers PROVE Debounced(in)[c] \in 0 .. SleepTicks + 1 \cup {Null}
  <2>1. idleFor[c] \in 0 .. SleepTicks + 1 \cup {Null}
    OBVIOUS
  <2>2. idleFor[c] # Null => Smaller(idleFor[c] + 1, SleepTicks + 1) \in 0 .. SleepTicks + 1
    BY <1>1, <2>1 DEF Smaller
  <2> QED
    BY <1>1, <2>1, <2>2 DEF Debounced
<1>3. Debounced(in) = [c \in Controllers |-> Debounced(in)[c]]
  BY DEF Debounced
<1> QED
  BY <1>2, <1>3, Zenon

\* What a tick decides is typed, and so is what it is about to apply.
LEMMA TickTyped ==
  ASSUME CeilingTypeOK', TickTypeOK, DeviceTypeOK, MemoryTypeOK, NEW in \in Inputs, Tick(in)
  PROVE  TickTypeOK'
<1>1. in \in Input
  BY InputAssumption
<1>2. ceiling' \in Nat \cup {Null}
  BY DEF CeilingTypeOK
<1>3. idleFor' \in [Controllers -> 0 .. SleepTicks + 1 \cup {Null}]
  BY DebouncedTyped DEF Tick, TickTypeOK
<1>4. PICK chargers, d : /\ chargers = ChargerInputs(in, idleFor')
                         /\ d = Decide(Limit(in.battery), in.current, in.load, chargers, ceiling', reason')
                         /\ decision' = Stabilized(d, chargers)
  BY DEF Tick
<1>5. in.current \in Int /\ in.load \in Nat /\ in.present \in SUBSET Controllers
  BY <1>1 DEF Input
<1>6. chargers \in [in.present -> Charger]
  BY <1>1, <1>4, ChargersTyped DEF DeviceTypeOK
<1>7. d.targets \in [in.present -> Target]
  BY <1>2, <1>4, <1>5, <1>6, DecideTyped
<1>8. DOMAIN d = {"reason", "budget", "shared", "targets"}
  BY <1>4, DecideShape
<1>9. decision'.targets \in [in.present -> Target]
  BY <1>4, <1>5, <1>6, <1>7, <1>8, StabilizedTyped
<1>10. effective' \in [in.present -> Target]
  <2>1. effective' = Override(decision'.targets, paused, manual)
    BY DEF Tick
  <2> QED
    BY <1>5, <1>9, <2>1, OverrideTyped DEF MemoryTypeOK
<1>11. decision'.budget = d.budget
  BY <1>4, <1>8 DEF Stabilized
<1>12. d.budget \in Nat \cup {Null}
  BY <1>2, <1>4, <1>5, <1>6, DecidedShares
<1>13. TargetsOK(decision'.targets) /\ TargetsOK(effective')
  BY <1>5, <1>9, <1>10 DEF TargetsOK
<1>14. pc' = "coil" /\ input' = in
  BY DEF Tick
<1> QED
  BY <1>1, <1>3, <1>11, <1>12, <1>13, <1>14 DEF TickTypeOK

\* The commands of a tick are typed.
LEMMA WantedTyped ==
  ASSUME TickTypeOK
  PROVE  /\ CoilDue => CoilWanted \in BOOLEAN
         /\ \A c \in Controllers : LimitDue(c) => LimitWanted(c) \in Nat
<1>1. CoilDue => CoilWanted \in BOOLEAN
  BY DEF CoilWanted
<1>2. ASSUME NEW c \in Controllers, LimitDue(c) PROVE LimitWanted(c) \in Nat
  <2>1. effective[c] \in Target
    BY <1>2 DEF LimitDue, TickTypeOK, TargetsOK
  <2>2. effective[c].amps \in Nat
    BY <1>2, <2>1 DEF LimitDue, Target
  <2>3. MinAmps[c] \in Nat
    BY SlackParts
  <2> QED
    BY <2>2, <2>3 DEF LimitWanted, Bigger
<1> QED
  BY <1>1, <1>2

\* The empty snapshot and decision are typed.
LEMMA StartTyped ==
  /\ NoInput \in Input
  /\ TargetsOK(<<>>)
  /\ NoDecision.budget = Null /\ NoDecision.targets = <<>>
<1>1. NoInput \in Input
  BY DEF NoInput, Input
<1>2. DOMAIN <<>> = {} /\ <<>> = [c \in {} |-> <<>>]
  OBVIOUS
<1>3. TargetsOK(<<>>)
  BY <1>2 DEF TargetsOK
<1>4. NoDecision.budget = Null /\ NoDecision.targets = <<>>
  BY DEF NoDecision
<1> QED
  BY <1>1, <1>3, <1>4

\* Empty queues are typed.
LEMMA QueuesStartTyped ==
  ASSUME NEW queues, queues = [c \in Controllers |-> <<>>]
  PROVE  queues \in [Controllers -> Seq(Command)] /\ \A c \in Controllers : Len(queues[c]) <= MaxPending
<1>1. <<>> \in Seq(Command) /\ Len(<<>>) = 0
  OBVIOUS
<1>2. \A c \in Controllers : queues[c] = <<>>
  OBVIOUS
<1>3. \A c \in Controllers : Len(queues[c]) = 0 /\ MaxPending \in Nat
  BY <1>1, <1>2, BoundAssumption, Zenon
<1>4. \A c \in Controllers : Len(queues[c]) <= MaxPending
  BY <1>3
<1> QED
  BY <1>1, <1>4

\* Every variable of the control loop keeps its type.
THEOREM ControlTyped == Spec => []ControlTypeOK
<1>1. ASSUME Init PROVE TickTypeOK /\ DeviceTypeOK /\ MemoryTypeOK
  <2>1. TickTypeOK
    <3>1. idleFor \in [Controllers -> 0 .. SleepTicks + 1 \cup {Null}]
      BY <1>1 DEF Init
    <3>2. pc = "idle" /\ input = NoInput /\ decision = NoDecision /\ effective = <<>>
      BY <1>1 DEF Init
    <3>3. /\ pc = "idle" /\ input \in Input /\ decision.budget = Null
          /\ TargetsOK(decision.targets) /\ TargetsOK(effective)
      BY <3>2, StartTyped, Zenon
    <3> QED
      BY <3>1, <3>3 DEF TickTypeOK
  <2>2. DeviceTypeOK
    <3>1. coil \in BOOLEAN /\ relay = FALSE /\ limit \in [Controllers -> Nat]
      BY <1>1, AmpsAssumption DEF Init
    <3>2. pending = [c \in Controllers |-> <<>>]
      BY <1>1 DEF Init
    <3> QED
      BY <3>1, <3>2, QueuesStartTyped DEF DeviceTypeOK
  <2>3. MemoryTypeOK
    BY <1>1 DEF Init, MemoryTypeOK
  <2> QED
    BY <2>1, <2>2, <2>3
<1>2. CeilingTypeOK' /\ TickTypeOK /\ DeviceTypeOK /\ MemoryTypeOK /\ [Next]_vars
        => (TickTypeOK /\ DeviceTypeOK /\ MemoryTypeOK)'
  <2> SUFFICES ASSUME CeilingTypeOK', TickTypeOK, DeviceTypeOK, MemoryTypeOK, [Next]_vars
               PROVE  TickTypeOK' /\ DeviceTypeOK' /\ MemoryTypeOK'
    OBVIOUS
  <2>1. ASSUME NEW in \in Inputs, Tick(in) PROVE TickTypeOK' /\ DeviceTypeOK' /\ MemoryTypeOK'
    BY <2>1, TickTyped DEF Tick, DeviceTypeOK, MemoryTypeOK
  <2>2. ASSUME NEW in \in Inputs, EmptyTick(in) PROVE TickTypeOK' /\ DeviceTypeOK' /\ MemoryTypeOK'
    <3>1. in \in Input
      BY InputAssumption
    <3>2. TickTypeOK'
      BY <2>2, <3>1, DebouncedTyped DEF EmptyTick, TickTypeOK
    <3> QED
      BY <2>2, <3>2 DEF EmptyTick, DeviceTypeOK, MemoryTypeOK
  <2>3. ASSUME UNCHANGED <<input, decision, effective, idleFor>>,
               pc' \in {pc, "idle", "coil", "relay"} \cup Controllers
        PROVE  TickTypeOK'
    BY <2>3 DEF TickTypeOK
  <2>4. ASSUME CoilSkipped \/ CoilWritten \/ CoilFailed
        PROVE  TickTypeOK' /\ DeviceTypeOK' /\ MemoryTypeOK'
    <3>1. TickTypeOK'
      BY <2>3, <2>4 DEF CoilSkipped, CoilWritten, CoilFailed, Controllers
    <3>2. CoilDue => CoilTo(CoilWanted) \in Command
      BY WantedTyped, CommandsTyped
    <3>3. DeviceTypeOK'
      <4>1. CASE CoilSkipped
        BY <4>1 DEF CoilSkipped, DeviceTypeOK
      <4>2. CASE CoilWritten \/ CoilFailed
        BY <3>2, <4>2, CommandTyped DEF CoilWritten, CoilFailed, Controllers
      <4> QED
        BY <2>4, <4>1, <4>2
    <3>4. MemoryTypeOK'
      BY <2>4, WantedTyped DEF CoilSkipped, CoilWritten, CoilFailed, MemoryTypeOK
    <3> QED
      BY <3>1, <3>3, <3>4
  <2>5. ASSUME NEW c \in Controllers, LimitSkipped(c) \/ LimitWritten(c) \/ LimitFailed(c)
        PROVE  TickTypeOK' /\ DeviceTypeOK' /\ MemoryTypeOK'
    <3>1. After[c] \in {"relay"} \cup Controllers
      BY DEF After, Controllers
    <3>2. TickTypeOK'
      BY <2>3, <2>5, <3>1 DEF LimitSkipped, LimitWritten, LimitFailed
    <3>3. LimitDue(c) => LimitTo(LimitWanted(c)) \in Command
      BY WantedTyped, CommandsTyped
    <3>4. DeviceTypeOK'
      <4>1. CASE LimitSkipped(c)
        BY <4>1 DEF LimitSkipped, DeviceTypeOK
      <4>2. CASE LimitWritten(c) \/ LimitFailed(c)
        BY <3>3, <4>2, CommandTyped DEF LimitWritten, LimitFailed
      <4> QED
        BY <2>5, <4>1, <4>2
    <3>5. MemoryTypeOK'
      BY <2>5 DEF LimitSkipped, LimitWritten, LimitFailed, MemoryTypeOK
    <3> QED
      BY <3>2, <3>4, <3>5
  <2>6. ASSUME RelayStep PROVE TickTypeOK' /\ DeviceTypeOK' /\ MemoryTypeOK'
    <3>1. TickTypeOK' /\ MemoryTypeOK'
      BY <2>3, <2>6 DEF RelayStep, MemoryTypeOK
    <3>2. relay' \in BOOLEAN
      BY <2>6 DEF RelayStep, DeviceTypeOK
    <3> QED
      BY <2>6, <3>1, <3>2 DEF RelayStep, DeviceTypeOK
  <2>7. ASSUME NEW c \in Controllers, ActorRuns(c) PROVE TickTypeOK' /\ DeviceTypeOK' /\ MemoryTypeOK'
    <3>1. DeviceTypeOK'
      BY <2>7, ActorTyped
    <3> QED
      BY <2>3, <2>7, <3>1 DEF ActorRuns, MemoryTypeOK
  <2>8. ASSUME Operator PROVE TickTypeOK' /\ DeviceTypeOK' /\ MemoryTypeOK'
    <3>1. ASSUME NEW p \in OperatorPauses, SetPaused(p)
          PROVE  TickTypeOK' /\ DeviceTypeOK' /\ MemoryTypeOK'
      BY <2>3, <3>1, BoundAssumption DEF SetPaused, DeviceTypeOK, MemoryTypeOK
    <3>2. ASSUME NEW c \in Controllers, NEW amps \in ManualLimits \cup {Null}, SetManualLimit(c, amps)
          PROVE  TickTypeOK' /\ DeviceTypeOK' /\ MemoryTypeOK'
      BY <2>3, <3>2, BoundAssumption DEF SetManualLimit, DeviceTypeOK, MemoryTypeOK
    <3>3. ASSUME NEW on \in OperatorSwitches, OperatorCoil(on)
          PROVE  TickTypeOK' /\ DeviceTypeOK' /\ MemoryTypeOK'
      <4>1. CoilTo(on) \in Command
        BY BoundAssumption, CommandsTyped
      <4>2. DeviceTypeOK'
        BY <3>3, <4>1, CommandTyped DEF OperatorCoil, Controllers
      <4> QED
        BY <2>3, <3>3, <4>2 DEF OperatorCoil, MemoryTypeOK
    <3>4. ASSUME NEW on \in OperatorSwitches, OperatorRelay(on)
          PROVE  TickTypeOK' /\ DeviceTypeOK' /\ MemoryTypeOK'
      BY <2>3, <3>4, BoundAssumption DEF OperatorRelay, DeviceTypeOK, MemoryTypeOK
    <3>5. ASSUME NEW c \in Controllers, NEW amps \in OperatorLimits, OperatorLimit(c, amps)
          PROVE  TickTypeOK' /\ DeviceTypeOK' /\ MemoryTypeOK'
      <4>1. LimitTo(amps) \in Command
        BY BoundAssumption, CommandsTyped
      <4>2. DeviceTypeOK'
        BY <3>5, <4>1, CommandTyped DEF OperatorLimit
      <4> QED
        BY <2>3, <3>5, <4>2 DEF OperatorLimit, MemoryTypeOK
    <3>6. ASSUME NEW f \in Factors, OperatorFactor(f)
          PROVE  TickTypeOK' /\ DeviceTypeOK' /\ MemoryTypeOK'
      BY <2>3, <3>6 DEF OperatorFactor, DeviceTypeOK, MemoryTypeOK
    <3> QED
      BY <2>8, <3>1, <3>2, <3>3, <3>4, <3>5, <3>6 DEF Operator
  <2>9. ASSUME Restart PROVE TickTypeOK' /\ DeviceTypeOK' /\ MemoryTypeOK'
    <3>1. TickTypeOK'
      <4>1. idleFor' \in [Controllers -> 0 .. SleepTicks + 1 \cup {Null}]
        BY <2>9 DEF Restart
      <4>2. pc' = "idle" /\ input' = NoInput /\ decision' = NoDecision /\ effective' = <<>>
        BY <2>9 DEF Restart
      <4>3. /\ pc' = "idle" /\ input' \in Input /\ decision'.budget = Null
            /\ TargetsOK(decision'.targets) /\ TargetsOK(effective')
        BY <4>2, StartTyped, Zenon
      <4> QED
        BY <4>1, <4>3 DEF TickTypeOK
    <3>2. DeviceTypeOK'
      <4>1. UNCHANGED <<coil, limit>> /\ relay' = FALSE
        BY <2>9 DEF Restart
      <4>2. pending' = [c \in Controllers |-> <<>>]
        BY <2>9 DEF Restart
      <4> QED
        BY <4>1, <4>2, QueuesStartTyped DEF DeviceTypeOK
    <3>3. MemoryTypeOK'
      BY <2>9 DEF Restart, MemoryTypeOK
    <3> QED
      BY <3>1, <3>2, <3>3
  <2>10. ASSUME UNCHANGED vars PROVE TickTypeOK' /\ DeviceTypeOK' /\ MemoryTypeOK'
    BY <2>3, <2>10 DEF DeviceTypeOK, MemoryTypeOK
  <2> QED
    BY <2>1, <2>2, <2>4, <2>5, <2>6, <2>7, <2>8, <2>9, <2>10 DEF Next, TickStep
<1>3. CeilingTypeOK /\ ResolverTypeOK /\ TickTypeOK /\ DeviceTypeOK /\ MemoryTypeOK => ControlTypeOK
  BY DEF ControlTypeOK, MemoryTypeOK
<1> QED
  BY <1>1, <1>2, <1>3, ControlImplementsCeiling, CeilingTyped, ResolverTyped, PTL DEF Spec

\* An override only lowers a limit.
LEMMA OverrideLowers ==
  ASSUME NEW S, NEW c \in S, NEW targets \in [S -> Target], NEW p, NEW m,
         targets[c].amps \in Nat, m[c] \in Nat \cup {Null}
  PROVE  /\ Override(targets, p, m)[c].amps \in Nat
         /\ Override(targets, p, m)[c].amps <= targets[c].amps
<1> DEFINE t == targets[c]
           o == Override(targets, p, m)[c]
<1>1. t \in Target /\ DOMAIN t = {"amps", "write", "disable"} /\ t.amps # Null
  BY NullAssumption DEF Target
<1>2. CASE p
  <2>1. o = [t EXCEPT !.write = FALSE]
    BY <1>2 DEF Override
  <2> QED
    BY <1>1, <2>1
<1>3. CASE ~p /\ m[c] = Null
  BY <1>3 DEF Override
<1>4. CASE ~p /\ m[c] # Null
  <2>1. o = [[t EXCEPT !.write = TRUE] EXCEPT !.amps = Smaller(t.amps, m[c])]
    BY <1>1, <1>4 DEF Override
  <2>2. o.amps = Smaller(t.amps, m[c])
    BY <1>1, <2>1
  <2> HIDE DEF t, o
  <2>3. o.amps \in Nat /\ o.amps <= t.amps
    BY <1>4, <2>2 DEF Smaller, t
  <2> QED
    BY <2>3 DEF t, o
<1> QED
  BY <1>2, <1>3, <1>4

\* The limits a tick is about to apply fit the budget it decided on.
LEMMA TickAllocates ==
  ASSUME CeilingTypeOK', TickTypeOK, DeviceTypeOK, MemoryTypeOK, NEW in \in Inputs, Tick(in)
  PROVE  AllocationBounded'
<1> SUFFICES ASSUME decision'.budget # Null
             PROVE  LET awake == {c \in DOMAIN effective' : Awake(idleFor'[c])}
                        most  == [c \in awake |-> effective'[c].amps - Slack(c)]
                    IN  10 * Amperes(most, awake) <= decision'.budget
  BY DEF AllocationBounded
<1>1. in \in Input
  BY InputAssumption
<1>2. ceiling' \in Nat \cup {Null}
  BY DEF CeilingTypeOK
<1>3. PICK chargers, d : /\ chargers = ChargerInputs(in, idleFor')
                         /\ d = Decide(Limit(in.battery), in.current, in.load, chargers, ceiling', reason')
                         /\ decision' = Stabilized(d, chargers)
  BY DEF Tick
<1>4. in.current \in Int /\ in.load \in Nat /\ in.present \in SUBSET Controllers
  BY <1>1 DEF Input
<1>5. chargers \in [in.present -> Charger]
  BY <1>1, <1>3, ChargersTyped DEF DeviceTypeOK
<1>6. DOMAIN d = {"reason", "budget", "shared", "targets"}
  BY <1>3, DecideShape
<1>7. decision'.budget = d.budget
  BY <1>3, <1>6 DEF Stabilized
<1>8. PICK share : /\ \A c \in Active(chargers) : share[c] \in Nat /\ IsShare(d.targets[c], c, share[c])
                   /\ 10 * Amperes(share, Active(chargers)) <= d.budget
  BY <1>2, <1>3, <1>4, <1>5, <1>7, DecidedShares
<1>9. d.budget \in Nat
  BY <1>2, <1>3, <1>4, <1>5, <1>7, DecidedShares
<1>10. d.targets \in [in.present -> Target]
  BY <1>2, <1>3, <1>4, <1>5, DecideTyped
<1>11. decision'.targets \in [in.present -> Target]
  BY <1>3, <1>4, <1>5, <1>6, <1>10, StabilizedTyped
<1>12. effective' = Override(decision'.targets, paused, manual)
  BY DEF Tick
<1>13. effective' \in [in.present -> Target]
  BY <1>4, <1>11, <1>12, OverrideTyped DEF MemoryTypeOK
<1> DEFINE awake == {c \in DOMAIN effective' : Awake(idleFor'[c])}
           most  == [c \in awake |-> effective'[c].amps - Slack(c)]
<1>14. awake = Active(chargers)
  BY <1>3, <1>13 DEF Active, ChargerInputs
<1>15. ASSUME NEW c \in awake
       PROVE  most[c] \in Int /\ share[c] \in Int /\ most[c] <= share[c]
  <2>1. c \in in.present /\ c \in Controllers
    BY <1>4, <1>13
  <2>2. share[c] \in Nat /\ IsShare(d.targets[c], c, share[c])
    BY <1>8, <1>14
  <2>3. decision'.targets[c].amps \in Nat /\ decision'.targets[c].amps <= share[c] + Slack(c)
    BY <1>3, <1>5, <1>6, <2>1, <2>2, StabilizedFits
  <2>4. manual[c] \in Nat \cup {Null}
    BY <2>1 DEF MemoryTypeOK
  <2>5. effective'[c].amps \in Nat /\ effective'[c].amps <= decision'.targets[c].amps
    BY <1>11, <1>12, <2>1, <2>3, <2>4, OverrideLowers
  <2>6. Slack(c) \in Nat
    BY <2>1, SlackParts
  <2>7. most[c] = effective'[c].amps - Slack(c)
    OBVIOUS
  <2> HIDE DEF most
  <2> QED
    BY <2>2, <2>3, <2>5, <2>6, <2>7
<1>16. awake \in SUBSET Controllers
  BY <1>4, <1>13
<1> HIDE DEF awake, most
<1>17. /\ Amperes(most, awake) \in Int /\ Amperes(share, awake) \in Int
       /\ Amperes(most, awake) <= Amperes(share, awake)
  BY <1>15, <1>16, AmperesMonotone
<1>18. 10 * Amperes(most, awake) <= decision'.budget
  BY <1>7, <1>8, <1>9, <1>14, <1>17
<1> QED
  BY <1>18 DEF awake, most

\* The limits of the chargers in use add up to no more than the budget and
\* their slack, whatever is queued, lost, refused, paused or set by hand.
THEOREM AllocationFitsBudget == Spec => []AllocationBounded
<1>1. Init => AllocationBounded
  BY DEF Init, NoDecision, AllocationBounded
<1>2. ControlTypeOK /\ CeilingTypeOK' /\ AllocationBounded /\ [Next]_vars => AllocationBounded'
  <2> SUFFICES ASSUME ControlTypeOK, CeilingTypeOK', AllocationBounded, [Next]_vars
               PROVE  AllocationBounded'
    OBVIOUS
  <2>1. ASSUME NEW in \in Inputs, Tick(in) PROVE AllocationBounded'
    BY <2>1, TickAllocates DEF ControlTypeOK, MemoryTypeOK
  <2>2. ASSUME pc' = "idle" PROVE AllocationBounded'
    BY <2>2 DEF AllocationBounded
  <2>3. ASSUME UNCHANGED <<decision, effective, idleFor>>, pc' # "idle" => pc # "idle"
        PROVE  AllocationBounded'
    BY <2>3 DEF AllocationBounded
  <2>4. CoilSkipped \/ CoilWritten \/ CoilFailed
          => UNCHANGED <<decision, effective, idleFor>> /\ pc # "idle"
    BY DEF CoilSkipped, CoilWritten, CoilFailed
  <2>5. ASSUME NEW c \in Controllers, LimitSkipped(c) \/ LimitWritten(c) \/ LimitFailed(c)
        PROVE  UNCHANGED <<decision, effective, idleFor>> /\ pc # "idle"
    BY <2>5 DEF LimitSkipped, LimitWritten, LimitFailed, Controllers
  <2>6. RelayStep \/ Restart \/ (\E in \in Inputs : EmptyTick(in)) => pc' = "idle"
    BY DEF RelayStep, Restart, EmptyTick
  <2>7. (\E c \in Controllers : ActorRuns(c)) \/ Operator \/ UNCHANGED vars
          => UNCHANGED <<decision, effective, idleFor, pc>>
    BY DEF ActorRuns, Operator, SetPaused, SetManualLimit, OperatorCoil, OperatorRelay,
           OperatorLimit, OperatorFactor
  <2> QED
    BY <2>1, <2>2, <2>3, <2>4, <2>5, <2>6, <2>7 DEF Next, TickStep
<1> QED
  BY <1>1, <1>2, ControlTyped, ControlImplementsCeiling, CeilingTyped, PTL DEF Spec

-----------------------------------------------------------------------------
\* The cached coil state is wrong only after a lost reply, a late command or an
\* operator's write: without the three it is what the EPEver has, through
\* refused writes and restarts.
THEOREM CacheWrongForThreeReasonsOnly ==
  ASSUME ReplyLoss = FALSE, MaxPending = 0, OperatorSwitches = {}
  PROVE  Spec => []CoilCacheCoherent
<1>1. Init => CoilCacheCoherent
  BY DEF Init, CoilCacheCoherent
<1>2. ControlTypeOK /\ CoilCacheCoherent /\ [Next]_vars => CoilCacheCoherent'
  <2> SUFFICES ASSUME ControlTypeOK, CoilCacheCoherent, [Next]_vars PROVE CoilCacheCoherent'
    OBVIOUS
  <2>1. ASSUME UNCHANGED <<coil, cachedCoil>> PROVE CoilCacheCoherent'
    BY <2>1 DEF CoilCacheCoherent
  <2>2. CASE CoilWritten
    <3>1. coil' = CoilWanted /\ cachedCoil' = CoilWanted
      BY <2>2 DEF CoilWritten, Done, Apply, CoilTo
    <3> QED
      BY <3>1 DEF CoilCacheCoherent
  <2>3. ASSUME NEW device \in Controllers, NEW command, TimedOut(device, command) PROVE FALSE
    <3>1. pending[device] \in Seq(Command) /\ Len(pending[device]) < 0
      BY <2>3 DEF TimedOut, ControlTypeOK, DeviceTypeOK
    <3> QED
      BY <3>1, LenProperties
  <2>4. CASE CoilFailed
    <3>1. UNCHANGED <<coil, cachedCoil>>
      BY <2>3, <2>4 DEF CoilFailed, Refused, Controllers
    <3> QED
      BY <2>1, <3>1
  <2>5. ASSUME NEW device \in Controllers, NEW amps, Done(device, LimitTo(amps)) PROVE UNCHANGED coil
    BY <2>5 DEF Done, Apply, LimitTo
  <2>6. ASSUME NEW c \in Controllers, LimitSkipped(c) \/ LimitWritten(c) \/ LimitFailed(c)
        PROVE  UNCHANGED <<coil, cachedCoil>>
    BY <2>3, <2>5, <2>6 DEF LimitSkipped, LimitWritten, LimitFailed, Refused
  <2>7. ASSUME NEW c \in Controllers, ActorRuns(c) PROVE FALSE
    <3>1. pending[c] \in Seq(Command) /\ Len(pending[c]) <= 0 /\ pending[c] # <<>>
      BY <2>7 DEF ActorRuns, ControlTypeOK, DeviceTypeOK
    <3>2. Len(pending[c]) = 0
      BY <3>1, LenProperties
    <3> QED
      BY <3>1, <3>2, EmptySeq
  <2>8. ASSUME NEW c \in Controllers, NEW amps, OperatorLimit(c, amps)
        PROVE  UNCHANGED <<coil, cachedCoil>>
    BY <2>3, <2>5, <2>8 DEF OperatorLimit
  <2>9. CASE Restart
    BY <2>9 DEF Restart, CoilCacheCoherent
  <2>10. (\E in \in Inputs : Tick(in) \/ EmptyTick(in)) \/ CoilSkipped \/ RelayStep \/ UNCHANGED vars
         \/ (\E p \in OperatorPauses : SetPaused(p))
         \/ (\E c \in Controllers, amps \in ManualLimits \cup {Null} : SetManualLimit(c, amps))
         \/ (\E f \in Factors : OperatorFactor(f))
           => UNCHANGED <<coil, cachedCoil>>
    BY DEF Tick, EmptyTick, CoilSkipped, RelayStep, SetPaused, SetManualLimit, OperatorFactor
  <2>11. Operator => UNCHANGED <<coil, cachedCoil>>
    BY <2>8, <2>10 DEF Operator
  <2> QED
    BY <2>1, <2>2, <2>4, <2>6, <2>7, <2>9, <2>10, <2>11 DEF Next, TickStep
<1> QED
  BY <1>1, <1>2, ControlTyped, PTL DEF Spec
=============================================================================
