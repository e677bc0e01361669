--------------------------- MODULE ChargeAllocator ---------------------------
(***************************************************************************)
(* The pure part of the allocation tick: ChargeCurrentAllocator.decide()   *)
(* and AllocationOverride.apply() of charge_allocator.py, and the target   *)
(* smoothing of ChargeAllocationLogger (cli/supervisor_display.py).        *)
(*                                                                         *)
(* Budgets and measured currents are in tenths of an ampere; limits and    *)
(* targets are whole amperes, which is what every writer here writes.  A   *)
(* charger input is [limit, active]; a target is [amps, write, disable].   *)
(***************************************************************************)
EXTENDS Telemetry, FiniteSets

CONSTANTS
  MaxAmps,            \* ChargerAllocationInput.max_current_a of each controller
  Reserve,            \* reserve_a
  FeedbackTolerance,  \* feedback_tolerance_a
  WriteDelta,         \* min_write_delta_a
  Deadband,           \* target_deadband_a
  Quantum             \* target_quantum_a

Controllers == {"classic", "epever"}

\* The EPEver limit register floors at 1 A; the Classic takes a true 0 A.
MinAmps == [c \in Controllers |-> IF c = "epever" THEN 1 ELSE 0]

ASSUME AmpsAssumption == MaxAmps \in [Controllers -> Nat \ {0}]
ASSUME TuningAssumption ==
  /\ {Reserve, FeedbackTolerance, WriteDelta, Deadband} \subseteq Nat
  \* With an odd quantum no whole ampere lies halfway between two buckets.
  /\ Quantum \in Nat /\ Quantum % 2 = 1

Bigger(a, b) == IF a >= b THEN a ELSE b
Smaller(a, b) == IF a <= b THEN a ELSE b
Distance(a, b) == Bigger(a, b) - Smaller(a, b)

\* The sum of f over some of the two controllers.
Amperes(f, S) ==
  (IF "classic" \in S THEN f["classic"] ELSE 0) + (IF "epever" \in S THEN f["epever"] ELSE 0)

Capacity(S) == Amperes(MaxAmps, S)

-----------------------------------------------------------------------------
(* Water-fill: a charger whose equal share reaches its cap takes the cap    *)
(* and leaves the rest to the others.                                       *)

\* One round: the sharers of R whose equal share stays below their cap.
Uncapped(budget, eligible, R) ==
  LET left == budget - 10 * Capacity(eligible \ R)
  IN  {c \in R : left < 10 * MaxAmps[c] * Cardinality(R)}

\* The chargers still sharing when no cap is reached any more: a round that
\* caps nobody is the last, so two rounds settle two controllers.
Sharing(budget, eligible) == Uncapped(budget, eligible, Uncapped(budget, eligible, eligible))

\* Order of CONTROLLER_NAMES, and of the names themselves.
Before(c, R) == {d \in R : d = "classic" /\ c = "epever"}

\* A mutant: every sharer is given all that is left.
AllocationUndivided(budget, eligible) ==
  LET R == Sharing(budget, eligible)
      left == budget - 10 * Capacity(eligible \ R)
  IN  [c \in eligible |-> IF c \notin R THEN MaxAmps[c] ELSE Smaller(MaxAmps[c], left \div 10)]

\* _waterfill_allocate then _whole_amp_allocations: shares are floored and
\* the amperes that leaves over go to the sharers in order of name.
Allocation(budget, eligible) ==
  LET R     == Sharing(budget, eligible)
      left  == budget - 10 * Capacity(eligible \ R)
      whole == left \div (10 * Cardinality(R))
      spare == left \div 10 - Cardinality(R) * whole
  IN  [c \in eligible |->
         IF c \notin R THEN MaxAmps[c]
         ELSE IF Cardinality(Before(c, R)) < spare THEN whole + 1 ELSE whole]

-----------------------------------------------------------------------------
(* Targets.                                                                 *)

Drifted(limit, amps) == limit # Null /\ Distance(limit, amps) >= WriteDelta

\* A mutant: a share below the register's floor switches the charger off.
ShareTargetOrOff(c, charger, amps) ==
  [amps |-> amps, write |-> Drifted(charger.limit, amps), disable |-> amps < MinAmps[c]]

\* _target during apportionment: never off, at least the register's floor.
ShareTarget(c, charger, amps) ==
  LET held == Bigger(amps, MinAmps[c])
  IN  [amps |-> held, write |-> Drifted(charger.limit, held), disable |-> FALSE]

ReleaseTarget(c, charger) ==
  [amps |-> MaxAmps[c], write |-> Drifted(charger.limit, MaxAmps[c]), disable |-> FALSE]

StopTarget(charger) ==
  [amps |-> 0, write |-> charger.limit = Null \/ charger.limit > 0, disable |-> TRUE]

NoTarget == [amps |-> Null, write |-> FALSE, disable |-> FALSE]

Active(chargers) == {c \in DOMAIN chargers : chargers[c].active}

\* _allocate_budget, as a decision; "shared" is weight_basis = "equal".
Apportion(chargers, budget, why) ==
  LET amps == Allocation(budget, Active(chargers))
  IN  [reason |-> why, budget |-> budget, shared |-> Active(chargers) # {},
       targets |-> [c \in DOMAIN chargers |->
                      IF chargers[c].active
                      THEN ShareTarget(c, chargers[c], amps[c])
                      ELSE ReleaseTarget(c, chargers[c])]]

\* Allowance plus household load, less what the pack takes above the allowance.
Budget(current, load, ceiling) ==
  LET base == Bigger(0, ceiling + load - Reserve)
  IN  IF current > ceiling + FeedbackTolerance
      THEN [amount |-> Bigger(0, base - (current - ceiling)), clamped |-> TRUE]
      ELSE [amount |-> base, clamped |-> FALSE]

Decide(ccl, current, load, chargers, ceiling, why) ==
  LET fullOutput == 10 * Capacity(Active(chargers))
      budget == Budget(current, load, ceiling)
  IN  IF ccl = Null
      THEN [reason |-> "missing BMS CCL", budget |-> Null, shared |-> FALSE,
            targets |-> [c \in DOMAIN chargers |-> NoTarget]]
      ELSE IF ceiling # Null /\ ceiling <= 0
      THEN [reason |-> why, budget |-> 0, shared |-> FALSE,
            targets |-> [c \in DOMAIN chargers |-> StopTarget(chargers[c])]]
      ELSE IF ceiling = Null \/ fullOutput <= ceiling
      THEN Apportion(chargers, fullOutput, "unconstrained")
      ELSE Apportion(chargers, budget.amount,
                     IF budget.clamped THEN "feedback_clamp" ELSE why)

-----------------------------------------------------------------------------
(* Smoothing: small moves stay at the controller's setting, larger ones     *)
(* snap to a bucket.                                                        *)

\* _immediate_limit_reason; the other reasons in its list come with disable.
Immediate == {"feedback_clamp", "BMS charge disabled", "BMS CCL is zero",
              "full-charge latch", "cell safety latch"}

NearestBucket(amps) == ((2 * amps + Quantum) \div (2 * Quantum)) * Quantum

Quantized(c, amps) ==
  IF amps = 0 THEN 0
  ELSE LET q == Bigger(MinAmps[c], Smaller(MaxAmps[c], NearestBucket(amps)))
       IN  IF q = 0 THEN Bigger(MinAmps[c], 1) ELSE q

\* _needs_equal_rebalance: two limits known and a deadband apart.
Uneven(decision, chargers) ==
  LET known == {c \in DOMAIN chargers : /\ chargers[c].limit # Null
                                        /\ decision.targets[c].amps # Null
                                        /\ ~decision.targets[c].disable}
  IN  /\ decision.shared
      /\ Cardinality(known) >= 2
      /\ \E c, d \in known : chargers[c].limit - chargers[d].limit >= Deadband

\* A mutant: no deadband, every move snaps to a bucket.
SmoothedWithoutDeadband(c, limit, amps, exact) == IF exact THEN amps ELSE Quantized(c, amps)

Smoothed(c, limit, amps, exact) ==
  IF exact THEN amps
  ELSE IF Distance(amps, limit) < Deadband THEN limit ELSE Quantized(c, amps)

Stabilized(decision, chargers) ==
  LET exact == Uneven(decision, chargers)
      StableTarget(c, t, limit) ==
        IF t.amps = Null \/ t.disable \/ limit = Null \/ decision.reason \in Immediate
        THEN t
        ELSE LET amps == Smoothed(c, limit, t.amps, exact)
             IN  [amps |-> amps, disable |-> FALSE, write |-> Drifted(limit, amps)]
  IN  [decision EXCEPT !.targets =
         [c \in DOMAIN chargers |-> StableTarget(c, @[c], chargers[c].limit)]]

-----------------------------------------------------------------------------
\* A mutant: a manual ceiling builds its target anew and forgets the stop.
OverrideForgetsStop(targets, paused, manual) ==
  [c \in DOMAIN targets |->
     IF paused THEN [targets[c] EXCEPT !.write = FALSE]
     ELSE IF manual[c] = Null THEN targets[c]
     ELSE [amps |-> IF targets[c].amps = Null THEN manual[c]
                    ELSE Smaller(targets[c].amps, manual[c]),
           write |-> TRUE, disable |-> FALSE]]

\* AllocationOverride.apply: a pause suppresses every limit write; a manual
\* ceiling clamps its controller and forces the write.
Override(targets, paused, manual) ==
  [c \in DOMAIN targets |->
     LET t == targets[c]
     IN  IF paused THEN [t EXCEPT !.write = FALSE]
         ELSE IF manual[c] = Null THEN t
         ELSE [t EXCEPT !.write = TRUE,
                        !.amps = IF @ = Null THEN manual[c] ELSE Smaller(@, manual[c])]]
=============================================================================
