---------------------------- MODULE ChargeCeiling ----------------------------
(***************************************************************************)
(* ChargeCeiling of charge_ceiling.py: the net charge-current allowance    *)
(* the allocator may hand out, resolved once per supervisor tick from the  *)
(* BMS's CAN frames.  Three safety stops latch with separate recovery      *)
(* thresholds; the operator scales the BMS limit at run time.              *)
(* The scaling factor is in percent, other units are those of Telemetry.   *)
(***************************************************************************)
EXTENDS Telemetry

CONSTANTS
  KneeBaseline,      \* bms_knee_ccl_baseline_a
  FullSoc,           \* full_soc_percent
  FullResetSoc,      \* full_reset_soc_percent
  FullResetVoltage,  \* full_reset_voltage_v
  HighCellStop,      \* high_cell_stop_v
  HighCellSoft,      \* high_cell_soft_limit_v
  HighDeltaStop,     \* high_delta_stop_mv
  LowTempStop,       \* low_temp_stop_c
  LowTempRecover,    \* low_temp_recover_c
  MinFactor,         \* MIN_CCL_SCALING_FACTOR
  MaxFactor,         \* MAX_CCL_SCALING_FACTOR
  DefaultFactor,     \* bms_ccl_scaling_factor
  Factors,           \* bound: the factors and steps an operator asks for
  Batteries          \* bound: the BMS snapshots the bus delivers

ASSUME ThresholdAssumption ==
  /\ {KneeBaseline, FullSoc, FullResetSoc, FullResetVoltage, HighCellStop,
      HighCellSoft, HighDeltaStop, LowTempStop, LowTempRecover} \subseteq Int
  /\ FullResetSoc <= FullSoc

ASSUME FactorAssumption ==
  /\ {MinFactor, MaxFactor} \subseteq 0 .. 100
  /\ DefaultFactor \in MinFactor .. MaxFactor
  /\ Factors \subseteq Int

ASSUME BatteryAssumption == Batteries \subseteq Battery \cup {Null}
ASSUME DecodedAssumption == \A b \in Batteries \ {Null} : Decoded(b)

VARIABLES
  lowTempLatched,  \* _low_temp_latched
  cellLatched,     \* _cell_latched
  fullLatched,     \* _full_latched
  factor,          \* config.bms_ccl_scaling_factor
  seen,            \* the battery snapshot of the last evaluate()
  ceiling,         \* ChargeCeilingResult.ceiling_a: Null is "unconstrained"
  reason           \* ChargeCeilingResult.reason

latches == <<lowTempLatched, cellLatched, fullLatched>>
ceilingVars == <<lowTempLatched, cellLatched, fullLatched, factor, seen, ceiling, reason>>

Reasons == {"no battery telemetry", "BMS charge disabled", "missing BMS CCL",
            "BMS CCL is zero", "low temperature latch", "cell safety latch",
            "full-charge latch", "unconstrained", "BMS CCL fraction"}

\* Reasons whose ceiling is None, and those that grant a charge allowance.
Unconstrained == {"no battery telemetry", "missing BMS CCL", "unconstrained"}
Grants == {"unconstrained", "BMS CCL fraction"}

-----------------------------------------------------------------------------
(* What one snapshot says about each stop.                                 *)

MinTemp(b) == IF b.cellTemp # Null THEN b.cellTemp ELSE b.packTemp

LowTempTrip(b) == MinTemp(b) # Null /\ MinTemp(b) <= LowTempStop
LowTempRecovered(b) == MinTemp(b) # Null /\ MinTemp(b) >= LowTempRecover

WideDelta(b) == /\ b.minCell # Null
                /\ b.maxCell - b.minCell >= HighDeltaStop
                /\ b.maxCell >= HighCellSoft

CellTrip(b) == b.maxCell # Null /\ (b.maxCell >= HighCellStop \/ WideDelta(b))
CellRecovered(b) == b.maxCell # Null /\ b.maxCell < HighCellSoft

FullTrip(b) == b.soc # Null /\ b.soc >= FullSoc
Rested(b) == /\ b.soc # Null /\ b.soc < FullResetSoc
             /\ b.voltage # Null /\ b.voltage <= FullResetVoltage

\* The stops are consulted only past the early returns of evaluate().
Consulted(b, enabled) == b # Null /\ enabled /\ b.ccl # Null /\ b.ccl > 0

\* A mutant: a stop with one threshold.
LatchWithoutHysteresis(was, trip, recovered) == trip

\* A latch sets on a trip and otherwise holds until its recovery reading.
Latch(was, trip, recovered) == trip \/ (was /\ ~recovered)

\* A mutant: full is forgotten as soon as the pack reads less.
LatchFullByReading(was, b) == FullTrip(b)

\* The full-charge latch is the other way round: a rested pack clears it first.
LatchFull(was, b) == (FullTrip(b) \/ was) /\ ~Rested(b)

\* The BMS limit times the operator's factor, to a tenth of an ampere, and
\* never negative or above the limit.
Scaled(ccl, f) == (ccl * f + 50) \div 100
Allowance(ccl, f) == IF Scaled(ccl, f) < 0 THEN 0
                     ELSE IF Scaled(ccl, f) > ccl THEN ccl ELSE Scaled(ccl, f)

-----------------------------------------------------------------------------
CeilingInit ==
  /\ lowTempLatched = FALSE
  /\ cellLatched = FALSE
  /\ fullLatched = FALSE
  /\ factor = DefaultFactor
  /\ seen = Null
  /\ ceiling = Null
  /\ reason = "no battery telemetry"

\* evaluate(battery, charge_enabled): each stop that holds returns before
\* the next latch is looked at.
Evaluate(b, enabled) ==
  LET consult == Consulted(b, enabled)
      low  == IF consult THEN Latch(lowTempLatched, LowTempTrip(b), LowTempRecovered(b))
                         ELSE lowTempLatched
      cell == IF consult /\ ~low THEN Latch(cellLatched, CellTrip(b), CellRecovered(b))
                                 ELSE cellLatched
      full == IF consult /\ ~low /\ ~cell THEN LatchFull(fullLatched, b) ELSE fullLatched
      why  == IF b = Null THEN "no battery telemetry"
              ELSE IF ~enabled THEN "BMS charge disabled"
              ELSE IF b.ccl = Null THEN "missing BMS CCL"
              ELSE IF b.ccl <= 0 THEN "BMS CCL is zero"
              ELSE IF low THEN "low temperature latch"
              ELSE IF cell THEN "cell safety latch"
              ELSE IF full THEN "full-charge latch"
              ELSE IF b.ccl >= KneeBaseline THEN "unconstrained"
              ELSE "BMS CCL fraction"
  IN  /\ lowTempLatched' = low
      /\ cellLatched' = cell
      /\ fullLatched' = full
      /\ seen' = b
      /\ reason' = why
      /\ ceiling' = IF why \in Unconstrained THEN Null
                    ELSE IF why = "BMS CCL fraction" THEN Allowance(b.ccl, factor)
                    ELSE 0
      /\ UNCHANGED factor

\* set_scaling_factor: out of the band raises and changes nothing.
SetScalingFactor(f) ==
  /\ f \in MinFactor .. MaxFactor
  /\ factor' = f
  /\ UNCHANGED <<latches, seen, ceiling, reason>>

\* nudge_scaling_factor: read-modify-write under one lock.
NudgeScalingFactor(delta) ==
  /\ factor + delta \in MinFactor .. MaxFactor
  /\ factor' = factor + delta
  /\ UNCHANGED <<latches, seen, ceiling, reason>>

\* The supervisor restarts: the latches live in memory only, the factor is
\* reloaded from the runtime state.
CeilingRestart ==
  /\ lowTempLatched' = FALSE
  /\ cellLatched' = FALSE
  /\ fullLatched' = FALSE
  /\ seen' = Null
  /\ ceiling' = Null
  /\ reason' = "no battery telemetry"
  /\ UNCHANGED factor

CeilingNext ==
  \/ \E b \in Batteries, enabled \in BOOLEAN : Evaluate(b, enabled)
  \/ \E f \in Factors : SetScalingFactor(f) \/ NudgeScalingFactor(f)
  \/ CeilingRestart

CeilingSpec == CeilingInit /\ [][CeilingNext]_ceilingVars

-----------------------------------------------------------------------------
CeilingTypeOK ==
  /\ {lowTempLatched, cellLatched, fullLatched} \subseteq BOOLEAN
  /\ factor \in MinFactor .. MaxFactor
  /\ seen \in Battery \cup {Null}
  /\ ceiling \in Nat \cup {Null}
  /\ reason \in Reasons

(* Each latch implements HysteresisStop: this is its reading of a snapshot,  *)
(* "none" when the frame with the guarded quantity is missing.               *)
ReadingOf(value, trip, recovered) ==
  IF trip THEN "trip"
  ELSE IF recovered THEN "recovered"
  ELSE IF value = Null THEN "none" ELSE "between"

LowTempReading ==
  IF seen = Null THEN "none"
  ELSE ReadingOf(MinTemp(seen), LowTempTrip(seen), LowTempRecovered(seen))
CellReading ==
  IF seen = Null THEN "none"
  ELSE ReadingOf(seen.maxCell, CellTrip(seen), CellRecovered(seen))
FullReading ==
  IF seen = Null THEN "none"
  ELSE ReadingOf(seen.soc, FullTrip(seen), Rested(seen))

granted == reason \in Grants

LowTemp == INSTANCE HysteresisStop WITH
             tripped <- lowTempLatched, reading <- LowTempReading, granting <- granted
Cell == INSTANCE HysteresisStop WITH
          tripped <- cellLatched, reading <- CellReading, granting <- granted
Full == INSTANCE HysteresisStop WITH
          tripped <- fullLatched, reading <- FullReading, granting <- granted

\* Below low_temp_stop_c no allowance, and then none until the pack has been
\* read at low_temp_recover_c, through blind ticks and other stops.
LowTempHolds == LowTemp!Spec

\* The same of the cell-voltage and cell-delta stop and its soft limit.
CellHolds == Cell!Spec

\* The same of the full-charge latch and a pack that has rested.
FullHolds == Full!Spec

\* "Cell-safety stops latch until max cell falls below high_cell_soft_limit_v"
\* (docs/charge-current-allocation.md): a snapshot past the trip point followed
\* by one between the soft limit and the trip point is granted no allowance.
CellStopLatchesUntilSoft ==
  [][ CellReading = "trip" /\ CellReading' = "between" => ~granted' ]_ceilingVars
=============================================================================
