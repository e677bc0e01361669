---------------------------- MODULE ChargeEnable ----------------------------
(***************************************************************************)
(* ChargeEnableResolver of charge_ceiling.py: the BMS's charge-enable      *)
(* request, carried by a CAN frame that is sometimes missing.  A request   *)
(* is held over a gap shorter than the hold time; past it charging is      *)
(* released, unless it is cold.  Time is counted in supervisor ticks.      *)
(***************************************************************************)
EXTENDS Telemetry

CONSTANT HoldTicks   \* charge_enable_hold_s

ASSUME HoldAssumption == HoldTicks \in Nat

VARIABLES
  lastEnable,   \* _last_enable
  silentFor     \* ticks since the flags frame was seen; HoldTicks or more is "blind"

resolverVars == <<lastEnable, silentFor>>

ResolverInit == lastEnable = TRUE /\ silentFor = HoldTicks

ResolverTypeOK == lastEnable \in BOOLEAN /\ silentFor \in 0 .. HoldTicks

\* The flags frame is one tick older than at the last tick, and still held.
WithinHold == silentFor + 1 < HoldTicks

\* A mutant: a missing frame reads as leave to charge.
ChargeEnabledUnlessStopped(flag, cold) == IF flag # Null THEN flag ELSE ~cold

\* resolve(request_flags, ambient_c).charge_enabled; "cold" says the ambient
\* probe reads cold_release_block_c or less.
ChargeEnabled(flag, cold) ==
  IF flag # Null THEN flag
  ELSE IF WithinHold THEN lastEnable ELSE ~cold

Aged == IF silentFor < HoldTicks THEN silentFor + 1 ELSE HoldTicks

\* resolve() latches a request it sees; the clock runs in any case.
Resolve(flag) ==
  /\ lastEnable' = IF flag # Null THEN flag ELSE lastEnable
  /\ silentFor' = IF flag # Null THEN 0 ELSE Aged

\* A tick that does not reach resolve().
ResolverAges == silentFor' = Aged /\ UNCHANGED lastEnable
=============================================================================
