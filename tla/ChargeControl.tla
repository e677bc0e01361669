---------------------------- MODULE ChargeControl ----------------------------
(***************************************************************************)
(* The live charge path of the supervisor: each tick of its main loop      *)
(* (cli/supervisor_display.py) turns one snapshot into limits, the EPEver  *)
(* charge coil and the charge-disable relay, one command at a time, while  *)
(* HTTP handlers change the override and the devices under its feet.       *)
(*                                                                         *)
(* A command runs on its device's actor thread (readers.py): the caller    *)
(* gets its result, an exception with nothing applied, an exception after  *)
(* the write took effect, or a timeout with the command still queued.      *)
(***************************************************************************)
EXTENDS ChargeCeiling, ChargeEnable, ChargeAllocator, Sequences

CONSTANTS
  SleepTicks,     \* classic_/epever_sleep_debounce_s
  Inputs,         \* bound: the snapshots a tick may read
  ManualLimits,   \* bound: the ceilings an operator sets
  OperatorSwitches, \* bound: the coil and relay states an operator writes
  OperatorLimits, \* bound: the current limits an operator writes
  OperatorPauses, \* bound: whether an operator pauses the allocator
  MaxPending,     \* bound: timed-out commands queued on one device
  ReplyLoss       \* whether a reply can be lost after the write took effect

VARIABLES
  idleFor,    \* _seen_active, _inactive_since: see Debounced
  cachedCoil, \* _epever_charging_state
  paused,     \* AllocationOverride._paused
  manual,     \* AllocationOverride._manual_limits_a
  pc,         \* the step of the tick the main loop is at
  input,      \* the snapshot of the current tick
  decision,   \* the stabilized decision of the current tick
  effective,  \* its targets as _apply() sees them
  coil,       \* the EPEver's charge coil
  limit,      \* each controller's current-limit register
  relay,      \* the charge_disable relay
  pending     \* commands whose caller gave up, by device

ceilingState == <<lowTempLatched, cellLatched, fullLatched, factor, seen, ceiling, reason>>
overrideVars == <<paused, manual>>
deviceVars == <<coil, limit, pending>>
tickVars == <<input, decision, effective, idleFor>>
vars == <<ceilingState, resolverVars, overrideVars, deviceVars, tickVars, cachedCoil, pc, relay>>

ASSUME SleepAssumption == SleepTicks \in Nat
ASSUME BoundAssumption ==
  /\ MaxPending \in Nat /\ ReplyLoss \in BOOLEAN
  /\ ManualLimits \subseteq Nat
  /\ OperatorSwitches \subseteq BOOLEAN /\ OperatorPauses \subseteq BOOLEAN
  /\ OperatorLimits \subseteq Nat

\* What a tick reads besides the devices' own state: "present" are the
\* controllers with telemetry, "active" those in a charging stage, "settings"
\* those whose limit register was read; "load" is the estimate, or 0.
Input == [battery : Battery \cup {Null}, flag : BOOLEAN \cup {Null}, cold : BOOLEAN,
          current : Int, load : Nat, present : SUBSET Controllers,
          active : SUBSET Controllers, settings : SUBSET Controllers]

ASSUME InputAssumption ==
  /\ Inputs \subseteq Input
  /\ \A in \in Inputs : in.battery \in Batteries /\ (in.battery = Null => in.flag = Null)

NoDecision == [reason |-> "none", budget |-> Null, shared |-> FALSE, targets |-> <<>>]
NoInput == [battery |-> Null, flag |-> Null, cold |-> FALSE, current |-> 0, load |-> 0,
            present |-> {}, active |-> {}, settings |-> {}]

-----------------------------------------------------------------------------
Init ==
  /\ CeilingInit
  /\ ResolverInit
  /\ idleFor = [c \in Controllers |-> Null]
  /\ cachedCoil = Null
  /\ paused = FALSE
  /\ manual = [c \in Controllers |-> Null]
  /\ pc = "idle"
  /\ input = NoInput /\ decision = NoDecision /\ effective = <<>>
  /\ coil \in BOOLEAN
  /\ limit = MaxAmps
  /\ relay = FALSE
  /\ pending = [c \in Controllers |-> <<>>]

\* A controller never seen active has nothing to debounce (Null); 0 is active;
\* n is n - 1 ticks past the first inactive reading.
Debounced(in) ==
  [c \in Controllers |->
     IF c \in in.present \cap in.active THEN 0
     ELSE IF idleFor[c] = Null \/ (c \notin in.present /\ idleFor[c] = 0) THEN idleFor[c]
     ELSE Smaller(idleFor[c] + 1, SleepTicks + 1)]

Awake(idle) == idle # Null /\ idle <= SleepTicks

ChargerInputs(in, idle) ==
  [c \in in.present |-> [limit |-> IF c \in in.settings THEN limit[c] ELSE Null,
                         active |-> Awake(idle[c])]]

Limit(b) == IF b = Null THEN Null ELSE b.ccl

\* record(): read the snapshot, resolve, evaluate, decide and smooth; _apply()
\* starts by taking its view of the override.
Tick(in) ==
  /\ pc = "idle"
  /\ in.present # {}
  /\ idleFor' = Debounced(in)
  /\ input' = in
  /\ Evaluate(in.battery, ChargeEnabled(in.flag, in.cold))
  /\ Resolve(in.flag)
  /\ \E chargers \in {ChargerInputs(in, idleFor')} :
     \E d \in {Decide(Limit(in.battery), in.current, in.load, chargers, ceiling', reason')} :
       decision' = Stabilized(d, chargers)
  /\ effective' = Override(decision'.targets, paused, manual)
  /\ pc' = "coil"
  /\ UNCHANGED <<overrideVars, deviceVars, cachedCoil, relay>>

\* record() without a controller to command: no decision, and no relay update.
EmptyTick(in) ==
  /\ pc = "idle"
  /\ in.present = {}
  /\ idleFor' = Debounced(in)
  /\ input' = in
  /\ ResolverAges
  /\ UNCHANGED <<ceilingState, overrideVars, deviceVars, decision, effective,
                 cachedCoil, pc, relay>>

-----------------------------------------------------------------------------
(* Commands on a device's actor thread.                                     *)

CoilTo(on) == [register |-> "coil", value |-> on]
LimitTo(amps) == [register |-> "limit", value |-> amps]

Apply(device, command) ==
  /\ coil' = IF command.register = "coil" THEN command.value ELSE coil
  /\ limit' = IF command.register = "limit" THEN [limit EXCEPT ![device] = command.value]
                                            ELSE limit

\* The actor reaches the command in time and the write takes effect.
Done(device, command) ==
  pending[device] = <<>> /\ Apply(device, command) /\ UNCHANGED pending

\* The caller sees an exception and nothing was written.
Refused == UNCHANGED deviceVars

\* Future.result() times out; the command stays queued.
TimedOut(device, command) ==
  /\ Len(pending[device]) < MaxPending
  /\ pending' = [pending EXCEPT ![device] = Append(@, command)]
  /\ UNCHANGED <<coil, limit>>

\* The actor thread gets to a command nobody waits for.
ActorRuns(device) ==
  /\ pending[device] # <<>>
  /\ pending' = [pending EXCEPT ![device] = Tail(@)]
  /\ Apply(device, Head(pending[device])) \/ UNCHANGED <<coil, limit>>
  /\ UNCHANGED <<ceilingState, resolverVars, overrideVars, tickVars, cachedCoil, pc, relay>>

-----------------------------------------------------------------------------
(* The rest of the tick: _apply() and RelaySupervisor.                      *)

tickUnchanged == UNCHANGED <<ceilingState, resolverVars, overrideVars, tickVars>>

CoilWanted == ~effective["epever"].disable
\* A mutant: the coil is reconciled only along with a limit write.
CoilDueOnWrite ==
  /\ "epever" \in DOMAIN effective
  /\ effective["epever"].write /\ CoilWanted # cachedCoil

CoilDue == "epever" \in DOMAIN effective /\ CoilWanted # cachedCoil

CoilSkipped ==
  /\ pc = "coil" /\ ~CoilDue
  /\ pc' = "classic"
  /\ tickUnchanged /\ UNCHANGED <<deviceVars, cachedCoil, relay>>

CoilWritten ==
  /\ pc = "coil" /\ CoilDue
  /\ Done("epever", CoilTo(CoilWanted))
  /\ cachedCoil' = CoilWanted
  /\ pc' = "classic"
  /\ tickUnchanged /\ UNCHANGED relay

\* A mutant: the cached state is set before the write is tried.
CoilFailedButCached ==
  /\ pc = "coil" /\ CoilDue
  /\ Refused
  /\ cachedCoil' = CoilWanted
  /\ pc' = "classic"
  /\ tickUnchanged /\ UNCHANGED relay

\* set_epever_charging raises: the cached state stays what it was.
CoilFailed ==
  /\ pc = "coil" /\ CoilDue
  /\ \/ Refused
     \/ ReplyLoss /\ Done("epever", CoilTo(CoilWanted))
     \/ TimedOut("epever", CoilTo(CoilWanted))
  /\ pc' = "classic"
  /\ tickUnchanged /\ UNCHANGED <<cachedCoil, relay>>

\* A mutant: a stop is left to the coil on both controllers.
LimitDueUnlessStopped(c) ==
  /\ c \in DOMAIN effective
  /\ effective[c].write /\ effective[c].amps # Null
  /\ ~effective[c].disable

LimitDue(c) ==
  /\ c \in DOMAIN effective
  /\ effective[c].write /\ effective[c].amps # Null
  /\ ~(effective[c].disable /\ c = "epever")

LimitWanted(c) ==
  IF effective[c].disable THEN 0 ELSE Bigger(MinAmps[c], effective[c].amps)

After == [classic |-> "epever", epever |-> "relay"]

LimitSkipped(c) ==
  /\ pc = c /\ ~LimitDue(c)
  /\ pc' = After[c]
  /\ tickUnchanged /\ UNCHANGED <<deviceVars, cachedCoil, relay>>

LimitWritten(c) ==
  /\ pc = c /\ LimitDue(c)
  /\ Done(c, LimitTo(LimitWanted(c)))
  /\ pc' = After[c]
  /\ tickUnchanged /\ UNCHANGED <<cachedCoil, relay>>

LimitFailed(c) ==
  /\ pc = c /\ LimitDue(c)
  /\ Refused \/ TimedOut(c, LimitTo(LimitWanted(c)))
  /\ pc' = After[c]
  /\ tickUnchanged /\ UNCHANGED <<cachedCoil, relay>>

\* _update_charge_disable takes its own view of the override, later than
\* _apply() did; a relay that fails to switch is only logged.
RelayTarget == Override(decision.targets, paused, manual)["classic"]

RelayStep ==
  /\ pc = "relay"
  /\ IF "classic" \in DOMAIN decision.targets
     THEN relay' \in {RelayTarget.disable \/ RelayTarget.amps = 0, relay}
     ELSE UNCHANGED relay
  /\ pc' = "idle"
  /\ tickUnchanged /\ UNCHANGED <<deviceVars, cachedCoil>>

-----------------------------------------------------------------------------
(* HTTP handlers and the process.                                           *)

SetPaused(p) ==
  /\ paused' = p
  /\ UNCHANGED <<ceilingState, resolverVars, manual, deviceVars, tickVars, cachedCoil, pc, relay>>

SetManualLimit(c, amps) ==
  /\ manual' = [manual EXCEPT ![c] = amps]
  /\ UNCHANGED <<ceilingState, resolverVars, paused, deviceVars, tickVars, cachedCoil, pc, relay>>

\* _control_epever_charging writes the coil past the allocator's cached state.
OperatorCoil(on) ==
  /\ Done("epever", CoilTo(on)) \/ TimedOut("epever", CoilTo(on))
  /\ tickUnchanged /\ UNCHANGED <<cachedCoil, pc, relay>>

\* The charge-settings handlers write a register the next tick reads back.
OperatorLimit(c, amps) ==
  /\ amps >= MinAmps[c]
  /\ Done(c, LimitTo(amps)) \/ TimedOut(c, LimitTo(amps))
  /\ tickUnchanged /\ UNCHANGED <<cachedCoil, pc, relay>>

OperatorRelay(on) ==
  /\ relay' = on
  /\ tickUnchanged /\ UNCHANGED <<deviceVars, cachedCoil, pc>>

OperatorFactor(f) ==
  /\ SetScalingFactor(f) \/ NudgeScalingFactor(f)
  /\ UNCHANGED <<resolverVars, overrideVars, deviceVars, tickVars, cachedCoil, pc, relay>>

\* The process restarts: everything but the runtime state's factor is new, the
\* relay pins come up low, queued commands die, the controllers keep their
\* settings.
Restart ==
  /\ CeilingRestart
  /\ lastEnable' = TRUE /\ silentFor' = HoldTicks
  /\ idleFor' = [c \in Controllers |-> Null]
  /\ cachedCoil' = Null
  /\ paused' = FALSE
  /\ manual' = [c \in Controllers |-> Null]
  /\ pc' = "idle"
  /\ input' = NoInput /\ decision' = NoDecision /\ effective' = <<>>
  /\ relay' = FALSE
  /\ pending' = [c \in Controllers |-> <<>>]
  /\ UNCHANGED <<coil, limit>>

TickStep ==
  \/ \E in \in Inputs : Tick(in) \/ EmptyTick(in)
  \/ CoilSkipped \/ CoilWritten \/ CoilFailed
  \/ \E c \in Controllers : LimitSkipped(c) \/ LimitWritten(c) \/ LimitFailed(c)
  \/ RelayStep

Operator ==
  \/ \E p \in OperatorPauses : SetPaused(p)
  \/ \E c \in Controllers, amps \in ManualLimits \cup {Null} :
       ManualLimits # {} /\ SetManualLimit(c, amps)
  \/ \E on \in OperatorSwitches : OperatorCoil(on) \/ OperatorRelay(on)
  \/ \E c \in Controllers, amps \in OperatorLimits : OperatorLimit(c, amps)
  \/ \E f \in Factors : OperatorFactor(f)

Next == TickStep \/ (\E c \in Controllers : ActorRuns(c)) \/ Operator \/ Restart

Spec == Init /\ [][Next]_vars

\* The main loop never stops and each actor drains its queue.  A write that is
\* tried again and again gets through: the device answers now and then.
Fairness ==
  /\ WF_vars(TickStep)
  /\ SF_vars(CoilWritten)
  /\ \A c \in Controllers : SF_vars(LimitWritten(c)) /\ WF_vars(ActorRuns(c))
  /\ SF_vars(RelayStep /\ "classic" \in DOMAIN decision.targets
                       /\ relay' = (RelayTarget.disable \/ RelayTarget.amps = 0))

FairSpec == Spec /\ Fairness

-----------------------------------------------------------------------------
Target == [amps : Nat \cup {Null}, write : BOOLEAN, disable : BOOLEAN]
TargetsOK(t) == DOMAIN t \subseteq Controllers /\ t \in [DOMAIN t -> Target]
Command == [register : {"coil"}, value : BOOLEAN] \cup [register : {"limit"}, value : Nat]

TickTypeOK ==
  /\ pc \in {"idle", "coil", "relay"} \cup Controllers
  /\ input \in Input
  /\ idleFor \in [Controllers -> 0 .. SleepTicks + 1 \cup {Null}]
  /\ decision.budget \in Nat \cup {Null}
  /\ TargetsOK(decision.targets) /\ TargetsOK(effective)

DeviceTypeOK ==
  /\ {coil, relay} \subseteq BOOLEAN
  /\ limit \in [Controllers -> Nat]
  /\ pending \in [Controllers -> Seq(Command)]
  /\ \A c \in Controllers : Len(pending[c]) <= MaxPending

ControlTypeOK ==
  /\ CeilingTypeOK
  /\ ResolverTypeOK
  /\ TickTypeOK
  /\ DeviceTypeOK
  /\ cachedCoil \in BOOLEAN \cup {Null}
  /\ paused \in BOOLEAN
  /\ manual \in [Controllers -> Nat \cup {Null}]

\* The hard stop - the EPEver's coil, 0 A on the Classic and its relay - is
\* reserved for a resolved allowance of 0 A: a charger that sleeps or loses
\* the split is never switched off, whatever was smoothed or overridden.
DisableOnlyOnStop ==
  \A c \in DOMAIN effective : effective[c].disable => ceiling = 0

\* A resolved allowance of 0 A reaches every controller that answered, through
\* pause, manual ceilings, sleep debounce and smoothing.
StopReachesEveryController ==
  ceiling = 0 /\ seen.ccl # Null =>
    \A c \in DOMAIN effective : effective[c].disable /\ LimitWanted(c) = 0

\* "Hold last-known-good": once the BMS asked for a stop, snapshots without the
\* flags frame keep every controller off until the hold time is over.
GapHoldsStop ==
  /\ pc # "idle" /\ ~lastEnable /\ silentFor < HoldTicks
  /\ seen # Null /\ seen.ccl # Null
  => \A c \in DOMAIN effective : effective[c].disable

\* "Net battery charge current <= BMS CCL": the limits of the chargers in use
\* add up to the budget, give or take what may be added to each of them: a share
\* below the register's floor is held at the floor, and smoothing keeps a limit
\* short of a deadband above that or rounds it up by half a bucket.
Slack(c) == Bigger(MinAmps[c], Bigger(MinAmps[c] + Deadband - 1, Quantum \div 2))

AllocationBounded ==
  decision.budget # Null =>
    LET awake == {c \in DOMAIN effective : Awake(idleFor[c])}
        most  == [c \in awake |-> effective[c].amps - Slack(c)]
    IN  pc # "idle" => 10 * Amperes(most, awake) <= decision.budget

\* The coil the supervisor believes it has set is the one the EPEver has.  It
\* need not be after a lost reply, a late command or an operator's write.
CoilCacheCoherent == cachedCoil # Null => cachedCoil = coil

\* "Missing BMS data -> no action: return no targets and write nothing"
\* (docs/charge-current-allocation.md): no step of a tick without the BMS's
\* charge limit moves the coil or a limit.
MissingDataWritesNothing ==
  [][ pc # "idle" /\ decision.reason = "missing BMS CCL" => UNCHANGED <<coil, limit>> ]_vars

\* "While paused, the allocator ... writes nothing to either controller"
\* (docs/telemetry/supervisor-api.md): a tick whose writes the pause suppressed
\* leaves coil and limits alone.
PausedWritesNothing ==
  [][ pc # "idle" /\ paused /\ effective # decision.targets => UNCHANGED <<coil, limit>> ]_vars

-----------------------------------------------------------------------------
Stopping ==
  /\ input.present = Controllers /\ input.battery # Null
  /\ input.flag = FALSE /\ input.battery.ccl # Null

\* A stop the BMS keeps asking for opens the EPEver's coil for good, over gaps,
\* refused writes, restarts and whatever was commanded before.
CoilStopEnforced == <>[]Stopping => <>[]~coil

\* The Classic's stop needs no memory of what was written: its register is read
\* back every tick, so once the operator leaves it alone a stop takes hold, even
\* after late or lost commands.
ClassicStopEnforced ==
  <>[](Stopping /\ ~paused) /\ <>[][~Operator]_vars
    => <>[](limit["classic"] = 0 /\ relay)

\* The snapshot lifts every latch and allows a charge.
Chargeable(b) ==
  /\ b # Null /\ b.ccl # Null /\ b.ccl >= KneeBaseline
  /\ LowTempRecovered(b) /\ CellRecovered(b) /\ Rested(b)

Released ==
  /\ input.present = Controllers /\ Chargeable(input.battery)
  /\ input.flag = TRUE \/ (input.flag = Null /\ ~input.cold)

\* "Sustained blindness releases": a healthy pack whose BMS allows charging, or
\* falls silent while it is not cold, gets the EPEver's coil and the Classic's
\* limit back, whatever stop came before.
ReleaseRestoresCharging ==
  <>[](Released /\ ~paused /\ manual["classic"] = Null)
    => <>[](coil /\ limit["classic"] > 0 /\ ~relay)

\* Deadband, buckets, rebalancing and floors settle: when neither the snapshot
\* nor the factor changes any longer the limits stop moving.
LimitsSettle ==
  <>[][input' = input /\ factor' = factor]_vars
    => <>[](\A c \in Controllers : pc = c /\ LimitDue(c) => limit[c] = LimitWanted(c))
=============================================================================
