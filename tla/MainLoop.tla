------------------------------ MODULE MainLoop ------------------------------
(* The supervisor's main loop as far as it keeps state of its own from tick  *)
(* to tick: the heat fan (relay_control.py), the load totals and the day's   *)
(* baselines (load.py), with the clock they all read, from the boot helper   *)
(* that may step it (module ClockRestore) to NTP stepping it under the loop. *)
(* The charge path of the same tick is module ChargeControl.                 *)
EXTENDS ClockRestore

CONSTANTS
  Day,            \* seconds of a local day
  Window,         \* seconds after midnight that count as midnight
  Qualify,        \* _HEAT_SOLAR_QUALIFY
  Snapshots,      \* the snapshots a tick may read
  MaxFaults       \* bound of the model: writes of the relay that fail

ASSUME LoopAssumption ==
  /\ {Day, Window, Qualify, MaxFaults} \subseteq Nat /\ Window < Day
  /\ \A s \in Snapshots :
       /\ s.pack \in {"none", "cold", "cool", "warm", "hot"}
       /\ s.hottest \in {"none", "mild", "hot"} /\ (s.hottest = "none" <=> s.pack = "none")
       /\ s.pack = "hot" => s.hottest = "hot"
       /\ s.sun \in {"none", "weak", "fair", "strong"}
       /\ s.outside \in {"none", "cold", "mild"}
       /\ s.full \in BOOLEAN /\ s.load \in BOOLEAN

VARIABLES
  up,             \* the supervisor runs
  ticked,         \* this second's tick is over
  fan,            \* the relay
  heatFanOn,      \* RelaySupervisor._heat_fan_on
  reactiveOn, preventiveOn,
  qualifySince,   \* _solar_qualify_since: {} or one wall time
  totals,         \* LoadTotalsTracker: [day, lastAt, consumed]
  midnightSoc,    \* LoadTracker._midnight_soc_by_day: a set of [day, soc]
  store,          \* the days of which the store holds a midnight SOC
  faults,
  sunSince,       \* history: true time since which every tick has qualified
  stepped,        \* history: the clock was stepped since then
  foreign,        \* history: an operator set the relay after the loop did
  lastSeen        \* history: the last tick's snapshot, and whether its write failed

fanVars == <<fan, heatFanOn, reactiveOn, preventiveOn, qualifySince, faults, sunSince, stepped, foreign, lastSeen>>
loadVars == <<totals, midnightSoc, store>>
loopVars == <<clockVars, up, ticked, fanVars, loadVars>>

Today == Wall \div Day
SinceMidnight == Wall % Day

NoTotals == [day |-> {}, lastAt |-> {}, consumed |-> 0]
Nothing ==
  [pack |-> "none", hottest |-> "none", sun |-> "none", outside |-> "none", full |-> FALSE, load |-> FALSE]

LoopInit ==
  /\ ClockInit
  /\ up = FALSE /\ ticked = FALSE
  /\ fan = FALSE /\ heatFanOn = FALSE /\ reactiveOn = FALSE /\ preventiveOn = FALSE
  /\ qualifySince = {} /\ faults = 0
  /\ sunSince = {} /\ stepped = FALSE /\ foreign = FALSE /\ lastSeen = [seen |-> Nothing, failed |-> FALSE]
  /\ totals = NoTotals /\ midnightSoc = {} /\ store = {}

-----------------------------------------------------------------------------
(* The heat fan.                                                             *)

(* The pack's coldest cell and the Voc normalized by the ambient probe:      *)
(* below 2 C and at least 158 V to qualify, above 5 C or below 154 V to      *)
(* drop.  The hottest cell comes in the same frame as the coldest.           *)
Readable(s) == s.pack # "none" /\ s.sun # "none" /\ s.outside # "none"
Qualifies(s) == s.pack = "cold" /\ s.sun = "strong"
StaysReactive(s) == s.pack \in {"cold", "cool"} /\ s.sun \in {"fair", "strong"}

(* The reactive mode's want and its timer, by the wall clock. *)
ReactiveWant(s) ==
  /\ Readable(s)
  /\ IF reactiveOn
     THEN StaysReactive(s)
     ELSE Qualifies(s) /\ \E since \in qualifySince : since <= Wall /\ Wall - since >= Qualify

(* A slip: the timer survives a tick without telemetry. *)
QualifyTimerThroughGaps(s) ==
  IF ~Readable(s) THEN qualifySince
  ELSE IF ~reactiveOn /\ Qualifies(s) /\ ~ReactiveWant(s)
  THEN IF \E since \in qualifySince : since <= Wall THEN qualifySince ELSE {Wall}
  ELSE IF reactiveOn /\ ReactiveWant(s) THEN qualifySince ELSE {}

QualifyTimer(s) ==
  IF Readable(s) /\ ~reactiveOn /\ Qualifies(s) /\ ~ReactiveWant(s)
  THEN IF \E since \in qualifySince : since <= Wall THEN qualifySince ELSE {Wall}
  ELSE IF reactiveOn /\ ReactiveWant(s) THEN qualifySince ELSE {}

(* On and off conditions of the preventive mode are each other's complement. *)
PreventiveWant(s) == s.pack \notin {"none", "hot"} /\ s.outside = "cold" /\ s.full

(* A slip: the cutout knows the reactive mode only. *)
CutoutOfReactive(s) == s.hottest = "hot" /\ ~PreventiveWant(s)

(* Any cell at 25 C: both modes off, from the start again. *)
Cutout(s) == s.hottest = "hot"

UpdateHeatFan(s) ==
  LET reactive == ReactiveWant(s) /\ ~Cutout(s)
      preventive == PreventiveWant(s) /\ ~Cutout(s)
      want == reactive \/ preventive
  IN  /\ reactiveOn' = reactive /\ preventiveOn' = preventive
      /\ qualifySince' = IF Cutout(s) THEN {} ELSE QualifyTimer(s)
      /\ \/ /\ want = heatFanOn
            /\ UNCHANGED <<fan, heatFanOn, faults, foreign>>
            /\ lastSeen' = [seen |-> s, failed |-> FALSE]
         \/ /\ want # heatFanOn
            /\ fan' = want /\ heatFanOn' = want /\ foreign' = FALSE
            /\ lastSeen' = [seen |-> s, failed |-> FALSE]
            /\ UNCHANGED faults
         \/ /\ want # heatFanOn /\ faults < MaxFaults
            /\ faults' = faults + 1
            /\ lastSeen' = [seen |-> s, failed |-> TRUE]
            /\ UNCHANGED <<fan, heatFanOn, foreign>>
      /\ sunSince' = IF Readable(s) /\ Qualifies(s)
                     THEN IF sunSince = {} THEN {time} ELSE sunSince
                     ELSE {}
      /\ stepped' = (stepped /\ Readable(s) /\ Qualifies(s))

-----------------------------------------------------------------------------
(* The load.                                                                 *)

(* A slip: a new day starts at zero but from the last sample of the old one. *)
RolledKeepingSample ==
  IF totals.day = {Today} THEN totals ELSE [totals EXCEPT !.day = {Today}, !.consumed = 0]

(* LoadTotalsTracker.update(): a tick without data leaves only its time; a   *)
(* new day starts at zero.  The load draws one unit a second.                *)
Rolled == IF totals.day = {Today} THEN totals ELSE [NoTotals EXCEPT !.day = {Today}]

Elapsed(kept) == IF \E at \in kept.lastAt : at < Wall
                 THEN Wall - (CHOOSE at \in kept.lastAt : TRUE)
                 ELSE 0

UpdateTotals(s) ==
  totals' = IF s.load
            THEN [Rolled EXCEPT !.lastAt = {Wall}, !.consumed = @ + Elapsed(Rolled)]
            ELSE [totals EXCEPT !.lastAt = {Wall}]

(* LoadTracker._midnight_soc_for_snapshot(): the live SOC in the first       *)
(* seconds of the day; later the store is asked once and its answer, none    *)
(* included, kept.                                                           *)
Known(day) == \E m \in midnightSoc : m.day = day

AsksStore(s) == s.load /\ s.pack # "none" /\ ~Known(Today) /\ SinceMidnight > Window

(* A read that fails, or one of a fallback store in its place, answers none. *)
StoreAnswers == {"none"} \union (IF Today \in store THEN {"stored"} ELSE {})

UpdateMidnight(s) ==
  \/ /\ s.load /\ s.pack # "none" /\ ~Known(Today) /\ SinceMidnight <= Window
     /\ midnightSoc' = midnightSoc \union {[day |-> Today, soc |-> "live"]}
  \/ /\ AsksStore(s)
     /\ \E soc \in StoreAnswers : midnightSoc' = midnightSoc \union {[day |-> Today, soc |-> soc]}
  \/ /\ ~(s.load /\ s.pack # "none" /\ ~Known(Today))
     /\ UNCHANGED midnightSoc

(* record_snapshot() keeps the SOC of the snapshot. *)
RecordSnapshot(s) ==
  store' = IF s.pack # "none" /\ SinceMidnight <= Window THEN store \union {Today} ELSE store

-----------------------------------------------------------------------------
SupervisorStarts ==
  /\ phase = "done" /\ ~up
  /\ up' = TRUE
  /\ UNCHANGED <<clockVars, ticked, fanVars, loadVars>>

Tick ==
  /\ up /\ ~ticked
  /\ ticked' = TRUE
  /\ \E s \in Snapshots : UpdateHeatFan(s) /\ UpdateTotals(s) /\ UpdateMidnight(s) /\ RecordSnapshot(s)
  /\ UNCHANGED <<clockVars, up>>

(* POST /api/v1/relay sets the relay past the loop's own idea of it. *)
ControlRelay ==
  /\ up
  /\ \E on \in BOOLEAN : fan' = on /\ foreign' = (on # heatFanOn)
  /\ UNCHANGED <<clockVars, up, ticked, heatFanOn, reactiveOn, preventiveOn, qualifySince, faults, sunSince,
                 stepped, lastSeen, loadVars>>

(* The process is started again: RelayController switches the relays off.    *)
SupervisorRestarts ==
  /\ up
  /\ fan' = FALSE /\ heatFanOn' = FALSE /\ reactiveOn' = FALSE /\ preventiveOn' = FALSE
  /\ qualifySince' = {} /\ sunSince' = {} /\ stepped' = FALSE /\ foreign' = FALSE
  /\ lastSeen' = [seen |-> Nothing, failed |-> FALSE]
  /\ totals' = NoTotals /\ midnightSoc' = {}
  /\ UNCHANGED <<clockVars, up, ticked, faults, store>>

HelperSteps == Helper /\ UNCHANGED <<up, ticked, fanVars, loadVars>>

TimePasses ==
  /\ Second /\ ticked' = FALSE
  /\ UNCHANGED <<up, fanVars, loadVars>>

ClockSynced ==
  /\ NtpSyncs
  /\ stepped' = (stepped \/ (sunSince # {} /\ skew # 0))
  /\ UNCHANGED <<up, ticked, fan, heatFanOn, reactiveOn, preventiveOn, qualifySince, faults, sunSince, foreign,
                 lastSeen, loadVars>>

RtcChanges == (RtcStarts \/ RtcCopied) /\ UNCHANGED <<up, ticked, fanVars, loadVars>>

LoopNext ==
  \/ HelperSteps \/ TimePasses \/ ClockSynced \/ RtcChanges
  \/ SupervisorStarts \/ Tick \/ ControlRelay \/ SupervisorRestarts

LoopSpec == LoopInit /\ [][LoopNext]_loopVars

-----------------------------------------------------------------------------
(* The loop starts the fan for the cold only when the sun has stood high     *)
(* enough on a cold pack for the whole qualifying time, in true seconds and  *)
(* without a gap, or when the clock was stepped meanwhile.                   *)
FanOnlyAfterSteadySun ==
  [][~reactiveOn /\ reactiveOn' => stepped \/ \E since \in sunSince : time - since >= Qualify]_loopVars

(* A hot cell in the last tick means that the loop has the fan off: it runs  *)
(* only if an operator set it past the loop or the relay refused.            *)
HotPackStopsFan ==
  lastSeen.seen.hottest = "hot" /\ fan => foreign \/ lastSeen.failed

(* No energy is counted twice, nor any of another day: what the totals show  *)
(* was consumed since this day's midnight.                                   *)
TotalsWithinDay ==
  totals.day = {Today} => totals.consumed <= SinceMidnight

(* "A miss means the supervisor was down over midnight": fails, a read of    *)
(* the store that failed once hides its baseline for the rest of the day.    *)
MissIsHonest ==
  \A m \in midnightSoc : m.soc = "none" => m.day \notin store
=============================================================================
