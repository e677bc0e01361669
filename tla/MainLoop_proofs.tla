-------------------------- MODULE MainLoop_proofs --------------------------
(* The heat fan, the boot helper and the totals, for any thresholds,          *)
(* snapshots and clocks: a hot cell ends with the loop's fan off              *)
(* (HotPackStopsFan), the reactive mode starts only after steady sun          *)
(* (FanOnlyAfterSteadySun), the clock is stepped only to a steady one         *)
(* (StepsOnlyToSteadyClock), and a total is of its day (TotalsWithinDay).     *)
EXTENDS MainLoop, TLAPS

-----------------------------------------------------------------------------
(* The relay.                                                                *)

(* The relay differs from what the loop believes of it exactly when an        *)
(* operator set it, and the loop believes it off since a hot tick whose write *)
(* got through.                                                               *)
RelayInv ==
  /\ fan \in BOOLEAN /\ heatFanOn \in BOOLEAN /\ foreign \in BOOLEAN
  /\ fan # heatFanOn => foreign
  /\ lastSeen.seen.hottest = "hot" => ~heatFanOn \/ lastSeen.failed

relayVars == <<fan, heatFanOn, foreign, lastSeen>>

(* The step that matters: with a hot cell the loop wants the fan off.         *)
LEMMA UpdateKeepsRelay ==
  ASSUME NEW s, RelayInv, UpdateHeatFan(s)
  PROVE  RelayInv'
  <1> DEFINE want == (ReactiveWant(s) /\ ~Cutout(s)) \/ (PreventiveWant(s) /\ ~Cutout(s))
  <1>1. s.hottest = "hot" => ~want
    BY DEF Cutout
  <1>2. PICK w \in BOOLEAN :
          /\ w = want
          /\ \/ /\ w = heatFanOn
                /\ UNCHANGED <<fan, heatFanOn, foreign>>
                /\ lastSeen' = [seen |-> s, failed |-> FALSE]
             \/ /\ fan' = w /\ heatFanOn' = w /\ foreign' = FALSE
                /\ lastSeen' = [seen |-> s, failed |-> FALSE]
             \/ /\ lastSeen' = [seen |-> s, failed |-> TRUE]
                /\ UNCHANGED <<fan, heatFanOn, foreign>>
    <2> DEFINE w == want
    <2>1. w \in BOOLEAN
      OBVIOUS
    <2>2. \/ /\ w = heatFanOn
             /\ UNCHANGED <<fan, heatFanOn, foreign>>
             /\ lastSeen' = [seen |-> s, failed |-> FALSE]
          \/ /\ fan' = w /\ heatFanOn' = w /\ foreign' = FALSE
             /\ lastSeen' = [seen |-> s, failed |-> FALSE]
          \/ /\ lastSeen' = [seen |-> s, failed |-> TRUE]
             /\ UNCHANGED <<fan, heatFanOn, foreign>>
      BY Zenon DEF UpdateHeatFan
    <2> HIDE DEF w
    <2> QED BY <2>1, <2>2, Zenon DEF w
  <1>3. s.hottest = "hot" => w = FALSE
    BY <1>1, <1>2
  <1> HIDE DEF want
  <1>4. CASE w = heatFanOn /\ UNCHANGED <<fan, heatFanOn, foreign>>
             /\ lastSeen' = [seen |-> s, failed |-> FALSE]
    BY <1>3, <1>4 DEF RelayInv
  <1>5. CASE fan' = w /\ heatFanOn' = w /\ foreign' = FALSE
             /\ lastSeen' = [seen |-> s, failed |-> FALSE]
    BY <1>3, <1>5 DEF RelayInv
  <1>6. CASE lastSeen' = [seen |-> s, failed |-> TRUE] /\ UNCHANGED <<fan, heatFanOn, foreign>>
    BY <1>6 DEF RelayInv
  <1> QED BY <1>2, <1>4, <1>5, <1>6

LEMMA StepKeepsRelay ==
  ASSUME RelayInv, [LoopNext]_loopVars
  PROVE  RelayInv'
  <1>1. CASE Tick
    BY <1>1, UpdateKeepsRelay DEF Tick
  <1>2. CASE ControlRelay
    <2>1. PICK on \in BOOLEAN : fan' = on /\ foreign' = (on # heatFanOn)
      BY <1>2 DEF ControlRelay
    <2>2. UNCHANGED <<heatFanOn, lastSeen>>
      BY <1>2 DEF ControlRelay
    <2> QED BY <2>1, <2>2 DEF RelayInv
  <1>3. CASE SupervisorRestarts
    BY <1>3 DEF SupervisorRestarts, RelayInv, Nothing
  <1>4. CASE UNCHANGED relayVars
    BY <1>4 DEF RelayInv, relayVars
  <1>5. HelperSteps \/ TimePasses \/ ClockSynced \/ RtcChanges \/ SupervisorStarts \/ UNCHANGED loopVars
          => UNCHANGED relayVars
    BY DEF HelperSteps, TimePasses, ClockSynced, RtcChanges, SupervisorStarts, loopVars, fanVars, relayVars
  <1> QED BY <1>1, <1>2, <1>3, <1>4, <1>5 DEF LoopNext

(* A cell too warm in the last tick means that the loop has the fan off, by   *)
(* whichever mode it ran (HotPackStopsFan).                                   *)
THEOREM HotPackIsCooled == LoopSpec => []HotPackStopsFan
  <1>1. LoopInit => RelayInv
    BY DEF LoopInit, RelayInv, Nothing
  <1>2. RelayInv /\ [LoopNext]_loopVars => RelayInv'
    BY StepKeepsRelay
  <1>3. RelayInv => HotPackStopsFan
    BY DEF RelayInv, HotPackStopsFan
  <1> QED BY <1>1, <1>2, <1>3, PTL DEF LoopSpec

-----------------------------------------------------------------------------
(* The sun.                                                                   *)

ClockTyped ==
  /\ time \in Nat /\ skew \in Int /\ lag \in Int
  /\ candidate.rtc \in Int

(* The helper is over before the loop runs, so that only NTP steps the clock  *)
(* under it; a running timer shows no later than the true time since which    *)
(* the sun has stood high, unless the clock was stepped meanwhile.            *)
TimerHonest ==
  stepped \/ \A q \in qualifySince : \E since \in sunSince : since + skew <= q

SunTyped ==
  /\ stepped \in BOOLEAN /\ reactiveOn \in BOOLEAN /\ up \in BOOLEAN
  /\ sunSince \subseteq Nat /\ \A since \in sunSince : since <= time
  /\ qualifySince \subseteq Int

SunInv ==
  /\ ClockTyped /\ SunTyped /\ TimerHonest
  /\ up => phase = "done"
  /\ ~up => qualifySince = {}
  /\ reactiveOn => qualifySince = {}

LEMMA HelperKeepsClockTyped ==
  ASSUME ClockTyped, Helper
  PROVE  ClockTyped' /\ time' = time /\ phase # "done" /\ (phase # "set" => skew' = skew)
  <1>1. ASSUME NEW new, new.rtc \in Int, Takes(new), UNCHANGED <<time, skew, lag>>
        PROVE  ClockTyped'
    BY <1>1 DEF Takes, Retry, Ends, SleepsIn, NoSample, ClockTyped
  <1>2. CASE CheckNtp
    BY <1>2 DEF CheckNtp, Ends, SleepsIn, NoSample, ClockTyped, wallVars, rtcVars
  <1>3. CASE CheckMarker
    BY <1>3 DEF CheckMarker, Ends, NoSample, ClockTyped, wallVars, rtcVars
  <1>4. CASE ReadFails
    BY <1>4 DEF ReadFails, Retry, Ends, SleepsIn, NoSample, ClockTyped, wallVars, rtcVars
  <1>5. CASE ReadAnswers
    <2>1. [rtc |-> Shown, at |-> time].rtc \in Int
      BY DEF Shown, ClockTyped
    <2> QED BY <1>1, <1>5, <2>1 DEF ReadAnswers, wallVars, rtcVars
  <1>6. CASE ReadMisreads
    <2>1. PICK error \in Misreads : Takes([rtc |-> Shown + error, at |-> time])
      BY <1>6 DEF ReadMisreads
    <2>2. [rtc |-> Shown + error, at |-> time].rtc \in Int
      BY ClockAssumption DEF Shown, ClockTyped, ClockAssumption
    <2> QED BY <1>1, <1>6, <2>1, <2>2 DEF ReadMisreads, wallVars
  <1>7. CASE Recheck
    BY <1>7 DEF Recheck, Ends, NoSample, ClockTyped, wallVars, rtcVars
  <1>8. CASE Measure
    BY <1>8 DEF Measure, Ends, NoSample, ClockTyped, wallVars, rtcVars
  <1>9. CASE SetClock
    BY <1>9 DEF SetClock, Ends, NoSample, ClockTyped, rtcVars
  <1> QED BY <1>2, <1>3, <1>4, <1>5, <1>6, <1>7, <1>8, <1>9 DEF Helper

sunVars == <<time, skew, lag, candidate, phase, up, stepped, reactiveOn, qualifySince, sunSince>>

(* A tick starts the timer at the wall time of a tick that found the sun      *)
(* high, keeps it while the sun stays there and drops it otherwise.           *)
LEMMA TickKeepsSun ==
  ASSUME SunInv, NEW s, UpdateHeatFan(s), up, UNCHANGED <<time, skew, lag, candidate, phase, up>>
  PROVE  SunInv' /\ (~reactiveOn /\ reactiveOn' => stepped \/ \E since \in sunSince : time - since >= Qualify)
  <1> DEFINE sunny == Readable(s) /\ Qualifies(s)
             want == ReactiveWant(s)
  <1>1. reactiveOn' \in BOOLEAN /\ (reactiveOn' => want /\ ~Cutout(s))
    BY Zenon DEF UpdateHeatFan
  <1>2. qualifySince' = IF Cutout(s) THEN {} ELSE QualifyTimer(s)
    BY DEF UpdateHeatFan
  <1>3. sunSince' = IF sunny THEN IF sunSince = {} THEN {time} ELSE sunSince ELSE {}
    BY DEF UpdateHeatFan
  <1>4. stepped' \in BOOLEAN /\ (stepped' <=> stepped /\ sunny)
    BY Zenon DEF UpdateHeatFan
  <1>5. time \in Nat /\ skew \in Int /\ Wall \in Int
    BY DEF SunInv, ClockTyped, Wall
  <1>6. ClockTyped'
    BY DEF SunInv, ClockTyped
  <1>7. qualifySince' = {} \/ (sunny /\ ~reactiveOn /\ ~want /\ qualifySince' \in {qualifySince, {Wall}})
    BY <1>2 DEF QualifyTimer, SunInv
  <1>8. SunTyped'
    <2>1. sunSince' \subseteq Nat /\ \A since \in sunSince' : since <= time
      BY <1>3, <1>5 DEF SunInv, SunTyped
    <2>2. qualifySince' \subseteq Int
      BY <1>5, <1>7 DEF SunInv, SunTyped
    <2>3. up' \in BOOLEAN
      BY DEF SunInv, SunTyped
    <2> QED BY <1>1, <1>4, <2>1, <2>2, <2>3 DEF SunTyped
  <1>9. TimerHonest'
    <2>1. CASE qualifySince' = {}
      BY <2>1 DEF TimerHonest
    <2>2. CASE sunny /\ qualifySince' = qualifySince
      <3>1. CASE stepped
        BY <1>4, <2>2, <3>1, Zenon DEF TimerHonest
      <3>2. CASE ~stepped
        <4>1. \A q \in qualifySince : \E since \in sunSince : since + skew <= q
          BY <3>2 DEF SunInv, TimerHonest
        <4>2. \A q \in qualifySince : sunSince' = sunSince
          BY <1>3, <2>2, <4>1
        <4> QED BY <2>2, <4>1, <4>2 DEF TimerHonest
      <3> QED BY <3>1, <3>2
    <2>3. CASE sunny /\ qualifySince' = {Wall}
      <3>1. \E since \in sunSince' : since <= time /\ since \in Nat
        BY <1>3, <1>5, <2>3 DEF SunInv, SunTyped
      <3>2. \E since \in sunSince' : since + skew <= Wall
        BY <1>5, <3>1 DEF Wall
      <3> QED BY <2>3, <3>2 DEF TimerHonest
    <2> QED BY <1>7, <2>1, <2>2, <2>3
  <1>10. reactiveOn' => qualifySince' = {}
    BY <1>1, <1>7
  <1>11. ASSUME ~reactiveOn, reactiveOn', ~stepped
         PROVE  \E since \in sunSince : time - since >= Qualify
    <2>1. PICK q \in qualifySince : Wall - q >= Qualify
      BY <1>1, <1>11 DEF ReactiveWant
    <2>2. PICK since \in sunSince : since + skew <= q
      BY <1>11 DEF SunInv, TimerHonest
    <2>3. since \in Nat /\ q \in Int /\ Qualify \in Nat
      BY LoopAssumption DEF SunInv, SunTyped, LoopAssumption
    <2>4. time - since >= Qualify
      BY <1>5, <2>1, <2>2, <2>3 DEF Wall
    <2> QED BY <2>4
  <1>12. up' /\ (up' => phase' = "done")
    BY DEF SunInv
  <1> QED BY <1>6, <1>8, <1>9, <1>10, <1>11, <1>12 DEF SunInv

LEMMA StepKeepsSun ==
  ASSUME SunInv, [LoopNext]_loopVars
  PROVE  SunInv' /\ (~reactiveOn /\ reactiveOn' => stepped \/ \E since \in sunSince : time - since >= Qualify)
  <1>1. CASE Tick
    <2>1. PICK s \in Snapshots : UpdateHeatFan(s)
      BY <1>1 DEF Tick
    <2>2. up /\ UNCHANGED <<time, skew, lag, candidate, phase, up>>
      BY <1>1 DEF Tick, clockVars, wallVars, rtcVars, helperVars
    <2> QED BY <2>1, <2>2, TickKeepsSun
  <1>2. CASE HelperSteps
    <2>1. ClockTyped' /\ time' = time /\ phase # "done"
      BY <1>2, HelperKeepsClockTyped DEF HelperSteps, SunInv
    <2>2. UNCHANGED <<up, stepped, reactiveOn, qualifySince, sunSince>>
      BY <1>2 DEF HelperSteps, fanVars
    <2>3. ~up /\ qualifySince = {}
      BY <2>1 DEF SunInv
    <2>4. TimerHonest' /\ SunTyped'
      BY <2>1, <2>2, <2>3 DEF SunInv, SunTyped, TimerHonest
    <2> QED BY <2>1, <2>2, <2>3, <2>4 DEF SunInv
  <1>3. CASE TimePasses
    <2>1. time' = time + 1 /\ UNCHANGED <<skew, lag, candidate, phase, up, stepped, reactiveOn, qualifySince, sunSince>>
      BY <1>3 DEF TimePasses, Second, rtcVars, helperVars, fanVars
    <2>2. ClockTyped' /\ SunTyped' /\ TimerHonest'
      BY <2>1 DEF SunInv, ClockTyped, SunTyped, TimerHonest
    <2> QED BY <2>1, <2>2 DEF SunInv
  <1>4. CASE ClockSynced
    <2>1. skew' = 0 /\ UNCHANGED <<time, lag, candidate, phase, up, reactiveOn, qualifySince, sunSince>>
      BY <1>4 DEF ClockSynced, NtpSyncs, rtcVars, helperVars
    <2>2. stepped' \in BOOLEAN /\ (stepped' <=> stepped \/ (sunSince # {} /\ skew # 0))
      BY <1>4, Zenon DEF ClockSynced
    <2>3. ClockTyped' /\ SunTyped'
      BY <2>1, <2>2 DEF SunInv, ClockTyped, SunTyped
    <2>4. TimerHonest'
      <3>1. CASE stepped'
        BY <3>1 DEF TimerHonest
      <3>2. CASE ~stepped'
        <4>1. ~stepped /\ (sunSince = {} \/ skew = 0)
          BY <2>2, <3>2
        <4>2. \A q \in qualifySince : \E since \in sunSince : since + skew <= q
          BY <4>1 DEF SunInv, TimerHonest
        <4>3. qualifySince = {} \/ skew = 0
          BY <4>1, <4>2
        <4> QED BY <2>1, <4>2, <4>3 DEF TimerHonest
      <3> QED BY <3>1, <3>2
    <2> QED BY <2>1, <2>3, <2>4 DEF SunInv
  <1>5. CASE RtcChanges
    <2>1. UNCHANGED <<time, skew, candidate, phase, up, stepped, reactiveOn, qualifySince, sunSince>> /\ lag' \in Int
      BY <1>5 DEF RtcChanges, RtcStarts, RtcCopied, fanVars, wallVars, helperVars, SunInv, ClockTyped
    <2> QED BY <2>1 DEF SunInv, ClockTyped, SunTyped, TimerHonest
  <1>6. CASE SupervisorStarts
    <2>1. up' /\ up' \in BOOLEAN /\ phase = "done"
          /\ UNCHANGED <<time, skew, lag, candidate, phase, stepped, reactiveOn, qualifySince, sunSince>>
      BY <1>6 DEF SupervisorStarts, clockVars, wallVars, rtcVars, helperVars, fanVars
    <2> QED BY <2>1 DEF SunInv, ClockTyped, SunTyped, TimerHonest
  <1>7. CASE SupervisorRestarts
    <2>1. UNCHANGED <<time, skew, lag, candidate, phase, up>> /\ reactiveOn' = FALSE /\ qualifySince' = {}
          /\ sunSince' = {} /\ stepped' = FALSE
      BY <1>7 DEF SupervisorRestarts, clockVars, wallVars, rtcVars, helperVars
    <2> QED BY <2>1 DEF SunInv, ClockTyped, SunTyped, TimerHonest
  <1>8. CASE UNCHANGED sunVars
    BY <1>8 DEF SunInv, ClockTyped, SunTyped, TimerHonest, sunVars
  <1>9. ControlRelay \/ UNCHANGED loopVars => UNCHANGED sunVars
    BY DEF ControlRelay, loopVars, clockVars, wallVars, rtcVars, helperVars, fanVars, sunVars
  <1> QED BY <1>1, <1>2, <1>3, <1>4, <1>5, <1>6, <1>7, <1>8, <1>9 DEF LoopNext

(* The fan starts for the cold only after the whole qualifying time of high   *)
(* sun in true seconds, for any skew of the clock the loop runs with, unless  *)
(* the clock was stepped meanwhile (FanOnlyAfterSteadySun).                   *)
THEOREM SunIsSteady == LoopSpec => FanOnlyAfterSteadySun
  <1>1. LoopInit => SunInv
    <2> SUFFICES ASSUME LoopInit PROVE SunInv
      OBVIOUS
    <2>1. ClockTyped
      <3>1. ClockInit
        BY DEF LoopInit
      <3>2. skew \in PersistedSkews /\ (lag \in Lags \/ lag = 0)
        BY <3>1, Zenon DEF ClockInit
      <3>3. skew \in Int /\ lag \in Int
        <4>1. PersistedSkews \subseteq Int /\ Lags \subseteq Nat
          BY ClockAssumption, Zenon DEF ClockAssumption
        <4>2. skew \in Int
          BY <3>2, <4>1, Zenon
        <4>3. lag \in Lags => lag \in Nat
          BY <4>1, Zenon
        <4>4. lag \in Nat
          BY <3>2, <4>3
        <4> QED BY <4>2, <4>4
      <3>4. time = 0 /\ candidate = NoSample
        BY <3>1 DEF ClockInit
      <3> QED BY <3>3, <3>4 DEF ClockTyped, NoSample
    <2> QED BY <2>1 DEF LoopInit, SunInv, SunTyped, TimerHonest
  <1>2. SunInv /\ [LoopNext]_loopVars => SunInv'
    BY StepKeepsSun
  <1>3. SunInv /\ [LoopNext]_loopVars
          => [~reactiveOn /\ reactiveOn' => stepped \/ \E since \in sunSince : time - since >= Qualify]_loopVars
    BY StepKeepsSun
  <1> QED BY <1>1, <1>2, <1>3, PTL DEF LoopSpec, FanOnlyAfterSteadySun

-----------------------------------------------------------------------------
(* The boot helper.  The lag the board had at first is the bound of all later *)
(* offsets between its clock and true time, and stays hidden in the invariant *)
(* under a quantifier.                                                        *)

Working == phase \in {"recheck", "measure", "set"}

HelperTyped ==
  /\ time \in Nat /\ skew \in Int /\ skew <= 0 /\ lag \in Nat
  /\ rtcRuns \in BOOLEAN
  /\ phase \in {"ntp", "marker", "read", "recheck", "measure", "set", "done"}
  /\ deadline \in Nat /\ wakeAt \in Nat
  /\ misread \subseteq Nat /\ jumps \subseteq Nat
  /\ \A p \in previous : p = [rtc |-> p.rtc, at |-> p.at] /\ p.rtc \in Int /\ p.at \in Nat
  /\ candidate.rtc \in Int /\ candidate.at \in Nat

(* When each phase is: the helper is over within its horizon. *)
PhaseTimes ==
  /\ phase = "ntp" => time <= wakeAt /\ wakeAt <= NtpWait /\ deadline = NtpWait
                      /\ previous = {} /\ misread = {}
  /\ phase # "ntp" /\ phase # "done" =>
       /\ NtpWait <= time /\ deadline = NtpWait + ClassicWait /\ wakeAt <= deadline
  /\ phase = "marker" => time <= wakeAt
  /\ phase = "read" => wakeAt <= time
  /\ phase = "read" \/ Working => time <= wakeAt + ReadTimeout
  /\ phase # "done" => \A p \in previous : p.at < wakeAt /\ NtpWait <= p.at
  /\ phase \in {"marker", "read"} => \A m \in misread : m < wakeAt
  /\ \A j \in jumps : j <= time

(* How far the board is behind, if it was l behind when power came on. *)
LagBounded(l) ==
  /\ l \in Nat /\ (l = 0 \/ l \in Lags)
  /\ phase # "done" => lag <= l + Horizon
  /\ ~rtcRuns => lag = l /\ l \in Lags /\ jumps = {}

(* A sample that was read right shows a clock of this boot; one that was      *)
(* misread shows none that any right sample could continue.                   *)
RightOffset(l, offset) == offset <= 0 /\ -offset <= l + Horizon
WrongOffset(l, offset) == offset > Tolerance \/ -offset > Tolerance + l + Horizon

(* Of a sample read right: the board has counted, and its clock did not jump, *)
(* since; or it stood still then and does so now; or the sample shows it too  *)
(* far behind to be continued by the clock as the MNGP has set it.            *)
SinceSample(p) ==
  \/ /\ rtcRuns /\ \A j \in jumps : j <= p.at
     /\ lag > Tolerance => p.at - p.rtc > Tolerance
  \/ ~rtcRuns /\ p.rtc = -lag
  \/ rtcRuns /\ lag = 0 /\ p.at - p.rtc > Tolerance

SampleSound(l, p) ==
  IF p.at \in misread THEN WrongOffset(l, p.rtc - p.at)
  ELSE RightOffset(l, p.rtc - p.at) /\ SinceSample(p)

(* The sample the clock is to be set to. *)
CandidateSteady ==
  /\ candidate.at \notin misread /\ rtcRuns
  /\ candidate.rtc <= candidate.at /\ candidate.at <= time
  /\ \A j \in jumps : j < candidate.at => candidate.at - j >= Confirm

HelperInv(l) ==
  /\ HelperTyped /\ PhaseTimes /\ LagBounded(l)
  /\ phase # "done" => \A p \in previous : SampleSound(l, p)
  /\ Working => CandidateSteady

LEMMA ClockNumbers ==
  /\ NtpWait \in Nat /\ ClassicWait \in Nat /\ Confirm \in Nat /\ Tolerance \in Nat
  /\ MaxStep \in Nat /\ ReadTimeout \in Nat /\ MaxTime \in Nat
  /\ 0 < Confirm
  /\ Horizon \in Nat /\ Horizon = NtpWait + ClassicWait + ReadTimeout
  BY ClockAssumption DEF ClockAssumption, Horizon

LEMMA InitKeepsHelper == ClockInit => \E l \in Lags \union {0} : HelperInv(l)
  <1> SUFFICES ASSUME ClockInit PROVE HelperInv(lag) /\ lag \in Lags \union {0}
    OBVIOUS
  <1>1. /\ time = 0 /\ skew \in PersistedSkews /\ rtcRuns \in BOOLEAN
        /\ lag \in Lags \/ (rtcRuns /\ lag = 0)
        /\ phase = "ntp" /\ deadline = NtpWait /\ wakeAt = 0
        /\ previous = {} /\ candidate = NoSample /\ jumps = {} /\ misread = {}
    BY DEF ClockInit
  <1>2. skew \in Int /\ skew <= 0
    BY <1>1, ClockAssumption, SurroundingsAssumption DEF ClockAssumption, SurroundingsAssumption
  <1>3. lag \in Nat /\ lag \in Lags \union {0}
    <2>1. Lags \subseteq Nat
      BY ClockAssumption, Zenon DEF ClockAssumption
    <2>2. lag \in Lags \/ lag = 0
      BY <1>1, Zenon
    <2>3. lag \in Lags \union {0}
      BY <2>2, Zenon
    <2>4. CASE lag \in Lags
      BY <2>1, <2>4, Zenon
    <2>5. CASE lag = 0
      BY <2>5
    <2> QED BY <2>2, <2>3, <2>4, <2>5
  <1>4. HelperTyped
    BY <1>1, <1>2, <1>3, ClockNumbers DEF HelperTyped, NoSample
  <1>5. PhaseTimes
    BY <1>1, ClockNumbers DEF PhaseTimes, Working
  <1>6. LagBounded(lag)
    BY <1>1, <1>3, ClockNumbers DEF LagBounded
  <1> QED BY <1>1, <1>3, <1>4, <1>5, <1>6 DEF HelperInv, Working

(* A right sample and a wrong one never continue each other. *)
LEMMA WrongNeverContinues ==
  ASSUME NEW l \in Nat, NEW old, NEW new,
         old.rtc \in Int, old.at \in Nat, new.rtc \in Int, new.at \in Nat,
         \/ WrongOffset(l, old.rtc - old.at) /\ RightOffset(l, new.rtc - new.at)
         \/ RightOffset(l, old.rtc - old.at) /\ WrongOffset(l, new.rtc - new.at)
  PROVE  ~Continuous(old, new)
  BY ClockNumbers DEF WrongOffset, RightOffset, Continuous

(* What the board shows is right, ... *)
LEMMA ShownIsRight ==
  ASSUME NEW l, HelperInv(l), phase = "read"
  PROVE  Shown \in Int /\ RightOffset(l, Shown - time) /\ time \notin misread
  <1>1. time \in Nat /\ lag \in Nat /\ l \in Nat /\ lag <= l + Horizon /\ (~rtcRuns => lag = l)
    BY DEF HelperInv, HelperTyped, LagBounded
  <1>2. time <= Horizon /\ wakeAt <= time /\ \A m \in misread : m < wakeAt
    BY ClockNumbers DEF HelperInv, HelperTyped, PhaseTimes
  <1>3. time \notin misread
    BY <1>1, <1>2 DEF HelperInv, HelperTyped
  <1>4. CASE rtcRuns
    BY <1>1, <1>3, <1>4, ClockNumbers DEF Shown, RightOffset
  <1>5. CASE ~rtcRuns
    BY <1>1, <1>2, <1>3, <1>5, ClockNumbers DEF Shown, RightOffset
  <1> QED BY <1>4, <1>5

(* ... a wrong read is wrong. *)
LEMMA MisreadIsWrong ==
  ASSUME NEW l, HelperInv(l), phase = "read", NEW e \in Misreads
  PROVE  Shown \in Int /\ e \in Int /\ WrongOffset(l, Shown + e - time)
  <1>1. Shown \in Int /\ RightOffset(l, Shown - time)
    BY ShownIsRight
  <1>2. e \in Int /\ (e > Tolerance + l + Horizon \/ -e > Tolerance + l + Horizon)
    <2>1. l \in Lags \union {0}
      BY DEF HelperInv, LagBounded
    <2>2. Misreads \subseteq Int
      BY ClockAssumption, Zenon DEF ClockAssumption
    <2> QED BY <2>1, <2>2, SurroundingsAssumption, Zenon DEF SurroundingsAssumption
  <1>3. time \in Nat /\ l \in Nat
    BY DEF HelperInv, HelperTyped, LagBounded
  <1> QED BY <1>1, <1>2, <1>3, ClockNumbers DEF RightOffset, WrongOffset

(* Two samples that continue each other at a distance show a steady clock.    *)
LEMMA ConfirmedIsSteady ==
  ASSUME NEW l, HelperInv(l), phase = "read", NEW p \in previous,
         NEW new, new = [rtc |-> Shown, at |-> time],
         new.at - p.at >= Confirm, Continuous(p, new)
  PROVE  /\ new.at \notin misread /\ rtcRuns /\ new.rtc <= new.at
         /\ \A j \in jumps : j < new.at => new.at - j >= Confirm
  <1>1. /\ Shown \in Int /\ RightOffset(l, new.rtc - new.at) /\ time \notin misread
        /\ time \in Nat /\ l \in Nat /\ p.rtc \in Int /\ p.at \in Nat /\ lag \in Nat
        /\ jumps \subseteq Nat
    BY ShownIsRight DEF HelperInv, HelperTyped, LagBounded
  <1>2. SampleSound(l, p)
    BY DEF HelperInv
  <1>3. ~WrongOffset(l, p.rtc - p.at)
    BY <1>1, WrongNeverContinues
  <1>4. SinceSample(p)
    BY <1>2, <1>3 DEF SampleSound
  <1>5. new.rtc > p.rtc /\ (new.rtc - p.rtc) - (new.at - p.at) \in -Tolerance .. Tolerance
    BY DEF Continuous
  <1>6. rtcRuns /\ \A j \in jumps : j <= p.at
    <2>1. CASE ~rtcRuns /\ p.rtc = -lag
      BY <1>1, <1>5, <2>1 DEF Shown
    <2>2. CASE rtcRuns /\ lag = 0 /\ p.at - p.rtc > Tolerance
      BY <1>1, <1>5, <2>2, ClockNumbers DEF Shown
    <2> QED BY <1>4, <2>1, <2>2 DEF SinceSample
  <1> QED BY <1>1, <1>6, ClockNumbers DEF RightOffset

LEMMA EndsKeepsHelper ==
  ASSUME NEW l, HelperInv(l), Ends, UNCHANGED <<time, rtcRuns, lag, jumps>>,
         misread' \subseteq Nat, skew' \in Int, skew' <= 0
  PROVE  HelperInv(l)'
  <1>1. phase' = "done" /\ deadline' = 0 /\ wakeAt' = 0 /\ previous' = {} /\ candidate' = NoSample
    BY DEF Ends
  <1>2. HelperTyped'
    BY <1>1 DEF HelperInv, HelperTyped, NoSample
  <1>3. PhaseTimes'
    BY <1>1 DEF HelperInv, PhaseTimes, Working
  <1>4. LagBounded(l)'
    BY <1>1 DEF HelperInv, LagBounded
  <1> QED BY <1>1, <1>2, <1>3, <1>4 DEF HelperInv, Working

(* The helper goes round with sound samples. *)
LEMMA RetryKeepsHelper ==
  ASSUME NEW l, HelperInv(l), phase = "read", NEW kept, Retry(kept),
         UNCHANGED <<time, skew, rtcRuns, lag, jumps>>,
         misread' \subseteq Nat, \A m \in misread' : m <= time,
         \A p \in kept : /\ p = [rtc |-> p.rtc, at |-> p.at] /\ p.rtc \in Int /\ p.at \in Nat
                         /\ p.at <= time /\ NtpWait <= p.at /\ SampleSound(l, p)'
  PROVE  HelperInv(l)'
  <1>1. CASE Ends
    BY <1>1, EndsKeepsHelper DEF HelperInv, HelperTyped
  <1>2. CASE /\ time < deadline /\ phase' = "marker" /\ wakeAt' = time + 1
             /\ previous' = kept /\ UNCHANGED <<deadline, candidate>>
    <2>1. HelperTyped'
      BY <1>2 DEF HelperInv, HelperTyped
    <2>2. PhaseTimes'
      BY <1>2, ClockNumbers DEF HelperInv, HelperTyped, PhaseTimes, Working
    <2>3. LagBounded(l)'
      BY <1>2 DEF HelperInv, LagBounded
    <2> QED BY <1>2, <2>1, <2>2, <2>3 DEF HelperInv, Working
  <1> QED BY <1>1, <1>2 DEF Retry, SleepsIn

(* A right reading confirms the sample before, or is kept with it. *)
LEMMA AnswerKeepsHelper ==
  ASSUME NEW l, HelperInv(l), ReadAnswers
  PROVE  HelperInv(l)'
  <1>0. PICK new : new = [rtc |-> Shown, at |-> time]
    OBVIOUS
  <1>1. /\ phase = "read" /\ Takes(new)
        /\ UNCHANGED <<time, skew, rtcRuns, lag, jumps, misread, synced>>
    BY <1>0 DEF ReadAnswers, wallVars, rtcVars
  <1>2. /\ Shown \in Int /\ RightOffset(l, Shown - time) /\ time \notin misread
        /\ time \in Nat /\ l \in Nat
    BY <1>1, ShownIsRight DEF HelperInv, HelperTyped, LagBounded
  <1>3. new.rtc = Shown /\ new.at = time /\ new = [rtc |-> new.rtc, at |-> new.at]
    BY <1>0
  <1>4. CASE Confirms(new) /\ phase' = "recheck" /\ candidate' = new /\ UNCHANGED <<deadline, wakeAt, previous>>
    <2>1. PICK p \in previous : new.at - p.at >= Confirm /\ Continuous(p, new)
      BY <1>4 DEF Confirms
    <2>2. /\ new.at \notin misread /\ rtcRuns /\ new.rtc <= new.at
          /\ \A j \in jumps : j < new.at => new.at - j >= Confirm
      BY <1>0, <1>1, <2>1, ConfirmedIsSteady
    <2>3. CandidateSteady'
      BY <1>1, <1>2, <1>3, <1>4, <2>2 DEF CandidateSteady
    <2>4. HelperTyped'
      BY <1>1, <1>2, <1>3, <1>4 DEF HelperInv, HelperTyped
    <2>5. PhaseTimes'
      BY <1>1, <1>2, <1>4 DEF HelperInv, HelperTyped, PhaseTimes, Working
    <2>6. LagBounded(l)'
      BY <1>1, <1>4 DEF HelperInv, LagBounded
    <2>7. \A q \in previous' : SampleSound(l, q)'
      BY <1>1, <1>4 DEF HelperInv, SampleSound, SinceSample
    <2> QED BY <1>4, <2>3, <2>4, <2>5, <2>6, <2>7 DEF HelperInv
  <1>5. CASE Retry(Kept(new))
    <2>1. SampleSound(l, new)'
      <3>1. SinceSample(new)'
        <4>1. lag \in Nat /\ rtcRuns \in BOOLEAN /\ \A j \in jumps : j <= time
          BY DEF HelperInv, HelperTyped, PhaseTimes
        <4>2. CASE rtcRuns
          BY <1>1, <1>2, <1>3, <4>1, <4>2, ClockNumbers DEF SinceSample, Shown
        <4>3. CASE ~rtcRuns
          BY <1>1, <1>3, <4>3 DEF SinceSample, Shown
        <4> QED BY <4>1, <4>2, <4>3
      <3> QED BY <1>1, <1>2, <1>3, <3>1 DEF SampleSound
    <2>2. NtpWait <= time /\ wakeAt <= time /\ wakeAt \in Nat /\ \A m \in misread : m <= time
      BY <1>1, <1>2 DEF HelperInv, HelperTyped, PhaseTimes
    <2>3. \A p \in previous : /\ p = [rtc |-> p.rtc, at |-> p.at] /\ p.rtc \in Int /\ p.at \in Nat
                              /\ p.at <= time /\ NtpWait <= p.at /\ SampleSound(l, p)'
      BY <1>1, <2>2, ClockNumbers DEF HelperInv, HelperTyped, PhaseTimes, SampleSound, SinceSample
    <2>4. \A p \in Kept(new) : p \in previous \/ p = new
      BY DEF Kept
    <2>5. \A p \in Kept(new) : /\ p = [rtc |-> p.rtc, at |-> p.at] /\ p.rtc \in Int /\ p.at \in Nat
                               /\ p.at <= time /\ NtpWait <= p.at /\ SampleSound(l, p)'
      BY <1>2, <1>3, <2>1, <2>2, <2>3, <2>4
    <2>6. misread' \subseteq Nat /\ \A m \in misread' : m <= time
      BY <1>1, <2>2 DEF HelperInv, HelperTyped
    <2> QED BY <1>1, <1>5, <2>5, <2>6, RetryKeepsHelper
  <1> QED BY <1>1, <1>4, <1>5 DEF Takes

(* A wrong reading confirms nothing. *)
LEMMA MisreadKeepsHelper ==
  ASSUME NEW l, HelperInv(l), ReadMisreads
  PROVE  HelperInv(l)'
  <1>1. PICK e \in Misreads : Takes([rtc |-> Shown + e, at |-> time])
    BY DEF ReadMisreads
  <1>0. PICK new : new = [rtc |-> Shown + e, at |-> time]
    OBVIOUS
  <1>2. /\ phase = "read" /\ Takes(new) /\ misread = {} /\ misread' = {time}
        /\ UNCHANGED <<time, skew, rtcRuns, lag, jumps, synced>>
    BY <1>0, <1>1 DEF ReadMisreads, wallVars
  <1>3. /\ Shown \in Int /\ e \in Int /\ WrongOffset(l, Shown + e - time)
        /\ time \in Nat /\ l \in Nat
    BY <1>2, MisreadIsWrong DEF HelperInv, HelperTyped, LagBounded
  <1>4. new.rtc = Shown + e /\ new.at = time /\ new = [rtc |-> new.rtc, at |-> new.at]
    BY <1>0
  <1>5. \A p \in previous : p.rtc \in Int /\ p.at \in Nat /\ RightOffset(l, p.rtc - p.at)
                            /\ SinceSample(p) /\ p.at < wakeAt
    BY <1>2 DEF HelperInv, HelperTyped, PhaseTimes, SampleSound
  <1>6. \A p \in previous : ~Continuous(p, new)
    <2>1. new.rtc \in Int /\ new.at \in Nat /\ WrongOffset(l, new.rtc - new.at) /\ l \in Nat
      BY <1>3, <1>4, ClockNumbers DEF WrongOffset
    <2> QED BY <1>5, <2>1, WrongNeverContinues
  <1>7. Retry(Kept(new)) /\ Kept(new) = {new}
    BY <1>2, <1>6 DEF Takes, Confirms, Kept
  <1>8. NtpWait <= time
    BY <1>2 DEF HelperInv, PhaseTimes
  <1>9. SampleSound(l, new)'
    <2>1. WrongOffset(l, new.rtc - new.at) /\ new.at \in {time}
      BY <1>3, <1>4, ClockNumbers DEF WrongOffset
    <2> QED BY <1>2, <2>1, Zenon DEF SampleSound, WrongOffset, Horizon
  <1>10. \A p \in Kept(new) : /\ p = [rtc |-> p.rtc, at |-> p.at] /\ p.rtc \in Int /\ p.at \in Nat
                              /\ p.at <= time /\ NtpWait <= p.at /\ SampleSound(l, p)'
    BY <1>3, <1>4, <1>7, <1>8, <1>9
  <1>11. misread' \subseteq Nat /\ \A m \in misread' : m <= time
    BY <1>2, <1>3
  <1> QED BY <1>2, <1>7, <1>10, <1>11, RetryKeepsHelper

(* The steps of the helper that read nothing. *)
LEMMA WorkKeepsHelper ==
  ASSUME NEW l, HelperInv(l), CheckNtp \/ CheckMarker \/ ReadFails \/ Recheck \/ Measure \/ SetClock
  PROVE  HelperInv(l)'
  <1>1. misread \subseteq Nat /\ skew \in Int /\ skew <= 0
    BY DEF HelperInv, HelperTyped
  <1>2. ASSUME phase' \in {"ntp", "marker", "read", "recheck", "measure", "set"},
               Working' => Working, HelperTyped', PhaseTimes',
               UNCHANGED <<time, rtcRuns, lag, jumps, misread, previous, candidate>>,
               phase # "done"
        PROVE  HelperInv(l)'
    <2>1. LagBounded(l)'
      BY <1>2 DEF HelperInv, LagBounded
    <2>2. \A p \in previous' : SampleSound(l, p)'
      BY <1>2 DEF HelperInv, SampleSound, SinceSample
    <2>3. Working' => CandidateSteady'
      BY <1>2 DEF HelperInv, CandidateSteady
    <2> QED BY <1>2, <2>1, <2>2, <2>3 DEF HelperInv
  <1>3. CASE CheckNtp
    <2>1. phase = "ntp" /\ time >= wakeAt /\ UNCHANGED <<time, skew, rtcRuns, lag, jumps, misread>>
      BY <1>3 DEF CheckNtp, wallVars, rtcVars
    <2>2. CASE Ends
      BY <1>1, <2>1, <2>2, EndsKeepsHelper
    <2>3. CASE /\ time >= deadline /\ phase' = "marker" /\ deadline' = time + ClassicWait
               /\ UNCHANGED <<wakeAt, previous, candidate>>
      <3>1. HelperTyped'
        BY <2>1, <2>3, ClockNumbers DEF HelperInv, HelperTyped
      <3>2. PhaseTimes'
        BY <2>1, <2>3, ClockNumbers DEF HelperInv, HelperTyped, PhaseTimes, Working
      <3> QED BY <1>2, <2>1, <2>3, <3>1, <3>2 DEF Working
    <2>4. CASE /\ time < deadline /\ phase' = "ntp" /\ wakeAt' = time + 1
               /\ UNCHANGED <<deadline, previous, candidate>>
      <3>1. HelperTyped'
        BY <2>1, <2>4, ClockNumbers DEF HelperInv, HelperTyped
      <3>2. PhaseTimes'
        BY <2>1, <2>4, ClockNumbers DEF HelperInv, HelperTyped, PhaseTimes, Working
      <3> QED BY <1>2, <2>1, <2>4, <3>1, <3>2 DEF Working
    <2> QED BY <1>3, <2>2, <2>3, <2>4 DEF CheckNtp, SleepsIn
  <1>4. CASE CheckMarker
    <2>1. phase = "marker" /\ time >= wakeAt /\ UNCHANGED <<time, skew, rtcRuns, lag, jumps, misread>>
      BY <1>4 DEF CheckMarker, wallVars, rtcVars
    <2>2. CASE Ends
      BY <1>1, <2>1, <2>2, EndsKeepsHelper
    <2>3. CASE phase' = "read" /\ UNCHANGED <<deadline, wakeAt, previous, candidate>>
      <3>1. HelperTyped'
        BY <2>1, <2>3 DEF HelperInv, HelperTyped
      <3>2. PhaseTimes'
        BY <2>1, <2>3, ClockNumbers DEF HelperInv, HelperTyped, PhaseTimes, Working
      <3> QED BY <1>2, <2>1, <2>3, <3>1, <3>2 DEF Working
    <2> QED BY <1>4, <2>2, <2>3 DEF CheckMarker
  <1>5. CASE ReadFails
    <2>1. phase = "read" /\ Retry({}) /\ UNCHANGED <<time, skew, rtcRuns, lag, jumps, misread>>
      BY <1>5 DEF ReadFails, wallVars, rtcVars
    <2>2. misread' \subseteq Nat /\ \A m \in misread' : m <= time
      BY <2>1, ClockNumbers DEF HelperInv, HelperTyped, PhaseTimes
    <2> QED BY <2>1, <2>2, RetryKeepsHelper
  <1>6. CASE Recheck
    <2>1. phase = "recheck" /\ UNCHANGED <<time, skew, rtcRuns, lag, jumps, misread>>
      BY <1>6 DEF Recheck, wallVars, rtcVars
    <2>2. CASE Ends
      BY <1>1, <2>1, <2>2, EndsKeepsHelper
    <2>3. CASE phase' = "measure" /\ UNCHANGED <<deadline, wakeAt, previous, candidate>>
      <3>1. HelperTyped'
        BY <2>1, <2>3 DEF HelperInv, HelperTyped
      <3>2. PhaseTimes'
        BY <2>1, <2>3, ClockNumbers DEF HelperInv, HelperTyped, PhaseTimes, Working
      <3> QED BY <1>2, <2>1, <2>3, <3>1, <3>2 DEF Working
    <2> QED BY <1>6, <2>2, <2>3 DEF Recheck
  <1>7. CASE Measure
    <2>1. phase = "measure" /\ UNCHANGED <<time, skew, rtcRuns, lag, jumps, misread>>
      BY <1>7 DEF Measure, wallVars, rtcVars
    <2>2. CASE Ends
      BY <1>1, <2>1, <2>2, EndsKeepsHelper
    <2>3. CASE phase' = "set" /\ UNCHANGED <<deadline, wakeAt, previous, candidate>>
      <3>1. HelperTyped'
        BY <2>1, <2>3 DEF HelperInv, HelperTyped
      <3>2. PhaseTimes'
        BY <2>1, <2>3, ClockNumbers DEF HelperInv, HelperTyped, PhaseTimes, Working
      <3> QED BY <1>2, <2>1, <2>3, <3>1, <3>2 DEF Working
    <2> QED BY <1>7, <2>2, <2>3, Zenon DEF Measure
  <1>8. CASE SetClock
    <2>1. /\ phase = "set" /\ skew' = candidate.rtc - time /\ Ends
          /\ UNCHANGED <<time, rtcRuns, lag, jumps, misread>>
      BY <1>8 DEF SetClock, rtcVars
    <2>2. candidate.rtc <= candidate.at /\ candidate.at <= time
      BY <2>1 DEF HelperInv, Working, CandidateSteady
    <2>3. skew' \in Int /\ skew' <= 0
      BY <2>1, <2>2 DEF HelperInv, HelperTyped
    <2> QED BY <1>1, <2>1, <2>3, EndsKeepsHelper
  <1> QED BY <1>3, <1>4, <1>5, <1>6, <1>7, <1>8

(* Time passes, the daemon sets the clock, the board starts to count or is    *)
(* set: what a sample read before is worth is settled here.                   *)
LEMMA SurroundingsKeepHelper ==
  ASSUME NEW l, HelperInv(l), Surroundings
  PROVE  HelperInv(l)'
  <1>1. CASE Second
    <2>1. Waiting /\ time' = time + 1
          /\ UNCHANGED <<skew, rtcRuns, lag, jumps, misread, phase, deadline, wakeAt, previous, candidate>>
      BY <1>1 DEF Second, rtcVars, helperVars
    <2>2. HelperTyped'
      BY <2>1 DEF HelperInv, HelperTyped
    <2>3. PhaseTimes'
      BY <2>1, ClockNumbers DEF HelperInv, HelperTyped, PhaseTimes, Working, Waiting
    <2>4. LagBounded(l)'
      BY <2>1 DEF HelperInv, LagBounded
    <2>5. phase' # "done" => \A p \in previous' : SampleSound(l, p)'
      BY <2>1 DEF HelperInv, SampleSound, SinceSample
    <2>6. Working' => CandidateSteady'
      BY <2>1 DEF HelperInv, HelperTyped, Working, CandidateSteady
    <2> QED BY <2>2, <2>3, <2>4, <2>5, <2>6 DEF HelperInv
  <1>2. CASE NtpSyncs
    <2>1. skew' = 0
          /\ UNCHANGED <<time, rtcRuns, lag, jumps, misread, phase, deadline, wakeAt, previous, candidate>>
      BY <1>2 DEF NtpSyncs, rtcVars, helperVars
    <2>2. HelperTyped'
      BY <2>1 DEF HelperInv, HelperTyped
    <2>3. PhaseTimes'
      BY <2>1 DEF HelperInv, PhaseTimes, Working
    <2>4. LagBounded(l)'
      BY <2>1 DEF HelperInv, LagBounded
    <2>5. phase' # "done" => \A p \in previous' : SampleSound(l, p)'
      BY <2>1 DEF HelperInv, SampleSound, SinceSample
    <2>6. Working' => CandidateSteady'
      BY <2>1 DEF HelperInv, Working, CandidateSteady
    <2> QED BY <2>2, <2>3, <2>4, <2>5, <2>6 DEF HelperInv
  <1>3. CASE RtcStarts
    <2>1. /\ ~rtcRuns /\ phase # "done" /\ rtcRuns' = TRUE /\ lag' = lag + time
          /\ UNCHANGED <<time, skew, jumps, misread, phase, deadline, wakeAt, previous, candidate>>
      BY <1>3 DEF RtcStarts, wallVars, helperVars
    <2>2. /\ lag \in Nat /\ time \in Nat /\ lag = l /\ l \in Lags /\ jumps = {}
          /\ l + NtpWait > Tolerance
      BY <2>1, SurroundingsAssumption DEF HelperInv, HelperTyped, LagBounded, SurroundingsAssumption
    <2>3. HelperTyped'
      BY <2>1, <2>2 DEF HelperInv, HelperTyped
    <2>4. PhaseTimes'
      BY <2>1 DEF HelperInv, PhaseTimes, Working
    <2>5. time <= Horizon
      BY <2>1, ClockNumbers DEF HelperInv, HelperTyped, PhaseTimes, Working
    <2>6. LagBounded(l)'
      BY <2>1, <2>2, <2>5, ClockNumbers DEF HelperInv, LagBounded
    <2>7. ASSUME NEW p \in previous PROVE SampleSound(l, p)'
      <3>1. p.rtc \in Int /\ p.at \in Nat /\ NtpWait <= p.at /\ SampleSound(l, p)
        BY <2>1, ClockNumbers DEF HelperInv, HelperTyped, PhaseTimes
      <3>2. CASE p.at \in misread
        BY <2>1, <3>1, <3>2 DEF SampleSound, WrongOffset
      <3>3. CASE p.at \notin misread
        <4>1. p.rtc = -lag /\ RightOffset(l, p.rtc - p.at)
          BY <2>1, <3>1, <3>3 DEF SampleSound, SinceSample
        <4>2. p.at - p.rtc > Tolerance
          BY <2>2, <3>1, <4>1, ClockNumbers
        <4>3. SinceSample(p)'
          BY <2>1, <2>2, <4>2 DEF SinceSample
        <4> QED BY <2>1, <3>3, <4>1, <4>3 DEF SampleSound, RightOffset
      <3> QED BY <3>2, <3>3
    <2>8. Working' => CandidateSteady'
      BY <2>1 DEF HelperInv, Working, CandidateSteady
    <2> QED BY <2>1, <2>3, <2>4, <2>6, <2>7, <2>8 DEF HelperInv
  <1>4. CASE RtcCopied
    <2>1. /\ rtcRuns /\ phase # "done" /\ lag # 0 /\ lag' = 0
          /\ UNCHANGED <<time, skew, rtcRuns, misread, phase, deadline, wakeAt, previous, candidate>>
      BY <1>4 DEF RtcCopied, wallVars, helperVars
    <2>2. jumps' = IF lag > Tolerance THEN jumps \union {time} ELSE jumps
      BY <1>4 DEF RtcCopied
    <2>3. time \in Nat /\ lag \in Nat /\ jumps \subseteq Nat /\ \A j \in jumps : j <= time
      BY DEF HelperInv, HelperTyped, PhaseTimes
    <2>4. jumps' \subseteq Nat /\ \A j \in jumps' : j \in jumps \/ j = time
      BY <2>2, <2>3
    <2>5. HelperTyped'
      BY <2>1, <2>4 DEF HelperInv, HelperTyped
    <2>6. PhaseTimes'
      BY <2>1, <2>3, <2>4 DEF HelperInv, PhaseTimes, Working
    <2>7. LagBounded(l)'
      BY <2>1, ClockNumbers DEF HelperInv, LagBounded
    <2>8. ASSUME NEW p \in previous PROVE SampleSound(l, p)'
      <3>1. p.rtc \in Int /\ p.at \in Nat /\ SampleSound(l, p)
        BY <2>1 DEF HelperInv, HelperTyped
      <3>2. CASE p.at \in misread
        BY <2>1, <3>1, <3>2 DEF SampleSound, WrongOffset
      <3>3. CASE p.at \notin misread
        <4>1. SinceSample(p) /\ RightOffset(l, p.rtc - p.at)
          BY <3>1, <3>3 DEF SampleSound
        <4>2. ASSUME lag > Tolerance PROVE SinceSample(p)'
          BY <2>1, <4>1, <4>2 DEF SinceSample
        <4>3. ASSUME ~(lag > Tolerance) PROVE SinceSample(p)'
          BY <2>1, <2>2, <4>1, <4>3, ClockNumbers DEF SinceSample
        <4>4. SinceSample(p)'
          BY <4>2, <4>3
        <4> QED BY <2>1, <3>3, <4>1, <4>4 DEF SampleSound, RightOffset
      <3> QED BY <3>2, <3>3
    <2>9. Working' => CandidateSteady'
      <3>1. ASSUME Working PROVE CandidateSteady'
        BY <2>1, <2>3, <2>4, <3>1 DEF HelperInv, HelperTyped, CandidateSteady
      <3> QED BY <2>1, <3>1 DEF Working
    <2> QED BY <2>1, <2>5, <2>6, <2>7, <2>8, <2>9 DEF HelperInv
  <1> QED BY <1>1, <1>2, <1>3, <1>4 DEF Surroundings

LEMMA LoopMovesClock == [LoopNext]_loopVars => Helper \/ Surroundings \/ UNCHANGED clockVars
  BY DEF LoopNext, loopVars, HelperSteps, TimePasses, ClockSynced, RtcChanges, SupervisorStarts,
         Tick, ControlRelay, SupervisorRestarts, Surroundings

ClockInv == \E l \in Lags \union {0} : HelperInv(l)

LEMMA StepKeepsClock ==
  ASSUME ClockInv, [LoopNext]_loopVars
  PROVE  ClockInv'
  <1>1. PICK l \in Lags \union {0} : HelperInv(l)
    BY DEF ClockInv
  <1>2. HelperInv(l)'
    <2>1. CASE Helper
      BY <1>1, <2>1, WorkKeepsHelper, AnswerKeepsHelper, MisreadKeepsHelper DEF Helper
    <2>2. CASE Surroundings
      BY <1>1, <2>2, SurroundingsKeepHelper
    <2>3. CASE UNCHANGED clockVars
      <3>1. UNCHANGED <<time, skew, synced, rtcRuns, lag, jumps, misread,
                        phase, deadline, wakeAt, previous, candidate>>
        BY <2>3 DEF clockVars, wallVars, rtcVars, helperVars
      <3>2. HelperTyped' /\ PhaseTimes' /\ LagBounded(l)'
        BY <1>1, <3>1 DEF HelperInv, HelperTyped, PhaseTimes, LagBounded, Working
      <3>3. phase' # "done" => \A p \in previous' : SampleSound(l, p)'
        BY <1>1, <3>1 DEF HelperInv, SampleSound, SinceSample
      <3>4. Working' => CandidateSteady'
        BY <1>1, <3>1 DEF HelperInv, Working, CandidateSteady
      <3> QED BY <3>2, <3>3, <3>4 DEF HelperInv
    <2> QED BY <2>1, <2>2, <2>3, LoopMovesClock
  <1> QED BY <1>1, <1>2 DEF ClockInv

(* The helper sets the clock only to what a clock that counts has shown, no   *)
(* misread among it and no jump within the confirmation, for any waits,       *)
(* tolerance, lags and misreads that SurroundingsAssumption admits            *)
(* (StepsOnlyToSteadyClock).                                                  *)
THEOREM StepsAreSteady == LoopSpec => StepsOnlyToSteadyClock
  <1>1. LoopInit => ClockInv
    BY InitKeepsHelper DEF LoopInit, ClockInv
  <1>2. ClockInv /\ [LoopNext]_loopVars => ClockInv'
    BY StepKeepsClock
  <1>3. ClockInv /\ SetClock => /\ candidate.at \notin misread
                                /\ rtcRuns
                                /\ \A jump \in jumps : jump < candidate.at => candidate.at - jump >= Confirm
    BY DEF ClockInv, HelperInv, CandidateSteady, Working, SetClock
  <1>4. ClockInv /\ [LoopNext]_loopVars
          => [SetClock => /\ candidate.at \notin misread
                          /\ rtcRuns
                          /\ \A jump \in jumps : jump < candidate.at => candidate.at - jump >= Confirm]_clockVars
    BY <1>3
  <1> QED BY <1>1, <1>2, <1>4, PTL DEF LoopSpec, StepsOnlyToSteadyClock

-----------------------------------------------------------------------------
(* The totals.                                                                *)

(* The clock is never ahead of true time, so that under the running loop it   *)
(* is only set forward.  What is counted lies between the midnight of its day *)
(* and the last sample.                                                       *)
TotalsTyped ==
  /\ totals = [day |-> totals.day, lastAt |-> totals.lastAt, consumed |-> totals.consumed]
  /\ totals.day \subseteq Int /\ totals.lastAt \subseteq Int /\ totals.consumed \in Int
  /\ up \in BOOLEAN /\ time \in Int /\ skew \in Int

TotalsInv ==
  /\ TotalsTyped
  /\ up => phase = "done"
  /\ ~up => totals = NoTotals
  /\ \A at, other \in totals.lastAt : at = other
  /\ \A at \in totals.lastAt : at <= Wall
  /\ \A d \in totals.day : \E at \in totals.lastAt : totals.consumed <= at - d * Day

LEMMA DaysAndSeconds ==
  /\ Day \in Nat /\ Day > 0
  /\ \A w \in Int : /\ w \div Day \in Int /\ w % Day \in Nat
                    /\ w % Day = w - (w \div Day) * Day
  <1>1. Day \in Nat /\ Day > 0
    BY LoopAssumption DEF LoopAssumption
  <1>2. ASSUME NEW w \in Int
        PROVE  /\ w \div Day \in Int /\ w % Day \in Nat
               /\ w % Day = w - (w \div Day) * Day
    BY <1>1
  <1> QED BY <1>1, <1>2

LEMMA UpdateKeepsTotals ==
  ASSUME TotalsInv, NEW s, UpdateTotals(s), up, UNCHANGED <<time, skew, phase, up>>
  PROVE  TotalsInv'
  <1>1. Wall \in Int /\ Wall' = Wall /\ Today \in Int /\ Wall - Today * Day >= 0
    <2>1. Wall \in Int /\ Wall' = Wall
      BY DEF TotalsInv, TotalsTyped, Wall
    <2> QED BY <2>1, DaysAndSeconds DEF Today
  <1>2. /\ totals = [day |-> totals.day, lastAt |-> totals.lastAt, consumed |-> totals.consumed]
        /\ totals.day \subseteq Int /\ totals.lastAt \subseteq Int /\ totals.consumed \in Int
    BY DEF TotalsInv, TotalsTyped
  <1>3. ASSUME NEW day, day \subseteq Int, NEW consumed \in Int,
               totals' = [day |-> day, lastAt |-> {Wall}, consumed |-> consumed],
               \A d \in day : consumed <= Wall - d * Day
        PROVE  TotalsInv'
    <2>1. totals'.day = day /\ totals'.lastAt = {Wall} /\ totals'.consumed = consumed
      BY <1>3
    <2>2. TotalsTyped'
      BY <1>1, <1>3, <2>1 DEF TotalsInv, TotalsTyped
    <2>3. \A d \in totals'.day : \E at \in totals'.lastAt : totals'.consumed <= at - d * Day
      BY <1>3, <2>1
    <2>4. \A at, other \in totals'.lastAt : at = other
      BY <2>1
    <2>5. \A at \in totals'.lastAt : at <= Wall'
      BY <1>1, <2>1
    <2> QED BY <2>2, <2>3, <2>4, <2>5 DEF TotalsInv
  <1>4. \A d \in totals.day : totals.consumed <= Wall - d * Day
    BY <1>1, <1>2, DaysAndSeconds DEF TotalsInv
  <1>5. CASE ~s.load
    <2>1. totals' = [day |-> totals.day, lastAt |-> {Wall}, consumed |-> totals.consumed]
      BY <1>2, <1>5 DEF UpdateTotals
    <2> QED BY <1>2, <1>3, <1>4, <2>1
  <1>6. CASE s.load /\ totals.day = {Today}
    <2>1. PICK last \in totals.lastAt : totals.consumed <= last - Today * Day
      BY <1>6 DEF TotalsInv
    <2>2. last \in Int /\ last <= Wall /\ totals.lastAt = {last}
      BY <1>2 DEF TotalsInv
    <2>3. (CHOOSE at \in totals.lastAt : TRUE) = last
      BY <2>2
    <2>4. Elapsed(totals) = Wall - last
      BY <1>1, <2>2, <2>3 DEF Elapsed
    <2>5. totals' = [day |-> {Today}, lastAt |-> {Wall}, consumed |-> totals.consumed + Elapsed(totals)]
      BY <1>2, <1>6 DEF UpdateTotals, Rolled
    <2>6. totals.consumed + (Wall - last) \in Int /\ totals.consumed + (Wall - last) <= Wall - Today * Day
      BY <1>1, <1>2, <2>1, <2>2, DaysAndSeconds
    <2>7. PICK consumed \in Int : consumed = totals.consumed + (Wall - last)
      BY <2>6
    <2>8. totals' = [day |-> {Today}, lastAt |-> {Wall}, consumed |-> consumed]
      BY <2>4, <2>5, <2>7
    <2>9. {Today} \subseteq Int /\ \A d \in {Today} : consumed <= Wall - d * Day
      BY <1>1, <2>6, <2>7
    <2> QED BY <1>3, <2>8, <2>9
  <1>7. CASE s.load /\ totals.day # {Today}
    <2>1. Rolled = [day |-> {Today}, lastAt |-> {}, consumed |-> 0]
      BY <1>7 DEF Rolled, NoTotals
    <2>2. Elapsed(Rolled) = 0
      BY <2>1 DEF Elapsed
    <2>3. totals' = [day |-> {Today}, lastAt |-> {Wall}, consumed |-> 0 + 0]
      BY <1>7, <2>1, <2>2 DEF UpdateTotals
    <2>4. {Today} \subseteq Int /\ \A d \in {Today} : 0 <= Wall - d * Day
      BY <1>1
    <2> QED BY <1>3, <2>3, <2>4
  <1> QED BY <1>5, <1>6, <1>7

LEMMA StepKeepsTotals ==
  ASSUME ClockInv, TotalsInv, [LoopNext]_loopVars
  PROVE  TotalsInv'
  <1>1. skew <= 0 /\ time \in Nat /\ skew \in Int
    BY DEF ClockInv, HelperInv, HelperTyped
  <1>2. time' \in Int /\ skew' \in Int
    BY StepKeepsClock DEF ClockInv, HelperInv, HelperTyped
  <1>3. ASSUME UNCHANGED totals, up' \in BOOLEAN, up' => phase' = "done",
               ~up' => totals = NoTotals, totals # NoTotals => Wall' >= Wall
        PROVE  TotalsInv'
    <2>1. TotalsTyped'
      BY <1>2, <1>3 DEF TotalsInv, TotalsTyped
    <2>2. CASE totals = NoTotals
      BY <1>3, <2>1, <2>2 DEF TotalsInv, NoTotals
    <2>3. CASE totals # NoTotals
      <3>1. \A at \in totals'.lastAt : at <= Wall'
        BY <1>1, <1>2, <1>3, <2>3 DEF TotalsInv, TotalsTyped, Wall
      <3> QED BY <1>3, <2>1, <3>1 DEF TotalsInv
    <2> QED BY <2>2, <2>3
  <1>4. CASE HelperSteps
    <2>1. phase # "done" /\ UNCHANGED <<up, totals>>
      BY <1>4 DEF HelperSteps, loadVars, Helper, CheckNtp, CheckMarker, ReadFails, ReadAnswers, ReadMisreads,
                  Recheck, Measure, SetClock
    <2> QED BY <1>3, <2>1 DEF TotalsInv, TotalsTyped
  <1>5. CASE TimePasses
    <2>1. UNCHANGED <<skew, phase, up, totals>> /\ time' = time + 1
      BY <1>5 DEF TimePasses, Second, helperVars, loadVars
    <2> QED BY <1>1, <1>3, <2>1 DEF TotalsInv, TotalsTyped, Wall
  <1>6. CASE ClockSynced
    <2>1. UNCHANGED <<time, phase, up, totals>> /\ skew' = 0
      BY <1>6 DEF ClockSynced, NtpSyncs, helperVars, loadVars
    <2> QED BY <1>1, <1>3, <2>1 DEF TotalsInv, TotalsTyped, Wall
  <1>7. CASE RtcChanges \/ ControlRelay \/ UNCHANGED loopVars
    <2>1. UNCHANGED <<time, skew, phase, up, totals>>
      BY <1>7 DEF RtcChanges, RtcStarts, RtcCopied, ControlRelay, loopVars, clockVars, wallVars, helperVars,
                  loadVars
    <2> QED BY <1>1, <1>3, <2>1 DEF TotalsInv, TotalsTyped, Wall
  <1>8. CASE SupervisorStarts
    <2>1. phase = "done" /\ up' = TRUE /\ UNCHANGED <<time, skew, phase, totals>>
      BY <1>8 DEF SupervisorStarts, clockVars, wallVars, helperVars, loadVars
    <2> QED BY <1>1, <1>3, <2>1 DEF TotalsInv, TotalsTyped, Wall
  <1>9. CASE Tick
    <2>1. PICK s \in Snapshots : UpdateTotals(s)
      BY <1>9 DEF Tick
    <2>2. up /\ UNCHANGED <<time, skew, phase, up>>
      BY <1>9 DEF Tick, clockVars, wallVars, helperVars
    <2> QED BY <2>1, <2>2, UpdateKeepsTotals
  <1>10. CASE SupervisorRestarts
    <2>1. totals' = NoTotals /\ UNCHANGED <<time, skew, phase, up>>
      BY <1>10 DEF SupervisorRestarts, clockVars, wallVars, helperVars
    <2> QED BY <1>2, <2>1 DEF TotalsInv, TotalsTyped, NoTotals
  <1> QED BY <1>4, <1>5, <1>6, <1>7, <1>8, <1>9, <1>10 DEF LoopNext

(* What the totals of the day show was consumed since its midnight, for any   *)
(* times of ticks, gaps in the data and steps of the clock forward            *)
(* (TotalsWithinDay).                                                         *)
THEOREM TotalsOfTheDay == LoopSpec => []TotalsWithinDay
  <1>1. LoopInit => ClockInv
    BY InitKeepsHelper DEF LoopInit, ClockInv
  <1>2. LoopInit => TotalsInv
    <2> SUFFICES ASSUME LoopInit PROVE TotalsInv
      OBVIOUS
    <2>1. time \in Int /\ skew \in Int
      BY <1>1 DEF ClockInv, HelperInv, HelperTyped
    <2>2. totals = NoTotals /\ up = FALSE
      BY Zenon DEF LoopInit
    <2>3. totals.day = {} /\ totals.lastAt = {} /\ totals.consumed = 0
      BY <2>2 DEF NoTotals
    <2>4. totals = [day |-> totals.day, lastAt |-> totals.lastAt, consumed |-> totals.consumed]
      BY ONLY <2>2, <2>3 DEF NoTotals
    <2>5. TotalsTyped
      <3>1. totals.day \subseteq Int /\ totals.lastAt \subseteq Int /\ totals.consumed \in Int
        BY ONLY <2>3
      <3> QED BY ONLY Zenon, <2>1, <2>2, <2>4, <3>1 DEF TotalsTyped
    <2> QED BY <2>2, <2>3, <2>5 DEF TotalsInv
  <1>3. ClockInv /\ [LoopNext]_loopVars => ClockInv'
    BY StepKeepsClock
  <1>4. ClockInv /\ TotalsInv /\ [LoopNext]_loopVars => TotalsInv'
    BY StepKeepsTotals
  <1>5. TotalsInv => TotalsWithinDay
    <2> SUFFICES ASSUME TotalsInv, totals.day = {Today}
                 PROVE  totals.consumed <= SinceMidnight
      BY DEF TotalsWithinDay
    <2>1. Wall \in Int /\ Today \in Int /\ SinceMidnight = Wall - Today * Day
      BY DaysAndSeconds DEF TotalsInv, TotalsTyped, Wall, Today, SinceMidnight
    <2>2. PICK at \in totals.lastAt : totals.consumed <= at - Today * Day
      BY DEF TotalsInv
    <2>3. at \in Int /\ at <= Wall /\ totals.consumed \in Int
      BY DEF TotalsInv, TotalsTyped
    <2> QED BY <2>1, <2>2, <2>3, DaysAndSeconds
  <1> QED BY <1>1, <1>2, <1>3, <1>4, <1>5, PTL DEF LoopSpec
=============================================================================
