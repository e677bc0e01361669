----------------------------- MODULE Escalation -----------------------------
(***************************************************************************)
(* The scripts that watch the supervisor from outside, each run by a       *)
(* systemd timer: the watchdog, which reboots the computer when the buses  *)
(* are wedged, and two notifiers, one of any degradation and one of a BMS  *)
(* protection.  All they know is the answer of /api/v1/health; all they    *)
(* remember is in stamp files, of which the reboot clears those in /run.   *)
(*                                                                         *)
(* Time is counted in timer intervals and kept as the age of each stamp.   *)
(* An age saturates where the scripts stop telling ages apart.             *)
(***************************************************************************)
EXTENDS Integers, FiniteSets

CONSTANTS Transports,     \* the devices that count towards the quorum
          Quorum,         \* this many of them down is a wedged bus
          BlindAfter,     \* intervals a wedge must last before the reboot
          Cooldown,       \* intervals between two reboots
          DegradedAfter,  \* the degradation notifier's debounce
          MaxFaults       \* bound: power losses and steps of the clock

ASSUME EscalationAssumption ==
  /\ IsFiniteSet(Transports)
  /\ Quorum \in Nat \ {0}
  /\ BlindAfter \in Nat \ {0} /\ Cooldown \in Nat \ {0} /\ DegradedAfter \in Nat
  /\ MaxFaults \in Nat

Channels == {"degraded", "protection"}
Jobs == Channels \cup {"watchdog"}
Missing == -1   \* the age of a stamp file that is not there

VARIABLES serving, down, condition,      \* the health report
          armed,                         \* SUPERVISOR_WATCHDOG_ARMED
          due,                           \* timers that have yet to fire this interval
          firstBad, lastBoot, probe,     \* the watchdog's stamps
          since, alerted, ping,          \* a notifier's stamps; the ping it is sending
          channel, lost,                 \* the operator's view; a ping that went missing
          goodAge, bootAge, stepped,     \* history: the true ages, and a clock that was set
          faults

reportVars == <<serving, down, condition>>
watchdogVars == <<firstBad, lastBoot, probe>>
notifierVars == <<since, alerted, ping>>
vars == <<reportVars, armed, due, watchdogVars, notifierVars, channel, lost,
          goodAge, bootAge, stepped, faults>>

Older(age, limit) == IF age = Missing \/ age = limit THEN age ELSE age + 1
Aged(age) == IF age = Missing THEN 0 ELSE age   \* stamped by this run if it was not there

-----------------------------------------------------------------------------
(* What the endpoint answers, and what each script makes of it. *)

(* The report's conditions: an alarm, or anything else that warns; a protection,
   which is an ERROR as a controller's fault or the LAN is. *)
Conditions == {"none", "alarm", "protection"}

Status == IF condition = "protection" THEN "ERROR"
          ELSE IF condition = "alarm" \/ down # {} THEN "WARNING"
          ELSE "OK"

(* The scripts' curl -f takes the 503 of an ERROR for a failed request. *)
Answered == serving /\ Status # "ERROR"

Assess(job) ==
  CASE job = "watchdog" -> Answered /\ Cardinality(down) < Quorum
    [] job = "degraded" -> Answered /\ Status = "OK"
    [] job = "protection" -> Answered => condition # "protection"

Debounce(n) == IF n = "degraded" THEN DegradedAfter ELSE 0

-----------------------------------------------------------------------------
EscalationInit ==
  /\ armed \in BOOLEAN
  /\ serving = FALSE /\ down = {} /\ condition = "none"
  /\ due = {}
  /\ firstBad = Missing /\ lastBoot = Missing /\ probe = FALSE
  /\ since = [n \in Channels |-> Missing]
  /\ alerted = [n \in Channels |-> FALSE]
  /\ ping = [n \in Channels |-> "none"]
  /\ channel = [n \in Channels |-> "up"]
  /\ lost = [n \in Channels |-> FALSE]
  /\ goodAge = 0 /\ bootAge = Cooldown /\ stepped = FALSE
  /\ faults = 0

(* The report changes with the devices and with what they report, and goes
   while the supervisor restarts. *)
Reports ==
  /\ \/ serving' = ~serving /\ UNCHANGED <<down, condition>>
     \/ \E t \in Transports : down' \in {down \cup {t}, down \ {t}}
                              /\ UNCHANGED <<serving, condition>>
     \/ condition' \in Conditions /\ UNCHANGED <<serving, down>>
  /\ UNCHANGED <<armed, due, watchdogVars, notifierVars, channel, lost, goodAge, bootAge,
                 stepped, faults>>

(* An interval passes once every timer has fired. *)
Tick ==
  /\ due = {}
  /\ due' = Jobs
  /\ firstBad' = Older(firstBad, BlindAfter)
  /\ lastBoot' = Older(lastBoot, Cooldown)
  /\ since' = [n \in Channels |-> Older(since[n], Debounce(n))]
  /\ goodAge' = Older(goodAge, BlindAfter)
  /\ bootAge' = Older(bootAge, Cooldown)
  /\ UNCHANGED <<reportVars, armed, probe, alerted, ping, channel, lost, stepped, faults>>

(* The clock is set forward, by as much as the computer was off: every stamp
   written before it is suddenly old. *)
ClockSteps ==
  /\ faults < MaxFaults
  /\ faults' = faults + 1
  /\ stepped' = TRUE
  /\ firstBad' = IF firstBad = Missing THEN Missing ELSE BlindAfter
  /\ lastBoot' = IF lastBoot = Missing THEN Missing ELSE Cooldown
  /\ since' = [n \in Channels |-> IF since[n] = Missing THEN Missing ELSE Debounce(n)]
  /\ UNCHANGED <<reportVars, armed, due, probe, alerted, ping, channel, lost, goodAge, bootAge>>

(* A boot: /run is empty, nothing runs, and the buses may be well again or not.
   A ping that was being sent is cut off. *)
Boot ==
  /\ serving' = FALSE
  /\ \E still \in {{}, down} : down' = still
  /\ condition' = "none"
  /\ firstBad' = Missing
  /\ ping' = [n \in Channels |-> "none"]
  /\ lost' = [n \in Channels |-> lost[n] \/ ping[n] # "none"]
  /\ due' = {}
  /\ goodAge' = 0
  /\ UNCHANGED <<armed, since, alerted, channel>>

PowerLoss ==
  /\ faults < MaxFaults
  /\ faults' = faults + 1
  /\ Boot
  /\ UNCHANGED <<lastBoot, probe, bootAge, stepped>>

-----------------------------------------------------------------------------
(* A slip: the stamp of the first bad check outlives the recovery. *)
RecoversKeepingStamp ==
  /\ Assess("watchdog")
  /\ goodAge' = 0
  /\ probe' = FALSE
  /\ due' = due \ {"watchdog"}
  /\ UNCHANGED <<reportVars, armed, watchdogVars, notifierVars, channel, lost, bootAge, stepped, faults>>

(* The watchdog.  An armed reboot of an earlier boot is looked into first. *)
Recovers ==
  /\ Assess("watchdog")
  /\ firstBad' = Missing /\ goodAge' = 0
  /\ probe' = FALSE
  /\ due' = due \ {"watchdog"}
  /\ UNCHANGED <<reportVars, armed, lastBoot, notifierVars, channel, lost, bootAge, stepped, faults>>

InCooldown == armed /\ lastBoot \in 0 .. Cooldown - 1

(* A slip: a refused reboot counts as one, and the cooldown starts again. *)
WaitsRestamping ==
  /\ ~Assess("watchdog")
  /\ \/ Aged(firstBad) < BlindAfter
     \/ InCooldown
     \/ ~armed
  /\ firstBad' = Aged(firstBad)
  /\ lastBoot' = IF Aged(firstBad) = BlindAfter /\ InCooldown THEN 0 ELSE lastBoot
  /\ probe' = FALSE
  /\ due' = due \ {"watchdog"}
  /\ UNCHANGED <<reportVars, armed, notifierVars, channel, lost, goodAge, bootAge, stepped, faults>>

(* Not yet, not so soon after the last one, or not armed: no reboot. *)
Waits ==
  /\ ~Assess("watchdog")
  /\ \/ Aged(firstBad) < BlindAfter
     \/ InCooldown
     \/ ~armed
  /\ firstBad' = Aged(firstBad)
  /\ probe' = FALSE
  /\ due' = due \ {"watchdog"}
  /\ UNCHANGED <<reportVars, armed, lastBoot, notifierVars, channel, lost, goodAge, bootAge, stepped, faults>>

Reboots ==
  /\ ~Assess("watchdog")
  /\ Aged(firstBad) = BlindAfter /\ ~InCooldown /\ armed
  /\ lastBoot' = 0 /\ bootAge' = 0
  /\ probe' = TRUE
  /\ Boot
  /\ UNCHANGED <<stepped, faults>>

Watchdog == "watchdog" \in due /\ (Recovers \/ Waits \/ Reboots)

-----------------------------------------------------------------------------
(* A notifier pings only when the state it has marked changes. *)
Clears(n) ==
  /\ Assess(n)
  /\ since' = [since EXCEPT ![n] = Missing]
  /\ alerted' = [alerted EXCEPT ![n] = FALSE]
  /\ ping' = [ping EXCEPT ![n] = IF alerted[n] THEN "ok" ELSE "none"]

(* A slip: every bad check starts the debounce anew. *)
AlertsRestamping(n) ==
  /\ ~Assess(n)
  /\ since' = [since EXCEPT ![n] = 0]
  /\ IF alerted[n] \/ Aged(since[n]) < Debounce(n) \/ since[n] # Missing
       THEN UNCHANGED <<alerted, ping>>
       ELSE /\ alerted' = [alerted EXCEPT ![n] = TRUE]
            /\ ping' = [ping EXCEPT ![n] = "fail"]

Alerts(n) ==
  /\ ~Assess(n)
  /\ since' = [since EXCEPT ![n] = Aged(@)]
  /\ IF alerted[n] \/ Aged(since[n]) < Debounce(n)
       THEN UNCHANGED <<alerted, ping>>
       ELSE /\ alerted' = [alerted EXCEPT ![n] = TRUE]
            /\ ping' = [ping EXCEPT ![n] = "fail"]

Notifier(n) ==
  /\ n \in due /\ ping[n] = "none"
  /\ Clears(n) \/ Alerts(n)
  /\ due' = due \ {n}
  /\ UNCHANGED <<reportVars, armed, watchdogVars, channel, lost, goodAge, bootAge, stepped, faults>>

(* The ping arrives, or curl gives it up: the script ends either way. *)
Delivered(n) ==
  /\ channel' = [channel EXCEPT ![n] = IF ping[n] = "fail" THEN "down" ELSE "up"]
  /\ lost' = [lost EXCEPT ![n] = FALSE]

GivenUp(n) ==
  /\ lost' = [lost EXCEPT ![n] = TRUE]
  /\ UNCHANGED channel

PingEnds(n) ==
  /\ ping[n] # "none"
  /\ ping' = [ping EXCEPT ![n] = "none"]
  /\ Delivered(n) \/ GivenUp(n)
  /\ UNCHANGED <<reportVars, armed, due, watchdogVars, since, alerted, goodAge, bootAge, stepped, faults>>

EscalationNext ==
  \/ Reports
  \/ Tick
  \/ ClockSteps
  \/ PowerLoss
  \/ Watchdog
  \/ \E n \in Channels : Notifier(n) \/ PingEnds(n)

(* systemd fires every timer and the scripts end: curl gives up after its retries. *)
EscalationSpec ==
  /\ EscalationInit /\ [][EscalationNext]_vars
  /\ WF_vars(Tick) /\ WF_vars(Watchdog)
  /\ \A n \in Channels : WF_vars(Notifier(n)) /\ WF_vars(PingEnds(n))
-----------------------------------------------------------------------------
(* Only a reboot of the watchdog's own sets bootAge to 0. *)
Rebooting == bootAge' = 0 /\ bootAge # 0

(* The watchdog reboots only when every check since the last good one, for as
   long as the threshold, was bad, and not within the cooldown of its last
   reboot: the stamps of both survive or not as that needs.  A clock set
   forward is the exception, since it makes old stamps of fresh ones.
   [supervisor-watchdog.sh, FIRSTBAD and LASTBOOT] *)
RebootSustained ==
  [][Rebooting => stepped \/ (goodAge >= BlindAfter /\ bootAge >= Cooldown)]_vars

(* A wedge that stays is rebooted, and again after each cooldown: no refusal
   and no boot may put the next reboot off for ever.  [supervisor-watchdog.sh,
   the act path of an armed watchdog] *)
WedgeRebooted ==
  <>[](armed /\ ~Assess("watchdog")) => []<><<Rebooting>>_vars

(* A state that lasts is told, in both directions, or the ping of it is lost:
   the debounce may delay the alert but not starve it.  [the scripts' SINCE
   files] *)
ChannelFollowsHealth ==
  \A n \in Channels :
    /\ <>[]~Assess(n) => <>[](channel[n] = "down" \/ lost[n])
    /\ <>[]Assess(n) => <>[](channel[n] = "up" \/ lost[n])

(* A protection that stays flagged is reported on the channel made for it.
   "Report an active BMS *protection* (hardware cutoff engaged) to a dedicated,
   high-urgency Healthchecks.io check" [bms-protection-notify.sh, line 2] *)
ProtectionReported ==
  <>[](serving /\ condition = "protection") => <>(alerted["protection"])

(* The watchdog reboots a served report only if enough transports are down in
   it.  "So: when MULTIPLE independent transports are down at once (a
   system/bus wedge, not one dead sensor) and stay down past a sustained
   window, reboot." [supervisor-watchdog.sh, lines 13 to 15] *)
RebootNeedsQuorum ==
  [][Rebooting => ~serving \/ Cardinality(down) >= Quorum]_vars
=============================================================================
