---------------------------- MODULE ClockRestore ----------------------------
(* The boot helper that restores the Pi's clock from the MidNite Classic     *)
(* (clock_restore.py) before the supervisor starts: wait a while for NTP,    *)
(* then read the Classic's RTC until two samples advance together, then step *)
(* the clock forward, NTP coming first at every point.  All times are        *)
(* seconds: time is true time since power came on, the system clock reads    *)
(* time + skew, and the Classic's board time - lag while its clock runs.     *)
EXTENDS Integers

CONSTANTS
  NtpWait,        \* ntp_wait_seconds
  ClassicWait,    \* classic_wait_seconds, more than 0 as the unit file has it
  Confirm,        \* CLASSIC_CONFIRM_SECONDS
  Tolerance,      \* CLASSIC_ADVANCE_TOLERANCE_SECONDS
  MaxStep,        \* MAX_FORWARD_STEP_SECONDS
  ReadTimeout,    \* the Modbus timeout
  PersistedSkews, \* where the persisted clock file may have left the clock
  Lags,           \* how far the Classic's board may run behind the MNGP
  Misreads,       \* by how much one read may be wrong
  MaxTime         \* bound of the model: true time stops there

ASSUME ClockAssumption ==
  /\ {NtpWait, ClassicWait, Confirm, Tolerance, MaxStep, ReadTimeout, MaxTime} \subseteq Nat
  /\ 0 < Confirm /\ 0 < MaxStep
  /\ PersistedSkews \subseteq Int /\ Lags \subseteq Nat /\ Misreads \subseteq Int

(* The longest the helper may take. *)
Horizon == NtpWait + ClassicWait + ReadTimeout

(* The persisted clock is from before the power went.  A board behind by no   *)
(* more than the tolerance is not read in the first moments: in the service   *)
(* NtpWait alone is longer.  A misread is none that a jump of the board's     *)
(* clock could hide: what is wrong by as much as the clock jumps before the   *)
(* next sample looks steady to any reader.                                    *)
ASSUME SurroundingsAssumption ==
  /\ \A s \in PersistedSkews : s <= 0
  /\ \A l \in Lags : l + NtpWait > Tolerance
  /\ \A e \in Misreads, l \in Lags \union {0} :
       e > Tolerance + l + Horizon \/ -e > Tolerance + l + Horizon

VARIABLES
  time, skew,
  synced,         \* systemd-timesyncd's marker exists
  rtcRuns, lag,   \* the Classic's clock: whether it counts, how far behind
  phase,          \* where restore_system_clock() stands
  deadline, wakeAt,
  previous,       \* the sample to confirm: {} or one [rtc, at]
  candidate,      \* the sample just read
  jumps,          \* history: when the RTC jumped by more than the tolerance
  misread         \* history: when a read was wrong

wallVars == <<time, skew, synced>>
rtcVars == <<rtcRuns, lag, jumps, misread>>
helperVars == <<phase, deadline, wakeAt, previous, candidate>>
clockVars == <<wallVars, rtcVars, helperVars>>

Sample == [rtc : Int, at : Nat]
NoSample == [rtc |-> 0, at |-> 0]

Wall == time + skew

(* Before the board's clock counts its registers show the time it stopped.   *)
Shown == IF rtcRuns THEN time - lag ELSE -lag

ClockInit ==
  /\ time = 0 /\ skew \in PersistedSkews /\ synced = FALSE
  /\ rtcRuns \in BOOLEAN
  /\ \/ lag \in Lags
     \/ rtcRuns /\ lag = 0
  /\ phase = "ntp" /\ deadline = NtpWait /\ wakeAt = 0
  /\ previous = {} /\ candidate = NoSample
  /\ jumps = {} /\ misread = {}

-----------------------------------------------------------------------------
(* The surroundings: time passes, NTP succeeds, the board's clock starts to  *)
(* count, the MNGP copies its durable time to it.                            *)

(* The helper sleeps or waits for the Classic; the rest of it takes no time. *)
Waiting ==
  \/ phase \in {"ntp", "marker"} /\ time < wakeAt
  \/ phase = "read" /\ time < wakeAt + ReadTimeout
  \/ phase = "done"

Second ==
  /\ Waiting /\ time < MaxTime
  /\ time' = time + 1
  /\ UNCHANGED <<skew, synced, rtcVars, helperVars>>

NtpSyncs ==
  /\ ~synced
  /\ synced' = TRUE /\ skew' = 0
  /\ UNCHANGED <<time, rtcVars, helperVars>>

RtcStarts ==
  /\ ~rtcRuns /\ phase # "done"
  /\ rtcRuns' = TRUE /\ lag' = lag + time
  /\ UNCHANGED <<wallVars, jumps, misread, helperVars>>

RtcCopied ==
  /\ rtcRuns /\ lag # 0 /\ phase # "done"
  /\ lag' = 0
  /\ jumps' = IF lag > Tolerance THEN jumps \union {time} ELSE jumps
  /\ UNCHANGED <<wallVars, rtcRuns, misread, helperVars>>

-----------------------------------------------------------------------------
(* restore_system_clock().  Whatever it ends with, the supervisor starts;    *)
(* what it kept is gone with its process.                                    *)

Ends ==
  /\ phase' = "done"
  /\ deadline' = 0 /\ wakeAt' = 0 /\ previous' = {} /\ candidate' = NoSample

SleepsIn(p) == phase' = p /\ wakeAt' = time + 1

CheckNtp ==
  /\ phase = "ntp" /\ time >= wakeAt
  /\ \/ synced /\ Ends
     \/ /\ ~synced /\ time >= deadline
        /\ phase' = "marker" /\ deadline' = time + ClassicWait
        /\ UNCHANGED <<wakeAt, previous, candidate>>
     \/ /\ ~synced /\ time < deadline
        /\ SleepsIn("ntp")
        /\ UNCHANGED <<deadline, previous, candidate>>
  /\ UNCHANGED <<wallVars, rtcVars>>

CheckMarker ==
  /\ phase = "marker" /\ time >= wakeAt
  /\ \/ synced /\ Ends
     \/ ~synced /\ phase' = "read" /\ UNCHANGED <<deadline, wakeAt, previous, candidate>>
  /\ UNCHANGED <<wallVars, rtcVars>>

(* No trustworthy pair yet: another round, or give up at the deadline. *)
Retry(sample) ==
  \/ time >= deadline /\ Ends
  \/ time < deadline /\ SleepsIn("marker") /\ previous' = sample /\ UNCHANGED <<deadline, candidate>>

(* An adapter failure or an impossible date. *)
ReadFails ==
  /\ phase = "read"
  /\ Retry({})
  /\ UNCHANGED <<wallVars, rtcVars>>

(* A slip: a clock that stands still counts as continuous. *)
ContinuousOrStill(old, new) ==
  (new.rtc - old.rtc) - (new.at - old.at) \in -Tolerance .. Tolerance

(* The clock moved along with the time that passed between two samples. *)
Continuous(old, new) ==
  /\ new.rtc > old.rtc
  /\ (new.rtc - old.rtc) - (new.at - old.at) \in -Tolerance .. Tolerance

(* Two samples Confirm seconds apart confirm the clock; closer ones keep the *)
(* older; after a jump confirmation starts again from the new one.           *)
Confirms(new) ==
  \E old \in previous : new.at - old.at >= Confirm /\ Continuous(old, new)

Kept(new) ==
  IF \E old \in previous : Continuous(old, new) THEN previous ELSE {new}

Takes(new) ==
  \/ Confirms(new) /\ phase' = "recheck" /\ candidate' = new /\ UNCHANGED <<deadline, wakeAt, previous>>
  \/ ~Confirms(new) /\ Retry(Kept(new))

ReadAnswers ==
  /\ phase = "read"
  /\ Takes([rtc |-> Shown, at |-> time])
  /\ UNCHANGED <<wallVars, rtcVars>>

(* One read of a boot is wrong: the date and time words do not belong        *)
(* together, or the board is being written to.                               *)
ReadMisreads ==
  /\ phase = "read" /\ misread = {}
  /\ \E error \in Misreads : Takes([rtc |-> Shown + error, at |-> time])
  /\ misread' = {time}
  /\ UNCHANGED <<wallVars, rtcRuns, lag, jumps>>

(* The last look at the marker, then the system clock, then the step: NTP    *)
(* may still come in between.                                                *)
Recheck ==
  /\ phase = "recheck"
  /\ \/ synced /\ Ends
     \/ ~synced /\ phase' = "measure" /\ UNCHANGED <<deadline, wakeAt, previous, candidate>>
  /\ UNCHANGED <<wallVars, rtcVars>>

Measure ==
  /\ phase = "measure"
  /\ \/ candidate.rtc - Wall \in 2 .. MaxStep /\ phase' = "set" /\ UNCHANGED <<deadline, wakeAt, previous, candidate>>
     \/ candidate.rtc - Wall \notin 2 .. MaxStep /\ Ends
  /\ UNCHANGED <<wallVars, rtcVars>>

SetClock ==
  /\ phase = "set"
  /\ skew' = candidate.rtc - time
  /\ Ends
  /\ UNCHANGED <<time, synced, rtcVars>>

Helper ==
  CheckNtp \/ CheckMarker \/ ReadFails \/ ReadAnswers \/ ReadMisreads \/ Recheck \/ Measure \/ SetClock

Surroundings == Second \/ NtpSyncs \/ RtcStarts \/ RtcCopied

-----------------------------------------------------------------------------
(* The clock is only stepped to a time that no misread produced, that a      *)
(* clock which counts has shown, and neither side of a jump of which was     *)
(* taken for the other: between a jump and the sample that decides lies at   *)
(* least one whole confirmation.                                             *)
StepsOnlyToSteadyClock ==
  [][SetClock =>
       /\ candidate.at \notin misread
       /\ rtcRuns
       /\ \A jump \in jumps : jump < candidate.at => candidate.at - jump >= Confirm]_clockVars

(* "Never step an NTP-disciplined clock back to the Classic": fails when NTP *)
(* succeeds after the last look at the marker.                               *)
NtpIsKept == [][synced => skew' >= skew]_clockVars

(* "A late MNGP-to-main-board sync is not mistaken for a stable clock":      *)
(* fails when the board has counted from a stale time for as long as a       *)
(* confirmation takes before the copy.                                       *)
OnlyDurableTime == [][SetClock => lag = 0]_clockVars
=============================================================================
