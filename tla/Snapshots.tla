------------------------------ MODULE Snapshots ------------------------------
(***************************************************************************)
(* How the supervisor makes one snapshot of what its readers hold: which   *)
(* devices it shows, what it says of those it does not, and which readings *)
(* it puts together for the load.  The readers, the network monitor and    *)
(* the operator's switch run on threads of their own, so any of them may   *)
(* step between two reads of one assembly.                                 *)
(*                                                                         *)
(* A reading is known by its age, in units of the allowed skew; values     *)
(* are left out except for the trouble they report.                        *)
(***************************************************************************)
EXTENDS Integers, FiniteSets, FiniteSetsExt, Functions

CONSTANTS Chargers,      \* the charge controllers; "classic" is the one on the LAN
          Troubles,      \* severities of what a device's good reading may report
          MaxAge,        \* age to which a reading may enter the load's balance
          Skew,          \* and how far apart the readings of a balance may be
          StaleAfter, ExpireAfter,   \* age of the last good reading: warned of, hidden
          LanThreshold   \* failed probes in a row that mean the LAN is down

ASSUME SnapshotsAssumption ==
  /\ "battery" \notin Chargers
  /\ Troubles \subseteq {"OK", "WARNING", "ERROR"} /\ "OK" \in Troubles
  /\ {MaxAge, Skew} \subseteq Nat /\ StaleAfter \in Nat /\ ExpireAfter \in Nat
  /\ StaleAfter <= ExpireAfter   \* as the defaults have it
  /\ LanThreshold \in Nat \ {0}

Sources == Chargers \cup {"battery"}
Missing == -1            \* the age of what was never read
Old == ExpireAfter + 1   \* ages are counted so far

VARIABLES age, recent,       \* of a reader's last good value; of its value history
          error, trouble,    \* whether the last attempt failed; what the value reports
          enabled,           \* the operator's switches
          failures, lan,     \* NetworkMonitor
          pc, draft          \* the assembly

readerVars == <<age, recent, error, trouble>>
lanVars == <<failures, lan>>
vars == <<readerVars, enabled, lanVars, pc, draft>>

(* What is polled, and what the load's balance needs, by the switches. *)
Expected == enabled \cup {"battery"}

(* DeviceReading.is_stale() and is_expired(): never read is neither. *)
Stale(s) == age[s] > StaleAfter
Expired(s) == age[s] > ExpireAfter

(* What a good reading may report: a protection or an alarm of the BMS, a fault
   of the Classic.  No condition is derived from an EPEver's reading. *)
TroublesOf(s) == IF s \in {"battery", "classic"} THEN Troubles ELSE {"OK"}

-----------------------------------------------------------------------------
(* The readers, the monitor and the switches.  Each steps where the assembly
   has yet to read it; later it may as well have stepped after the assembly. *)

PollSucceeds(s) ==
  \E t \in TroublesOf(s) :
    /\ age' = [age EXCEPT ![s] = 0]
    /\ recent' = [recent EXCEPT ![s] = @ \cup {0}]
    /\ error' = [error EXCEPT ![s] = FALSE]
    /\ trouble' = [trouble EXCEPT ![s] = t]

PollFails(s) ==
  /\ error' = [error EXCEPT ![s] = TRUE]
  /\ UNCHANGED <<age, recent, trouble>>

Poll(s) ==
  /\ pc \in {"idle", "align"} /\ s \in Expected
  /\ PollSucceeds(s) \/ PollFails(s)
  /\ UNCHANGED <<enabled, lanVars, pc, draft>>

(* Disabling drops what the reader holds. *)
Switch(c) ==
  /\ pc # "publish"
  /\ enabled' = IF c \in enabled THEN enabled \ {c} ELSE enabled \cup {c}
  /\ age' = [age EXCEPT ![c] = IF c \in enabled THEN Missing ELSE @]
  /\ recent' = [recent EXCEPT ![c] = IF c \in enabled THEN {} ELSE @]
  /\ error' = [error EXCEPT ![c] = IF c \in enabled THEN FALSE ELSE @]
  /\ trouble' = [trouble EXCEPT ![c] = IF c \in enabled THEN "OK" ELSE @]
  /\ UNCHANGED <<lanVars, pc, draft>>

(* One lost reply is not an outage; one reply ends an outage. *)
Probe ==
  /\ pc \in {"idle", "judge"}
  /\ \/ failures' = 0 /\ lan' = "up"
     \/ /\ failures' = Min({failures + 1, LanThreshold})
        /\ lan' = IF failures' >= LanThreshold THEN "down" ELSE lan
  /\ UNCHANGED <<readerVars, enabled, pc, draft>>

(* An assembly takes no time on this scale. *)
Tick ==
  /\ pc = "idle"
  /\ age' = [s \in Sources |-> IF age[s] \in {Missing, Old} THEN age[s] ELSE age[s] + 1]
  /\ recent' = [s \in Sources |-> {a + 1 : a \in recent[s] \cap (0 .. MaxAge - 1)}]
  /\ UNCHANGED <<error, trouble, enabled, lanVars, pc, draft>>

-----------------------------------------------------------------------------
(* The assembly: read_snapshot(). *)


(* A device is hidden once its value is too old, and the Classic as soon as
   both its own last poll and the LAN have failed. *)
LanExplains(s) == s = "classic" /\ lan = "down"
Shown(s) == age[s] # Missing /\ ~Expired(s) /\ ~(LanExplains(s) /\ error[s])

(* A slip: the last good value, however old, silences the error. *)
FailingUnlessRead(s) == error[s] /\ ~LanExplains(s) /\ age[s] = Missing

(* A slip: without a good value there is no age, and so no error. *)
FailingOnceRead(s) == error[s] /\ ~LanExplains(s) /\ age[s] >= StaleAfter

(* A failed poll is an error once the last good value is no longer fresh, and
   none while the LAN explains it. *)
Failing(s) ==
  /\ error[s] /\ ~LanExplains(s)
  /\ age[s] = Missing \/ age[s] >= StaleAfter

Collect ==
  /\ pc = "idle"
  /\ pc' = "align"
  /\ draft' = [shown |-> {s \in Expected : Shown(s)},
               errors |-> {s \in Expected : Failing(s)},
               stale |-> {s \in Expected : ~error[s] /\ Stale(s)},
               trouble |-> [s \in {x \in Expected : Shown(x)} |-> trouble[s]],
               read |-> {s \in Expected : age[s] # Missing},
               captured |-> [s \in {x \in Expected : age[x] \in 0 .. MaxAge} |-> age[s]],
               lanRead |-> lan, cohort |-> <<>>]
  /\ UNCHANGED <<readerVars, enabled, lanVars>>

Spread(cohort) == Max(Range(cohort)) - Min(Range(cohort))

(* A slip: each source's readings are recent enough, and that is all. *)
CohortsUnaligned == {f \in [Expected -> 0 .. MaxAge] : \A s \in Expected : f[s] \in recent[s]}

Cohorts == {f \in [Expected -> 0 .. MaxAge] :
              (\A s \in Expected : f[s] \in recent[s]) /\ Spread(f) <= Skew}

(* Of the aligned cohorts, that whose oldest member is newest, then whose
   newest is. *)
Better(f, g) ==
  \/ Max(Range(f)) < Max(Range(g))
  \/ Max(Range(f)) = Max(Range(g)) /\ Min(Range(f)) <= Min(Range(g))

NewestAligned == {f \in Cohorts : \A g \in Cohorts : Better(f, g)}

Align ==
  /\ pc = "align"
  /\ pc' = "judge"
  /\ \/ Cohorts = {} /\ UNCHANGED draft
     \/ \E f \in NewestAligned : draft' = [draft EXCEPT !.cohort = f]
  /\ UNCHANGED <<readerVars, enabled, lanVars>>

(* The conditions are judged with the LAN read again, then the switches are
   read again for what is disabled. *)
Severities(d) == Range(d.trouble) \cup (IF lan = "down" THEN {"ERROR"} ELSE {})
                 \cup (IF d.stale # {} THEN {"WARNING"} ELSE {})

StatusText(d) ==
  IF "ERROR" \in Severities(d) THEN "ERROR"
  ELSE IF d.errors # {} \/ "WARNING" \in Severities(d) THEN "WARNING"
  ELSE "OK"

Check(d, s) ==
  IF s \in d.errors THEN "error"
  ELSE IF s \notin Expected THEN "disabled"
  ELSE IF s \notin d.shown THEN "offline"
  ELSE "ok"

Judge ==
  /\ pc = "judge"
  /\ pc' = "balance"
  /\ draft' = [status |-> StatusText(draft),
               checks |-> [s \in Sources |-> Check(draft, s)],
               settled |-> draft.lanRead = lan,
               shown |-> draft.shown, read |-> draft.read,
               captured |-> draft.captured, cohort |-> draft.cohort]
  /\ UNCHANGED <<readerVars, enabled, lanVars>>

(* The balance of the load: the cohort if there is one, else the values shown,
   if they are aligned; without every expected source there is none. *)
Aligned(captured, sources) ==
  /\ sources \subseteq DOMAIN captured
  /\ Spread(Restrict(captured, sources)) <= Skew

NoLoad == <<>>
LoadInputs(d) ==
  IF "battery" \notin d.shown \/ Expected = {"battery"} THEN NoLoad
  ELSE IF d.cohort # <<>>
    THEN IF Expected \subseteq DOMAIN d.cohort THEN Restrict(d.cohort, Expected) ELSE NoLoad
  ELSE IF Expected \subseteq d.shown /\ Aligned(d.captured, Expected)
    THEN Restrict(d.captured, Expected)
  ELSE NoLoad

Balance ==
  /\ pc = "balance"
  /\ pc' = "publish"
  /\ draft' = [status |-> draft.status, checks |-> draft.checks, settled |-> draft.settled,
               read |-> draft.read, load |-> LoadInputs(draft)]
  /\ UNCHANGED <<readerVars, enabled, lanVars>>

(* The snapshot is returned; the loop caches it whole. *)
Publish ==
  /\ pc = "publish"
  /\ pc' = "idle"
  /\ draft' = <<>>
  /\ UNCHANGED <<readerVars, enabled, lanVars>>

-----------------------------------------------------------------------------
SnapshotsInit ==
  /\ age = [s \in Sources |-> Missing]
  /\ recent = [s \in Sources |-> {}]
  /\ error = [s \in Sources |-> FALSE]
  /\ trouble = [s \in Sources |-> "OK"]
  /\ enabled \in SUBSET Chargers
  /\ failures = 0 /\ lan = "unknown"
  /\ pc = "idle" /\ draft = <<>>

SnapshotsNext ==
  \/ \E s \in Sources : Poll(s)
  \/ \E c \in Chargers : Switch(c)
  \/ Probe
  \/ Tick
  \/ Collect \/ Align \/ Judge \/ Balance \/ Publish

(* The main loop goes round, and time passes however fast it does; a reader
   may be stuck for ever. *)
SnapshotsSpec ==
  /\ SnapshotsInit /\ [][SnapshotsNext]_vars
  /\ SF_vars(Tick) /\ WF_vars(Collect) /\ WF_vars(Align) /\ WF_vars(Judge)
  /\ WF_vars(Balance) /\ WF_vars(Publish)

-----------------------------------------------------------------------------
(* A device that was read once and is no longer shown is always accounted for:
   the status is not OK, unless the LAN, read twice, came back in between.
   [supervisor.py, _collect_from_readers()] *)
HiddenIsExplained ==
  pc = "publish" => \A s \in draft.read :
    draft.checks[s] = "offline" /\ draft.settled => draft.status # "OK"

(* "LAN outage explains the Classic failure; suppress per-device noise.  The LAN
   condition below covers it." [supervisor.py, line 774] *)
LanConditionCovers ==
  pc = "publish" => \A s \in draft.read : draft.checks[s] = "offline" => draft.status # "OK"

(* A load is never computed from readings of different cycles, nor from old
   ones, nor without a controller that is switched on. [supervisor.py,
   _newest_aligned_load_inputs(); load.py, estimate_load_current_a()] *)
LoadNeverMixesCycles ==
  pc = "publish" /\ draft.load # NoLoad =>
    /\ "battery" \in DOMAIN draft.load /\ DOMAIN draft.load # {"battery"}
    /\ Max(Range(draft.load)) - Min(Range(draft.load)) <= Skew
    /\ Max(Range(draft.load)) <= MaxAge

(* A device that stays lost, by failing or by a reader that is stuck, ends up
   in the status for good, whether it was ever read or not, once the LAN is
   either up or down. [supervisor.py, the errors and stale conditions] *)
OutageReported ==
  \A s \in Sources :
    /\ <>[](s \in Expected /\ (error[s] \/ age[s] = Old))
    /\ <>[](lan = "down") \/ <>[](lan # "down")
    => <>[](pc = "publish" => draft.status # "OK")
=============================================================================
