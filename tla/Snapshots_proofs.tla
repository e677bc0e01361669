-------------------------- MODULE Snapshots_proofs --------------------------
(* One assembly of a snapshot, for any controllers, ages and thresholds: a    *)
(* device that it hides is accounted for (HiddenIsExplained), and its load is *)
(* computed from readings of one cycle (LoadNeverMixesCycles).                *)
EXTENDS Snapshots, FiniteSetTheorems, WellFoundedInduction, TLAPS

(* Every step but those of the assembly leaves the draft alone.               *)
LEMMA DraftSteps ==
  ASSUME [SnapshotsNext]_vars
  PROVE  \/ UNCHANGED <<pc, draft>>
         \/ Collect \/ Align \/ Judge \/ Balance \/ Publish
<1>1. ASSUME NEW s \in Sources, Poll(s) PROVE UNCHANGED <<pc, draft>>
  BY <1>1 DEF Poll
<1>2. ASSUME NEW c \in Chargers, Switch(c) PROVE UNCHANGED <<pc, draft>>
  BY <1>2 DEF Switch
<1>3. Probe \/ Tick \/ UNCHANGED vars => UNCHANGED <<pc, draft>>
  BY DEF Probe, Tick, vars
<1> QED BY <1>1, <1>2, <1>3 DEF SnapshotsNext

-----------------------------------------------------------------------------
(* What is hidden.                                                            *)

(* While the draft waits for its judgement, a device that was read and is     *)
(* neither shown nor an error was hidden by the LAN, or some device is stale. *)
DraftInv ==
  /\ pc \in {"align", "judge"} =>
       /\ \A k \in {"lanRead", "errors", "stale", "shown", "read"} : k \in DOMAIN draft
       /\ draft.read \subseteq Sources
       /\ \A s \in draft.read : s \in draft.shown \/ s \in draft.errors
                                  \/ draft.lanRead = "down" \/ draft.stale # {}
  /\ pc \in {"balance", "publish"} =>
       \A s \in draft.read : draft.checks[s] = "offline" /\ draft.settled => draft.status # "OK"

(* A device hidden for its age is an error or stale, since no device is       *)
(* hidden before it would be warned of.                                       *)
LEMMA HiddenHasReason ==
  ASSUME NEW s, s \in Sources, age[s] # Missing, age[s] \in Int, ~Shown(s)
  PROVE  Failing(s) \/ lan = "down" \/ (~error[s] /\ Stale(s))
<1>1. CASE Expired(s)
  <2>1. Stale(s) /\ age[s] >= StaleAfter
    BY <1>1, SnapshotsAssumption DEF Expired, Stale, SnapshotsAssumption
  <2> QED BY <2>1 DEF Failing, LanExplains
<1>2. CASE ~Expired(s)
  BY <1>2 DEF Shown, LanExplains
<1> QED BY <1>1, <1>2

ReadersTyped == age \in [Sources -> Int] /\ enabled \subseteq Chargers

LEMMA ReadersStayTyped ==
  ASSUME ReadersTyped, [SnapshotsNext]_vars
  PROVE  ReadersTyped'
<1>1. ASSUME NEW s \in Sources, Poll(s) PROVE ReadersTyped'
  <2>1. age' = [age EXCEPT ![s] = 0] \/ UNCHANGED age
    BY <1>1 DEF Poll, PollSucceeds, PollFails
  <2>2. UNCHANGED enabled
    BY <1>1 DEF Poll
  <2> QED BY <2>1, <2>2 DEF ReadersTyped
<1>2. ASSUME NEW c \in Chargers, Switch(c) PROVE ReadersTyped'
  <2>1. PICK n \in Int : age' = [age EXCEPT ![c] = n]
    <3>1. c \in Sources
      BY DEF Sources
    <3>2. age[c] \in Int /\ Missing \in Int
      BY <3>1 DEF ReadersTyped, Missing
    <3> QED BY <1>2, <3>2 DEF Switch
  <2>2. enabled' \subseteq Chargers
    BY <1>2 DEF Switch, ReadersTyped
  <2> QED BY <2>1, <2>2 DEF ReadersTyped
<1>3. CASE Tick
  BY <1>3 DEF Tick, ReadersTyped
<1>4. CASE UNCHANGED <<age, enabled>>
  BY <1>4 DEF ReadersTyped
<1>5. Probe \/ Collect \/ Align \/ Judge \/ Balance \/ Publish \/ UNCHANGED vars => UNCHANGED <<age, enabled>>
  BY DEF Probe, Collect, Align, Judge, Balance, Publish, vars, readerVars
<1> QED BY <1>1, <1>2, <1>3, <1>4, <1>5 DEF SnapshotsNext

LEMMA CollectExplains ==
  ASSUME ReadersTyped, Collect
  PROVE  DraftInv'
<1>1. /\ pc' = "align"
      /\ draft'.shown = {s \in Expected : Shown(s)}
      /\ draft'.errors = {s \in Expected : Failing(s)}
      /\ draft'.stale = {s \in Expected : ~error[s] /\ Stale(s)}
      /\ draft'.read = {s \in Expected : age[s] # Missing}
      /\ draft'.lanRead = lan
      /\ DOMAIN draft' = {"shown", "errors", "stale", "trouble", "read", "captured", "lanRead", "cohort"}
  BY DEF Collect
<1>2. ASSUME NEW s \in draft'.read
      PROVE  s \in draft'.shown \/ s \in draft'.errors \/ draft'.lanRead = "down" \/ draft'.stale # {}
  <2>1. s \in Expected /\ age[s] # Missing
    BY <1>1, <1>2
  <2>2. s \in Sources /\ age[s] \in Int
    BY <2>1 DEF ReadersTyped, Expected, Sources
  <2>3. Shown(s) \/ Failing(s) \/ lan = "down" \/ (~error[s] /\ Stale(s))
    BY <2>1, <2>2, HiddenHasReason
  <2>4. Shown(s) => s \in draft'.shown
    BY <1>1, <2>1
  <2>5. Failing(s) => s \in draft'.errors
    BY <1>1, <2>1
  <2>6. ~error[s] /\ Stale(s) => draft'.stale # {}
    BY <1>1, <2>1
  <2> QED BY <1>1, <2>3, <2>4, <2>5, <2>6
<1>3. draft'.read \subseteq Sources
  BY <1>1 DEF ReadersTyped, Expected, Sources
<1> QED BY <1>1, <1>2, <1>3 DEF DraftInv

LEMMA JudgeExplains ==
  ASSUME DraftInv, Judge
  PROVE  DraftInv'
<1>1. /\ pc = "judge" /\ pc' = "balance"
      /\ draft'.status = StatusText(draft)
      /\ draft'.checks = [s \in Sources |-> Check(draft, s)]
      /\ draft'.settled = (draft.lanRead = lan)
      /\ draft'.read = draft.read
  BY DEF Judge
<1>2. ASSUME NEW s \in draft.read, draft'.checks[s] = "offline", draft.lanRead = lan
      PROVE  StatusText(draft) # "OK"
  <2>1. Check(draft, s) = "offline"
    BY <1>1, <1>2 DEF DraftInv
  <2>2. s \notin draft.errors /\ s \notin draft.shown
    BY <2>1 DEF Check
  <2>3. lan = "down" \/ draft.stale # {}
    BY <1>1, <1>2, <2>2 DEF DraftInv
  <2>4. "ERROR" \in Severities(draft) \/ "WARNING" \in Severities(draft)
    BY <2>3 DEF Severities
  <2> QED BY <2>4 DEF StatusText
<1> QED BY <1>1, <1>2 DEF DraftInv

LEMMA StepKeepsExplained ==
  ASSUME ReadersTyped, DraftInv, [SnapshotsNext]_vars
  PROVE  DraftInv'
<1>1. CASE Align
  <2>1. /\ pc = "align" /\ pc' = "judge"
        /\ draft' = draft \/ \E f : draft' = [draft EXCEPT !.cohort = f]
    BY <1>1 DEF Align
  <2>2. \A k \in {"lanRead", "errors", "stale", "shown", "read"} : k \in DOMAIN draft
    BY <2>1 DEF DraftInv
  <2>3. /\ DOMAIN draft' = DOMAIN draft
        /\ UNCHANGED <<draft.lanRead, draft.errors, draft.stale, draft.shown, draft.read>>
    BY <2>1, <2>2
  <2>4. pc = "align" /\ pc' = "judge"
    BY <2>1
  <2> QED BY <2>3, <2>4 DEF DraftInv
<1>2. CASE Balance
  BY <1>2 DEF Balance, DraftInv
<1>3. CASE Publish
  BY <1>3 DEF Publish, DraftInv
<1>4. CASE UNCHANGED <<pc, draft>>
  BY <1>4 DEF DraftInv
<1> QED BY <1>1, <1>2, <1>3, <1>4, DraftSteps, CollectExplains, JudgeExplains

(* A device that was read once and is hidden leaves its mark on the status,   *)
(* whatever the readers, the switches and the LAN did meanwhile, unless the   *)
(* LAN came back between its two readings (HiddenIsExplained).                *)
THEOREM HiddenDevicesExplained == SnapshotsSpec => []HiddenIsExplained
<1>1. SnapshotsInit => ReadersTyped /\ DraftInv
  BY DEF SnapshotsInit, ReadersTyped, Missing, DraftInv
<1>2. ReadersTyped /\ DraftInv /\ [SnapshotsNext]_vars => ReadersTyped' /\ DraftInv'
  BY ReadersStayTyped, StepKeepsExplained
<1>3. DraftInv => HiddenIsExplained
  BY DEF DraftInv, HiddenIsExplained
<1> QED BY <1>1, <1>2, <1>3, PTL DEF SnapshotsSpec

-----------------------------------------------------------------------------
(* What a load is computed from.                                              *)

(* A non-empty set of naturals has a least element.                           *)
LEMMA LeastExists ==
  ASSUME NEW S, S \subseteq Nat, S # {}
  PROVE  \E m \in S : \A k \in S : m <= k
<1> DEFINE R == OpToRel(<, Nat)
<1>1. IsWellFoundedOn(R, Nat)
  BY NatLessThanWellFounded
<1>2. \A a, b \in Nat : a < b => <<a, b>> \in R
  BY DEF OpToRel
<1> HIDE DEF R
<1>3. PICK m \in S : \A k \in S : ~ (<<k, m>> \in R)
  BY <1>1, WFMin
<1>4. ASSUME NEW k \in S PROVE m <= k
  <2>1. k \in Nat /\ m \in Nat /\ ~ (k < m)
    BY <1>2, <1>3
  <2> QED BY <2>1
<1> QED BY <1>4

(* A bounded one has a greatest.                                              *)
LEMMA GreatestExists ==
  ASSUME NEW n \in Nat, NEW S, S \subseteq 0 .. n, S # {}
  PROVE  \E m \in S : \A k \in S : k <= m
<1> DEFINE T == {n - k : k \in S}
<1>1. T \subseteq Nat /\ T # {}
  <2>1. \A k \in S : n - k \in Nat
    OBVIOUS
  <2> QED BY <2>1
<1> HIDE DEF T
<1>2. PICK t \in T : \A k \in T : t <= k
  BY <1>1, LeastExists
<1>3. PICK m \in S : t = n - m
  BY <1>2 DEF T
<1>4. \A k \in S : t <= n - k
  BY <1>2 DEF T
<1>5. \A k \in S : k <= m
  BY <1>3, <1>4
<1> QED BY <1>5

(* So that Max and Min, which choose, choose what their names say.             *)
LEMMA MaxMin ==
  ASSUME NEW n \in Nat, NEW S, S \subseteq 0 .. n, S # {}
  PROVE  /\ Max(S) \in S /\ \A k \in S : k <= Max(S)
         /\ Min(S) \in S /\ \A k \in S : Min(S) <= k
<1>1. \E m \in S : \A k \in S : m >= k
  BY GreatestExists
<1>2. \E m \in S : \A k \in S : m <= k
  <2>1. S \subseteq Nat
    OBVIOUS
  <2> QED BY <2>1, LeastExists
<1>3. Max(S) \in S /\ \A k \in S : Max(S) >= k
  BY <1>1 DEF Max
<1>4. Min(S) \in S /\ \A k \in S : Min(S) <= k
  BY <1>2 DEF Min
<1> QED BY <1>3, <1>4

(* The readings of one cycle, in a form that a part of them keeps.            *)
OneCycle(f) ==
  /\ \A s \in DOMAIN f : f[s] \in 0 .. MaxAge
  /\ \A s, t \in DOMAIN f : f[s] - f[t] <= Skew

LEMMA SpreadMeansOneCycle ==
  ASSUME NEW f, DOMAIN f # {}, \A s \in DOMAIN f : f[s] \in 0 .. MaxAge
  PROVE  /\ Spread(f) <= Skew <=> OneCycle(f)
         /\ Max(Range(f)) <= MaxAge
<1>1. Range(f) \subseteq 0 .. MaxAge /\ Range(f) # {}
  BY DEF Range
<1>2. MaxAge \in Nat /\ Skew \in Nat
  BY SnapshotsAssumption DEF SnapshotsAssumption
<1>3. /\ Max(Range(f)) \in Range(f) /\ \A k \in Range(f) : k <= Max(Range(f))
      /\ Min(Range(f)) \in Range(f) /\ \A k \in Range(f) : Min(Range(f)) <= k
  BY <1>1, <1>2, MaxMin
<1>4. \A s \in DOMAIN f : f[s] \in Range(f)
  BY DEF Range
<1>5. PICK a \in DOMAIN f : f[a] = Max(Range(f))
  BY <1>3 DEF Range
<1>6. PICK b \in DOMAIN f : f[b] = Min(Range(f))
  BY <1>3 DEF Range
<1>7. Spread(f) = f[a] - f[b]
  BY <1>5, <1>6 DEF Spread
<1>8. \A s \in DOMAIN f : f[b] <= f[s] /\ f[s] <= f[a]
  BY <1>3, <1>4, <1>5, <1>6
<1>9. ASSUME Spread(f) <= Skew, NEW s \in DOMAIN f, NEW t \in DOMAIN f
      PROVE  f[s] - f[t] <= Skew
  <2>1. f[s] <= f[a] /\ f[b] <= f[t] /\ f[a] - f[b] <= Skew
    BY <1>7, <1>8, <1>9
  <2>2. f[s] \in Nat /\ f[t] \in Nat /\ f[a] \in Nat /\ f[b] \in Nat
    OBVIOUS
  <2> QED BY <1>2, <2>1, <2>2
<1>10. OneCycle(f) => Spread(f) <= Skew
  BY <1>7 DEF OneCycle
<1>11. Max(Range(f)) <= MaxAge
  BY <1>1, <1>2, <1>3
<1> QED BY <1>9, <1>10, <1>11 DEF OneCycle

(* A cohort is one cycle when it is chosen; what is captured is recent; the   *)
(* load is computed from a part of one or the whole of the other.             *)
LoadInv ==
  /\ pc \in {"align", "judge", "balance"} =>
       /\ \A k \in {"cohort", "captured", "shown"} : k \in DOMAIN draft
       /\ \A s \in DOMAIN draft.captured : draft.captured[s] \in 0 .. MaxAge
       /\ draft.cohort # <<>> => OneCycle(draft.cohort)
  /\ pc = "publish" /\ draft.load # NoLoad =>
       OneCycle(draft.load) /\ "battery" \in DOMAIN draft.load /\ DOMAIN draft.load # {"battery"}

LEMMA PartOfCycle ==
  ASSUME NEW f, OneCycle(f), NEW S, S \subseteq DOMAIN f
  PROVE  OneCycle(Restrict(f, S)) /\ DOMAIN Restrict(f, S) = S
BY DEF OneCycle, Restrict

LEMMA InputsOfOneCycle ==
  ASSUME NEW d, LoadInputs(d) # NoLoad,
         \A s \in DOMAIN d.captured : d.captured[s] \in 0 .. MaxAge,
         d.cohort # <<>> => OneCycle(d.cohort)
  PROVE  OneCycle(LoadInputs(d)) /\ DOMAIN LoadInputs(d) = Expected /\ Expected # {"battery"}
<1>1. Expected # {"battery"}
  BY DEF LoadInputs
<1>2. CASE d.cohort # <<>>
  <2>1. LoadInputs(d) = Restrict(d.cohort, Expected) /\ Expected \subseteq DOMAIN d.cohort
    BY <1>2 DEF LoadInputs
  <2> QED BY <1>1, <1>2, <2>1, PartOfCycle
<1>3. CASE d.cohort = <<>>
  <2>1. LoadInputs(d) = Restrict(d.captured, Expected) /\ Aligned(d.captured, Expected)
    BY <1>3 DEF LoadInputs
  <2> DEFINE f == Restrict(d.captured, Expected)
  <2>2. DOMAIN f = Expected /\ \A s \in DOMAIN f : f[s] \in 0 .. MaxAge
    BY <2>1 DEF Aligned, Restrict
  <2>3. Spread(f) <= Skew /\ DOMAIN f # {}
    BY <2>1, <2>2 DEF Aligned, Expected
  <2> HIDE DEF f
  <2>4. OneCycle(f)
    BY <2>2, <2>3, SpreadMeansOneCycle
  <2> QED BY <1>1, <2>1, <2>2, <2>4 DEF f
<1> QED BY <1>2, <1>3

LEMMA CohortIsOneCycle ==
  ASSUME NEW f \in Cohorts
  PROVE  OneCycle(f)
<1>1. DOMAIN f = Expected /\ (\A s \in DOMAIN f : f[s] \in 0 .. MaxAge) /\ Spread(f) <= Skew
  BY DEF Cohorts
<1>2. DOMAIN f # {}
  BY <1>1 DEF Expected
<1> QED BY <1>1, <1>2, SpreadMeansOneCycle

LEMMA StepKeepsLoad ==
  ASSUME LoadInv, [SnapshotsNext]_vars
  PROVE  LoadInv'
<1>1. CASE Collect
  <2>1. /\ pc' = "align"
        /\ draft'.captured = [s \in {x \in Expected : age[x] \in 0 .. MaxAge} |-> age[s]]
        /\ draft'.cohort = <<>>
        /\ DOMAIN draft' = {"shown", "errors", "stale", "trouble", "read", "captured", "lanRead", "cohort"}
    BY <1>1 DEF Collect
  <2> QED BY <2>1 DEF LoadInv
<1>2. CASE Align
  <2>1. /\ pc = "align" /\ pc' = "judge"
        /\ draft' = draft \/ \E f \in Cohorts : draft' = [draft EXCEPT !.cohort = f]
    BY <1>2 DEF Align, NewestAligned
  <2>2. \A k \in {"cohort", "captured", "shown"} : k \in DOMAIN draft
    BY <2>1 DEF LoadInv
  <2>3. /\ \A k \in {"cohort", "captured", "shown"} : k \in DOMAIN draft'
        /\ UNCHANGED draft.captured
        /\ draft'.cohort = draft.cohort \/ draft'.cohort \in Cohorts
    BY <2>1, <2>2
  <2>4. draft'.cohort # <<>> => OneCycle(draft'.cohort)
    BY <2>1, <2>3, CohortIsOneCycle DEF LoadInv
  <2>5. \A s \in DOMAIN draft.captured : draft.captured[s] \in 0 .. MaxAge
    BY <2>1 DEF LoadInv
  <2>6. pc' = "judge"
    BY <2>1
  <2> QED BY <2>3, <2>4, <2>5, <2>6 DEF LoadInv, OneCycle
<1>3. CASE Judge
  <2>1. /\ pc = "judge" /\ pc' = "balance"
        /\ draft'.captured = draft.captured /\ draft'.cohort = draft.cohort
        /\ \A k \in {"cohort", "captured", "shown"} : k \in DOMAIN draft'
    BY <1>3 DEF Judge
  <2> QED BY <2>1 DEF LoadInv, OneCycle
<1>4. CASE Balance
  <2>1. pc = "balance" /\ pc' = "publish" /\ draft'.load = LoadInputs(draft)
    BY <1>4 DEF Balance
  <2>2. LoadInputs(draft) # NoLoad => /\ OneCycle(LoadInputs(draft)) /\ DOMAIN LoadInputs(draft) = Expected
                                      /\ Expected # {"battery"}
    BY <2>1, InputsOfOneCycle DEF LoadInv
  <2>3. "battery" \in Expected
    BY DEF Expected
  <2> QED BY <2>1, <2>2, <2>3 DEF LoadInv, OneCycle
<1>5. CASE Publish
  BY <1>5 DEF Publish, LoadInv
<1>6. CASE UNCHANGED <<pc, draft>>
  BY <1>6 DEF LoadInv, OneCycle
<1> QED BY <1>1, <1>2, <1>3, <1>4, <1>5, <1>6, DraftSteps

(* A load is computed from the battery and every controller that is switched  *)
(* on, none of them older than allowed nor apart by more than the skew, for   *)
(* any order of polls and switches around it (LoadNeverMixesCycles).          *)
THEOREM LoadOfOneCycle == SnapshotsSpec => []LoadNeverMixesCycles
<1>1. SnapshotsInit => LoadInv
  BY DEF SnapshotsInit, LoadInv
<1>2. LoadInv /\ [SnapshotsNext]_vars => LoadInv'
  BY StepKeepsLoad
<1>3. LoadInv => LoadNeverMixesCycles
  <2> SUFFICES ASSUME LoadInv, pc = "publish", draft.load # NoLoad
               PROVE  /\ "battery" \in DOMAIN draft.load /\ DOMAIN draft.load # {"battery"}
                      /\ Spread(draft.load) <= Skew /\ Max(Range(draft.load)) <= MaxAge
    BY DEF LoadNeverMixesCycles, Spread
  <2>1. /\ OneCycle(draft.load) /\ "battery" \in DOMAIN draft.load
        /\ DOMAIN draft.load # {"battery"}
    BY DEF LoadInv
  <2>2. DOMAIN draft.load # {} /\ \A s \in DOMAIN draft.load : draft.load[s] \in 0 .. MaxAge
    BY <2>1 DEF OneCycle
  <2> QED BY <2>1, <2>2, SpreadMeansOneCycle
<1> QED BY <1>1, <1>2, <1>3, PTL DEF SnapshotsSpec
=============================================================================
