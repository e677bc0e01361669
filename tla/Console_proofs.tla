--------------------------- MODULE Console_proofs ---------------------------
(* What the operator sends and is told: the console's commits stay within     *)
(* their budget (CommitWithinBudget), for any rows, steps, budget and order   *)
(* of answers; the recorder of transitions tells what its tracker saw         *)
(* (EventsTellState), for whatever is observed, over any gaps, restarts and   *)
(* failed writes.  The two share nothing.                                     *)
EXTENDS Console, Advisory, FiniteSetTheorems, TLAPS

-----------------------------------------------------------------------------
(* The console.  A row is as far from where it started as its closed requests *)
(* and the other clients can have taken it; what is planned of it, and not    *)
(* written, is at most one budget further, whatever was written since it was  *)
(* read: the bound only grows.                                                *)

Stages == {"sent", "planned", "done", "refused"}
Ended == {"done", "refused"}

OfRow(q, r) == {i \in DOMAIN q : q[i].row = r}
ClosedOf(q, r) == {i \in OfRow(q, r) : q[i].state \in Ended}

Within(n, bound) == -bound <= n /\ n <= bound

SettingsTyped ==
  /\ server \in [RowSet -> Int] /\ cache.settings \in [RowSet -> Int]
  /\ sent \in [RowSet -> Nat] /\ drift \in [RowSet -> Nat]

(* No staged change outgrows its row. *)
StageInv ==
  /\ rows \in [RowSet -> [base : Int, pending : Int, step : DOMAIN Steps]]
  /\ index \in DOMAIN Rows
  /\ \A r \in RowSet : Within(Net(r), Budget)

(* Nor does what was sent of it. *)
Asking(q) ==
  \E row, value, target : \E stage \in Stages :
    /\ q = [row |-> row, value |-> value, target |-> target, state |-> stage]
    /\ row \in RowSet => value \in Int /\ target \in Int /\ Within(value, Budget)

RequestInv ==
  /\ \E S : requests \in Seq(S)
  /\ \A i \in DOMAIN requests : Asking(requests[i])
  /\ flight \in DOMAIN requests \union {0}
  /\ \A r \in RowSet : sent[r] = Cardinality(OfRow(requests, r))

(* The bound of a row, and what is within it, of values, requests and drifts. *)
BoundOf(q, far, r) == Budget * Cardinality(ClosedOf(q, r)) + far[r]

Reach(value, q, far) ==
  /\ \A r \in RowSet : Within(value[r], BoundOf(q, far, r))
  /\ \A i \in DOMAIN q : q[i].state = "planned" /\ q[i].row \in RowSet
       => Within(q[i].target, BoundOf(q, far, q[i].row) + Budget)

Bound(r) == BoundOf(requests, drift, r)
ReachInv == Reach(server, requests, drift)

BudgetInv == SettingsTyped /\ StageInv /\ RequestInv /\ ReachInv

-----------------------------------------------------------------------------
(* Lemmas about the constants, the counts of requests and the budget.         *)

LEMMA RowNumbers ==
  /\ Budget \in Nat /\ Rows \in Seq(STRING) /\ Rows # <<>>
  /\ Len(Rows) \in Nat \ {0} /\ DOMAIN Rows = 1 .. Len(Rows)
  /\ Steps \in Seq(Nat \ {0}) /\ DefaultStep \in DOMAIN Steps
  /\ "switch" \notin RowSet
  /\ \A i \in DOMAIN Rows : Rows[i] \in RowSet
  /\ OthersMoves \subseteq Int
  <1>1. /\ Budget \in Nat /\ Rows \in Seq(STRING) /\ Rows # <<>>
        /\ Steps \in Seq(Nat \ {0}) /\ DefaultStep \in DOMAIN Steps
        /\ OthersMoves \subseteq Int
        /\ \A i \in DOMAIN Rows : Rows[i] # "switch"
    BY ConsoleAssumption DEF ConsoleAssumption
  <1>2. Len(Rows) \in Nat \ {0} /\ DOMAIN Rows = 1 .. Len(Rows)
    BY <1>1
  <1> QED BY <1>1, <1>2 DEF RowSet

(* A budget grows with what it pays for. *)
LEMMA BudgetGrows ==
  ASSUME NEW m \in Int, NEW n \in Int
  PROVE  /\ Budget * m \in Int /\ Budget * (m + 1) = Budget * m + Budget
         /\ m <= n => Budget * m <= Budget * n
  <1>1. Budget \in Nat
    BY RowNumbers
  <1> QED BY <1>1

LEMMA RequestCounts ==
  ASSUME NEW S, NEW q \in Seq(S), NEW r
  PROVE  /\ IsFiniteSet(OfRow(q, r)) /\ Cardinality(OfRow(q, r)) \in Nat
         /\ IsFiniteSet(ClosedOf(q, r)) /\ Cardinality(ClosedOf(q, r)) \in Nat
         /\ Cardinality(ClosedOf(q, r)) <= Cardinality(OfRow(q, r))
  <1>1. Len(q) \in Nat /\ DOMAIN q = 1 .. Len(q)
    OBVIOUS
  <1>2. IsFiniteSet(1 .. Len(q))
    BY <1>1, FS_Interval
  <1>3. IsFiniteSet(OfRow(q, r))
    BY <1>1, <1>2, FS_Subset DEF OfRow
  <1>4. ClosedOf(q, r) \subseteq OfRow(q, r)
    BY DEF ClosedOf
  <1> QED BY <1>3, <1>4, FS_Subset, FS_CardinalityType

(* A request sent is one more of its row, and not closed. *)
LEMMA SentCounts ==
  ASSUME NEW S, NEW q \in Seq(S), NEW e, e.state = "sent", NEW r
  PROVE  /\ Cardinality(OfRow(Append(q, e), r)) = Cardinality(OfRow(q, r)) + (IF e.row = r THEN 1 ELSE 0)
         /\ Cardinality(ClosedOf(Append(q, e), r)) = Cardinality(ClosedOf(q, r))
  <1> DEFINE T == S \union {e}
             new == Append(q, e)
  <1>1. q \in Seq(T) /\ e \in T /\ Len(q) \in Nat /\ DOMAIN q = 1 .. Len(q)
    OBVIOUS
  <1>2. /\ DOMAIN new = 1 .. Len(q) + 1 /\ new[Len(q) + 1] = e
        /\ \A i \in 1 .. Len(q) : new[i] = q[i]
    BY <1>1
  <1> HIDE DEF new
  <1>3. OfRow(new, r) = OfRow(q, r) \union (IF e.row = r THEN {Len(q) + 1} ELSE {})
    BY <1>1, <1>2 DEF OfRow
  <1>4. ClosedOf(new, r) = ClosedOf(q, r)
    BY <1>1, <1>2, <1>3 DEF ClosedOf, OfRow, Ended
  <1>5. Cardinality(ClosedOf(new, r)) = Cardinality(ClosedOf(q, r))
    BY <1>4, Zenon
  <1>6. Len(q) + 1 \notin OfRow(q, r)
    BY <1>1 DEF OfRow
  <1>7. IsFiniteSet(OfRow(q, r)) /\ Cardinality(OfRow(q, r)) \in Nat
    BY RequestCounts
  <1>8. Cardinality(OfRow(new, r)) = Cardinality(OfRow(q, r)) + (IF e.row = r THEN 1 ELSE 0)
    <2>1. CASE e.row = r
      <3>1. Cardinality(OfRow(q, r) \union {Len(q) + 1}) = Cardinality(OfRow(q, r)) + 1
        BY <1>6, <1>7, FS_AddElement
      <3> QED BY <1>3, <2>1, <3>1
    <2>2. CASE e.row # r
      <3>1. OfRow(new, r) = OfRow(q, r)
        BY <1>3, <2>2
      <3>2. Cardinality(OfRow(new, r)) = Cardinality(OfRow(q, r))
        BY <3>1, Zenon
      <3> QED BY <1>7, <2>2, <3>2
    <2> QED BY <2>1, <2>2
  <1> QED BY <1>5, <1>8 DEF new

(* A request taken further stays of its row, and may be closed by it. *)
LEMMA ServedCounts ==
  ASSUME NEW q, NEW new, NEW i \in DOMAIN q, NEW r, IsFiniteSet(ClosedOf(q, r)),
         DOMAIN new = DOMAIN q, \A j \in DOMAIN q \ {i} : new[j] = q[j],
         q[i].state \notin Ended, new[i].row = q[i].row
  PROVE  /\ Cardinality(OfRow(new, r)) = Cardinality(OfRow(q, r))
         /\ Cardinality(ClosedOf(new, r))
              = Cardinality(ClosedOf(q, r)) + (IF new[i].row = r /\ new[i].state \in Ended THEN 1 ELSE 0)
  <1>1. OfRow(new, r) = OfRow(q, r)
    BY DEF OfRow
  <1>2. Cardinality(OfRow(new, r)) = Cardinality(OfRow(q, r))
    BY <1>1, Zenon
  <1>3. IsFiniteSet(ClosedOf(q, r)) /\ Cardinality(ClosedOf(q, r)) \in Nat
    BY FS_CardinalityType
  <1>4. i \notin ClosedOf(q, r)
    BY DEF ClosedOf
  <1>5. CASE new[i].row = r /\ new[i].state \in Ended
    <2>1. ClosedOf(new, r) = ClosedOf(q, r) \union {i}
      BY <1>5 DEF ClosedOf, OfRow
    <2>2. Cardinality(ClosedOf(q, r) \union {i}) = Cardinality(ClosedOf(q, r)) + 1
      BY <1>3, <1>4, FS_AddElement
    <2> QED BY <1>2, <1>5, <2>1, <2>2
  <1>6. CASE ~(new[i].row = r /\ new[i].state \in Ended)
    <2>1. ClosedOf(new, r) = ClosedOf(q, r)
      BY <1>4, <1>6 DEF ClosedOf, OfRow
    <2>2. Cardinality(ClosedOf(new, r)) = Cardinality(ClosedOf(q, r))
      BY <2>1, Zenon
    <2> QED BY <1>2, <1>3, <1>6, <2>2
  <1> QED BY <1>5, <1>6

-----------------------------------------------------------------------------
(* The steps.                                                                 *)

(* A row's bound is a number. *)
LEMMA BoundType ==
  ASSUME BudgetInv, NEW r \in RowSet
  PROVE  /\ Cardinality(ClosedOf(requests, r)) \in Nat /\ drift[r] \in Nat
         /\ Bound(r) \in Int /\ Bound(r) <= Budget * sent[r] + drift[r]
         /\ server[r] \in Int /\ Within(server[r], Bound(r))
  <1>1. /\ Cardinality(ClosedOf(requests, r)) \in Nat /\ Cardinality(OfRow(requests, r)) \in Nat
        /\ Cardinality(ClosedOf(requests, r)) <= Cardinality(OfRow(requests, r))
    BY RequestCounts DEF BudgetInv, RequestInv
  <1>2. sent[r] = Cardinality(OfRow(requests, r)) /\ drift[r] \in Nat
    BY DEF BudgetInv, RequestInv, SettingsTyped
  <1>3. PICK closed, all \in Int : /\ closed = Budget * Cardinality(ClosedOf(requests, r))
                                   /\ all = Budget * sent[r] /\ closed <= all
    BY <1>1, <1>2, BudgetGrows
  <1> QED BY <1>1, <1>2, <1>3 DEF Bound, BoundOf, BudgetInv, SettingsTyped, ReachInv, Reach

(* No request moves: the requests and what they may do are as they were. *)
LEMMA NothingServed ==
  ASSUME BudgetInv, UNCHANGED <<requests, sent, server, drift>>,
         flight' = flight \/ flight' = 0
  PROVE  RequestInv' /\ ReachInv'
  BY DEF BudgetInv, RequestInv, ReachInv, Reach, BoundOf

(* A key stages no change beyond the budget. *)
LEMMA KeyKeepsStage ==
  ASSUME BudgetInv, NEW key, ViewKey(key) \/ TuneKey(key) \/ OptionsKey(key)
  PROVE  StageInv' /\ UNCHANGED <<requests, flight, sent>>
  <1>0. UNCHANGED <<requests, flight, sent>>
    BY DEF ViewKey, TuneKey, OptionsKey, requestVars
  <1>1. Current \in RowSet /\ rows[Current].step \in DOMAIN Steps
    BY RowNumbers DEF Current, BudgetInv, StageInv
  <1>2. Steps[rows[Current].step] \in Nat
    BY <1>1, RowNumbers
  <1>3. ASSUME UNCHANGED <<rows, index>> PROVE StageInv'
    BY <1>3 DEF BudgetInv, StageInv, Net
  <1>4. ASSUME index' = 1, rows' = Setpoints PROVE StageInv'
    <2>1. 1 \in DOMAIN Rows /\ Budget \in Nat /\ DefaultStep \in DOMAIN Steps
      BY RowNumbers
    <2> QED BY <1>4, <2>1 DEF BudgetInv, SettingsTyped, StageInv, Setpoints, Staged, Net, Within
  <1>5. ASSUME NEW direction \in {1, -1}, rows' = Adjusted(Current, direction), UNCHANGED index
        PROVE  StageInv'
    <2>1. PICK step \in Nat : step = Steps[rows[Current].step]
      BY <1>2
    <2>2. PICK candidate \in Int : candidate = rows[Current].pending + direction * step
      BY <1>1, <1>5 DEF BudgetInv, StageInv
    <2>3. CASE rows' = rows
      BY <1>3, <1>5, <2>3
    <2>4. CASE /\ ~(Magnitude(candidate - rows[Current].base) > Budget)
               /\ rows' = [rows EXCEPT ![Current].pending = candidate]
      <3>1. Within(candidate - rows[Current].base, Budget)
        <4>1. PICK base \in Int : base = rows[Current].base
          BY <1>1 DEF BudgetInv, StageInv
        <4>2. Budget \in Nat /\ ~(Magnitude(candidate - base) > Budget)
          BY <2>4, <4>1, RowNumbers
        <4>3. Within(candidate - base, Budget)
          BY <4>2 DEF Magnitude, Within
        <4> QED BY <4>1, <4>3
      <3> QED BY <1>1, <1>5, <2>4, <3>1 DEF BudgetInv, StageInv, Net
    <2> QED BY <1>5, <2>1, <2>2, <2>3, <2>4 DEF Adjusted
  <1>6. ASSUME NEW step \in DOMAIN Steps, rows' = [rows EXCEPT ![Current].step = step], UNCHANGED index
        PROVE  StageInv'
    BY <1>1, <1>6 DEF BudgetInv, StageInv, Net
  <1>7. ASSUME index' \in {NextRow, Selected("v0")}, UNCHANGED rows PROVE StageInv'
    <2>1. index' \in DOMAIN Rows
      <3>1. index \in 1 .. Len(Rows) /\ Len(Rows) \in Nat \ {0} /\ DOMAIN Rows = 1 .. Len(Rows)
        BY RowNumbers DEF BudgetInv, StageInv
      <3>2. index % Len(Rows) \in 0 .. Len(Rows) - 1
        BY <3>1
      <3>3. NextRow \in DOMAIN Rows
        BY <3>1, <3>2 DEF NextRow
      <3>4. Selected("v0") \in DOMAIN Rows
        BY <3>1 DEF Selected, RowSet
      <3> QED BY <1>7, <3>3, <3>4
    <2> QED BY <1>7, <2>1 DEF BudgetInv, StageInv, Net
  <1>8. CASE ViewKey(key)
    BY <1>0, <1>3, <1>4, <1>8 DEF ViewKey, EnterTune, stageVars
  <1>9. CASE TuneKey(key)
    <2>1. \/ UNCHANGED <<rows, index>>
          \/ UNCHANGED index /\ \E direction \in {1, -1} : rows' = Adjusted(Current, direction)
          \/ UNCHANGED index /\ \E direction \in {1, -1} : rows' = Cycled(direction)
          \/ UNCHANGED rows /\ index' \in {NextRow, Selected("v0")}
      BY <1>9 DEF TuneKey
    <2>2. ASSUME NEW direction, rows' = Cycled(direction), UNCHANGED index PROVE StageInv'
      BY <1>3, <1>6, <2>2 DEF Cycled
    <2> QED BY <1>0, <1>3, <1>5, <1>7, <2>1, <2>2
  <1>10. CASE OptionsKey(key)
    BY <1>0, <1>3, <1>10 DEF OptionsKey
  <1> QED BY <1>0, <1>8, <1>9, <1>10

(* What a stage ends at is a value, and nothing is staged on it. *)
LEMMA SettledKeepsStage ==
  ASSUME BudgetInv, NEW row, NEW value, Settled(row, value), UNCHANGED index,
         row \in RowSet => value \in Int
  PROVE  StageInv'
  <1>1. "switch" \notin RowSet /\ Budget \in Nat
    BY RowNumbers
  <1>2. CASE UNCHANGED rows
    BY <1>2 DEF BudgetInv, StageInv, Net
  <1>3. CASE rows' = [rows EXCEPT ![row].base = value, ![row].pending = value]
    <2>1. CASE row \in RowSet
      <3>1. value \in Int /\ value - value = 0
        BY <2>1
      <3>2. rows' \in [RowSet -> [base : Int, pending : Int, step : DOMAIN Steps]]
        BY <1>3, <2>1, <3>1 DEF BudgetInv, StageInv
      <3>3. ASSUME NEW r \in RowSet PROVE Within(Net(r)', Budget)
        <4>1. CASE r = row
          <5>1. rows'[r].pending = value /\ rows'[r].base = value
            BY <1>3, <4>1 DEF BudgetInv, StageInv
          <5> QED BY <1>1, <3>1, <5>1 DEF Net, Within
        <4>2. CASE r # row
          <5>1. rows'[r] = rows[r]
            BY <1>3, <4>2 DEF BudgetInv, StageInv
          <5> QED BY <5>1 DEF BudgetInv, StageInv, Net
        <4> QED BY <4>1, <4>2
      <3> QED BY <3>2, <3>3 DEF BudgetInv, StageInv
    <2>2. CASE row \notin RowSet
      <3>1. rows' = rows
        BY <1>3, <2>2 DEF BudgetInv, StageInv
      <3> QED BY <1>2, <3>1
    <2> QED BY <2>1, <2>2
  <1> QED BY <1>2, <1>3 DEF Settled

(* A request, taken apart. *)
LEMMA RequestParts ==
  ASSUME NEW q, Asking(q)
  PROVE  /\ q = [row |-> q.row, value |-> q.value, target |-> q.target, state |-> q.state]
         /\ q.state \in Stages
         /\ q.row \in RowSet => q.value \in Int /\ q.target \in Int /\ Within(q.value, Budget)
  BY DEF Asking

LEMMA SendKeepsBudget ==
  ASSUME BudgetInv, Send
  PROVE  BudgetInv'
  <1>1. UNCHANGED <<rows, index, server, cache, drift>>
    BY DEF Send, stageVars, serverVars
  <1>2. PICK row, value :
          /\ requests' = Append(requests, Request(row, value))
          /\ row # "switch" => value = Net(row)
          /\ sent' = IF row = "switch" THEN sent ELSE [sent EXCEPT ![row] = @ + 1]
    BY DEF Send
  <1>3. "switch" \notin RowSet /\ Budget \in Nat
    BY RowNumbers
  <1> DEFINE e == Request(row, value)
  <1>4. /\ e.state = "sent" /\ e.row = row
        /\ e = [row |-> row, value |-> value, target |-> value, state |-> "sent"]
    BY DEF Request
  <1>5. Asking(e)
    <2>1. row \in RowSet => Net(row) \in Int /\ Within(Net(row), Budget)
      BY DEF BudgetInv, StageInv, Net
    <2> QED BY <1>2, <1>3, <1>4, <2>1 DEF Asking, Stages
  <1> HIDE DEF e
  <1>6. PICK S : requests \in Seq(S)
    BY DEF BudgetInv, RequestInv
  <1>7. /\ requests' \in Seq(S \union {e}) /\ Len(requests) \in Nat
        /\ DOMAIN requests = 1 .. Len(requests) /\ DOMAIN requests' = 1 .. Len(requests) + 1
        /\ \A i \in DOMAIN requests : requests'[i] = requests[i]
        /\ requests'[Len(requests) + 1] = e
    BY <1>2, <1>6 DEF e
  <1>8. \A r \in RowSet : sent[r] \in Nat /\ sent'[r] = sent[r] + (IF row = r THEN 1 ELSE 0)
    BY <1>2, <1>3 DEF BudgetInv, SettingsTyped
  <1>9. SettingsTyped'
    <2>1. DOMAIN sent' = RowSet /\ \A r \in RowSet : sent'[r] \in Nat
      BY <1>2, <1>8 DEF BudgetInv, SettingsTyped
    <2>2. sent' = [r \in RowSet |-> sent'[r]]
      BY <1>2, <2>1 DEF BudgetInv, SettingsTyped
    <2>3. sent' \in [RowSet -> Nat]
      BY <2>1, <2>2
    <2> QED BY <1>1, <2>3 DEF BudgetInv, SettingsTyped
  <1>10. \A r \in RowSet :
           /\ Cardinality(OfRow(requests', r)) = Cardinality(OfRow(requests, r)) + (IF row = r THEN 1 ELSE 0)
           /\ Cardinality(ClosedOf(requests', r)) = Cardinality(ClosedOf(requests, r))
    BY <1>2, <1>4, <1>6, SentCounts DEF e
  <1>11. StageInv'
    BY <1>1 DEF BudgetInv, StageInv, Net
  <1>12. RequestInv'
    <2>1. flight' \in DOMAIN requests'
      BY <1>7 DEF Send
    <2>2. \A i \in DOMAIN requests' : Asking(requests'[i])
      BY <1>5, <1>7 DEF BudgetInv, RequestInv
    <2>3. \A r \in RowSet : sent'[r] = Cardinality(OfRow(requests', r))
      BY <1>8, <1>10 DEF BudgetInv, RequestInv
    <2>4. \E T : requests' \in Seq(T)
      BY <1>7
    <2> QED BY <2>1, <2>2, <2>3, <2>4, Zenon DEF RequestInv
  <1>13. ReachInv'
    <2>1. \A r \in RowSet : Bound(r)' = Bound(r)
      BY <1>1, <1>10 DEF Bound, BoundOf
    <2> QED BY <1>1, <1>4, <1>7, <2>1 DEF BudgetInv, ReachInv, Reach, Bound
  <1> QED BY <1>9, <1>11, <1>12, <1>13 DEF BudgetInv

(* The step that matters.  A request is taken further: refused, planned from  *)
(* the value the row has, or carried out.  The row ends within the bound the  *)
(* closed request pays for, and no bound shrinks under the others' plans.     *)
LEMMA ServedKeepsReach ==
  ASSUME BudgetInv, NEW i \in DOMAIN requests, NEW e, NEW after, NEW new,
         new = [requests EXCEPT ![i] = e],
         requests[i].state \notin Ended, Asking(e), e.row = requests[i].row,
         \A r \in RowSet : after[r] \in Int,
         \A r \in RowSet : after[r] = server[r] \/ (r = e.row /\ e.state \in Ended),
         e.row \in RowSet => Within(after[e.row], Bound(e.row) + Budget),
         e.row \in RowSet /\ e.state = "planned" => Within(e.target, Bound(e.row) + Budget)
  PROVE  Reach(after, new, drift)
  <1> DEFINE NewBound(r) == BoundOf(new, drift, r)
             closes(r) == r = e.row /\ e.state \in Ended
  <1>1. Budget \in Nat
    BY RowNumbers
  <1>2. PICK S : requests \in Seq(S)
    BY DEF BudgetInv, RequestInv
  <1>3. \A r \in RowSet : /\ Bound(r) \in Int
                          /\ NewBound(r) = Bound(r) + (IF closes(r) THEN Budget ELSE 0)
    <2> SUFFICES ASSUME NEW r \in RowSet
                 PROVE  Bound(r) \in Int /\ NewBound(r) = Bound(r) + (IF closes(r) THEN Budget ELSE 0)
      OBVIOUS
    <2>1. Cardinality(ClosedOf(new, r)) = Cardinality(ClosedOf(requests, r)) + (IF closes(r) THEN 1 ELSE 0)
      <3>1. IsFiniteSet(ClosedOf(requests, r))
        BY <1>2, RequestCounts
      <3>2. /\ DOMAIN new = DOMAIN requests /\ new[i] = e
            /\ \A j \in DOMAIN requests \ {i} : new[j] = requests[j]
        BY <1>2
      <3>3. i \in DOMAIN requests /\ requests[i].state \notin Ended /\ new[i].row = requests[i].row
        BY <3>2
      <3>4. /\ Cardinality(OfRow(new, r)) = Cardinality(OfRow(requests, r))
            /\ Cardinality(ClosedOf(new, r)) = Cardinality(ClosedOf(requests, r))
                 + (IF new[i].row = r /\ new[i].state \in Ended THEN 1 ELSE 0)
        BY ONLY <3>1, <3>2, <3>3, ServedCounts
      <3> QED BY <3>2, <3>4
    <2>2. Cardinality(ClosedOf(requests, r)) \in Nat /\ drift[r] \in Nat /\ Bound(r) \in Int
      BY BoundType
    <2>3. PICK old \in Int : /\ old = Budget * Cardinality(ClosedOf(requests, r))
                             /\ Budget * (Cardinality(ClosedOf(requests, r)) + 1) = old + Budget
      BY <2>2, BudgetGrows
    <2>4. NewBound(r) = (IF closes(r) THEN old + Budget ELSE old) + drift[r]
      <3> HIDE DEF closes
      <3> QED BY <2>1, <2>2, <2>3 DEF BoundOf
    <2> QED BY <1>1, <2>2, <2>3, <2>4 DEF Bound, BoundOf
  <1>4. DOMAIN new = DOMAIN requests /\ new[i] = e /\ \A j \in DOMAIN requests \ {i} : new[j] = requests[j]
    BY <1>2
  <1> HIDE DEF NewBound
  <1>5. ASSUME NEW r \in RowSet PROVE Within(after[r], NewBound(r))
    <2>1. /\ Bound(r) \in Int /\ server[r] \in Int /\ Within(server[r], Bound(r)) /\ after[r] \in Int
          /\ NewBound(r) = Bound(r) + (IF closes(r) THEN Budget ELSE 0)
      BY <1>3, BoundType
    <2>2. CASE closes(r)
      BY <1>1, <2>1, <2>2
    <2>3. CASE ~closes(r)
      <3>1. after[r] = server[r]
        BY <2>3
      <3> QED BY <2>1, <2>3, <3>1
    <2> QED BY <2>2, <2>3
  <1>6. ASSUME NEW j \in DOMAIN new, new[j].state = "planned", new[j].row \in RowSet
        PROVE  Within(new[j].target, NewBound(new[j].row) + Budget)
    <2>1. Asking(new[j])
      BY <1>4 DEF BudgetInv, RequestInv
    <2>2. new[j].target \in Int
      BY <1>6, <2>1, RequestParts
    <2>3. Within(new[j].target, Bound(new[j].row) + Budget)
      <3>1. CASE j = i
        BY <1>4, <1>6, <3>1
      <3>2. CASE j # i
        BY <1>4, <1>6, <3>2 DEF BudgetInv, ReachInv, Reach, Bound
      <3> QED BY <3>1, <3>2
    <2>4. PICK bound, wider, target \in Int :
            /\ bound = Bound(new[j].row) /\ wider = NewBound(new[j].row) /\ target = new[j].target
            /\ wider = bound \/ wider = bound + Budget
      BY <1>1, <1>3, <1>6, <2>2
    <2>5. Within(target, bound + Budget)
      BY <2>3, <2>4
    <2>6. Within(target, wider + Budget)
      BY ONLY <1>1, <2>4, <2>5, bound \in Int, wider \in Int, target \in Int DEF Within
    <2> QED BY <2>4, <2>6
  <1> QED BY <1>5, <1>6 DEF NewBound, Reach

LEMMA ServesKeepsBudget ==
  ASSUME BudgetInv, NEW i \in DOMAIN requests, Serves(i)
  PROVE  BudgetInv'
  <1> DEFINE q == requests[i]
  <1>1. UNCHANGED <<rows, index, flight, sent, cache, drift>>
    BY DEF Serves, ServerRefuses, ServerReads, ServerWrites, stageVars, serverVars
  <1>2. Asking(q) /\ Budget \in Nat /\ "switch" \notin RowSet
    BY RowNumbers DEF BudgetInv, RequestInv
  <1>3. /\ q = [row |-> q.row, value |-> q.value, target |-> q.target, state |-> q.state]
        /\ q.row \in RowSet => q.value \in Int /\ q.target \in Int /\ Within(q.value, Budget)
    BY <1>2, RequestParts
  <1>4. q.row \in RowSet => /\ server[q.row] \in Int /\ Bound(q.row) \in Int
                            /\ Within(server[q.row], Bound(q.row))
    BY BoundType
  <1> DEFINE As(stage, target) == Taken(q, stage, target)
             Fits(target) == q.row \in RowSet => target \in Int /\ Within(target, Bound(q.row) + Budget)
  <1>5. Fits(IF q.row \in RowSet THEN server[q.row] + q.value ELSE 0)
    <2> SUFFICES ASSUME q.row \in RowSet
                 PROVE  server[q.row] + q.value \in Int /\ Within(server[q.row] + q.value, Bound(q.row) + Budget)
      OBVIOUS
    <2>1. PICK old, by, bound \in Int : old = server[q.row] /\ by = q.value /\ bound = Bound(q.row)
      BY <1>3, <1>4
    <2>2. Within(old, bound) /\ Within(by, Budget)
      BY <1>3, <1>4, <2>1
    <2>3. Within(old + by, bound + Budget)
      BY <1>2, <2>1, <2>2 DEF Within
    <2> QED BY <2>1, <2>3
  <1>6. q.row \in RowSet => Within(server[q.row], Bound(q.row) + Budget)
    BY <1>2, <1>4 DEF Within
  <1>7. q.state = "planned" => Fits(q.target)
    BY <1>3 DEF BudgetInv, ReachInv, Reach, Bound
  <1>8. \E stage \in Stages \ {"sent"} : \E target :
          /\ requests' = [requests EXCEPT ![i] = As(stage, target)]
          /\ q.state \in {"sent", "planned"}
          /\ q.row \in RowSet => target \in Int
          /\ stage = "planned" => Fits(target)
          /\ \/ server' = server
             \/ stage \in Ended /\ Fits(target) /\ server' = [server EXCEPT ![q.row] = target]
    <2>1. CASE ServerRefuses(i)
      <3>1. requests' = [requests EXCEPT ![i] = As("refused", q.target)]
        <4>1. [q EXCEPT !.state = "refused"] = As("refused", q.target)
          BY <1>3 DEF Taken
        <4>2. requests' = [requests EXCEPT ![i] = [q EXCEPT !.state = "refused"]]
          BY <2>1 DEF ServerRefuses
        <4> QED BY <4>1, <4>2
      <3> QED BY <1>3, <2>1, <3>1 DEF ServerRefuses, serverVars, Stages
    <2>2. CASE ServerReads(i)
      <3>1. /\ q.row \in RowSet /\ q.state = "sent" /\ server' = server
            /\ requests' = [requests EXCEPT ![i] = As("planned", server[q.row] + q.value)]
        BY <2>2 DEF ServerReads, Voltages, serverVars
      <3> QED BY <1>5, <3>1 DEF Stages
    <2>3. CASE ServerWrites(i)
      <3>1. PICK end \in {"done", "refused"} :
              requests' = [requests EXCEPT ![i] = As(end, Result(q))]
        BY <2>3 DEF ServerWrites
      <3>3. q.state \in {"sent", "planned"}
        BY <2>3 DEF ServerWrites, Ready
      <3>4. Fits(Result(q))
        BY <1>5, <1>7, <2>3 DEF ServerWrites, Ready, Result, Voltages
      <3>5. server' = server \/ server' = [server EXCEPT ![q.row] = Result(q)]
        BY <2>3 DEF ServerWrites
      <3>6. end \in Stages \ {"sent"} /\ end \in Ended
        BY DEF Stages, Ended
      <3> HIDE DEF As, q
      <3> QED BY <3>1, <3>3, <3>4, <3>5, <3>6
    <2> QED BY <2>1, <2>2, <2>3 DEF Serves
  <1>9. PICK stage \in Stages \ {"sent"} : \E target :
          /\ requests' = [requests EXCEPT ![i] = As(stage, target)]
          /\ q.state \in {"sent", "planned"}
          /\ q.row \in RowSet => target \in Int
          /\ stage = "planned" => Fits(target)
          /\ \/ server' = server
             \/ stage \in Ended /\ Fits(target) /\ server' = [server EXCEPT ![q.row] = target]
    BY <1>8
  <1>10. PICK target :
          /\ requests' = [requests EXCEPT ![i] = As(stage, target)]
          /\ q.state \in {"sent", "planned"}
          /\ q.row \in RowSet => target \in Int
          /\ stage = "planned" => Fits(target)
          /\ \/ server' = server
             \/ stage \in Ended /\ Fits(target) /\ server' = [server EXCEPT ![q.row] = target]
    BY <1>9
  <1> DEFINE e == As(stage, target)
  <1>11. e.row = q.row /\ e.state = stage /\ e.target = target /\ Asking(e) /\ q.state \notin Ended
    BY <1>3, <1>10 DEF Asking, Ended, Taken
  <1>12. requests' = [requests EXCEPT ![i] = e]
    BY <1>10
  <1> HIDE DEF e, As
  <1>13. /\ server' \in [RowSet -> Int]
         /\ \A r \in RowSet : server'[r] = server[r] \/ (r = q.row /\ stage \in Ended)
         /\ q.row \in RowSet => Within(server'[q.row], Bound(q.row) + Budget)
    BY <1>6, <1>10 DEF BudgetInv, SettingsTyped
  <1>14. SettingsTyped' /\ StageInv'
    BY <1>1, <1>13 DEF BudgetInv, SettingsTyped, StageInv, Net
  <1>15. RequestInv'
    <2>1. PICK S : requests \in Seq(S)
      BY DEF BudgetInv, RequestInv
    <2>2. requests \in Seq(S \union {e})
      BY <2>1
    <2>3. requests' \in Seq(S \union {e}) /\ DOMAIN requests' = DOMAIN requests
      BY <1>12, <2>2
    <2>4. \A j \in DOMAIN requests' : Asking(requests'[j])
      BY <1>11, <1>12, <2>1, <2>3 DEF BudgetInv, RequestInv
    <2>5. \A r \in RowSet : Cardinality(OfRow(requests', r)) = Cardinality(OfRow(requests, r))
      <3>1. PICK new : new = requests'
        OBVIOUS
      <3>2. /\ DOMAIN new = DOMAIN requests /\ new[i] = e
            /\ \A j \in DOMAIN requests \ {i} : new[j] = requests[j]
        BY <1>12, <2>1, <3>1
      <3>3. new[i].row = requests[i].row
        BY <1>11, <3>2
      <3>4. ASSUME NEW r PROVE Cardinality(OfRow(new, r)) = Cardinality(OfRow(requests, r))
        <4>1. IsFiniteSet(ClosedOf(requests, r))
          BY <2>1, RequestCounts
        <4> QED BY <1>11, <3>2, <3>3, <4>1, ServedCounts
      <3> QED BY <3>1, <3>4
    <2>6. \A r \in RowSet : sent'[r] = Cardinality(OfRow(requests', r))
      BY <1>1, <2>5 DEF BudgetInv, RequestInv
    <2>7. flight' \in DOMAIN requests' \union {0}
      BY <1>1, <2>3 DEF BudgetInv, RequestInv
    <2>8. \E T : requests' \in Seq(T)
      BY <2>3
    <2> QED BY <2>4, <2>6, <2>7, <2>8, Zenon DEF RequestInv
  <1>16. ReachInv'
    <2>1. PICK after, new : after = server' /\ new = requests'
      OBVIOUS
    <2>2. \A r \in RowSet : after[r] \in Int
      BY <1>13, <2>1
    <2>3. \A r \in RowSet : after[r] = server[r] \/ (r = e.row /\ e.state \in Ended)
      BY <1>11, <1>13, <2>1
    <2>4. /\ e.row \in RowSet => Within(after[e.row], Bound(e.row) + Budget)
          /\ e.row \in RowSet /\ e.state = "planned" => Within(e.target, Bound(e.row) + Budget)
      BY <1>10, <1>11, <1>13, <2>1
    <2>5. new = [requests EXCEPT ![i] = e]
      BY <1>12, <2>1
    <2>6. Reach(after, new, drift)
      BY <1>11, <2>2, <2>3, <2>4, <2>5, ServedKeepsReach, Zenon
    <2> QED BY <1>1, <2>1, <2>6 DEF ReachInv
  <1> QED BY <1>14, <1>15, <1>16 DEF BudgetInv

(* The console has its answer, or will have none: what was asked goes on. *)
LEMMA EndKeepsBudget ==
  ASSUME BudgetInv, ReplyArrives \/ GivesUp
  PROVE  BudgetInv'
  <1>1. /\ flight # 0 /\ flight' = 0
        /\ UNCHANGED <<index, requests, sent, server, cache, drift>>
    BY DEF ReplyArrives, GivesUp, serverVars
  <1>2. Asking(Asked)
    BY <1>1 DEF Asked, BudgetInv, RequestInv
  <1>3. RequestInv' /\ ReachInv'
    BY <1>1, NothingServed
  <1>4. SettingsTyped'
    BY <1>1 DEF BudgetInv, SettingsTyped
  <1>5. StageInv'
    <2>1. BaseOf(Asked.row) \in Int \/ Asked.row \notin RowSet
      BY RowNumbers DEF BudgetInv, StageInv, BaseOf
    <2>2. Achieved \in Int \/ Asked.row \notin RowSet
      BY <1>2, RequestParts DEF BudgetInv, StageInv, Achieved
    <2>3. \E end : Settled(Asked.row, end) /\ (end = BaseOf(Asked.row) \/ end = Achieved)
      BY DEF ReplyArrives, GivesUp
    <2> QED BY <1>1, <2>1, <2>2, <2>3, SettledKeepsStage
  <1> QED BY <1>3, <1>4, <1>5 DEF BudgetInv

(* What another client writes is its own to account for. *)
LEMMA OthersKeepBudget ==
  ASSUME BudgetInv, OthersWrite
  PROVE  BudgetInv'
  <1>1. UNCHANGED <<rows, index, requests, flight, sent, cache>>
    BY DEF OthersWrite, stageVars, requestVars
  <1>2. PICK r \in RowSet, by \in Int :
          /\ server' = [server EXCEPT ![r] = @ + by]
          /\ drift' = [drift EXCEPT ![r] = @ + Magnitude(by)]
    BY RowNumbers DEF OthersWrite
  <1>3. PICK far \in Nat : far = Magnitude(by) /\ Within(by, far)
    BY DEF Magnitude, Within
  <1> DEFINE Wider(s) == BoundOf(requests, drift', s)
  <1>4. SettingsTyped'
    BY <1>1, <1>2, <1>3 DEF BudgetInv, SettingsTyped
  <1>5. StageInv' /\ RequestInv'
    BY <1>1 DEF BudgetInv, StageInv, RequestInv, Net
  <1>6. \A s \in RowSet : /\ Bound(s) \in Int /\ server[s] \in Int /\ Within(server[s], Bound(s))
                          /\ Wider(s) = Bound(s) + (IF s = r THEN far ELSE 0)
    <2> SUFFICES ASSUME NEW s \in RowSet
                 PROVE  Wider(s) = Bound(s) + (IF s = r THEN far ELSE 0)
      BY BoundType
    <2>1. Cardinality(ClosedOf(requests, s)) \in Nat /\ drift[s] \in Nat
      BY BoundType
    <2>2. drift'[s] = drift[s] + (IF s = r THEN far ELSE 0)
      BY <1>2, <1>3 DEF BudgetInv, SettingsTyped
    <2>3. PICK paid \in Int : paid = Budget * Cardinality(ClosedOf(requests, s))
      BY <2>1, BudgetGrows
    <2> QED BY <2>1, <2>2, <2>3 DEF Bound, BoundOf
  <1> HIDE DEF Wider
  <1>7. ASSUME NEW s \in RowSet PROVE Within(server'[s], Wider(s))
    <2>1. server'[s] = server[s] + (IF s = r THEN by ELSE 0)
      BY <1>2 DEF BudgetInv, SettingsTyped
    <2> QED BY <1>3, <1>6, <2>1 DEF Within
  <1>8. ASSUME NEW i \in DOMAIN requests, requests[i].state = "planned", requests[i].row \in RowSet
        PROVE  Within(requests[i].target, Wider(requests[i].row) + Budget)
    <2>1. Asking(requests[i]) /\ Within(requests[i].target, Bound(requests[i].row) + Budget)
      BY <1>8 DEF BudgetInv, RequestInv, ReachInv, Reach, Bound
    <2>2. requests[i].target \in Int
      BY <1>8, <2>1, RequestParts
    <2>3. PICK bound, wider \in Int :
            /\ bound = Bound(requests[i].row) /\ wider = Wider(requests[i].row)
            /\ wider = bound \/ wider = bound + far
      BY <1>6, <1>8
    <2>4. Within(requests[i].target, bound + Budget)
      BY <2>1, <2>3
    <2>5. Budget \in Nat
      BY RowNumbers
    <2>6. Within(requests[i].target, wider + Budget)
      BY <2>2, <2>3, <2>4, <2>5 DEF Within
    <2> QED BY <2>3, <2>6
  <1>9. ReachInv'
    BY <1>1, <1>7, <1>8 DEF ReachInv, Reach, Wider
  <1> QED BY <1>4, <1>5, <1>9 DEF BudgetInv

LEMMA StepKeepsBudget ==
  ASSUME BudgetInv, [ConsoleNext]_consoleVars
  PROVE  BudgetInv'
  <1>1. CASE \/ Refresh \/ IntervalEnds \/ CommitEnds \/ Publish
             \/ (\E key \in Keys : Press(key)) \/ UNCHANGED consoleVars
    <2>1. UNCHANGED <<rows, index, requests, flight, sent, server, drift>>
      BY <1>1 DEF Refresh, IntervalEnds, CommitEnds, Publish, Press, consoleVars,
                  stageVars, requestVars, serverVars
    <2>2. RequestInv' /\ ReachInv'
      BY <2>1, NothingServed
    <2>3. StageInv'
      BY <2>1 DEF BudgetInv, StageInv, Net
    <2>4. SettingsTyped'
      <3>1. CASE UNCHANGED cache
        BY <2>1, <3>1 DEF BudgetInv, SettingsTyped
      <3>2. CASE Publish
        BY <2>1, <3>2 DEF BudgetInv, SettingsTyped, Publish
      <3> QED BY <1>1, <3>1, <3>2
              DEF Refresh, IntervalEnds, CommitEnds, Press, consoleVars, serverVars
    <2> QED BY <2>2, <2>3, <2>4 DEF BudgetInv
  <1>2. CASE ReadKey
    <2>1. PICK key : ViewKey(key) \/ TuneKey(key) \/ OptionsKey(key)
      BY <1>2 DEF ReadKey
    <2>2. StageInv' /\ UNCHANGED <<requests, flight, sent>>
      BY <2>1, KeyKeepsStage
    <2>3. UNCHANGED <<server, cache, drift>>
      BY <1>2 DEF ReadKey, serverVars
    <2>4. RequestInv' /\ ReachInv'
      BY <2>2, <2>3, NothingServed
    <2> QED BY <2>2, <2>3, <2>4 DEF BudgetInv, SettingsTyped
  <1> QED BY <1>1, <1>2, SendKeepsBudget, ServesKeepsBudget, EndKeepsBudget, OthersKeepBudget
          DEF ConsoleNext, Main

(* A setting is never further from where it started than the console's        *)
(* commits, a budget each, and the other clients' moves account for, whatever *)
(* was refused, lost, late or overtaken, for any rows, steps, budget and      *)
(* moves (CommitWithinBudget).                                                *)
THEOREM CommitsKeepBudget == ConsoleSpec => []CommitWithinBudget
  <1>1. ConsoleInit => BudgetInv
    <2> SUFFICES ASSUME ConsoleInit PROVE BudgetInv
      OBVIOUS
    <2>1. /\ rows = [r \in RowSet |-> Staged(0)] /\ index = 1 /\ requests = <<>> /\ flight = 0
          /\ server = [r \in RowSet |-> 0] /\ cache = [settings |-> server, enabled |-> switch]
          /\ drift = [r \in RowSet |-> 0] /\ sent = [r \in RowSet |-> 0]
      BY DEF ConsoleInit
    <2>2. SettingsTyped
      BY <2>1 DEF SettingsTyped
    <2>3. StageInv
      BY <2>1, RowNumbers DEF StageInv, Staged, Net, Within
    <2>4. DOMAIN requests = {} /\ requests \in Seq(Int)
      BY <2>1
    <2>5. \A r \in RowSet : /\ Cardinality(OfRow(requests, r)) = 0
                            /\ Cardinality(ClosedOf(requests, r)) = 0
      <3> SUFFICES ASSUME NEW r \in RowSet
                   PROVE  Cardinality(OfRow(requests, r)) = 0 /\ Cardinality(ClosedOf(requests, r)) = 0
        OBVIOUS
      <3>1. OfRow(requests, r) = {} /\ ClosedOf(requests, r) = {}
        BY <2>4 DEF OfRow, ClosedOf
      <3> QED BY <3>1, FS_EmptySet, Zenon
    <2>6. RequestInv
      BY <2>1, <2>4, <2>5 DEF RequestInv
    <2>7. \A r \in RowSet : Bound(r) = 0
      BY <2>1, <2>5, RowNumbers DEF Bound, BoundOf
    <2>8. ReachInv
      BY <2>1, <2>4, <2>7 DEF ReachInv, Reach, Bound, Within
    <2> QED BY <2>2, <2>3, <2>6, <2>8 DEF BudgetInv
  <1>2. BudgetInv /\ [ConsoleNext]_consoleVars => BudgetInv'
    BY StepKeepsBudget
  <1>3. BudgetInv => CommitWithinBudget
    <2> SUFFICES ASSUME BudgetInv, NEW r \in RowSet
                 PROVE  Magnitude(server[r]) <= Budget * sent[r] + drift[r]
      BY DEF CommitWithinBudget
    <2>1. /\ Bound(r) \in Int /\ Bound(r) <= Budget * sent[r] + drift[r]
          /\ server[r] \in Int /\ Within(server[r], Bound(r)) /\ drift[r] \in Nat
      BY BoundType
    <2>2. PICK paid \in Int : paid = Budget * sent[r]
      BY BudgetGrows DEF BudgetInv, SettingsTyped
    <2> QED BY <2>1, <2>2 DEF Within, Magnitude
  <1> QED BY <1>1, <1>2, <1>3, PTL DEF ConsoleSpec

-----------------------------------------------------------------------------
(* The recorder of transitions never contradicts its tracker.                 *)

States == {"none", "up", "down"}

(* The trackers' part of the state: its types, and what was told.             *)
EventsInv ==
  /\ tracker \in [Observed -> States] /\ told \in [Observed -> States]
  /\ lost \subseteq Observed
  /\ EventsTellState

(* A gap leaves a tracker as it is; anything else is what the tracker takes.  *)
LEMMA AdvancedReading ==
  ASSUME NEW seen \in [Observed -> States], tracker \in [Observed -> States]
  PROVE  /\ Advanced(seen) \in [Observed -> States]
         /\ \A o \in Observed :
              Advanced(seen)[o] = IF seen[o] = "none" THEN tracker[o] ELSE seen[o]
  BY DEF Advanced

(* A start knows nothing and has told nothing.                                *)
LEMMA FreshEvents ==
  ASSUME tracker = [o \in Observed |-> "none"], told = tracker, lost = {}
  PROVE  EventsInv
  BY DEF EventsInv, EventsTellState, States

(* The step that matters: what was told stays true of the tracker unless it   *)
(* is told anew, or its writing failed.                                       *)
LEMMA RecordingTells ==
  ASSUME EventsInv, RecordsEvents
  PROVE  EventsInv'
  <1>1. /\ tracker \in [Observed -> States] /\ told \in [Observed -> States]
        /\ lost \subseteq Observed
        /\ \A o \in Observed \ lost : told[o] # "none" => told[o] = tracker[o]
    BY DEF EventsInv, EventsTellState
  <1>2. PICK seen \in [Observed -> States] :
          /\ tracker' = Advanced(seen)
          /\ \E failed \in SUBSET Transitions(seen) :
               /\ told' = [o \in Observed |-> IF o \in Transitions(seen) \ failed THEN seen[o] ELSE told[o]]
               /\ lost' = lost \union failed
    BY DEF RecordsEvents, States
  <1>3. PICK failed \in SUBSET Transitions(seen) :
          /\ told' = [o \in Observed |-> IF o \in Transitions(seen) \ failed THEN seen[o] ELSE told[o]]
          /\ lost' = lost \union failed
    BY <1>2
  <1>4. /\ tracker' \in [Observed -> States]
        /\ \A o \in Observed : tracker'[o] = IF seen[o] = "none" THEN tracker[o] ELSE seen[o]
    BY <1>1, <1>2, AdvancedReading
  <1>5. Transitions(seen) \subseteq Observed
    BY DEF Transitions
  <1>6. told' \in [Observed -> States] /\ lost' \subseteq Observed
    BY <1>1, <1>3, <1>5
  <1>7. ASSUME NEW o \in Observed, o \notin lost', told'[o] # "none"
        PROVE  told'[o] = tracker'[o]
    <2>1. o \notin lost /\ o \notin failed
      BY <1>3, <1>7
    <2>2. CASE o \in Transitions(seen)
      <3>1. told'[o] = seen[o]
        BY <1>3, <2>1, <2>2
      <3>2. seen[o] # "none"
        BY <2>2 DEF Transitions
      <3> QED BY <3>1, <3>2, <1>4
    <2>3. CASE o \notin Transitions(seen)
      <3>1. told'[o] = told[o]
        BY <1>3, <2>3
      <3>2. told[o] = tracker[o] /\ tracker[o] # "none"
        BY <3>1, <2>1, <1>1, <1>7
      <3>3. tracker'[o] = tracker[o]
        BY <2>3, <3>2, <1>4 DEF Transitions
      <3> QED BY <3>1, <3>2, <3>3
    <2> QED BY <2>2, <2>3
  <1> QED BY <1>4, <1>6, <1>7 DEF EventsInv, EventsTellState

(* Unless its writing failed, the last event recorded tells the state last    *)
(* seen of everything observed (EventsTellState), in every behaviour.         *)
THEOREM EventsAreTrue == AdvisorySpec => []EventsTellState
  <1>1. AdvisoryInit => EventsInv
    BY FreshEvents DEF AdvisoryInit
  <1>2. EventsInv /\ [AdvisoryNext]_advisoryVars => EventsInv'
    <2> SUFFICES ASSUME EventsInv, [AdvisoryNext]_advisoryVars PROVE EventsInv'
      OBVIOUS
    <2>1. CASE RecordsEvents
      BY <2>1, RecordingTells
    <2>2. CASE Restarts
      BY <2>2 DEF Restarts, EventsInv, EventsTellState, States
    <2>3. CASE UNCHANGED eventVars
      BY <2>3 DEF eventVars, EventsInv, EventsTellState
    <2>4. TickStarts \/ GetsCached \/ GetFetches \/ Visits \/ Requests => UNCHANGED eventVars
      BY DEF TickStarts, GetsCached, GetFetches, Visits, Requests
    <2>5. ASSUME NEW f \in Fetchers
          PROVE  FetchAnswered(f) \/ FetchStored(f) \/ FetchFails(f) => UNCHANGED eventVars
      BY DEF FetchAnswered, FetchStored, FetchFails
    <2>6. TimePasses \/ Outside \/ UNCHANGED advisoryVars => UNCHANGED eventVars
      BY DEF TimePasses, Outside, advisoryVars
    <2> QED BY <2>1, <2>2, <2>3, <2>4, <2>5, <2>6 DEF AdvisoryNext
  <1>3. EventsInv => EventsTellState
    BY DEF EventsInv
  <1> QED BY <1>1, <1>2, <1>3, PTL DEF AdvisorySpec
=============================================================================
