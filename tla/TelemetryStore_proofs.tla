----------------------- MODULE TelemetryStore_proofs -----------------------
(* The recorder, its fallback and the exporter, for any writers, batches and  *)
(* faults: its health is honest (QuietOkMeansDrained), the rows that are lost *)
(* are accounted for (GapsAccounted) and the exporter marks only what it      *)
(* uploaded (OwnMarksHonest).                                                 *)
EXTENDS TelemetryStore, FiniteSetTheorems, SequenceTheorems, TLAPS

-----------------------------------------------------------------------------
(* Tables.                                                                    *)

Row == [source : Writers \cup {"pack", "device"}, at : Nat]
Entry == [row : Row, exported : BOOLEAN]

(* What SetToSeq chooses holds the whole set.                                 *)
LEMMA SequenceOfSet ==
  ASSUME NEW S, IsFiniteSet(S)
  PROVE  SetToSeq(S) \in Seq(S) /\ \A x \in S : \E i \in DOMAIN SetToSeq(S) : SetToSeq(S)[i] = x
<1> DEFINE n == Cardinality(S)
           q == SetToSeq(S)
<1>1. n \in Nat /\ ExistsBijection(1 .. n, S)
  BY FS_CardinalityType
<1>2. \E f \in [1 .. n -> S] : IsInjective(f)
  BY <1>1 DEF ExistsBijection, Bijection, Injection
<1>3. q \in [1 .. n -> S] /\ IsInjective(q)
  BY <1>2 DEF SetToSeq
<1>4. Cardinality(1 .. n) = n
  BY <1>1, FS_Interval
<1> HIDE DEF q
<1>5. q \in Surjection(1 .. n, S)
  BY <1>3, <1>4, FS_Injection DEF Injection
<1>6. q \in Seq(S)
  BY <1>1, <1>3
<1>7. \A x \in S : \E i \in DOMAIN q : q[i] = x
  BY <1>3, <1>5 DEF Surjection
<1> QED BY <1>6, <1>7 DEF q

(* A copied row keeps the numbers of those that were there, and is new.       *)
LEMMA InsertKeeps ==
  ASSUME NEW table \in Seq(Entry), NEW rows, rows \subseteq Row, IsFiniteSet(rows)
  PROVE  LET q == InsertOrIgnore(table, rows)
         IN  /\ q \in Seq(Entry)
             /\ RowsIn(q) = RowsIn(table) \cup rows
             /\ \A i \in DOMAIN table : i \in DOMAIN q /\ q[i] = table[i]
             /\ \A i \in DOMAIN q : q[i].exported => i \in DOMAIN table
<1> DEFINE fresh == {[row |-> r, exported |-> FALSE] : r \in rows \ RowsIn(table)}
           new == SetToSeq(fresh)
           q == table \o new
<1>1. \A e \in fresh : e \in Entry /\ e.exported = FALSE /\ e.row \in rows \ RowsIn(table)
  <2> TAKE e \in fresh
  <2>1. PICK r \in rows \ RowsIn(table) : e = [row |-> r, exported |-> FALSE]
    OBVIOUS
  <2>2. r \in Row
    OBVIOUS
  <2> QED BY <2>1, <2>2 DEF Entry
<1>2. \A r \in rows \ RowsIn(table) : \E e \in fresh : e.row = r
  <2> TAKE r \in rows \ RowsIn(table)
  <2>1. [row |-> r, exported |-> FALSE] \in fresh
    OBVIOUS
  <2> QED BY <2>1
<1>3. IsFiniteSet(fresh)
  <2> DEFINE f == [e \in fresh |-> e.row]
  <2>1. \A e \in fresh : e = [row |-> e.row, exported |-> FALSE]
    OBVIOUS
  <2> HIDE DEF fresh
  <2>2. \A d, e \in fresh : f[d] = f[e] => d = e
    BY <2>1
  <2>3. f \in [fresh -> rows]
    BY <1>1
  <2>4. f \in Injection(fresh, rows)
    BY <2>2, <2>3 DEF Injection, IsInjective
  <2> QED BY <2>4, FS_Injection
<1> HIDE DEF fresh
<1>4. new \in Seq(fresh) /\ \A e \in fresh : \E i \in DOMAIN new : new[i] = e
  BY <1>3, SequenceOfSet
<1> HIDE DEF new
<1>5. new \in Seq(Entry) /\ \A i \in DOMAIN new : new[i] \in fresh
  <2>1. \A i \in DOMAIN new : new[i] \in fresh
    BY <1>4, LenProperties
  <2>2. fresh \subseteq Entry
    BY <1>1
  <2> QED BY <1>4, <2>1, <2>2, SeqMonotonic
<1>6. /\ q \in Seq(Entry)
      /\ Len(q) = Len(table) + Len(new)
      /\ \A i \in 1 .. Len(table) + Len(new) : q[i] = IF i <= Len(table) THEN table[i] ELSE new[i - Len(table)]
      /\ Len(table) \in Nat /\ Len(new) \in Nat
      /\ DOMAIN table = 1 .. Len(table) /\ DOMAIN new = 1 .. Len(new) /\ DOMAIN q = 1 .. Len(q)
  BY <1>5, ConcatProperties, LenProperties
<1> HIDE DEF q
<1>7. \A i \in DOMAIN table : i \in DOMAIN q /\ q[i] = table[i]
  BY <1>6
<1>8. \A i \in DOMAIN q : i \in DOMAIN table \/ \E j \in DOMAIN new : q[i] = new[j]
  <2> TAKE i \in DOMAIN q
  <2>1. i \in 1 .. Len(table) + Len(new) /\ i \in Int
    BY <1>6
  <2>2. CASE i <= Len(table)
    BY <1>6, <2>1, <2>2
  <2>3. CASE ~(i <= Len(table))
    <3>1. i - Len(table) \in 1 .. Len(new) /\ q[i] = new[i - Len(table)]
      BY <1>6, <2>1, <2>3
    <3> QED BY <1>6, <3>1
  <2> QED BY <2>2, <2>3
<1>9. \A j \in DOMAIN new : \E i \in DOMAIN q : q[i] = new[j]
  <2> TAKE j \in DOMAIN new
  <2>1. j + Len(table) \in 1 .. Len(table) + Len(new) /\ ~(j + Len(table) <= Len(table))
        /\ (j + Len(table)) - Len(table) = j
    BY <1>6
  <2>2. q[j + Len(table)] = new[j]
    BY <1>6, <2>1
  <2> QED BY <1>6, <2>1, <2>2
<1>10. RowsIn(q) = RowsIn(table) \cup rows
  <2>1. ASSUME NEW i \in DOMAIN q PROVE q[i].row \in RowsIn(table) \cup rows
    BY <1>1, <1>5, <1>7, <1>8 DEF RowsIn
  <2>2. ASSUME NEW i \in DOMAIN table PROVE table[i].row \in RowsIn(q)
    BY <1>7 DEF RowsIn
  <2>3. ASSUME NEW r \in rows \ RowsIn(table) PROVE r \in RowsIn(q)
    <3>1. PICK e \in fresh : e.row = r
      BY <1>2
    <3>2. PICK j \in DOMAIN new : new[j] = e
      BY <1>4
    <3>3. PICK i \in DOMAIN q : q[i] = new[j]
      BY <1>9
    <3> QED BY <3>1, <3>2, <3>3 DEF RowsIn
  <2>4. RowsIn(q) \subseteq RowsIn(table) \cup rows
    BY <2>1 DEF RowsIn
  <2>5. RowsIn(table) \subseteq RowsIn(q)
    BY <2>2 DEF RowsIn
  <2> QED BY <2>3, <2>4, <2>5
<1>11. \A i \in DOMAIN q : q[i].exported => i \in DOMAIN table
  BY <1>1, <1>5, <1>8
<1>12. InsertOrIgnore(table, rows) = q
  BY DEF InsertOrIgnore, q, new, fresh
<1> QED BY <1>6, <1>7, <1>10, <1>11, <1>12

-----------------------------------------------------------------------------
(* Databases.                                                                 *)

Databases == {"ssd", "shadow", "fallback"}
States == {"absent", "bare", "ready", "corrupt"}
Database == [state : States, age : Nat, samples : Seq(Entry), events : Seq(Entry)]
Phases == {"idle", "primary", "primary damaged", "primary again", "fallback", "fallback damaged",
           "fallback again", "merge", "note fallback", "unlink"}

ContentOf(b) == RowsIn(b.samples) \cup RowsIn(b.events)

FilesTyped == file \in [Databases -> Database]
ClockTyped == tick \in Nat /\ polled \in Nat
PhasesTyped == pc \in [Writers -> Phases]
ExportTyped ==
  export.phase # "idle" =>
    /\ \A k \in {"phase", "table", "ids", "rows", "from"} : k \in DOMAIN export
    /\ export.phase \in {"put", "mark"} /\ export.table \in Tables

AsideTyped == aside \in [Databases -> [last : SUBSET Row, at : Nat, older : SUBSET Row]]

StoreTyped == FilesTyped /\ AsideTyped /\ ClockTyped /\ PhasesTyped /\ ExportTyped

(* A table that only grew, and one of which nothing new is marked.            *)
Grown(new, old) == \A i \in DOMAIN old : i \in DOMAIN new /\ new[i].row = old[i].row
Unmarked(new, old) ==
  \A i \in DOMAIN new : new[i].exported => i \in DOMAIN old /\ old[i].exported /\ new[i].row = old[i].row

(* The one database a step writes keeps its rows and their numbers.           *)
Keeps(b, d) ==
  /\ b \in Database /\ b.age = file[d].age
  /\ Grown(b.samples, file[d].samples) /\ Grown(b.events, file[d].events)
MarksNothing(b, d) ==
  Unmarked(b.samples, file[d].samples) /\ Unmarked(b.events, file[d].events)
Becomes(d, b) == d \in Databases /\ file' = [file EXCEPT ![d] = b]

LEMMA SameTable ==
  ASSUME NEW table
  PROVE  Grown(table, table) /\ Unmarked(table, table)
BY DEF Grown, Unmarked

LEMMA GrownTable ==
  ASSUME NEW table \in Seq(Entry), NEW rows, rows \subseteq Row, IsFiniteSet(rows)
  PROVE  LET q == InsertOrIgnore(table, rows)
         IN  q \in Seq(Entry) /\ Grown(q, table) /\ Unmarked(q, table) /\ RowsIn(q) = RowsIn(table) \cup rows
<1> DEFINE q == InsertOrIgnore(table, rows)
<1>1. /\ q \in Seq(Entry)
      /\ RowsIn(q) = RowsIn(table) \cup rows
      /\ \A i \in DOMAIN table : i \in DOMAIN q /\ q[i] = table[i]
      /\ \A i \in DOMAIN q : q[i].exported => i \in DOMAIN table
  BY InsertKeeps
<1> HIDE DEF q
<1>2. Grown(q, table) /\ Unmarked(q, table)
  BY <1>1 DEF Grown, Unmarked
<1> QED BY <1>1, <1>2 DEF q

LEMMA GrownRows ==
  ASSUME NEW new, NEW old, Grown(new, old)
  PROVE  RowsIn(old) \subseteq RowsIn(new)
BY DEF Grown, RowsIn

LEMMA KeepsRows ==
  ASSUME NEW d, NEW b, Keeps(b, d)
  PROVE  ContentOf(file[d]) \subseteq ContentOf(b)
BY GrownRows DEF Keeps, ContentOf

(* A table has finitely many rows, each of them a row of a writer.            *)
LEMMA TableRows ==
  ASSUME NEW table \in Seq(Entry)
  PROVE  RowsIn(table) \subseteq Row /\ IsFiniteSet(RowsIn(table))
<1>1. DOMAIN table = 1 .. Len(table) /\ Len(table) \in Nat /\ \A i \in DOMAIN table : table[i] \in Entry
  BY LenProperties
<1>2. RowsIn(table) \subseteq Row
  BY <1>1 DEF RowsIn, Entry
<1> DEFINE f == [i \in 1 .. Len(table) |-> table[i].row]
<1>3. f \in Surjection(1 .. Len(table), RowsIn(table))
  BY <1>1 DEF Surjection, RowsIn
<1>4. IsFiniteSet(1 .. Len(table))
  BY <1>1, FS_Interval
<1>5. IsFiniteSet(RowsIn(table))
  BY <1>3, <1>4, FS_Surjection
<1> QED BY <1>2, <1>5

LEMMA WriterRows ==
  ASSUME ClockTyped, NEW w \in Writers
  PROVE  Rows(w) \subseteq Row /\ IsFiniteSet(Rows(w)) /\ Table(w) \in Tables
<1>1. IsFiniteSet({PackRow(tick)}) /\ IsFiniteSet({DeviceRow(polled)}) /\ IsFiniteSet({EventRow(w)}) /\ IsFiniteSet({})
  BY FS_Singleton, FS_EmptySet
<1>2. IsFiniteSet({PackRow(tick)} \cup {DeviceRow(polled)}) /\ IsFiniteSet({PackRow(tick)} \cup {})
  BY <1>1, FS_Union
<1>3. IsFiniteSet(Rows(w))
  BY <1>1, <1>2, Zenon DEF Rows, SnapshotRows
<1>4. PackRow(tick) \in Row /\ DeviceRow(polled) \in Row /\ EventRow(w) \in Row
  BY DEF PackRow, DeviceRow, EventRow, Row, ClockTyped, Null
<1>5. Rows(w) \subseteq Row
  BY <1>4 DEF Rows, SnapshotRows
<1> QED BY <1>3, <1>5 DEF Table, Tables

LEMMA TargetsExist == \A w : Primary \in {"ssd", "shadow"} /\ Target(w) \in Databases
BY DEF Primary, Target, Databases

-----------------------------------------------------------------------------
(* What each step does to the database it writes.                             *)

LEMMA CommitWrites ==
  ASSUME StoreTyped, NEW w \in Writers, Commit(w)
  PROVE  \E b : /\ Becomes(Target(w), b) /\ b.state = "ready"
                /\ Keeps(b, Target(w)) /\ MarksNothing(b, Target(w))
                /\ ContentOf(b) \subseteq ContentOf(file[Target(w)]) \cup Rows(w)
<1> DEFINE d == Target(w)
           a == file[d]
           b == [a EXCEPT !.state = "ready", ![Table(w)] = InsertOrIgnore(@, Rows(w))]
<1>1. d \in Databases /\ file \in [Databases -> Database]
  BY TargetsExist DEF StoreTyped, FilesTyped
<1>2. a \in Database
  BY <1>1
<1>3. file' = [file EXCEPT ![d] = b]
  BY <1>1 DEF Commit
<1>4. Rows(w) \subseteq Row /\ IsFiniteSet(Rows(w))
  BY WriterRows DEF StoreTyped
<1> HIDE DEF a, d
<1>5. ASSUME NEW table \in Seq(Entry), NEW q, q = InsertOrIgnore(table, Rows(w))
      PROVE  q \in Seq(Entry) /\ Grown(q, table) /\ Unmarked(q, table) /\ RowsIn(q) = RowsIn(table) \cup Rows(w)
  BY <1>4, <1>5, GrownTable
<1>6. a.samples \in Seq(Entry) /\ a.events \in Seq(Entry)
  BY <1>2 DEF Database
<1>7. CASE Table(w) = "samples"
  <2>1. b = [a EXCEPT !.state = "ready", !.samples = InsertOrIgnore(a.samples, Rows(w))]
    BY <1>2, <1>7 DEF Database
  <2> HIDE DEF b
  <2>2. /\ b.state = "ready" /\ b.age = a.age /\ b.events = a.events
        /\ b.samples = InsertOrIgnore(a.samples, Rows(w))
    BY <1>2, <2>1 DEF Database
  <2>3. b.samples \in Seq(Entry) /\ Grown(b.samples, a.samples) /\ Unmarked(b.samples, a.samples)
        /\ RowsIn(b.samples) = RowsIn(a.samples) \cup Rows(w)
    BY <1>5, <1>6, <2>2
  <2>4. b \in Database
    BY <1>2, <2>1, <2>2, <2>3 DEF Database, States
  <2>5. Keeps(b, d) /\ MarksNothing(b, d)
    BY <2>2, <2>3, <2>4, SameTable DEF Keeps, MarksNothing, a
  <2>6. ContentOf(b) \subseteq ContentOf(file[d]) \cup Rows(w)
    BY <2>2, <2>3 DEF ContentOf, a
  <2> QED BY <1>1, <1>3, <2>2, <2>5, <2>6 DEF Becomes, d
<1>8. CASE Table(w) = "events"
  <2>1. b = [a EXCEPT !.state = "ready", !.events = InsertOrIgnore(a.events, Rows(w))]
    BY <1>2, <1>8 DEF Database
  <2> HIDE DEF b
  <2>2. /\ b.state = "ready" /\ b.age = a.age /\ b.samples = a.samples
        /\ b.events = InsertOrIgnore(a.events, Rows(w))
    BY <1>2, <2>1 DEF Database
  <2>3. b.events \in Seq(Entry) /\ Grown(b.events, a.events) /\ Unmarked(b.events, a.events)
        /\ RowsIn(b.events) = RowsIn(a.events) \cup Rows(w)
    BY <1>5, <1>6, <2>2
  <2>4. b \in Database
    BY <1>2, <2>1, <2>2, <2>3 DEF Database, States
  <2>5. Keeps(b, d) /\ MarksNothing(b, d)
    BY <2>2, <2>3, <2>4, SameTable DEF Keeps, MarksNothing, a
  <2>6. ContentOf(b) \subseteq ContentOf(file[d]) \cup Rows(w)
    BY <2>2, <2>3 DEF ContentOf, a
  <2> QED BY <1>1, <1>3, <2>2, <2>5, <2>6 DEF Becomes, d
<1> QED BY <1>7, <1>8 DEF Table

LEMMA MergeWrites ==
  ASSUME StoreTyped, NEW w \in Writers, MergeCopies(w)
  PROVE  \E b : /\ Becomes(Primary, b) /\ b.state = "ready"
                /\ Keeps(b, Primary) /\ MarksNothing(b, Primary)
                /\ ContentOf(file["fallback"]) \subseteq ContentOf(b)
<1> DEFINE d == Primary
           a == file[d]
           c == file["fallback"]
           b == [a EXCEPT !.state = "ready",
                          !.samples = InsertOrIgnore(a.samples, RowsIn(c.samples)),
                          !.events = InsertOrIgnore(a.events, RowsIn(c.events))]
<1>1. d \in Databases /\ file \in [Databases -> Database]
  BY TargetsExist DEF StoreTyped, FilesTyped, Databases
<1>2. a \in Database /\ c \in Database
  BY <1>1 DEF Databases
<1>3. file' = [file EXCEPT ![d] = b]
  BY <1>1 DEF MergeCopies
<1> HIDE DEF a, d, c
<1>4. /\ a.samples \in Seq(Entry) /\ a.events \in Seq(Entry)
      /\ c.samples \in Seq(Entry) /\ c.events \in Seq(Entry)
  BY <1>2 DEF Database
<1>5. /\ b.state = "ready" /\ b.age = a.age
      /\ b.samples = InsertOrIgnore(a.samples, RowsIn(c.samples))
      /\ b.events = InsertOrIgnore(a.events, RowsIn(c.events))
  BY <1>2 DEF Database
<1>6. ASSUME NEW old \in Seq(Entry), NEW other \in Seq(Entry), NEW q, q = InsertOrIgnore(old, RowsIn(other))
      PROVE  q \in Seq(Entry) /\ Grown(q, old) /\ Unmarked(q, old) /\ RowsIn(other) \subseteq RowsIn(q)
  <2>1. RowsIn(other) \subseteq Row /\ IsFiniteSet(RowsIn(other))
    BY TableRows
  <2> QED BY <1>6, <2>1, GrownTable
<1>7. /\ b.samples \in Seq(Entry) /\ Grown(b.samples, a.samples) /\ Unmarked(b.samples, a.samples)
      /\ RowsIn(c.samples) \subseteq RowsIn(b.samples)
  BY <1>4, <1>5, <1>6
<1>8. /\ b.events \in Seq(Entry) /\ Grown(b.events, a.events) /\ Unmarked(b.events, a.events)
      /\ RowsIn(c.events) \subseteq RowsIn(b.events)
  BY <1>4, <1>5, <1>6
<1>9. b \in Database
  BY <1>2, <1>5, <1>7, <1>8 DEF Database, States
<1> HIDE DEF b
<1>10. Keeps(b, d) /\ MarksNothing(b, d)
  BY <1>5, <1>7, <1>8, <1>9 DEF Keeps, MarksNothing, a
<1>11. ContentOf(file["fallback"]) \subseteq ContentOf(b)
  BY <1>7, <1>8 DEF ContentOf, c
<1> QED BY <1>1, <1>3, <1>5, <1>10, <1>11 DEF Becomes, d

(* A step that sets a state and no more.                                      *)
LEMMA StateWrites ==
  ASSUME StoreTyped, NEW d \in Databases, NEW state \in States, file' = [file EXCEPT ![d].state = state]
  PROVE  \E b : /\ Becomes(d, b) /\ b.state = state /\ Keeps(b, d) /\ MarksNothing(b, d)
                /\ ContentOf(b) = ContentOf(file[d])
<1> DEFINE b == [file[d] EXCEPT !.state = state]
<1>1. file[d] \in Database
  BY DEF StoreTyped, FilesTyped
<1>2. file' = [file EXCEPT ![d] = b]
  BY DEF StoreTyped, FilesTyped
<1>3. b \in Database /\ b.state = state /\ b.age = file[d].age /\ b.samples = file[d].samples
      /\ b.events = file[d].events
  BY <1>1 DEF Database
<1> HIDE DEF b
<1>4. Keeps(b, d) /\ MarksNothing(b, d)
  BY <1>3, SameTable DEF Keeps, MarksNothing
<1>5. ContentOf(b) = ContentOf(file[d])
  BY <1>3 DEF ContentOf
<1> QED BY <1>2, <1>3, <1>4, <1>5 DEF Becomes

(* The exporter's marks change no row and no number.                          *)
MarkRows(table, ids) ==
  [i \in DOMAIN table |-> IF i \in ids THEN [table[i] EXCEPT !.exported = TRUE] ELSE table[i]]

LEMMA MarkKeeps ==
  ASSUME NEW table \in Seq(Entry), NEW ids, NEW q, q = MarkRows(table, ids)
  PROVE  /\ q \in Seq(Entry) /\ Grown(q, table)
         /\ \A i \in DOMAIN q : /\ i \in DOMAIN table /\ q[i].row = table[i].row
                                /\ q[i].exported /\ i \notin ids => table[i].exported
<1>1. DOMAIN table = 1 .. Len(table) /\ Len(table) \in Nat /\ \A i \in DOMAIN table : table[i] \in Entry
  BY LenProperties
<1>2. ASSUME NEW i \in DOMAIN table
      PROVE  q[i] \in Entry /\ q[i].row = table[i].row /\ (q[i].exported /\ i \notin ids => table[i].exported)
  BY <1>1 DEF MarkRows, Entry
<1>3. DOMAIN q = DOMAIN table
  BY DEF MarkRows
<1>4. q \in [1 .. Len(table) -> Entry]
  BY <1>1, <1>2, <1>3 DEF MarkRows
<1>5. q \in Seq(Entry)
  BY <1>1, <1>4
<1> QED BY <1>2, <1>3, <1>5 DEF Grown

LEMMA MarkWrites ==
  ASSUME StoreTyped, ExportMarks
  PROVE  \E b : /\ Becomes(Primary, b) /\ b.state = "ready" /\ Keeps(b, Primary)
                /\ \A t \in Tables : \A i \in DOMAIN b[t] :
                     /\ i \in DOMAIN file[Primary][t] /\ b[t][i].row = file[Primary][t][i].row
                     /\ b[t][i].exported /\ ~(t = export.table /\ i \in export.ids)
                          => file[Primary][t][i].exported
<1> DEFINE d == Primary
           a == file[d]
           b == [a EXCEPT !.state = "ready", ![export.table] = MarkRows(@, export.ids)]
<1>1. d \in Databases /\ file \in [Databases -> Database] /\ export.table \in Tables
  BY TargetsExist DEF StoreTyped, FilesTyped, Databases, ExportMarks, ExportTyped
<1>2. a \in Database /\ a.samples \in Seq(Entry) /\ a.events \in Seq(Entry)
  BY <1>1 DEF Database
<1>3. file' = [file EXCEPT ![d] = b]
  BY <1>1 DEF ExportMarks, MarkRows
<1> HIDE DEF a, d
<1>4. ASSUME NEW table \in Seq(Entry)
      PROVE  /\ Grown(table, table)
             /\ \A i \in DOMAIN table : table[i].row = table[i].row
  BY SameTable
<1>5. CASE export.table = "samples"
  <2>1. b = [a EXCEPT !.state = "ready", !.samples = MarkRows(a.samples, export.ids)]
    BY <1>2, <1>5 DEF Database
  <2> HIDE DEF b
  <2>2. /\ b.state = "ready" /\ b.age = a.age /\ b.events = a.events
        /\ b.samples = MarkRows(a.samples, export.ids) /\ b["samples"] = b.samples /\ b["events"] = b.events
    BY <1>2, <2>1 DEF Database
  <2>3. b.samples \in Seq(Entry) /\ Grown(b.samples, a.samples)
        /\ \A i \in DOMAIN b.samples : /\ i \in DOMAIN a.samples /\ b.samples[i].row = a.samples[i].row
                                       /\ b.samples[i].exported /\ i \notin export.ids => a.samples[i].exported
    BY <1>2, <2>2, MarkKeeps
  <2>4. b \in Database
    BY <1>2, <2>1, <2>2, <2>3 DEF Database, States
  <2>5. Keeps(b, d)
    BY <2>2, <2>3, <2>4, SameTable DEF Keeps, a
  <2>6. \A t \in Tables : \A i \in DOMAIN b[t] :
           /\ i \in DOMAIN a[t] /\ b[t][i].row = a[t][i].row
           /\ b[t][i].exported /\ ~(t = export.table /\ i \in export.ids) => a[t][i].exported
    <3>1. \A i \in DOMAIN b.events : i \in DOMAIN a.events /\ b.events[i].row = a.events[i].row
             /\ (b.events[i].exported => a.events[i].exported)
      BY <2>2
    <3> QED BY <1>5, <2>2, <2>3, <3>1 DEF Tables
  <2> QED BY <1>1, <1>3, <2>2, <2>5, <2>6 DEF Becomes, d, a
<1>6. CASE export.table = "events"
  <2>1. b = [a EXCEPT !.state = "ready", !.events = MarkRows(a.events, export.ids)]
    BY <1>2, <1>6 DEF Database
  <2> HIDE DEF b
  <2>2. /\ b.state = "ready" /\ b.age = a.age /\ b.samples = a.samples
        /\ b.events = MarkRows(a.events, export.ids) /\ b["samples"] = b.samples /\ b["events"] = b.events
    BY <1>2, <2>1 DEF Database
  <2>3. b.events \in Seq(Entry) /\ Grown(b.events, a.events)
        /\ \A i \in DOMAIN b.events : /\ i \in DOMAIN a.events /\ b.events[i].row = a.events[i].row
                                      /\ b.events[i].exported /\ i \notin export.ids => a.events[i].exported
    BY <1>2, <2>2, MarkKeeps
  <2>4. b \in Database
    BY <1>2, <2>1, <2>2, <2>3 DEF Database, States
  <2>5. Keeps(b, d)
    BY <2>2, <2>3, <2>4, SameTable DEF Keeps, a
  <2>6. \A t \in Tables : \A i \in DOMAIN b[t] :
           /\ i \in DOMAIN a[t] /\ b[t][i].row = a[t][i].row
           /\ b[t][i].exported /\ ~(t = export.table /\ i \in export.ids) => a[t][i].exported
    <3>1. \A i \in DOMAIN b.samples : i \in DOMAIN a.samples /\ b.samples[i].row = a.samples[i].row
             /\ (b.samples[i].exported => a.samples[i].exported)
      BY <2>2
    <3> QED BY <1>6, <2>2, <2>3, <3>1 DEF Tables
  <2> QED BY <1>1, <1>3, <2>2, <2>5, <2>6 DEF Becomes, d, a
<1> QED BY <1>1, <1>5, <1>6 DEF Tables

-----------------------------------------------------------------------------
(* All but two of the steps leave every row where it is.                      *)
Gentle == file' \in [Databases -> Database] /\ \A d \in Databases : Keeps(file'[d], d)
NoNewMarks == \A d \in Databases : MarksNothing(file'[d], d)

LEMMA OneWritten ==
  ASSUME StoreTyped, NEW d, NEW b, Becomes(d, b)
  PROVE  /\ Keeps(b, d) => Gentle
         /\ MarksNothing(b, d) => NoNewMarks
<1>1. file \in [Databases -> Database] /\ d \in Databases /\ file' = [file EXCEPT ![d] = b]
  BY DEF StoreTyped, FilesTyped, Becomes
<1>2. \A e \in Databases : file'[e] = IF e = d THEN b ELSE file[e]
  BY <1>1
<1>3. \A e \in Databases : Keeps(file[e], e) /\ MarksNothing(file[e], e)
  BY <1>1, SameTable DEF Keeps, MarksNothing
<1>4. ASSUME Keeps(b, d) PROVE Gentle
  <2>1. \A e \in Databases : Keeps(file'[e], e)
    BY <1>2, <1>3, <1>4
  <2>2. b \in Database
    BY <1>4 DEF Keeps
  <2> QED BY <1>1, <2>1, <2>2 DEF Gentle
<1>5. ASSUME MarksNothing(b, d) PROVE NoNewMarks
  BY <1>2, <1>3, <1>5 DEF NoNewMarks
<1> QED BY <1>4, <1>5

LEMMA NoneWritten ==
  ASSUME StoreTyped, UNCHANGED file
  PROVE  Gentle /\ NoNewMarks
<1>1. \A e \in Databases : Keeps(file[e], e) /\ MarksNothing(file[e], e)
  BY SameTable DEF Keeps, MarksNothing, StoreTyped, FilesTyped
<1> QED BY <1>1 DEF Gentle, NoNewMarks, StoreTyped, FilesTyped

(* A database that is removed, or moved aside.                                *)
LEMMA EmptyDatabase ==
  ASSUME NEW n \in Nat
  PROVE  LET b == [Absent EXCEPT !.age = n]
         IN  /\ b \in Database /\ b.state = "absent" /\ b.age = n /\ ContentOf(b) = {}
             /\ \A d : MarksNothing(b, d)
<1> DEFINE b == [Absent EXCEPT !.age = n]
<1>1. << >> \in Seq(Entry) /\ DOMAIN << >> = {}
  BY EmptySeq, LenProperties
<1>2. b \in Database /\ b.state = "absent" /\ b.age = n /\ b.samples = << >> /\ b.events = << >>
  BY <1>1 DEF Absent, Database, States
<1> HIDE DEF b
<1>3. RowsIn(<< >>) = {}
  BY <1>1 DEF RowsIn
<1>4. ContentOf(b) = {}
  BY <1>2, <1>3 DEF ContentOf
<1>5. \A d : MarksNothing(b, d)
  BY <1>1, <1>2 DEF MarksNothing, Unmarked
<1> QED BY <1>2, <1>4, <1>5 DEF b

LEMMA DiscardWrites ==
  ASSUME StoreTyped, NEW w \in Writers, Discard(w)
  PROVE  \/ UNCHANGED file
         \/ \E b : /\ Becomes(Target(w), b) /\ b \in Database /\ b.state = "absent"
                   /\ b.age = file[Target(w)].age + 1 /\ ContentOf(b) = {} /\ MarksNothing(b, Target(w))
<1> DEFINE d == Target(w)
           b == [Absent EXCEPT !.age = file[d].age + 1]
<1>1. d \in Databases /\ file[d] \in Database
  BY TargetsExist DEF StoreTyped, FilesTyped
<1>2. file[d].age + 1 \in Nat
  BY <1>1 DEF Database
<1>3. UNCHANGED file \/ file' = [file EXCEPT ![d] = b]
  BY Zenon DEF Discard
<1>4. b \in Database /\ b.state = "absent" /\ b.age = file[d].age + 1 /\ ContentOf(b) = {} /\ MarksNothing(b, d)
  BY <1>2, EmptyDatabase
<1> QED BY <1>1, <1>3, <1>4 DEF Becomes

(* What a discarded database held, the file moved aside holds, or is lost for good; so
   are the rows of the copy that it replaces, if it does.                      *)
LEMMA DiscardContent ==
  ASSUME StoreTyped, NEW w \in Writers, Discard(w)
  PROVE  /\ \A d \in Databases : ContentOf(file[d]) \subseteq ContentOf(file'[d]) \cup RowsAside' \cup gaps'
         /\ gaps \subseteq gaps' /\ RowsAside \subseteq RowsAside' \cup gaps' /\ AsideTyped'
<1> DEFINE d == Target(w)
           rows == RowsOf(d)
<1>1. d \in Databases /\ file \in [Databases -> Database] /\ file[d] \in Database
  BY TargetsExist DEF StoreTyped, FilesTyped
<1>2. rows \subseteq Row /\ rows = ContentOf(file[d])
  <2>1. file[d].samples \in Seq(Entry) /\ file[d].events \in Seq(Entry)
    BY <1>1 DEF Database
  <2> HIDE DEF d
  <2>2. RowsOf(d) = ContentOf(file[d])
    BY DEF RowsOf, ContentOf
  <2> QED BY <2>1, <2>2, TableRows DEF ContentOf
<1>3. tick \in Nat
  BY DEF StoreTyped, ClockTyped
<1> USE DEF StoreTyped
<1> DEFINE Stays == UNCHANGED <<file, aside, gaps>>
<1>4. \/ Stays
      \/ /\ \E b : file' = [file EXCEPT ![d] = b]
         /\ Moves(d) \/ Replaces(d) \/ Deletes(d)
  BY Zenon DEF Discard
<1>5. CASE Stays
  BY <1>5 DEF RowsAside, AsideTyped
<1> HIDE DEF d
<1>5a. /\ Moves(d) => /\ aside' = [aside EXCEPT ![d] = [last |-> rows, at |-> tick, older |-> @.older \cup @.last]]
                      /\ gaps' = gaps
       /\ Replaces(d) => /\ aside' = [aside EXCEPT ![d] = [@ EXCEPT !.last = rows]]
                         /\ gaps' = gaps \cup aside[d].last
       /\ Deletes(d) => aside' = aside /\ gaps' = gaps \cup rows
  BY DEF Moves, Replaces, Deletes
<1> HIDE DEF rows
<1>6. ASSUME NEW b, file' = [file EXCEPT ![d] = b]
      PROVE  \A e \in Databases \ {d} : file'[e] = file[e]
  BY <1>1, <1>6
<1>7. CASE Moves(d)
  <2>1. AsideTyped'
    BY <1>1, <1>2, <1>3, <1>5a, <1>7 DEF AsideTyped
  <2>2. DOMAIN aside = Databases /\ DOMAIN aside' = Databases
    BY <1>5a, <1>7 DEF AsideTyped
  <2>3. aside'[d].last = rows /\ aside'[d].older = aside[d].older \cup aside[d].last
    BY <1>1, <1>5a, <1>7 DEF AsideTyped
  <2>4. \A e \in Databases \ {d} : aside'[e] = aside[e]
    BY <1>5a, <1>7 DEF AsideTyped
  <2>5. rows \subseteq RowsAside' /\ RowsAside \subseteq RowsAside'
    BY <1>1, <2>2, <2>3, <2>4 DEF RowsAside
  <2> QED BY <1>2, <1>4, <1>5, <1>5a, <1>6, <1>7, <2>1, <2>5 DEF d
<1>8. CASE Replaces(d)
  <2>1. AsideTyped'
    BY <1>1, <1>2, <1>5a, <1>8 DEF AsideTyped
  <2>2. DOMAIN aside = Databases /\ DOMAIN aside' = Databases
    BY <1>5a, <1>8 DEF AsideTyped
  <2>3. aside'[d].last = rows /\ aside'[d].older = aside[d].older
    BY <1>1, <1>5a, <1>8 DEF AsideTyped
  <2>4. \A e \in Databases \ {d} : aside'[e] = aside[e]
    BY <1>5a, <1>8 DEF AsideTyped
  <2>5. rows \subseteq RowsAside' /\ RowsAside \subseteq RowsAside' \cup aside[d].last
    BY <1>1, <2>2, <2>3, <2>4 DEF RowsAside
  <2> QED BY <1>2, <1>4, <1>5, <1>5a, <1>6, <1>8, <2>1, <2>5 DEF d
<1>9. CASE Deletes(d)
  BY <1>2, <1>4, <1>5, <1>5a, <1>6, <1>9 DEF RowsAside, AsideTyped, d
<1> QED BY <1>4, <1>5, <1>7, <1>8, <1>9

LEMMA UnlinkWrites ==
  ASSUME StoreTyped, NEW w \in Writers, Unlink(w)
  PROVE  /\ Becomes("fallback", Absent) /\ Absent \in Database /\ ContentOf(Absent) = {}
         /\ MarksNothing(Absent, "fallback")
<1>1. Absent = [Absent EXCEPT !.age = 0]
  BY DEF Absent
<1>2. Absent \in Database /\ ContentOf(Absent) = {} /\ MarksNothing(Absent, "fallback")
  BY <1>1, EmptyDatabase
<1> QED BY <1>2 DEF Unlink, Becomes, Databases

LEMMA RefusedWrites ==
  ASSUME StoreTyped, NEW w \in Writers, Refused(w)
  PROVE  Gentle /\ NoNewMarks
<1> DEFINE d == Target(w)
<1>1. d \in Databases
  BY TargetsExist
<1>2. CASE Tableless(d)
  <2>1. file' = [file EXCEPT ![d].state = "bare"]
    BY <1>2 DEF Refused
  <2>2. "bare" \in States
    BY DEF States
  <2> QED BY <1>1, <2>1, <2>2, StateWrites, OneWritten
<1>3. CASE ~Tableless(d)
  BY <1>3, NoneWritten DEF Refused
<1> QED BY <1>2, <1>3

LEMMA PrimaryReady ==
  ASSUME StoreTyped, file' = [file EXCEPT ![Primary].state = "ready"]
  PROVE  Gentle /\ NoNewMarks
<1>1. Primary \in Databases /\ "ready" \in States
  BY TargetsExist DEF Databases, States
<1> QED BY <1>1, StateWrites, OneWritten

LEMMA DamageWrites ==
  ASSUME StoreTyped, NEW d \in {"ssd", "fallback"}, Damage(d)
  PROVE  Gentle /\ NoNewMarks
<1>1. d \in Databases /\ "corrupt" \in States
  BY DEF Databases, States
<1> QED BY <1>1, StateWrites, OneWritten DEF Damage

(* A step of a writer, of the exporter, of the machine.                       *)
LEMMA WriterGentle ==
  ASSUME StoreTyped, NEW w \in Writers, Write(w)
  PROVE  /\ NoNewMarks /\ file' \in [Databases -> Database]
         /\ Discard(w) \/ Unlink(w) \/ Gentle
<1>1. CASE Commit(w)
  BY <1>1, CommitWrites, OneWritten DEF Gentle
<1>2. CASE Refused(w)
  BY <1>2, RefusedWrites DEF Gentle
<1>3. CASE Discard(w)
  BY <1>3, DiscardWrites, OneWritten, NoneWritten DEF Becomes, StoreTyped, FilesTyped
<1>4. CASE FindsDamage(w) \/ NoteFallback(w) \/ NothingToMerge(w) \/ MergeFails(w)
  BY <1>4, NoneWritten DEF FindsDamage, NoteFallback, NothingToMerge, MergeFails, Gentle
<1>5. CASE MergeCopies(w)
  BY <1>5, MergeWrites, OneWritten DEF Gentle
<1>6. CASE Unlink(w)
  BY <1>6, UnlinkWrites, OneWritten DEF Becomes, StoreTyped, FilesTyped
<1> QED BY <1>1, <1>2, <1>3, <1>4, <1>5, <1>6 DEF Write

OtherStep ==
  \/ Tick \/ RecordSnapshot
  \/ \E c \in Callers : RecordEvent(c)
  \/ ExportCollects \/ ExportPuts \/ ExportEnds
  \/ MountChanges \/ Restart
  \/ \E d \in {"ssd", "fallback"} : Damage(d)
  \/ UNCHANGED storeVars

LEMMA StepsSorted ==
  ASSUME [StoreNext]_storeVars
  PROVE  (\E w \in Writers : Write(w)) \/ ExportMarks \/ OtherStep
BY Zenon DEF StoreNext, ExportRuns, OtherStep

LEMMA OtherGentle ==
  ASSUME StoreTyped, OtherStep
  PROVE  Gentle /\ NoNewMarks
<1>1. CASE Tick \/ RecordSnapshot \/ \E c \in Callers : RecordEvent(c)
  BY <1>1, NoneWritten DEF Tick, RecordSnapshot, RecordEvent, Begin
<1>2. CASE ExportCollects
  BY <1>2, PrimaryReady DEF ExportCollects
<1>3. CASE ExportPuts \/ ExportEnds \/ MountChanges \/ Restart \/ UNCHANGED storeVars
  BY <1>3, NoneWritten DEF ExportPuts, ExportEnds, MountChanges, Restart, storeVars
<1>4. CASE \E d \in {"ssd", "fallback"} : Damage(d)
  BY <1>4, DamageWrites
<1> QED BY <1>1, <1>2, <1>3, <1>4 DEF OtherStep

LEMMA MarksGentle ==
  ASSUME StoreTyped, ExportMarks
  PROVE  Gentle
BY MarkWrites, OneWritten

-----------------------------------------------------------------------------
(* Types.                                                                     *)

LEMMA TypedAtFirst == StoreInit => StoreTyped
<1> SUFFICES ASSUME StoreInit PROVE StoreTyped
  OBVIOUS
<1>1. Absent = [Absent EXCEPT !.age = 0]
  BY DEF Absent
<1>2. Absent \in Database
  BY <1>1, EmptyDatabase
<1>3. FilesTyped
  BY <1>2 DEF StoreInit, FilesTyped, Databases
<1>4. ClockTyped /\ PhasesTyped
  BY DEF StoreInit, ClockTyped, PhasesTyped, Phases, Null
<1>5. ExportTyped /\ AsideTyped
  BY DEF StoreInit, ExportTyped, AsideTyped, Databases
<1> QED BY <1>3, <1>4, <1>5 DEF StoreTyped

LEMMA ClockStaysTyped ==
  ASSUME StoreTyped, [StoreNext]_storeVars
  PROVE  ClockTyped'
<1> USE DEF StoreTyped, ClockTyped
<1>1. CASE Tick
  BY <1>1 DEF Tick
<1>2. CASE UNCHANGED <<tick, polled>>
  BY <1>2
<1>3. ASSUME NEW w \in Writers, Write(w) PROVE UNCHANGED <<tick, polled>>
  BY <1>3 DEF Write, Commit, Refused, FindsDamage, Discard, NoteFallback, NothingToMerge, MergeCopies, MergeFails, Unlink, clockVars
<1>4. ASSUME OtherStep, ~Tick PROVE UNCHANGED <<tick, polled>>
  BY <1>4 DEF OtherStep, RecordSnapshot, RecordEvent, Begin, ExportCollects, ExportPuts, ExportEnds,
    MountChanges, Restart, Damage, clockVars, storeVars
<1> QED BY <1>1, <1>2, <1>3, <1>4, StepsSorted DEF ExportMarks

LEMMA PhasesStayTyped ==
  ASSUME StoreTyped, [StoreNext]_storeVars
  PROVE  PhasesTyped'
<1> USE DEF StoreTyped, PhasesTyped
<1>1. CASE UNCHANGED pc
  BY <1>1
<1>2. ASSUME NEW w \in Writers, NEW p \in Phases, pc' = [pc EXCEPT ![w] = p] PROVE PhasesTyped'
  BY <1>2
<1>3. \A p \in {"idle", "primary", "primary damaged", "primary again", "fallback", "fallback damaged",
                "fallback again", "merge", "note fallback", "unlink"} : p \in Phases
  BY DEF Phases
<1>4. ASSUME NEW w \in Writers, Write(w) PROVE UNCHANGED pc \/ \E p \in Phases : pc' = [pc EXCEPT ![w] = p]
  <2>1. CASE Commit(w)
    BY <1>3, <2>1 DEF Commit
  <2>2. CASE Refused(w)
    BY <1>3, <2>2 DEF Refused, Refuse
  <2>3. CASE FindsDamage(w) \/ Discard(w)
    BY <1>3, <2>3 DEF FindsDamage, Discard
  <2>4. CASE NoteFallback(w) \/ NothingToMerge(w) \/ MergeFails(w) \/ Unlink(w)
    BY <1>3, <2>4 DEF NoteFallback, NothingToMerge, MergeFails, Unlink, Finish
  <2>5. CASE MergeCopies(w)
    BY <1>3, <2>5 DEF MergeCopies
  <2> QED BY <1>4, <2>1, <2>2, <2>3, <2>4, <2>5 DEF Write
<1>5. CASE RecordSnapshot \/ \E c \in Callers : RecordEvent(c)
  BY <1>2, <1>3, <1>5 DEF RecordSnapshot, RecordEvent, Begin, Writers
<1>6. CASE Restart
  BY <1>3, <1>6 DEF Restart
<1>7. ASSUME OtherStep, ~RecordSnapshot, ~(\E c \in Callers : RecordEvent(c)), ~Restart PROVE UNCHANGED pc
  BY <1>7 DEF OtherStep, Tick, ExportCollects, ExportPuts, ExportEnds, MountChanges, Damage, recorderVars, storeVars
<1> QED BY <1>1, <1>2, <1>4, <1>5, <1>6, <1>7, StepsSorted DEF ExportMarks, recorderVars

LEMMA ExportStaysTyped ==
  ASSUME StoreTyped, [StoreNext]_storeVars
  PROVE  ExportTyped'
<1> USE DEF StoreTyped, ExportTyped
<1>1. CASE UNCHANGED export
  BY <1>1
<1>2. CASE ExportCollects
  <2>1. CASE UNCHANGED export
    BY <2>1
  <2>2. CASE export' # export
    <3>1. PICK t \in Tables : \E ids, rows, from :
            export' = [phase |-> "put", table |-> t, ids |-> ids, rows |-> rows, from |-> from]
      BY <1>2, <2>2 DEF ExportCollects, Tables
    <3> QED BY <3>1
  <2> QED BY <2>1, <2>2
<1>3. CASE ExportPuts
  <2>1. export.phase = "put" /\ export' = [export EXCEPT !.phase = "mark"]
    BY <1>3 DEF ExportPuts
  <2>2. \A k \in {"phase", "table", "ids", "rows", "from"} : k \in DOMAIN export'
    BY <2>1
  <2>3. export'.phase = "mark" /\ export'.table = export.table
    BY <2>1
  <2> QED BY <2>1, <2>2, <2>3
<1>4. CASE ExportEnds \/ ExportMarks
  BY <1>4 DEF ExportEnds, ExportMarks
<1>5. ASSUME NEW w \in Writers, Write(w) PROVE UNCHANGED export
  BY <1>5 DEF Write, Commit, Refused, FindsDamage, Discard, NoteFallback, NothingToMerge, MergeCopies, MergeFails, Unlink
<1>6. ASSUME OtherStep, ~ExportCollects, ~ExportPuts, ~ExportEnds PROVE UNCHANGED export
  BY <1>6 DEF OtherStep, Tick, RecordSnapshot, RecordEvent, Begin, MountChanges, Restart, Damage, storeVars
<1> QED BY <1>1, <1>2, <1>3, <1>4, <1>5, <1>6, StepsSorted

LEMMA SetsGrow ==
  ASSUME StoreTyped, [StoreNext]_storeVars
  PROVE  gaps \subseteq gaps' /\ RowsAside \subseteq RowsAside' \cup gaps' /\ AsideTyped'
<1>1. ASSUME gaps \subseteq gaps', UNCHANGED aside
      PROVE  gaps \subseteq gaps' /\ RowsAside \subseteq RowsAside' \cup gaps' /\ AsideTyped'
  BY <1>1 DEF RowsAside, StoreTyped, AsideTyped
<1>2. ASSUME NEW w \in Writers, Write(w), ~Discard(w) PROVE gaps \subseteq gaps' /\ UNCHANGED aside
  BY <1>2 DEF Write, Commit, Refused, FindsDamage, NoteFallback, NothingToMerge, MergeCopies, MergeFails, Unlink
<1>3. ASSUME OtherStep \/ ExportMarks PROVE gaps \subseteq gaps' /\ UNCHANGED aside
  BY <1>3 DEF OtherStep, Tick, RecordSnapshot, RecordEvent, Begin, ExportCollects, ExportPuts, ExportEnds,
    ExportMarks, MountChanges, Restart, Damage, storeVars
<1> QED BY <1>1, <1>2, <1>3, DiscardContent, StepsSorted

LEMMA StaysTyped ==
  ASSUME StoreTyped, [StoreNext]_storeVars
  PROVE  StoreTyped'
<1>1. FilesTyped'
  BY StepsSorted, WriterGentle, OtherGentle, MarksGentle DEF Gentle, FilesTyped
<1> QED BY <1>1, SetsGrow, ClockStaysTyped, PhasesStayTyped, ExportStaysTyped DEF StoreTyped

(* The exporter does not touch the fallback.                                  *)
LEMMA ExporterSparesFallback ==
  ASSUME StoreTyped, ExportCollects \/ ExportMarks
  PROVE  file'["fallback"] = file["fallback"]
<1>1. file \in [Databases -> Database] /\ Primary \in {"ssd", "shadow"} /\ "fallback" \in Databases
  BY TargetsExist DEF StoreTyped, FilesTyped, Databases
<1>2. CASE ExportMarks
  <2>1. PICK b : Becomes(Primary, b)
    BY <1>2, MarkWrites
  <2> QED BY <1>1, <2>1 DEF Becomes
<1>3. CASE ExportCollects
  <2>1. file' = [file EXCEPT ![Primary].state = "ready"]
    BY <1>3 DEF ExportCollects
  <2> QED BY <1>1, <2>1
<1> QED BY <1>2, <1>3

-----------------------------------------------------------------------------
(* The recorder's health.                                                     *)

(* Whoever left something in the fallback without an error is not done yet.   *)
DrainHonest ==
  /\ fallbackError \in BOOLEAN
  /\ active = "primary" /\ ~fallbackError
       => file["fallback"].state = "absent" \/ \E w \in Writers : pc[w] \in {"unlink", "note fallback"}
DrainInv == StoreTyped /\ DrainHonest

LEMMA DrainAtFirst == StoreInit => DrainInv
BY TypedAtFirst DEF StoreInit, DrainInv, DrainHonest

LEMMA WriterDrains ==
  ASSUME DrainInv, NEW w \in Writers, Write(w)
  PROVE  DrainHonest'
<1> USE DEF DrainInv, DrainHonest
<1>1. pc \in [Writers -> Phases] /\ file \in [Databases -> Database] /\ "fallback" \in Databases
  BY DEF StoreTyped, PhasesTyped, FilesTyped, Databases
<1>2. CASE Commit(w)
  <2>1. CASE OnPrimary(w)
    <3>1. Target(w) \in {"ssd", "shadow"}
      BY <2>1 DEF OnPrimary, Target, Primary
    <3>2. file'["fallback"] = file["fallback"]
      BY <1>1, <1>2, <3>1 DEF Commit
    <3>3. \A v \in Writers : pc[v] \in {"unlink", "note fallback"} => v # w /\ pc'[v] = pc[v]
      BY <1>1, <1>2, <2>1 DEF Commit, OnPrimary
    <3>4. UNCHANGED <<active, fallbackError>>
      BY <1>2 DEF Commit, healthVars
    <3> QED BY <3>2, <3>3, <3>4
  <2>2. CASE ~OnPrimary(w)
    <3>1. pc'[w] = "note fallback"
      BY <1>1, <1>2, <2>2 DEF Commit
    <3>2. UNCHANGED <<active, fallbackError>>
      BY <1>2 DEF Commit, healthVars
    <3> QED BY <3>1, <3>2
  <2> QED BY <2>1, <2>2
<1>3. CASE Refused(w)
  <2>1. CASE OnPrimary(w)
    <3>1. Target(w) \in {"ssd", "shadow"}
      BY <2>1 DEF OnPrimary, Target, Primary
    <3>2. file'["fallback"] = file["fallback"]
      BY <1>1, <1>3, <3>1 DEF Refused
    <3>3. \A v \in Writers : pc[v] \in {"unlink", "note fallback"} => v # w /\ pc'[v] = pc[v]
      BY <1>1, <1>3, <2>1 DEF Refused, Refuse, OnPrimary
    <3>4. UNCHANGED <<active, fallbackError>>
      BY <1>3, <2>1 DEF Refused, Refuse
    <3> QED BY <3>2, <3>3, <3>4
  <2>2. CASE ~OnPrimary(w)
    BY <1>3, <2>2 DEF Refused, Refuse
  <2> QED BY <2>1, <2>2
<1>4. CASE FindsDamage(w) \/ Discard(w)
  <2>1. \A v \in Writers : pc[v] \in {"unlink", "note fallback"} => v # w /\ pc'[v] = pc[v]
    BY <1>1, <1>4 DEF FindsDamage, Discard, First
  <2>2. file'["fallback"] = file["fallback"] \/ file'["fallback"].state = "absent"
    BY <1>1, <1>4, DiscardWrites DEF FindsDamage, Becomes
  <2>3. UNCHANGED <<active, fallbackError>>
    BY <1>4 DEF FindsDamage, Discard, healthVars
  <2> QED BY <2>1, <2>2, <2>3
<1>5. CASE NoteFallback(w)
  BY <1>5 DEF NoteFallback
<1>6. CASE NothingToMerge(w)
  BY <1>6 DEF NothingToMerge, NotePrimary
<1>7. CASE MergeCopies(w)
  <2>1. pc'[w] = "unlink"
    BY <1>1, <1>7 DEF MergeCopies
  <2>2. fallbackError' = FALSE
    BY <1>7 DEF MergeCopies, NotePrimary
  <2> QED BY <2>1, <2>2
<1>8. CASE MergeFails(w)
  BY <1>8 DEF MergeFails
<1>9. CASE Unlink(w)
  <2>1. file'["fallback"].state = "absent"
    BY <1>1, <1>9 DEF Unlink, Absent
  <2>2. UNCHANGED <<active, fallbackError>>
    BY <1>9 DEF Unlink
  <2> QED BY <2>1, <2>2
<1> QED BY <1>2, <1>3, <1>4, <1>5, <1>6, <1>7, <1>8, <1>9 DEF Write

LEMMA OthersDrain ==
  ASSUME DrainInv, OtherStep \/ ExportMarks
  PROVE  DrainHonest'
<1> USE DEF DrainInv, DrainHonest
<1>1. pc \in [Writers -> Phases] /\ file \in [Databases -> Database] /\ Primary \in {"ssd", "shadow"}
  BY TargetsExist DEF StoreTyped, PhasesTyped, FilesTyped
<1>2. CASE RecordSnapshot \/ \E c \in Callers : RecordEvent(c)
  <2>1. PICK w \in Writers : Begin(w)
    BY <1>2 DEF RecordSnapshot, RecordEvent, Writers
  <2>2. \A v \in Writers : pc[v] \in {"unlink", "note fallback"} => pc'[v] = pc[v]
    BY <1>1, <2>1 DEF Begin
  <2>3. UNCHANGED <<file, active, fallbackError>>
    BY <2>1 DEF Begin, healthVars
  <2> QED BY <2>2, <2>3
<1>3. CASE ExportCollects \/ ExportMarks
  <2>1. file'["fallback"] = file["fallback"]
    BY <1>3, ExporterSparesFallback
  <2>2. UNCHANGED <<pc, active, fallbackError>>
    BY <1>3 DEF ExportCollects, ExportMarks, recorderVars
  <2> QED BY <2>1, <2>2
<1>4. CASE Restart
  BY <1>4 DEF Restart
<1>5. CASE \E d \in {"ssd", "fallback"} : Damage(d)
  <2>1. PICK d \in {"ssd", "fallback"} : Damage(d)
    BY <1>5
  <2>2. file["fallback"].state = "absent" => file'["fallback"].state = "absent"
    BY <1>1, <2>1 DEF Damage
  <2>3. UNCHANGED <<pc, active, fallbackError>>
    BY <2>1 DEF Damage, recorderVars
  <2> QED BY <2>2, <2>3
<1>6. CASE Tick \/ ExportPuts \/ ExportEnds \/ MountChanges \/ UNCHANGED storeVars
  <2>1. UNCHANGED <<file, pc, active, fallbackError>>
    BY <1>6 DEF Tick, ExportPuts, ExportEnds, MountChanges, recorderVars, healthVars, storeVars
  <2> QED BY <2>1
<1> QED BY <1>2, <1>3, <1>4, <1>5, <1>6 DEF OtherStep

(* With no write under way and a health of "ok", nothing waits in the fallback
   (MetricRecorder.health(), _write(), _merge_fallback()).                    *)
THEOREM HealthIsHonest == StoreSpec => []QuietOkMeansDrained
<1>1. DrainInv /\ [StoreNext]_storeVars => DrainInv'
  BY StaysTyped, StepsSorted, WriterDrains, OthersDrain DEF DrainInv
<1>2. DrainInv => QuietOkMeansDrained
  <2> SUFFICES ASSUME DrainInv, Quiet, Health = "ok" PROVE file["fallback"].state = "absent"
    BY DEF QuietOkMeansDrained
  <2>1. ~fallbackError /\ active = "primary"
    BY DEF Health, DrainInv, DrainHonest
  <2> QED BY <2>1 DEF DrainInv, DrainHonest, Quiet
<1> QED BY DrainAtFirst, <1>1, <1>2, PTL DEF StoreSpec

-----------------------------------------------------------------------------
(* Which rows a step may lose.                                                *)

(* What a merge is about to unlink is copied, and was perhaps lost since, or was put
   there beside it.                                                            *)
UnlinkSafe ==
  (\E w \in Writers : pc[w] = "unlink")
    => ContentOf(file["fallback"]) \subseteq ContentOf(file["ssd"]) \cup ContentOf(file["shadow"]) \cup RowsAside \cup gaps
MergeInv == StoreTyped /\ UnlinkSafe

LEMMA HeldIs == Held = ContentOf(file["ssd"]) \cup ContentOf(file["shadow"]) \cup ContentOf(file["fallback"]) \cup RowsAside
BY DEF Held, RowsOf, ContentOf

LEMMA GentleContent ==
  ASSUME Gentle
  PROVE  \A d \in Databases : ContentOf(file[d]) \subseteq ContentOf(file'[d])
BY KeepsRows DEF Gentle

(* No other step has a row of the fallback's disappear.                       *)
LEMMA KeptUnlessUnlinked ==
  ASSUME StoreTyped, [StoreNext]_storeVars, ~\E w \in Writers : Unlink(w)
  PROVE  \A d \in Databases : ContentOf(file[d]) \subseteq ContentOf(file'[d]) \cup RowsAside' \cup gaps'
<1>1. CASE Gentle
  BY <1>1, GentleContent
<1>2. CASE \E w \in Writers : Discard(w)
  BY <1>2, DiscardContent
<1> QED BY <1>1, <1>2, StepsSorted, WriterGentle, OtherGentle, MarksGentle

LEMMA UnlinkStaysSafe ==
  ASSUME MergeInv, [StoreNext]_storeVars
  PROVE  UnlinkSafe'
<1> DEFINE Merging == \E w \in Writers : pc[w] = "unlink"
           Safe == ContentOf(file["fallback"])
                     \subseteq ContentOf(file["ssd"]) \cup ContentOf(file["shadow"]) \cup RowsAside \cup gaps
<1> USE DEF MergeInv
<1>1. pc \in [Writers -> Phases] /\ file \in [Databases -> Database]
      /\ "ssd" \in Databases /\ "shadow" \in Databases /\ "fallback" \in Databases
  BY DEF StoreTyped, PhasesTyped, FilesTyped, Databases
<1>2. CASE \E w \in Writers : Unlink(w)
  <2>1. ContentOf(file'["fallback"]) = {}
    BY <1>1, <1>2, UnlinkWrites DEF Becomes
  <2> QED BY <2>1 DEF UnlinkSafe
<1>3. CASE \E w \in Writers : MergeCopies(w)
  <2>1. PICK w \in Writers : MergeCopies(w)
    BY <1>3
  <2>2. PICK b : Becomes(Primary, b) /\ ContentOf(file["fallback"]) \subseteq ContentOf(b)
    BY <2>1, MergeWrites
  <2>3. Primary \in {"ssd", "shadow"}
    BY TargetsExist
  <2>4. file'[Primary] = b /\ file'["fallback"] = file["fallback"]
    BY <1>1, <2>2, <2>3 DEF Becomes
  <2> QED BY <2>2, <2>3, <2>4 DEF UnlinkSafe
<1> DEFINE Copies == \E w \in Writers : MergeCopies(w)
           Unlinks == \E w \in Writers : Unlink(w)
<1>4. ASSUME ~Copies, ~Unlinks PROVE Merging' => Merging
  <2>1. ASSUME NEW w \in Writers, Write(w), NEW v \in Writers, pc'[v] = "unlink" PROVE pc[v] = "unlink"
    <3>1. CASE Commit(w)
      BY <1>1, <2>1, <3>1 DEF Commit
    <3>2. CASE Refused(w)
      BY <1>1, <2>1, <3>2 DEF Refused, Refuse
    <3>3. CASE FindsDamage(w) \/ Discard(w)
      BY <1>1, <2>1, <3>3 DEF FindsDamage, Discard
    <3>4. CASE NoteFallback(w) \/ NothingToMerge(w) \/ MergeFails(w)
      BY <1>1, <2>1, <3>4 DEF NoteFallback, NothingToMerge, MergeFails, Finish
    <3> QED BY <1>4, <2>1, <3>1, <3>2, <3>3, <3>4 DEF Write
  <2>2. ASSUME RecordSnapshot \/ \E c \in Callers : RecordEvent(c), NEW v \in Writers, pc'[v] = "unlink"
        PROVE  pc[v] = "unlink"
    BY <1>1, <2>2 DEF RecordSnapshot, RecordEvent, Begin, Writers
  <2>3. ASSUME Restart PROVE ~Merging'
    BY <2>3 DEF Restart
  <2>4. ASSUME OtherStep \/ ExportMarks, ~RecordSnapshot, ~(\E c \in Callers : RecordEvent(c)), ~Restart
        PROVE  UNCHANGED pc
    BY <2>4 DEF OtherStep, Tick, ExportCollects, ExportPuts, ExportEnds, ExportMarks, MountChanges, Damage,
      recorderVars, storeVars
  <2> QED BY <2>1, <2>2, <2>3, <2>4, StepsSorted
<1>5. ASSUME ~Copies, ~Unlinks, Safe, Merging PROVE Safe'
  <2>1. \A d \in Databases : ContentOf(file[d]) \subseteq ContentOf(file'[d]) \cup RowsAside' \cup gaps'
    BY <1>5, KeptUnlessUnlinked
  <2>2. gaps \subseteq gaps' /\ RowsAside \subseteq RowsAside' \cup gaps'
    BY SetsGrow
  <2>3. CASE \E w \in Writers : Commit(w)
    <3>1. PICK w \in Writers : Commit(w)
      BY <2>3
    <3>2. PICK b : Becomes(Target(w), b) /\ ContentOf(b) \subseteq ContentOf(file[Target(w)]) \cup Rows(w)
      BY <3>1, CommitWrites
    <3>3. CASE Target(w) = "fallback"
      <4>1. gaps' = gaps \cup Rows(w)
        BY <1>5, <3>1, <3>3 DEF Commit
      <4>2. ContentOf(file'["fallback"]) \subseteq ContentOf(file["fallback"]) \cup Rows(w)
        BY <1>1, <3>2, <3>3 DEF Becomes
      <4> QED BY <1>1, <1>5, <2>1, <2>2, <4>1, <4>2
    <3>4. CASE Target(w) # "fallback"
      <4>1. file'["fallback"] = file["fallback"]
        BY <1>1, <3>2, <3>4 DEF Becomes
      <4> QED BY <1>1, <1>5, <2>1, <2>2, <4>1
    <3> QED BY <3>3, <3>4
  <2>4. ASSUME ~\E w \in Writers : Commit(w) PROVE ContentOf(file'["fallback"]) \subseteq ContentOf(file["fallback"])
    <3>1. ASSUME NEW w \in Writers, Refused(w) PROVE ContentOf(file'["fallback"]) \subseteq ContentOf(file["fallback"])
      BY <1>1, <3>1 DEF Refused, ContentOf, Database
    <3>2. ASSUME NEW w \in Writers, Discard(w) PROVE ContentOf(file'["fallback"]) \subseteq ContentOf(file["fallback"])
      BY <1>1, <3>2, DiscardWrites DEF Becomes
    <3>3. ASSUME NEW w \in Writers, FindsDamage(w) \/ NoteFallback(w) \/ NothingToMerge(w) \/ MergeFails(w)
          PROVE  UNCHANGED file
      BY <3>3 DEF FindsDamage, NoteFallback, NothingToMerge, MergeFails
    <3>4. ASSUME NEW d \in {"ssd", "fallback"}, Damage(d) PROVE ContentOf(file'["fallback"]) \subseteq ContentOf(file["fallback"])
      BY <1>1, <3>4 DEF Damage, ContentOf, Database
    <3>5. ASSUME ExportCollects \/ ExportMarks PROVE file'["fallback"] = file["fallback"]
      BY <3>5, ExporterSparesFallback
    <3>6. ASSUME OtherStep, ~ExportCollects, ~(\E d \in {"ssd", "fallback"} : Damage(d)) PROVE UNCHANGED file
      BY <3>6 DEF OtherStep, Tick, RecordSnapshot, RecordEvent, Begin, ExportPuts, ExportEnds, MountChanges, Restart, storeVars
    <3> QED BY <1>5, <2>4, <3>1, <3>2, <3>3, <3>4, <3>5, <3>6, StepsSorted DEF Write
  <2> QED BY <1>1, <1>5, <2>1, <2>2, <2>3, <2>4
<1> QED BY <1>2, <1>3, <1>4, <1>5 DEF UnlinkSafe

(* What a step loses is accounted for, for any writers and faults: of the rows that
   were in a database, only those go that another writer put into the fallback beside
   its merge, and those that a discard destroyed or overwrote in that step or before
   (_merge_fallback_if_present(), _discard_store()).                            *)
THEOREM LossesAccounted == StoreSpec => GapsAccounted
<1>1. StoreInit => MergeInv
  BY TypedAtFirst DEF StoreInit, MergeInv, UnlinkSafe
<1>2. MergeInv /\ [StoreNext]_storeVars => MergeInv'
  BY StaysTyped, UnlinkStaysSafe DEF MergeInv
<1>3. MergeInv /\ [StoreNext]_storeVars => [Held \ Held' \subseteq gaps']_storeVars
  <2> SUFFICES ASSUME MergeInv, [StoreNext]_storeVars PROVE Held \ Held' \subseteq gaps'
    OBVIOUS
  <2>1. Held = ContentOf(file["ssd"]) \cup ContentOf(file["shadow"]) \cup ContentOf(file["fallback"]) \cup RowsAside
    BY HeldIs
  <2>2. Held' = ContentOf(file'["ssd"]) \cup ContentOf(file'["shadow"]) \cup ContentOf(file'["fallback"]) \cup RowsAside'
    BY HeldIs DEF Held, RowsOf, ContentOf
  <2>3. "ssd" \in Databases /\ "shadow" \in Databases /\ "fallback" \in Databases
    BY DEF Databases
  <2>4. gaps \subseteq gaps' /\ RowsAside \subseteq RowsAside' \cup gaps'
    BY SetsGrow DEF MergeInv
  <2>5. CASE ~\E w \in Writers : Unlink(w)
    BY <2>1, <2>2, <2>3, <2>4, <2>5, KeptUnlessUnlinked DEF MergeInv
  <2>6. CASE \E w \in Writers : Unlink(w)
    <3>1. PICK w \in Writers : Unlink(w)
      BY <2>6
    <3>2. file'["ssd"] = file["ssd"] /\ file'["shadow"] = file["shadow"]
      BY <3>1, <2>3 DEF Unlink, MergeInv, StoreTyped, FilesTyped
    <3>3. ContentOf(file["fallback"])
            \subseteq ContentOf(file["ssd"]) \cup ContentOf(file["shadow"]) \cup RowsAside \cup gaps
      BY <3>1 DEF Unlink, MergeInv, UnlinkSafe
    <3> QED BY <2>1, <2>2, <2>4, <3>2, <3>3
  <2> QED BY <2>5, <2>6
<1> QED BY <1>1, <1>2, <1>3, PTL DEF StoreSpec, GapsAccounted

-----------------------------------------------------------------------------
(* What the exporter marks.                                                   *)

(* A file that still has the age at which the batch was collected still has the
   batch's rows at the batch's numbers; what is to be marked is uploaded.      *)
SameRows(table, ids, rows) == \A i \in ids : i \in DOMAIN table /\ table[i].row \in rows
BatchStands(d, a) ==
  export.from = <<d, a>> =>
    /\ a <= file[d].age
    /\ a = file[d].age => SameRows(file[d][export.table], export.ids, export.rows)
BatchHonest ==
  export.phase # "idle" => \A d \in {"ssd", "shadow"} : \A a \in Nat : BatchStands(d, a)
UploadedFirst == export.phase = "mark" => export.rows \subseteq bucket
BatchInv == StoreTyped /\ BatchHonest /\ UploadedFirst

LEMMA GrownSameRows ==
  ASSUME NEW new, NEW old, Grown(new, old), NEW ids, NEW rows, SameRows(old, ids, rows)
  PROVE  SameRows(new, ids, rows)
BY DEF Grown, SameRows

(* No writer spoils a batch: the file keeps it, or is another one by then.     *)
LEMMA BatchSurvives ==
  ASSUME StoreTyped, BatchHonest, UNCHANGED export, Gentle \/ \E w \in Writers : Discard(w) \/ Unlink(w)
  PROVE  BatchHonest'
<1> SUFFICES ASSUME export.phase # "idle", NEW d \in {"ssd", "shadow"}, NEW a \in Nat, export.from = <<d, a>>
             PROVE  /\ a <= file'[d].age
                    /\ a = file'[d].age => SameRows(file'[d][export.table], export.ids, export.rows)
  BY DEF BatchHonest, BatchStands
<1>1. /\ a <= file[d].age
      /\ a = file[d].age => SameRows(file[d][export.table], export.ids, export.rows)
  BY DEF BatchHonest, BatchStands
<1>2. d \in Databases /\ file \in [Databases -> Database] /\ file[d] \in Database /\ file[d].age \in Nat
  BY DEF Databases, StoreTyped, FilesTyped, Database
<1>3. export.table \in Tables
  BY DEF StoreTyped, ExportTyped
<1>4. CASE Gentle
  <2>1. /\ file'[d].age = file[d].age /\ Grown(file'[d].samples, file[d].samples)
        /\ Grown(file'[d].events, file[d].events)
    BY <1>2, <1>4 DEF Gentle, Keeps
  <2>2. Grown(file'[d][export.table], file[d][export.table])
    BY <1>3, <2>1 DEF Tables
  <2> QED BY <1>1, <2>1, <2>2, GrownSameRows
<1>5. CASE file'[d] = file[d]
  BY <1>1, <1>5
<1>6. CASE \E w \in Writers : Discard(w)
  <2>1. PICK w \in Writers : Discard(w)
    BY <1>6
  <2>2. CASE UNCHANGED file
    BY <1>5, <2>2
  <2>3. ASSUME NEW b, Becomes(Target(w), b), b.age = file[Target(w)].age + 1
        PROVE  file'[d] = file[d] \/ file'[d].age = file[d].age + 1
    BY <1>2, <2>3 DEF Becomes
  <2>4. file'[d] = file[d] \/ file'[d].age = file[d].age + 1
    BY <2>1, <2>2, <2>3, DiscardWrites
  <2>5. CASE file'[d].age = file[d].age + 1
    BY <1>1, <1>2, <2>5
  <2> QED BY <1>5, <2>4, <2>5
<1>7. CASE \E w \in Writers : Unlink(w)
  <2>1. file'[d] = file[d]
    BY <1>2, <1>7 DEF Unlink
  <2> QED BY <1>5, <2>1
<1> QED BY <1>4, <1>6, <1>7

LEMMA CollectHonest ==
  ASSUME BatchInv, ExportCollects
  PROVE  BatchHonest' /\ UploadedFirst'
<1>1. CASE UNCHANGED export
  <2>1. Gentle
    BY PrimaryReady DEF ExportCollects, BatchInv
  <2> QED BY <1>1, <2>1, BatchSurvives DEF BatchInv, UploadedFirst, ExportCollects
<1>2. CASE export' # export
  <2> DEFINE d == Primary
  <2>1. d \in Databases /\ file \in [Databases -> Database] /\ file[d] \in Database
    BY TargetsExist DEF Databases, BatchInv, StoreTyped, FilesTyped
  <2>2. PICK t \in Tables :
          LET ids == Oldest(Unexported(d, t))
          IN  export' = [phase |-> "put", table |-> t, ids |-> ids,
                         rows |-> {file[d][t][i].row : i \in ids}, from |-> <<d, file[d].age>>]
    <3> DEFINE t == IF Unexported(d, "samples") # {} THEN "samples" ELSE "events"
    <3>1. t \in Tables
      BY DEF Tables
    <3>2. export' = LET ids == Oldest(Unexported(d, t))
                    IN  [phase |-> "put", table |-> t, ids |-> ids,
                         rows |-> {file[d][t][i].row : i \in ids}, from |-> <<d, file[d].age>>]
      BY <1>2, Zenon DEF ExportCollects
    <3> HIDE DEF t
    <3> QED BY <3>1, <3>2, Zenon
  <2> DEFINE ids == Oldest(Unexported(d, t))
  <2>3. ids \subseteq DOMAIN file[d][t]
    BY DEF Oldest, Unexported
  <2>4. file' = [file EXCEPT ![d].state = "ready"]
    BY DEF ExportCollects
  <2>5. file'[d].age = file[d].age /\ file'[d][t] = file[d][t]
    BY <2>1, <2>4 DEF Tables, Database
  <2>5a. export' = [phase |-> "put", table |-> t, ids |-> ids,
                    rows |-> {file[d][t][i].row : i \in ids}, from |-> <<d, file[d].age>>]
    BY <2>2
  <2> HIDE DEF d, ids
  <2>6. SameRows(file'[d][t], ids, {file[d][t][i].row : i \in ids})
    BY <2>3, <2>5 DEF SameRows
  <2>7. /\ export'.phase = "put" /\ export'.from = <<d, file[d].age>> /\ export'.table = t
        /\ export'.ids = ids /\ export'.rows = {file[d][t][i].row : i \in ids}
    BY <2>5a
  <2>8. file[d].age \in Nat
    BY <2>1 DEF Database
  <2>9. ASSUME NEW e, NEW a \in Nat, export'.from = <<e, a>>
        PROVE  a <= file'[e].age /\ (a = file'[e].age => SameRows(file'[e][export'.table], export'.ids, export'.rows))
    <3>1. e = d /\ a = file[d].age
      BY <2>7, <2>9
    <3> QED BY <2>5, <2>6, <2>7, <2>8, <3>1
  <2> QED BY <2>7, <2>9 DEF BatchHonest, BatchStands, UploadedFirst
<1> QED BY <1>1, <1>2

LEMMA BatchStays ==
  ASSUME BatchInv, [StoreNext]_storeVars
  PROVE  BatchInv'
<1> USE DEF BatchInv
<1>1. ASSUME NEW w \in Writers, Write(w) PROVE UNCHANGED <<export, bucket>>
  BY <1>1 DEF Write, Commit, Refused, FindsDamage, Discard, NoteFallback, NothingToMerge, MergeCopies, MergeFails, Unlink
<1>2. CASE \E w \in Writers : Write(w)
  BY <1>1, <1>2, WriterGentle, BatchSurvives, StaysTyped DEF UploadedFirst
<1>3. CASE ExportMarks \/ ExportEnds
  BY <1>3, StaysTyped DEF ExportMarks, ExportEnds, BatchHonest, UploadedFirst
<1>4. CASE ExportCollects
  BY <1>4, CollectHonest, StaysTyped
<1>5. CASE ExportPuts
  <2>1. export' = [export EXCEPT !.phase = "mark"] /\ bucket' = bucket \cup export.rows /\ UNCHANGED file
        /\ export.phase = "put"
    BY <1>5 DEF ExportPuts
  <2>2. /\ export'.from = export.from /\ export'.table = export.table /\ export'.ids = export.ids
        /\ export'.rows = export.rows
    BY <2>1
  <2>3. BatchHonest'
    BY <2>1, <2>2 DEF BatchHonest, BatchStands
  <2>4. UploadedFirst'
    BY <2>1, <2>2 DEF UploadedFirst
  <2> QED BY <2>3, <2>4, StaysTyped
<1>6. ASSUME OtherStep, ~ExportCollects, ~ExportPuts, ~ExportEnds PROVE UNCHANGED <<export, bucket>>
  BY <1>6 DEF OtherStep, Tick, RecordSnapshot, RecordEvent, Begin, MountChanges, Restart, Damage, storeVars
<1>7. ASSUME OtherStep, ~ExportCollects, ~ExportPuts, ~ExportEnds PROVE BatchInv'
  BY <1>6, <1>7, OtherGentle, BatchSurvives, StaysTyped DEF UploadedFirst
<1> QED BY <1>2, <1>3, <1>4, <1>5, <1>7, StepsSorted

LEMMA MarksOnlyBatch ==
  ASSUME BatchInv, ExportMarks, SameFile
  PROVE  MarkedRows' \ MarkedRows \subseteq bucket'
<1>1. PICK b : /\ Becomes(Primary, b)
               /\ \A t \in Tables : \A i \in DOMAIN b[t] :
                    /\ i \in DOMAIN file[Primary][t] /\ b[t][i].row = file[Primary][t][i].row
                    /\ b[t][i].exported /\ ~(t = export.table /\ i \in export.ids)
                         => file[Primary][t][i].exported
  BY MarkWrites DEF BatchInv
<1>2. file \in [Databases -> Database] /\ Primary \in {"ssd", "shadow"} /\ "ssd" \in Databases
  BY TargetsExist DEF BatchInv, StoreTyped, FilesTyped, Databases
<1>3. CASE Primary # "ssd"
  <2>1. file'["ssd"] = file["ssd"]
    BY <1>1, <1>2, <1>3 DEF Becomes
  <2> QED BY <2>1 DEF MarkedRows, RowsOf
<1>4. CASE Primary = "ssd"
  <2>1. file'["ssd"] = b
    BY <1>1, <1>2, <1>4 DEF Becomes
  <2>2. export.phase = "mark" /\ bucket' = bucket
    BY DEF ExportMarks
  <2>3. export.from = <<"ssd", file["ssd"].age>> /\ file["ssd"].age \in Nat
    BY <1>2, <1>4, <2>2 DEF SameFile, Database
  <2>4. SameRows(file["ssd"][export.table], export.ids, export.rows)
    BY <2>2, <2>3 DEF BatchInv, BatchHonest, BatchStands
  <2>5. export.rows \subseteq bucket
    BY <2>2 DEF BatchInv, UploadedFirst
  <2>6. ASSUME NEW t \in Tables, NEW i \in DOMAIN b[t], b[t][i].exported
        PROVE  b[t][i].row \in MarkedRows \cup bucket
    <3>1. i \in DOMAIN file["ssd"][t] /\ b[t][i].row = file["ssd"][t][i].row
      BY <1>1, <1>4, <2>6
    <3>2. CASE t = export.table /\ i \in export.ids
      BY <2>4, <2>5, <3>1, <3>2 DEF SameRows
    <3>3. CASE file["ssd"][t][i].exported
      <4>1. file["ssd"][t][i].row \in RowsOf("ssd")
        BY <3>1 DEF RowsOf, RowsIn, Tables
      <4> QED BY <3>1, <3>3, <4>1 DEF MarkedRows
    <3> QED BY <1>1, <1>4, <2>6, <3>2, <3>3
  <2>7. ASSUME NEW r \in MarkedRows' PROVE \E t \in Tables : \E i \in DOMAIN b[t] : b[t][i].row = r /\ b[t][i].exported
    BY <2>1, <2>7 DEF MarkedRows
  <2> QED BY <2>2, <2>6, <2>7
<1> QED BY <1>3, <1>4

LEMMA OthersMarkNothing ==
  ASSUME StoreTyped, NoNewMarks
  PROVE  MarkedRows' \subseteq MarkedRows
<1> SUFFICES ASSUME NEW r \in MarkedRows' PROVE r \in MarkedRows
  OBVIOUS
<1>1. PICK t \in Tables : \E i \in DOMAIN file'["ssd"][t] : file'["ssd"][t][i].row = r /\ file'["ssd"][t][i].exported
  BY DEF MarkedRows
<1>2. PICK i \in DOMAIN file'["ssd"][t] : file'["ssd"][t][i].row = r /\ file'["ssd"][t][i].exported
  BY <1>1
<1>3. Unmarked(file'["ssd"].samples, file["ssd"].samples) /\ Unmarked(file'["ssd"].events, file["ssd"].events)
  BY DEF NoNewMarks, MarksNothing, Databases
<1>4. Unmarked(file'["ssd"][t], file["ssd"][t])
  BY <1>3 DEF Tables
<1>5. i \in DOMAIN file["ssd"][t] /\ file["ssd"][t][i].exported /\ file["ssd"][t][i].row = r
  BY <1>2, <1>4 DEF Unmarked
<1>6. r \in RowsOf("ssd")
  BY <1>5 DEF RowsOf, RowsIn, Tables
<1> QED BY <1>5, <1>6 DEF MarkedRows

(* While the exporter marks the file it collected from, every row it marks is
   in the object store (export_metrics_once(), mark_batch_exported()).               *)
THEOREM MarksAreHonest == StoreSpec => OwnMarksHonest
<1>1. StoreInit => BatchInv
  BY TypedAtFirst DEF StoreInit, BatchInv, BatchHonest, UploadedFirst
<1>2. BatchInv /\ [StoreNext]_storeVars => BatchInv'
  BY BatchStays
<1>3. BatchInv /\ [StoreNext]_storeVars => [SameFile => MarkedRows' \ MarkedRows \subseteq bucket']_storeVars
  <2> SUFFICES ASSUME BatchInv, [StoreNext]_storeVars, SameFile PROVE MarkedRows' \ MarkedRows \subseteq bucket'
    OBVIOUS
  <2>1. CASE ExportMarks
    BY <2>1, MarksOnlyBatch
  <2>2. CASE ~ExportMarks
    <3>1. NoNewMarks
      BY <2>2, StepsSorted, WriterGentle, OtherGentle DEF BatchInv
    <3> QED BY <3>1, OthersMarkNothing DEF BatchInv
  <2> QED BY <2>1, <2>2
<1> QED BY <1>1, <1>2, <1>3, PTL DEF StoreSpec, OwnMarksHonest
=============================================================================
