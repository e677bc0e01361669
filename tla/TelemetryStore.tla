--------------------------- MODULE TelemetryStore ---------------------------
(***************************************************************************)
(* The recorder of telemetry (metrics.py) and the exporter that uploads it *)
(* (object_store_export.py), which is a process of its own on the same     *)
(* database.  The database lives on a removable disk; while that is away,  *)
(* or refuses a write, rows go to a fallback on the boot card, which the   *)
(* next write that reaches the disk folds back in.                         *)
(*                                                                         *)
(* A database is the file found at a path.  The primary's path leads to    *)
(* "ssd" while the disk is mounted and into the directory beneath the      *)
(* mount point ("shadow") while it is not.                                 *)
(***************************************************************************)
EXTENDS Naturals, Sequences, FiniteSets, SequencesExt

CONSTANTS Loop,         \* the main loop's thread, which records snapshots
          Callers,      \* threads of the HTTP API, each of which records an event
          Polls,        \* the ticks by which the device has been polled again
          Limit,        \* rows in one batch of the exporter
          MaxTicks,     \* bound: the clock stops here, and snapshots repeat
          MaxFaults     \* bound: losses of the mount, damaged files, restarts

ASSUME StoreAssumption ==
  Limit \in Nat \ {0} /\ MaxTicks \in Nat /\ MaxFaults \in Nat

Writers == Callers \cup {Loop}
Null == 0   \* Python's None for a time

VARIABLES mounted, file,            \* the disk and the databases, which survive
          pc, told,                 \* where a writer is; the callers that had an event
          initialized,              \* MetricRecorder._initialized_paths
          tick, polled, due,        \* time (in snapshot intervals), the device's last poll,
                                    \* and _should_record_snapshot()
          active, attempt, fallbackError,   \* what health() looks at
          aside,                    \* the databases moved aside: rows of the last, and of older ones
          export, bucket,           \* the exporter's run; the rows in the object store
          gaps, faults              \* rows put beside a merge, or destroyed (history)

recorderVars == <<pc, told, initialized, due, active, attempt, fallbackError>>
healthVars == <<active, attempt, fallbackError>>
clockVars == <<tick, polled, due>>
storeVars == <<mounted, file, recorderVars, tick, polled, aside, export, bucket, gaps, faults>>

(* Databases. *)
Tables == {"samples", "events"}
Absent == [state |-> "absent", age |-> 0, samples |-> <<>>, events |-> <<>>]
Primary == IF mounted THEN "ssd" ELSE "shadow"
PathOf(d) == IF d = "fallback" THEN "fallback" ELSE "primary"

RowsIn(table) == {table[i].row : i \in DOMAIN table}
RowsOf(d) == RowsIn(file[d].samples) \cup RowsIn(file[d].events)

RowsAside == UNION {aside[d].last \cup aside[d].older : d \in DOMAIN aside}

(* A row's identity is its content: a row that is there already is ignored. *)
InsertOrIgnore(table, rows) ==
  table \o SetToSeq({[row |-> r, exported |-> FALSE] : r \in rows \ RowsIn(table)})

(* The schema is created once per process and path, so a file that appears
   later at a path written before has no tables. *)
Usable(d) ==
  \/ file[d].state = "ready"
  \/ file[d].state \in {"absent", "bare"} /\ PathOf(d) \notin initialized
Tableless(d) == file[d].state \in {"absent", "bare"} /\ PathOf(d) \in initialized

(* The rows of a snapshot.  The pack's, the load's and the supervisor's carry
   the snapshot's time, a device's carry the time of its reading: a device that
   has not been polled since contributes the rows it contributed before. *)
PackRow(at) == [source |-> "pack", at |-> at]
DeviceRow(at) == [source |-> "device", at |-> at]
SnapshotRows == {PackRow(tick)} \cup (IF polled = Null THEN {} ELSE {DeviceRow(polled)})
EventRow(c) == [source |-> c, at |-> Null]

(* MetricRecorder.health() *)
Health ==
  CASE attempt = "failed" -> "error"
    [] attempt # "failed" /\ fallbackError -> "merge failed"
    [] attempt # "failed" /\ ~fallbackError /\ active = "fallback" -> "buffering"
    [] attempt # "failed" /\ ~fallbackError /\ active = "primary" -> "ok"
    [] OTHER -> "initializing"

StoreInit ==
  /\ mounted \in BOOLEAN
  /\ file = [d \in {"ssd", "shadow", "fallback"} |-> Absent]
  /\ pc = [w \in Writers |-> "idle"]
  /\ told = {}
  /\ initialized = {}
  /\ tick = 0 /\ polled = Null /\ due = FALSE
  /\ active = "none" /\ attempt = "none" /\ fallbackError = FALSE
  /\ aside = [d \in {"ssd", "shadow", "fallback"} |-> [last |-> {}, at |-> 0, older |-> {}]]
  /\ export = [phase |-> "idle"]
  /\ bucket = {} /\ gaps = {} /\ faults = 0

-----------------------------------------------------------------------------
(* Bound: what goes wrong, goes wrong MaxFaults times. *)
Fault == faults < MaxFaults /\ faults' = faults + 1

(* Time passes, and the device may have been polled since. *)
Tick ==
  /\ pc[Loop] = "idle" /\ tick < MaxTicks
  /\ tick' = tick + 1
  /\ polled' = IF tick + 1 \in Polls THEN tick + 1 ELSE polled
  /\ due' = TRUE
  /\ UNCHANGED <<mounted, file, pc, told, initialized, healthVars, aside, export, bucket, gaps,
                 faults>>

(* A writer looks whether the disk is mounted, once, and then writes. *)
Begin(w) ==
  /\ pc[w] = "idle"
  /\ pc' = [pc EXCEPT ![w] = IF mounted THEN "primary" ELSE "fallback"]
  /\ UNCHANGED <<mounted, file, initialized, clockVars, healthVars, aside, export, bucket,
                 gaps, faults>>

RecordSnapshot == due /\ Begin(Loop) /\ UNCHANGED told
RecordEvent(c) == c \notin told /\ told' = told \cup {c} /\ Begin(c)

Table(w) == IF w = Loop THEN "samples" ELSE "events"
Rows(w) == IF w = Loop THEN SnapshotRows ELSE {EventRow(w)}

First(w) == pc[w] \in {"primary", "fallback"}
Trying(w) == First(w) \/ pc[w] \in {"primary again", "fallback again"}
OnPrimary(w) == pc[w] \in {"primary", "primary damaged", "primary again"}
Target(w) == IF OnPrimary(w) THEN Primary ELSE "fallback"

(* What _write() does when its last store has refused. *)
Refuse(w) ==
  /\ IF OnPrimary(w)
     THEN /\ pc' = [pc EXCEPT ![w] = "fallback"]
          /\ UNCHANGED <<attempt, fallbackError>>
     ELSE /\ pc' = [pc EXCEPT ![w] = "idle"]
          /\ fallbackError' = TRUE /\ attempt' = "failed"
  /\ UNCHANGED active

(* _write_once() commits the rows. *)
Commit(w) ==
  LET d == Target(w) IN
  /\ Trying(w) /\ Usable(d)
  /\ file' = [file EXCEPT ![d].state = "ready",
                          ![d][Table(w)] = InsertOrIgnore(@, Rows(w))]
  /\ initialized' = initialized \cup {PathOf(d)}
  /\ pc' = [pc EXCEPT ![w] = IF OnPrimary(w) THEN "merge" ELSE "note fallback"]
  /\ gaps' = IF d = "fallback" /\ \E v \in Writers : pc[v] = "unlink"
             THEN gaps \cup Rows(w) ELSE gaps
  /\ UNCHANGED <<mounted, told, clockVars, healthVars, aside, export, bucket, faults>>

(* An OperationalError: the disk or the file refuses, or the file has no tables
   (opening a file that is not there creates it); or anything at the second try. *)
Refused(w) ==
  LET d == Target(w) IN
  /\ Trying(w) /\ (First(w) => file[d].state # "corrupt")
  /\ file' = IF Tableless(d) THEN [file EXCEPT ![d].state = "bare"] ELSE file
  /\ IF Usable(d) THEN Fault ELSE UNCHANGED faults
  /\ Refuse(w)
  /\ UNCHANGED <<mounted, told, initialized, clockVars, aside, export, bucket, gaps>>

(* Any other DatabaseError: the file is to be discarded ... *)
FindsDamage(w) ==
  /\ First(w) /\ file[Target(w)].state = "corrupt"
  /\ initialized' = initialized \ {PathOf(Target(w))}
  /\ pc' = [pc EXCEPT ![w] = IF OnPrimary(w) THEN "primary damaged" ELSE "fallback damaged"]
  /\ UNCHANGED <<mounted, file, told, clockVars, healthVars, aside, export, bucket, gaps, faults>>

(* ... and renamed.  Its name aside is that of the second, so that it may replace the
   last one of the same tick.  A file that cannot be renamed is deleted. *)
Moves(d) ==
  /\ aside' = [aside EXCEPT ![d] = [last |-> RowsOf(d), at |-> tick, older |-> @.older \cup @.last]]
  /\ UNCHANGED gaps
Replaces(d) ==
  /\ aside[d].at = tick
  /\ aside' = [aside EXCEPT ![d] = [@ EXCEPT !.last = RowsOf(d)]]
  /\ gaps' = gaps \cup aside[d].last
Deletes(d) == gaps' = gaps \cup RowsOf(d) /\ UNCHANGED aside

(* This takes the file found there then, also one that another writer has made anew;
   or there is none, or it can be neither renamed nor deleted. *)
Discard(w) ==
  LET d == Target(w) IN
  /\ pc[w] \in {"primary damaged", "fallback damaged"}
  /\ pc' = [pc EXCEPT ![w] = IF OnPrimary(w) THEN "primary again" ELSE "fallback again"]
  /\ \/ UNCHANGED <<file, aside, gaps>>
     \/ /\ file[d].state # "absent"
        /\ file' = [file EXCEPT ![d] = [Absent EXCEPT !.age = file[d].age + 1]]
        /\ Moves(d) \/ Replaces(d) \/ Deletes(d)
  /\ UNCHANGED <<mounted, told, initialized, clockVars, healthVars, export, bucket, faults>>

(* The rows are in; a failed snapshot stays due, one that is in is due again at the
   next tick (and at once when the clock has stopped, to repeat itself). *)
Finish(w) ==
  /\ pc' = [pc EXCEPT ![w] = "idle"]
  /\ attempt' = "ok"
  /\ due' = IF w = Loop THEN tick = MaxTicks ELSE due

NoteFallback(w) ==
  /\ pc[w] = "note fallback"
  /\ active' = "fallback" /\ fallbackError' = FALSE
  /\ Finish(w)
  /\ UNCHANGED <<mounted, file, told, initialized, tick, polled, aside, export,
                 bucket, gaps, faults>>

(* After a write to the disk: there is no fallback, or its rows are copied, or
   the copy fails and will be tried after the next such write. *)
NotePrimary == active' = "primary" /\ fallbackError' = FALSE

NothingToMerge(w) ==
  /\ pc[w] = "merge" /\ file["fallback"].state = "absent"
  /\ NotePrimary /\ Finish(w)
  /\ UNCHANGED <<mounted, file, told, initialized, tick, polled, aside, export, bucket, gaps,
                 faults>>

Mergeable == file["fallback"].state = "ready" /\ file[Primary].state # "corrupt"

(* A slip in the copy: the second table forgotten. *)
MergeCopiesSamples(w) ==
  /\ pc[w] = "merge" /\ Mergeable
  /\ file' = [file EXCEPT ![Primary].state = "ready",
                          ![Primary].samples = InsertOrIgnore(@, RowsIn(file["fallback"].samples))]
  /\ initialized' = initialized \ {"fallback"}
  /\ pc' = [pc EXCEPT ![w] = "unlink"]
  /\ NotePrimary
  /\ UNCHANGED <<mounted, told, clockVars, attempt, aside, export, bucket, gaps, faults>>

MergeCopies(w) ==
  /\ pc[w] = "merge" /\ Mergeable
  /\ file' = [file EXCEPT ![Primary].state = "ready",
                          ![Primary].samples = InsertOrIgnore(@, RowsIn(file["fallback"].samples)),
                          ![Primary].events = InsertOrIgnore(@, RowsIn(file["fallback"].events))]
  /\ initialized' = initialized \ {"fallback"}
  /\ pc' = [pc EXCEPT ![w] = "unlink"]
  /\ NotePrimary
  /\ UNCHANGED <<mounted, told, clockVars, attempt, aside, export, bucket, gaps, faults>>

(* A slip: the failed merge is only printed. *)
MergeFailsSilently(w) ==
  /\ pc[w] = "merge" /\ file["fallback"].state # "absent"
  /\ NotePrimary
  /\ IF Mergeable THEN Fault ELSE UNCHANGED faults
  /\ Finish(w)
  /\ UNCHANGED <<mounted, file, told, initialized, tick, polled, aside, export, bucket, gaps>>

MergeFails(w) ==
  /\ pc[w] = "merge" /\ file["fallback"].state # "absent"
  /\ active' = "primary" /\ fallbackError' = TRUE
  /\ IF Mergeable THEN Fault ELSE UNCHANGED faults
  /\ Finish(w)
  /\ UNCHANGED <<mounted, file, told, initialized, tick, polled, aside, export, bucket, gaps>>

Unlink(w) ==
  /\ pc[w] = "unlink"
  /\ file' = [file EXCEPT !["fallback"] = Absent]
  /\ Finish(w)
  /\ UNCHANGED <<mounted, told, initialized, tick, polled, active, fallbackError,
                 aside, export, bucket, gaps, faults>>

-----------------------------------------------------------------------------
(* The exporter: collect one batch of one table, upload it, mark its rows by
   number.  It opens the primary's path, mounted or not, and creates what is
   missing there. *)
Unexported(d, table) == {i \in DOMAIN file[d][table] : ~file[d][table][i].exported}
Oldest(S) == {i \in S : Cardinality({j \in S : j < i}) < Limit}

(* A slip: the loop over the tables ends after the first. *)
ExportCollectsSamples ==
  LET d == Primary
      ids == Oldest(Unexported(d, "samples")) IN
  /\ export.phase = "idle" /\ file[d].state # "corrupt"
  /\ file' = [file EXCEPT ![d].state = "ready"]
  /\ export' = IF ids = {} THEN export
               ELSE [phase |-> "put", table |-> "samples", ids |-> ids,
                     rows |-> {file[d]["samples"][i].row : i \in ids},
                     from |-> <<d, file[d].age>>]
  /\ UNCHANGED <<mounted, recorderVars, tick, polled, aside, bucket, gaps, faults>>

ExportCollects ==
  LET d == Primary
      table == IF Unexported(d, "samples") # {} THEN "samples" ELSE "events"
      ids == Oldest(Unexported(d, table)) IN
  /\ export.phase = "idle" /\ file[d].state # "corrupt"
  /\ file' = [file EXCEPT ![d].state = "ready"]
  /\ export' = IF ids = {} THEN export
               ELSE [phase |-> "put", table |-> table, ids |-> ids,
                     rows |-> {file[d][table][i].row : i \in ids},
                     from |-> <<d, file[d].age>>]
  /\ UNCHANGED <<mounted, recorderVars, tick, polled, aside, bucket, gaps, faults>>

ExportPuts ==
  /\ export.phase = "put"
  /\ bucket' = bucket \cup export.rows
  /\ export' = [export EXCEPT !.phase = "mark"]
  /\ UNCHANGED <<mounted, file, recorderVars, tick, polled, aside, gaps, faults>>

(* The network is away, the store refuses, the process dies, or the answer to
   an upload that took effect is lost: the run ends and marks nothing. *)
ExportEnds ==
  /\ export.phase # "idle"
  /\ export' = [phase |-> "idle"]
  /\ bucket' \in {bucket, IF export.phase = "put" THEN bucket \cup export.rows ELSE bucket}
  /\ UNCHANGED <<mounted, file, recorderVars, tick, polled, aside, gaps, faults>>

(* A slip in the order of the exporter's steps: marking before uploading. *)
ExportMarksEarly ==
  /\ export.phase = "put" /\ file[Primary].state # "corrupt"
  /\ file' = [file EXCEPT ![Primary].state = "ready",
                          ![Primary][export.table] =
                             [i \in DOMAIN @ |-> IF i \in export.ids
                                                 THEN [@[i] EXCEPT !.exported = TRUE] ELSE @[i]]]
  /\ export' = [phase |-> "idle"]
  /\ UNCHANGED <<mounted, recorderVars, tick, polled, aside, bucket, gaps, faults>>

ExportMarks ==
  /\ export.phase = "mark" /\ file[Primary].state # "corrupt"
  /\ file' = [file EXCEPT ![Primary].state = "ready",
                          ![Primary][export.table] =
                             [i \in DOMAIN @ |-> IF i \in export.ids
                                                 THEN [@[i] EXCEPT !.exported = TRUE] ELSE @[i]]]
  /\ export' = [phase |-> "idle"]
  /\ UNCHANGED <<mounted, recorderVars, tick, polled, aside, bucket, gaps, faults>>

-----------------------------------------------------------------------------
(* What happens to the machine. *)
MountChanges ==
  /\ mounted' = ~mounted
  /\ IF mounted THEN Fault ELSE UNCHANGED faults
  /\ UNCHANGED <<file, recorderVars, tick, polled, aside, export, bucket, gaps>>

Damage(d) ==
  /\ Fault /\ file[d].state = "ready"
  /\ file' = [file EXCEPT ![d].state = "corrupt"]
  /\ UNCHANGED <<mounted, recorderVars, tick, polled, aside, export, bucket, gaps>>

Restart ==
  /\ Fault
  /\ pc' = [w \in Writers |-> "idle"]
  /\ initialized' = {} /\ due' = (tick > 0)
  /\ active' = "none" /\ attempt' = "none" /\ fallbackError' = FALSE
  /\ UNCHANGED <<mounted, file, told, tick, polled, aside, export, bucket, gaps>>

Write(w) ==
  \/ Commit(w) \/ Refused(w) \/ FindsDamage(w) \/ Discard(w) \/ NoteFallback(w)
  \/ NothingToMerge(w) \/ MergeCopies(w) \/ MergeFails(w) \/ Unlink(w)

ExportRuns == ExportCollects \/ ExportPuts \/ ExportMarks

StoreNext ==
  \/ Tick \/ RecordSnapshot
  \/ \E c \in Callers : RecordEvent(c)
  \/ \E w \in Writers : Write(w)
  \/ ExportRuns \/ ExportEnds
  \/ MountChanges \/ Restart
  \/ \E d \in {"ssd", "fallback"} : Damage(d)

(* The loop records again and again, threads are scheduled, the exporter's
   timer fires, and what is tried for ever succeeds some time. *)
StoreFairness ==
  /\ WF_storeVars(Tick) /\ WF_storeVars(RecordSnapshot) /\ WF_storeVars(\E w \in Writers : Write(w))
  /\ SF_storeVars(Commit(Loop) /\ OnPrimary(Loop)) /\ SF_storeVars(MergeCopies(Loop))
  /\ WF_storeVars(ExportCollects) /\ SF_storeVars(ExportPuts) /\ SF_storeVars(ExportMarks)

StoreSpec == StoreInit /\ [][StoreNext]_storeVars /\ StoreFairness

-----------------------------------------------------------------------------
Held == RowsOf("ssd") \cup RowsOf("shadow") \cup RowsOf("fallback") \cup RowsAside

(* "A primary failure therefore creates a recoverable backlog rather than a
   telemetry gap": a row that was written to a database is in some database from then on. *)
NoTelemetryGap == [][Held \subseteq Held']_storeVars

(* Loss of the mount, damage, merge, restart and export lose no such row, and neither do
   two writers, in three cases excepted: one puts its row into the fallback while the other is
   between copying that and unlinking it; a database that is to be discarded cannot be
   moved; and one is moved onto another of the same second.
   [metrics.py, _merge_fallback_if_present(), _discard_store()] *)
GapsAccounted == [][Held \ Held' \subseteq gaps']_storeVars

(* "Move a corrupt store aside so a fresh one can be created": what is discarded is
   damaged, or gone already.  Not so when two writers find the same damage. *)
OnlyDamagedDiscarded ==
  [][\A w \in Writers : Discard(w) => file[Target(w)].state \in {"corrupt", "absent"}]_storeVars

(* When no write is under way and the recorder's health is "ok", no row waits in
   the fallback: an operator who sees no warning need not look for it. *)
Quiet == \A w \in Writers : pc[w] = "idle"
QuietOkMeansDrained ==
  Quiet /\ Health = "ok" => file["fallback"].state = "absent"

(* The exporter marks a row only after it was uploaded ... *)
MarkedRows == {r \in RowsOf("ssd") : \E t \in Tables : \E i \in DOMAIN file["ssd"][t] :
                 file["ssd"][t][i].row = r /\ file["ssd"][t][i].exported}
MarkedRowsUploaded == MarkedRows \subseteq bucket

(* ... as long as the file it marks is the one it collected the batch from. *)
SameFile == export.phase = "mark" => export.from = <<Primary, file[Primary].age>>
OwnMarksHonest == [][SameFile => MarkedRows' \ MarkedRows \subseteq bucket']_storeVars

(* While the disk stays mounted and the files sound, an event that waits to be
   uploaded is uploaded, also one that waits in the fallback, and although samples
   go first.  Three ways to stray are left to it: beside a merge, with a damaged
   file, and into the directory beneath the mount point, when the disk vanishes
   between the look at the mount and the copy. *)
Waiting == RowsOf("fallback") \cup (RowsOf("ssd") \ MarkedRows)
Calm ==
  /\ mounted
  /\ \A d \in {"ssd", "fallback"} : file[d].state \notin {"corrupt", "bare"}
  /\ export.phase # "idle" => export.from = <<"ssd", file["ssd"].age>>
Strayed == gaps \cup RowsAside \cup RowsOf("shadow")
RowsReachBucket ==
  \A c \in Callers :
    (Calm /\ EventRow(c) \in Waiting)
       ~> (EventRow(c) \in bucket \cup Strayed \/ ~Calm)
=============================================================================
