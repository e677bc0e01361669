------------------------------ MODULE Advisory ------------------------------
(* What a tick does once the charge path and the display have been served:   *)
(* it records the weather, fetching it when the last report is old           *)
(* (weather.py), and the transitions of the inverter and of the internet     *)
(* (magnum.py, network_monitor.py).  Visitors of the weather page start      *)
(* fetches of their own.  Ages count from a report's fetched_at, in units of *)
(* the longest fetch; 0 to RefreshAge - 1 is fresh.                          *)
EXTENDS Integers

CONSTANTS
  RefreshAge,     \* WeatherConfig.refresh
  FetchTime,      \* the time the requests of one fetch may take
  Observed        \* what transitions are recorded of

ASSUME AdvisoryAssumption ==
  {RefreshAge, FetchTime} \subseteq Nat \ {0} /\ FetchTime < RefreshAge

VARIABLES
  net, disk,      \* the internet answers; the cache file can be written
  tick,           \* what the tick does next
  tracker,        \* _was_reachable, _was_inverting
  told,           \* the last transition recorded since the start
  lost,           \* history: of what a transition was lost since the start
  report, file,   \* WeatherService._report; the cache file
  fetch,          \* _fetch_and_store() in the tick and in the background
  asking,         \* a visitor between the look at the report and the request
  refreshing      \* WeatherService._refreshing

eventVars == <<tracker, told, lost>>
weatherVars == <<report, file, fetch, asking, refreshing>>
advisoryVars == <<net, disk, tick, eventVars, weatherVars>>

Fetchers == {"tick", "worker"}
Missing == -1
Torn == -2      \* a file opened for writing and not yet written
\* "full" is FALSE of a report without the aurora forecast.
NoReport == [age |-> Missing, stale |-> FALSE, full |-> TRUE]
NoFetch == [at |-> "none", cached |-> NoReport, age |-> 0]
Older(r) == [r EXCEPT !.age = IF @ < 0 \/ @ = RefreshAge THEN @ ELSE @ + 1]

AdvisoryInit ==
  /\ net \in BOOLEAN /\ disk = TRUE
  /\ tracker = [o \in Observed |-> "none"] /\ told = tracker
  /\ lost = {} /\ tick = "idle"
  /\ report = NoReport /\ file = NoReport
  /\ fetch = [f \in Fetchers |-> NoFetch] /\ asking = FALSE /\ refreshing = FALSE

-----------------------------------------------------------------------------
(* The weather.                                                              *)

InFile == IF file.age = Torn THEN NoReport ELSE file

(* self._report or self._read_cache() *)
Cached == IF report # NoReport THEN report ELSE InFile

(* A slip: any report will do. *)
DueIfMissing(r) == r = NoReport

(* Old, or without the fields the pages want. *)
Due(r) == r = NoReport \/ r.age >= RefreshAge \/ ~r.full

Begins(f, cached) == fetch' = [fetch EXCEPT ![f] = [at |-> "asks", cached |-> cached, age |-> 0]]

(* The fetch is over, and with it the tick's share or the worker. *)
Ends(f) ==
  /\ fetch' = [fetch EXCEPT ![f] = NoFetch]
  /\ tick' = IF f = "tick" THEN "events" ELSE tick
  /\ refreshing' = IF f = "worker" THEN FALSE ELSE refreshing

(* get(): in the tick, and the fetch of a report that is due with it. *)
GetsCached ==
  /\ tick = "weather" /\ fetch["tick"] = NoFetch /\ ~Due(Cached)
  /\ report' = Cached /\ tick' = "events"
  /\ UNCHANGED <<net, disk, eventVars, file, fetch, asking, refreshing>>

GetFetches ==
  /\ tick = "weather" /\ fetch["tick"] = NoFetch /\ Due(Cached)
  /\ Begins("tick", Cached)
  /\ UNCHANGED <<net, disk, tick, eventVars, report, file, asking, refreshing>>

(* request_refresh_if_needed() looks and lets go of the lock, ... *)
Visits ==
  /\ ~asking
  /\ \/ ~Due(Cached) /\ report' = Cached /\ UNCHANGED asking
     \/ Due(Cached) /\ asking' = TRUE /\ UNCHANGED report
  /\ UNCHANGED <<net, disk, tick, eventVars, file, fetch, refreshing>>

(* ... request_refresh() takes it again and starts a worker, which goes by   *)
(* the report in memory alone; get_cached() then loads the file's.           *)
Requests ==
  /\ asking /\ asking' = FALSE
  /\ \/ refreshing /\ UNCHANGED <<refreshing, fetch>>
     \/ ~refreshing /\ refreshing' = TRUE /\ Begins("worker", report)
  /\ report' = Cached
  /\ UNCHANGED <<net, disk, tick, eventVars, file>>

(* The forecast is there, if not the aurora's; the cache file is opened for  *)
(* writing.                                                                  *)
FetchAnswered(f) ==
  /\ fetch[f].at = "asks" /\ net
  /\ fetch' = [fetch EXCEPT ![f].at = "writes"]
  /\ file' = IF disk THEN [NoReport EXCEPT !.age = Torn] ELSE file
  /\ UNCHANGED <<net, disk, tick, eventVars, report, asking, refreshing>>

(* The report the fetch makes, with or without the aurora. *)
Fetched(f) == {[age |-> fetch[f].age, stale |-> FALSE, full |-> full] : full \in BOOLEAN}

FetchStored(f) ==
  /\ fetch[f].at = "writes" /\ disk
  /\ report' \in Fetched(f) /\ file' = report'
  /\ Ends(f)
  /\ UNCHANGED <<net, disk, eventVars, asking>>

(* A request or the write of the file fails: what the fetch began with, or   *)
(* the file, is shown as stale, whatever was stored meanwhile.               *)
FetchFails(f) ==
  /\ fetch[f].at = "asks" \/ (fetch[f].at = "writes" /\ ~disk)
  /\ LET copy == IF fetch[f].cached # NoReport THEN fetch[f].cached ELSE InFile
     IN  report' = IF copy = NoReport THEN report ELSE [copy EXCEPT !.stale = TRUE]
  /\ Ends(f)
  /\ UNCHANGED <<net, disk, eventVars, file, asking>>

-----------------------------------------------------------------------------
(* The transitions.                                                          *)

(* A slip: what cannot be told is a state like any other. *)
AdvancedOverGaps(seen) == seen

(* observe(): a snapshot that cannot tell changes nothing. *)
Advanced(seen) == [o \in Observed |-> IF seen[o] = "none" THEN tracker[o] ELSE seen[o]]

Transitions(seen) ==
  {o \in Observed : tracker[o] # "none" /\ seen[o] # "none" /\ tracker[o] # seen[o]}

(* The trackers advance before the events are written. *)
RecordsEvents ==
  /\ tick = "events" /\ tick' = "idle"
  /\ \E seen \in [Observed -> {"none", "up", "down"}] :
       /\ tracker' = Advanced(seen)
       /\ \E failed \in SUBSET Transitions(seen) :
            /\ told' = [o \in Observed |-> IF o \in Transitions(seen) \ failed THEN seen[o] ELSE told[o]]
            /\ lost' = lost \union failed
  /\ UNCHANGED <<net, disk, weatherVars>>

TickStarts ==
  /\ tick = "idle" /\ tick' = "weather"
  /\ UNCHANGED <<net, disk, eventVars, weatherVars>>

-----------------------------------------------------------------------------
TimePasses ==
  /\ \A f \in Fetchers : fetch[f] # NoFetch => fetch[f].age < FetchTime
  /\ report' = Older(report) /\ file' = Older(file)
  /\ fetch' = [f \in Fetchers |->
                 IF fetch[f] = NoFetch THEN NoFetch
                 ELSE [fetch[f] EXCEPT !.age = @ + 1, !.cached = Older(@)]]
  /\ UNCHANGED <<net, disk, tick, eventVars, asking, refreshing>>

Outside ==
  /\ \/ net' = ~net /\ UNCHANGED disk
     \/ disk' = ~disk /\ UNCHANGED net
  /\ UNCHANGED <<tick, eventVars, weatherVars>>

Restarts ==
  /\ tracker' = [o \in Observed |-> "none"] /\ told' = tracker'
  /\ lost' = {} /\ tick' = "idle"
  /\ report' = NoReport /\ fetch' = [f \in Fetchers |-> NoFetch] /\ asking' = FALSE /\ refreshing' = FALSE
  /\ UNCHANGED <<net, disk, file>>

AdvisoryNext ==
  \/ TickStarts \/ GetsCached \/ GetFetches \/ RecordsEvents
  \/ Visits \/ Requests
  \/ \E f \in Fetchers : FetchAnswered(f) \/ FetchStored(f) \/ FetchFails(f)
  \/ TimePasses \/ Outside \/ Restarts

(* Time, the tick and, by its timeouts, a fetch go on; with the internet up  *)
(* for good the services answer the tick now and then.                       *)
AdvisoryFairness ==
  /\ WF_advisoryVars(TimePasses)
  /\ WF_advisoryVars(TickStarts) /\ WF_advisoryVars(GetsCached \/ GetFetches)
  /\ WF_advisoryVars(RecordsEvents)
  /\ \A f \in Fetchers : WF_advisoryVars(FetchStored(f) \/ FetchFails(f))
  /\ SF_advisoryVars(FetchAnswered("tick"))

AdvisorySpec == AdvisoryInit /\ [][AdvisoryNext]_advisoryVars /\ AdvisoryFairness

-----------------------------------------------------------------------------
IsFresh == report.age \in 0 .. RefreshAge - 1 /\ ~report.stale

(* With internet and disk there for good, and no more restarts, the weather  *)
(* is fresh again and again: no stale copy, torn file, late failure of a     *)
(* visitor's fetch or forgotten flag ends the fetching.                      *)
WeatherComesBack ==
  <>[](net /\ disk) /\ <>[][~Restarts]_advisoryVars => []<>IsFresh

(* No transition is missed over gaps, restarts and long fetches: unless its  *)
(* writing failed, the last event recorded tells the state last seen.        *)
EventsTellState ==
  \A o \in Observed \ lost : told[o] # "none" => told[o] = tracker[o]

(* A fetched report "lands on a later get()": fails, a fetch begun earlier   *)
(* puts an older one, or the stale one it began with, in its place.          *)
ReportNeverOlder ==
  [][\A f \in Fetchers : FetchStored(f) \/ FetchFails(f) =>
       report = NoReport \/ report'.age <= report.age]_advisoryVars

(* The weather comes back with the internet alone: fails, a report whose     *)
(* cache file cannot be written is thrown away.                              *)
WeatherNeedsNoDisk ==
  <>[]net /\ <>[][~Restarts]_advisoryVars => []<>IsFresh
=============================================================================
