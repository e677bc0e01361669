---------------------------- MODULE ChargeSettings ----------------------------
(***************************************************************************)
(* The HTTP handlers that change settings (web_display.py): charge         *)
(* voltages, currents and times of the two controllers, and the two        *)
(* overrides that survive a restart (runtime_state.py).  Each request has  *)
(* a thread of its own.  It looks at a snapshot, guards what it is about   *)
(* to write against the charge-voltage limit (CVL) of the battery reading  *)
(* in it, and then sends its commands one after another to the device's    *)
(* actor.                                                                  *)
(*                                                                         *)
(* Voltages and currents are in tenths; both devices hold them exactly.    *)
(***************************************************************************)
EXTENDS Integers, Sequences, FiniteSets

CONSTANTS Threads,    \* one request each
          Requests,   \* bound: what may be asked, as a payload is parsed
          Limits,     \* bound: CVLs a battery reading may have; Null for none
          Blocks,     \* bound: what the devices may hold at first
          Default,    \* the scaling factor without a persisted one, in percent
          MaxDelta,   \* MAX_SCALAR_DELTA_V
          NoOne       \* no thread

Null == 0
Blank == <<>>   \* no settings known
Devices == {"classic", "epever"}
MinFactor == 5
MaxFactor == 100
MaxAbsorbTime == 86400   \* 24 * 60 minutes, in seconds

VARIABLES block,            \* the registers of each device, by name
          cvl,              \* what the snapshot holds of the charge-voltage limit
          cache,            \*   and of each device's settings
          enabled, factor,  \* the operator's switches and scaling factor
          file, lock,       \* the runtime-state file and _state_lock
          queue,            \* each actor's commands
          call,             \* where each request is
          ran,              \* history: commands of the request that took effect,
          peak, seen,       \*   the highest of those CVLs and the scalars since it arrived,
          strayed           \*   keys whose edits overlapped, were not saved or not read back

deviceVars == <<block, queue, ran>>
stateVars == <<enabled, factor, file, lock, strayed>>
vars == <<deviceVars, cvl, cache, stateVars, call, peak, seen>>

-----------------------------------------------------------------------------
(* Registers and what the adapters accept. *)

Voltages(d) == IF d = "classic" THEN {"absorb", "float", "equalize", "comp"}
                                ELSE {"boost", "float", "equalize", "reconnect"}
Guarded(d) == Voltages(d) \ {"reconnect"}
ScalarOf(d) == IF d = "classic" THEN "absorb" ELSE "boost"
Times == {"boost_time", "equalize_time"}

Cells(d) == Voltages(d) \cup IF d = "classic" THEN {"limit", "time"} ELSE {"current"} \cup Times

Only(cells, names) == [c \in DOMAIN cells \cap names |-> cells[c]]
Filled(cells, others) ==
  [c \in DOMAIN cells \cup DOMAIN others |-> IF c \in DOMAIN cells THEN cells[c] ELSE others[c]]

(* The EPEver refuses a block in which these do not hold. *)
Sound(b) ==
  /\ b["boost"] <= b["equalize"]
  /\ b["reconnect"] < b["float"]
  /\ \A c \in Guarded("epever") : b[c] <= b["charging_limit"]

(* A payload is one of these once its numbers are parsed, and names some cell. *)
Payload(r) ==
  \/ r \in [kind : {"nudge"}, device : Devices, delta : Int]
  \/ r \in [kind : {"scalar"}, device : Devices, volts : Int]
  \/ \E d \in Devices : \E names \in (SUBSET Cells(d)) \ {{}} :
       r \in [kind : {"settings"}, device : {d}, cells : [names -> Int]]
  \/ r \in [kind : {"sync"}, offset : Int, current : BOOLEAN]
  \/ r \in [kind : {"factor"}, value : Int] \cup [kind : {"factor_delta"}, delta : Int]
  \/ r \in [kind : {"switch"}, device : Devices, on : BOOLEAN]

(* What a device holds: its voltages, and the limits the handlers go by. *)
Registers(d, b) ==
  /\ b \in [DOMAIN b -> Int]
  /\ Voltages(d) \cup {IF d = "classic" THEN "limit" ELSE "charging_limit"} \subseteq DOMAIN b

ASSUME SettingsAssumption ==
  /\ NoOne \notin Threads /\ Null \in Limits /\ Limits \subseteq Nat
  /\ Default \in MinFactor .. MaxFactor /\ MaxDelta \in Nat
ASSUME RequestsAssumption == \A r \in Requests : Payload(r)
ASSUME BlocksAssumption ==
  \A b \in Blocks : /\ b = [d \in Devices |-> b[d]]
                    /\ \A d \in Devices : Registers(d, b[d])
                    /\ Sound(b["epever"])

(* The ranges the EPEver's adapter checks. *)
InRange(cells) ==
  /\ \A v \in DOMAIN cells \cap Voltages("epever") : cells[v] \in 1 .. 650
  /\ "current" \in DOMAIN cells => cells["current"] \in 10 .. 1000
  /\ \A t \in DOMAIN cells \cap Times : cells[t] \in 0 .. 600

(* A slip: the rules are checked with the voltages of the last poll. *)
ValidByCache(c) ==
  LET known == IF cache[c.device] = Blank THEN block[c.device] ELSE cache[c.device] IN
  c.device = "epever" =>
    /\ DOMAIN c.cells \cap Voltages("epever") # {} => Sound(Filled(c.cells, known))
    /\ InRange(c.cells)

(* The adapter's own checks: the voltage block with the live values of the
   cells that are not named, and the ranges. *)
Valid(c) ==
  c.device = "epever" =>
    /\ DOMAIN c.cells \cap Voltages("epever") # {} => Sound(Filled(c.cells, block["epever"]))
    /\ InRange(c.cells)

(* The Classic's registers are written one by one, the EPEver's times too; its
   voltages are one block. *)
Order(d) == IF d = "classic" THEN <<"limit", "absorb", "float", "equalize", "time", "comp">>
                             ELSE <<"boost_time", "equalize_time">>
Begun(c) ==
  IF c.device = "epever" /\ DOMAIN c.cells \cap Times = {} THEN {c.cells}
  ELSE {Only(c.cells, {Order(c.device)[i] : i \in 1 .. k}) : k \in DOMAIN Order(c.device)}

(* A command is answered, or the adapter raises: a ValueError before it has
   written anything; a RuntimeError (a bad response, a wrong read-back, an EEPROM
   error), which the handlers answer, or another error, which they do not catch,
   before, amid or after the writes. *)
Failures == {"conflict", "dropped"}
Outcome(cells, result) == [cells |-> cells, result |-> result]
Outcomes(c) ==
  {Outcome(Blank, f) : f \in Failures}
  \cup (IF c.cells = Blank THEN {Outcome(Blank, "done")}
        ELSE IF ~Valid(c) THEN {Outcome(Blank, "bad_request")}
        ELSE {Outcome(c.cells, "done")}
             \cup {Outcome(cells, f) : cells \in Begun(c), f \in Failures})

-----------------------------------------------------------------------------
(* What a request asks for, given the setpoint read for a nudge and a snapshot. *)

Target(r, base) == IF r.kind = "nudge" THEN base + r.delta ELSE r.volts

Scalar(d, v) ==
  IF d = "classic" THEN [absorb |-> v, float |-> v - 1, equalize |-> v, comp |-> v]
                   ELSE [boost |-> v, float |-> v, equalize |-> v, reconnect |-> v - 10]

Synced(r) ==
  LET classic == cache["classic"]
      boost == classic["absorb"] + r.offset
      equalize == classic["equalize"] + r.offset
  IN [boost |-> boost, float |-> classic["float"] + r.offset,
      equalize |-> IF equalize > boost THEN equalize ELSE boost]

Write(d, cells) == [device |-> d, cells |-> cells]
Part(r, names) == IF DOMAIN r.cells \cap names = {} THEN <<>>
                  ELSE <<Write("epever", Only(r.cells, names))>>
Commands(r, base) ==
  CASE r.kind \in {"scalar", "nudge"} -> <<Write(r.device, Scalar(r.device, Target(r, base)))>>
    [] r.kind = "settings" /\ r.device = "classic" -> <<Write("classic", r.cells)>>
    [] r.kind = "settings" /\ r.device = "epever" ->
         Part(r, Voltages("epever")) \o Part(r, {"current"}) \o Part(r, Times)
    [] r.kind = "sync" ->
         <<Write("epever", Synced(r))>>
         \o (IF r.current THEN <<Write("epever", [current |-> cache["classic"]["limit"]])>>
                          ELSE <<>>)

(* Of an EPEver's voltages the guard looks at all three, named or not. *)
Needs(r) ==
  CASE r.kind = "sync" -> Devices
    [] r.kind = "settings" /\ r.device = "epever" -> {"epever"}
    [] OTHER -> {}
Looks(r) == r.kind # "settings" \/ DOMAIN r.cells \cap Voltages(r.device) # {}
Guards(r, base) ==
  LET c == Commands(r, base)[1] IN
  Only(IF r.kind = "settings" /\ c.device = "epever" THEN Filled(c.cells, cache["epever"])
                                                     ELSE c.cells, Guarded(c.device))

(* What a handler refuses before it looks at a snapshot. *)
OutOfRange(r, base) ==
  \/ r.kind \in {"scalar", "nudge"} /\ Target(r, base) \notin 1 .. 650
  \/ r.kind = "settings" /\ r.device = "classic"
     /\ "time" \in DOMAIN r.cells /\ r.cells["time"] \notin 0 .. MaxAbsorbTime

(* A slip: only the first of the voltages is held against the limit. *)
VerdictOnScalar(r, base) ==
  IF OutOfRange(r, base) THEN "bad_request"
  ELSE IF ~Looks(r) THEN "go"
  ELSE IF (\E d \in Needs(r) : cache[d] = Blank) \/ cvl = Null THEN "conflict"
  ELSE IF \E c \in DOMAIN Guards(r, base) \cap {"boost", "absorb"} :
            Guards(r, base)[c] > cvl THEN "bad_request"
  ELSE "go"

Verdict(r, base) ==
  IF OutOfRange(r, base) THEN "bad_request"
  ELSE IF ~Looks(r) THEN "go"
  ELSE IF (\E d \in Needs(r) : cache[d] = Blank) \/ cvl = Null THEN "conflict"
  ELSE IF \E c \in DOMAIN Guards(r, base) : Guards(r, base)[c] > cvl THEN "bad_request"
  ELSE "go"

-----------------------------------------------------------------------------
Over(answer) == [pc |-> "over", answer |-> answer, plan |-> <<>>]
SettingsInit ==
  /\ block \in Blocks
  /\ cvl = Null
  /\ cache = [d \in Devices |-> Blank]
  /\ enabled = [d \in Devices |-> TRUE] /\ factor = Default
  /\ file = Blank /\ lock = NoOne
  /\ queue = [d \in Devices |-> <<>>]
  /\ call = [t \in Threads |-> [pc |-> "idle"]]
  /\ ran = [t \in Threads |-> {}]
  /\ peak = [t \in Threads |-> Null] /\ seen = [t \in Threads |-> {}]
  /\ strayed = {}

UnderWay(t) == call[t].pc \notin {"idle", "over"}
Nudging(t, d) == UnderWay(t) /\ call[t].req.kind = "nudge" /\ call[t].req.device = d

(* A request arrives. *)
Ask(t, r) ==
  /\ call[t].pc = "idle"
  /\ call' = [call EXCEPT ![t] =
       IF r.kind = "nudge" /\ r.delta \notin -MaxDelta .. MaxDelta THEN Over("bad_request")
       ELSE [pc |-> CASE r.kind = "nudge" -> "read"
                      [] r.kind \in {"factor", "factor_delta", "switch"} -> "edit"
                      [] OTHER -> "look",
             req |-> r, base |-> Null, plan |-> <<>>, next |-> 1]]
  /\ peak' = [peak EXCEPT ![t] = cvl]
  /\ seen' = [seen EXCEPT ![t] = IF r.kind = "nudge" THEN {block[r.device][ScalarOf(r.device)]}
                                                   ELSE {}]
  /\ UNCHANGED <<deviceVars, cvl, cache, stateVars>>

(* The snapshot, the guard, and what is to be written. *)
Look(t) ==
  LET c == call[t] IN
  /\ c.pc = "look"
  /\ call' = [call EXCEPT ![t] =
       IF Verdict(c.req, c.base) # "go" THEN Over(Verdict(c.req, c.base))
       ELSE [c EXCEPT !.pc = "send", !.plan = Commands(c.req, c.base)]]
  /\ UNCHANGED <<deviceVars, cvl, cache, stateVars, peak, seen>>

Submit(t, c, pc) ==
  /\ IF enabled[c.device]
     THEN /\ queue' = [queue EXCEPT ![c.device] =
                         Append(@, [device |-> c.device, cells |-> c.cells, by |-> t])]
          /\ call' = [call EXCEPT ![t].pc = pc]
     ELSE /\ call' = [call EXCEPT ![t] = Over("conflict")]
          /\ UNCHANGED queue
  /\ UNCHANGED <<block, ran, cvl, cache, stateVars, peak, seen>>

(* A slip: the setpoint of the last poll will do. *)
ReadBaseCached(t) ==
  LET d == call[t].req.device IN
  /\ call[t].pc = "read" /\ cache[d] # Blank
  /\ call' = [call EXCEPT ![t].pc = "look", ![t].base = cache[d][ScalarOf(d)]]
  /\ UNCHANGED <<deviceVars, cvl, cache, stateVars, peak, seen>>

(* A nudge asks the device, on its actor, for the setpoint it moves. *)
ReadBase(t) ==
  /\ call[t].pc = "read"
  /\ Submit(t, Write(call[t].req.device, Blank), "base")

Send(t) ==
  /\ call[t].pc = "send"
  /\ Submit(t, call[t].plan[call[t].next], "wait")

(* The caller goes on, or answers what was raised. *)
Returned(t, c, result) ==
  IF result # "done" THEN Over(result)
  ELSE IF call[t].pc = "base"
    THEN [call[t] EXCEPT !.pc = "look", !.base = block[c.device][ScalarOf(c.device)]]
  ELSE IF call[t].next = Len(call[t].plan)
    THEN [Over("ok") EXCEPT !.plan = call[t].plan]
  ELSE [call[t] EXCEPT !.pc = "send", !.next = @ + 1]

(* The actor runs its next command, or refuses it for a device that is off. *)
Run(d) ==
  LET c == Head(queue[d])
      t == c.by
      n == Cardinality(ran[t]) + 1 IN
  /\ queue[d] # <<>>
  /\ queue' = [queue EXCEPT ![d] = Tail(@)]
  /\ \E o \in (IF enabled[d] THEN Outcomes(c) ELSE {Outcome(Blank, "conflict")}) :
       /\ block' = [block EXCEPT ![d] = Filled(o.cells, @)]
       /\ ran' = [ran EXCEPT ![t] = IF o.cells # Blank /\ o.cells = c.cells
                                    THEN @ \cup {n} ELSE @]
       /\ call' = [call EXCEPT ![t] = IF @.pc \in {"base", "wait"}
                                      THEN Returned(t, c, o.result) ELSE @]
  /\ seen' = [u \in Threads |-> IF Nudging(u, d) THEN seen[u] \cup {block'[d][ScalarOf(d)]}
                                                 ELSE seen[u]]
  /\ UNCHANGED <<cvl, cache, stateVars, peak>>

(* A slip: the time-out is caught like the errors the adapter raises. *)
GiveUpAsRefused(t) ==
  /\ call[t].pc \in {"base", "wait"}
  /\ call' = [call EXCEPT ![t] = Over("conflict")]
  /\ UNCHANGED <<deviceVars, cvl, cache, stateVars, peak, seen>>

(* submit() times out; the command stays.  No handler catches the time-out, so
   the connection ends without an answer. *)
GiveUp(t) ==
  /\ call[t].pc \in {"base", "wait"}
  /\ call' = [call EXCEPT ![t] = Over("dropped")]
  /\ UNCHANGED <<deviceVars, cvl, cache, stateVars, peak, seen>>

-----------------------------------------------------------------------------
(* The overrides that survive a restart. *)

Keys == {"factor", "enabled"}
Key(r) == IF r.kind = "switch" THEN "enabled" ELSE "factor"
Memory == [factor |-> factor, enabled |-> enabled]
Configured == [factor |-> Default, enabled |-> [d \in Devices |-> TRUE]]

(* What a document says of an override: without an entry, the configured value. *)
Stored(document, key) == IF key \in DOMAIN document THEN document[key] ELSE Configured[key]

Saving(u, key) == call[u].pc \in {"save", "replace"} /\ Key(call[u].req) = key
Edited(t, key, value) ==
  /\ call' = [call EXCEPT ![t] = [pc |-> "save", req |-> @.req, edit |-> [k \in {key} |-> value]]]
  /\ strayed' = IF \E u \in Threads : Saving(u, key) THEN strayed \cup {key} ELSE strayed \ {key}

(* The factor changes under the ceiling's lock, and is saved after it. *)
EditFactor(t) ==
  LET r == call[t].req
      value == IF r.kind = "factor" THEN r.value ELSE factor + r.delta IN
  /\ call[t].pc = "edit" /\ Key(r) = "factor"
  /\ IF value \in MinFactor .. MaxFactor
     THEN factor' = value /\ Edited(t, "factor", value)
     ELSE call' = [call EXCEPT ![t] = Over("bad_request")] /\ UNCHANGED <<factor, strayed>>
  /\ UNCHANGED <<deviceVars, cvl, cache, enabled, file, lock, peak, seen>>

(* A switch drops what the reader holds; both switches are saved together, and
   only after a change. *)
EditSwitch(t) ==
  LET r == call[t].req IN
  /\ call[t].pc = "edit" /\ Key(r) = "enabled"
  /\ enabled' = [enabled EXCEPT ![r.device] = r.on]
  /\ cache' = IF r.on THEN cache ELSE [cache EXCEPT ![r.device] = Blank]
  /\ IF enabled[r.device] # r.on THEN Edited(t, "enabled", enabled')
     ELSE call' = [call EXCEPT ![t] = Over("ok")] /\ UNCHANGED strayed
  /\ UNCHANGED <<deviceVars, cvl, factor, file, lock, peak, seen>>

(* A slip: the document is loaded before the lock is taken. *)
SaveLoadsUnlocked(t) ==
  /\ call[t].pc = "save"
  /\ call' = [call EXCEPT ![t] = [pc |-> "replace", req |-> @.req, edit |-> Filled(@.edit, file)]]
  /\ UNCHANGED <<deviceVars, cvl, cache, enabled, factor, file, lock, strayed, peak, seen>>

(* _save_state(): load, change one key, replace the file, or leave it if the
   file system refuses; the caller is not told.  A document that cannot be read
   or parsed counts as empty, so that the other override goes with it. *)
SaveLoads(t) ==
  /\ call[t].pc = "save" /\ lock = NoOne
  /\ lock' = t
  /\ \E data \in {file, Blank} :
       /\ call' = [call EXCEPT ![t] =
                     [pc |-> "replace", req |-> @.req, edit |-> Filled(@.edit, data)]]
       /\ strayed' = strayed \cup (DOMAIN file \ (DOMAIN data \cup {Key(call[t].req)}))
  /\ UNCHANGED <<deviceVars, cvl, cache, enabled, factor, file, peak, seen>>

SaveReplaces(t) ==
  LET c == call[t] IN
  /\ c.pc = "replace"
  /\ lock' = NoOne
  /\ \/ file' = c.edit /\ UNCHANGED strayed
     \/ strayed' = strayed \cup {Key(c.req)} /\ UNCHANGED file
  /\ call' = [call EXCEPT ![t] = Over("ok")]
  /\ UNCHANGED <<deviceVars, cvl, cache, enabled, factor, peak, seen>>

(* The process dies with its threads, queues and readings, and reads each override
   from the file again; one that cannot be read is the configured one. *)
Restart ==
  /\ \E t \in Threads : UnderWay(t)
  /\ call' = [t \in Threads |-> IF UnderWay(t) THEN Over("dropped") ELSE call[t]]
  /\ queue' = [d \in Devices |-> <<>>]
  /\ cache' = [d \in Devices |-> Blank] /\ cvl' = Null
  /\ \E read \in SUBSET DOMAIN file :
       /\ factor' = (IF "factor" \in read THEN file ELSE Configured).factor
       /\ enabled' = (IF "enabled" \in read THEN file ELSE Configured).enabled
       /\ strayed' = DOMAIN file \ read
  /\ lock' = NoOne
  /\ UNCHANGED <<block, ran, file, peak, seen>>

-----------------------------------------------------------------------------
(* The battery's reader: a poll brings the limit that the BMS publishes then, or no
   such frame; a poll that fails leaves the last reading in the snapshot until
   it expires. *)
BatteryPoll ==
  /\ cvl' \in Limits \ {cvl}
  /\ peak' = [t \in Threads |-> IF UnderWay(t) /\ cvl' > peak[t] THEN cvl' ELSE peak[t]]
  /\ UNCHANGED <<deviceVars, cache, stateVars, call, seen>>

(* A poll of a controller, or the last one's value expires. *)
Poll(d) ==
  /\ \/ enabled[d] /\ cache' = [cache EXCEPT ![d] = block[d]]
     \/ cache' = [cache EXCEPT ![d] = Blank]
  /\ UNCHANGED <<deviceVars, cvl, stateVars, call, peak, seen>>

SettingsNext ==
  \/ \E t \in Threads :
       \/ \E r \in Requests : Ask(t, r)
       \/ ReadBase(t) \/ Look(t) \/ Send(t) \/ GiveUp(t)
       \/ EditFactor(t) \/ EditSwitch(t) \/ SaveLoads(t) \/ SaveReplaces(t)
  \/ \E d \in Devices : Run(d) \/ Poll(d)
  \/ Restart
  \/ BatteryPoll

SettingsSpec == SettingsInit /\ [][SettingsNext]_vars

-----------------------------------------------------------------------------
(* The EPEver's voltages satisfy the rules the adapter checks, whatever
   handlers write at the same time, each naming some of the cells and guarding
   them by an older view of the rest, and whichever command runs late.
   [epever.py, write_charge_voltages()] *)
BlockSound == Sound(block["epever"])

(* A request raises no voltage above the highest limit that the snapshot has held
   since the request arrived, by whichever handler, and also when its command
   runs after its caller gave up or breaks off halfway.  The limit may fall
   between the guard and the write, and the snapshot may be older than what the
   BMS publishes; the guard itself may leave nothing out.
   [web_display.py, _guard_voltage_targets_against_bms()] *)
RaisedWithinLimit ==
  [][\A d \in Devices : queue[d] # <<>> =>
       \A c \in Guarded(d) :
         block'[d][c] > block[d][c] => block'[d][c] <= peak[Head(queue[d]).by]]_vars

(* An answer is honest.  "ok": every command of the request took effect.  A
   refusal, 400 or 409: none of its commands is still to run, although earlier
   ones may have taken effect.  Only a caller without an answer may see its
   command run later.  [web_display.py, the handlers' except clauses] *)
AnswerHonest ==
  \A t \in Threads : call[t].pc = "over" =>
    /\ call[t].answer = "ok" => ran[t] = DOMAIN call[t].plan
    /\ call[t].answer \in {"bad_request", "conflict"} =>
         \A d \in Devices : \A i \in DOMAIN queue[d] : queue[d][i].by # t

(* A nudge moves a setpoint that the device had while the request was there,
   never one a poll saw before.  [supervisor.py, read_classic_settings():
   "so the value can't be read from a stale poll cache"] *)
NudgeFromFresh ==
  \A t \in Threads :
    call[t].pc \in {"send", "wait"} /\ call[t].req.kind = "nudge" => call[t].base \in seen[t]

(* What the file says of an override is what the process goes by, so that a
   restart brings it back, once no edit of it is being saved: unless the last two
   edits of it overlapped, or the file system refused to write it or, at a save of
   either override or at the start, to read it.  A save of one override takes
   nothing from the other otherwise, and the next edit makes up for it all.
   [runtime_state.py, _save_state()] *)
FileMatchesMemory ==
  \A key \in Keys \ strayed :
    (\A t \in Threads : ~Saving(t, key)) => Stored(file, key) = Memory[key]
=============================================================================
