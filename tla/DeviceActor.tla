----------------------------- MODULE DeviceActor -----------------------------
(***************************************************************************)
(* One charge controller's actor (PollingReader of readers.py), its        *)
(* operational switch (supervisor.py) and the switch's copy in the runtime *)
(* state (runtime_state.py), from the start of the HTTP server through     *)
(* start_readers() to stop_readers().  Every HTTP request and the main     *)
(* loop are threads of their own; one step is what a thread does under one *)
(* lock or between two reads of shared state.                              *)
(***************************************************************************)
EXTENDS Integers, FiniteSets, Sequences, SequencesExt

CONSTANTS
  Callers,    \* bound: the threads that serve requests, reused between them
  Askers,     \* bound: those that command the device
  Togglers,   \* bound: those that operate the switch
  MaxQueue,   \* bound: the actor's queue
  Nobody,     \* no caller
  Refresh     \* an out-of-cycle poll: the command nobody waits for

ASSUME CallerAssumption ==
  Askers \cup Togglers \subseteq Callers /\ {Nobody, Refresh} \cap Callers = {} /\ Nobody # Refresh
ASSUME QueueAssumption == MaxQueue \in Nat \ {0}

VARIABLES
  switch,    \* Supervisor._charge_controller_enabled of this controller
  stored,    \* the same in the runtime-state file
  enabled,   \* PollingReader._enabled
  cached,    \* _value is not None
  queue,     \* _commands: the callers, by command, or Refresh
  stopping,  \* PollingReader._stop
  threaded,  \* _thread is not None
  published, \* Supervisor._readers is not None
  actor,     \* where the actor thread is in _run()
  current,   \* the command it runs, or Nobody while it polls
  main,      \* where the main thread is
  pc,        \* where each caller is
  to,        \* the switch it sets or saves, and whether that is a change
  reply      \* what it was told of its last command

switchVars == <<switch, stored>>
readerVars == <<enabled, cached, queue>>
threadVars == <<stopping, threaded, published, actor, current, main>>
callerVars == <<pc, to, reply>>
vars == <<switchVars, readerVars, threadVars, callerVars>>

ActorSteps == {"none", "due", "reading", "publish", "serve", "command", "gone"}
MainSteps == {"boot", "starting", "started", "running", "joining", "stopped"}
CallSteps == {"idle", "require", "route", "submit", "inline", "waiting",
              "switched", "reader", "drop", "refresh", "hook", "save"}

\* No switch is being set.
NoSwitch == [on |-> FALSE, change |-> FALSE]

Init ==
  /\ stored \in BOOLEAN /\ switch = stored
  /\ enabled = TRUE /\ cached = FALSE /\ queue = <<>>
  /\ stopping = FALSE /\ threaded = FALSE /\ published = FALSE
  /\ actor = "none" /\ current = Nobody /\ main = "boot"
  /\ pc = [c \in Callers |-> "idle"]
  /\ to = [c \in Callers |-> NoSwitch]
  /\ reply = [c \in Callers |-> "free"]

Goes(c, step) == pc' = [pc EXCEPT ![c] = step]
Told(c, what) == pc' = [pc EXCEPT ![c] = "idle"] /\ reply' = [reply EXCEPT ![c] = what]
Free(c) == pc[c] = "idle" /\ current # c /\ ~Contains(queue, c)

-----------------------------------------------------------------------------
(* The main thread: start_readers(), stop_readers().                        *)

ConfigureReader ==
  /\ main = "boot" /\ main' = "starting"
  /\ enabled' = switch
  /\ UNCHANGED <<switchVars, cached, queue, stopping, threaded, published, actor, current,
                 callerVars>>

StartThread ==
  /\ main = "starting" /\ main' = "started"
  /\ threaded' = TRUE /\ actor' = "due"
  /\ UNCHANGED <<switchVars, readerVars, stopping, published, current, callerVars>>

\* A mutant: the readers are published before their threads run.
PublishIdleReaders ==
  /\ main = "starting" /\ main' = "running"
  /\ published' = TRUE
  /\ UNCHANGED <<switchVars, readerVars, stopping, threaded, actor, current, callerVars>>

PublishReaders ==
  /\ main = "started" /\ main' = "running"
  /\ published' = TRUE
  /\ UNCHANGED <<switchVars, readerVars, stopping, threaded, actor, current, callerVars>>

StopReader ==
  /\ main = "running" /\ main' = "joining"
  /\ stopping' = TRUE
  /\ UNCHANGED <<switchVars, readerVars, threaded, published, actor, current, callerVars>>

\* join() returns when the actor is gone, or when its time is over.
Joined ==
  /\ main = "joining" /\ main' = "stopped"
  /\ threaded' = FALSE
  /\ UNCHANGED <<switchVars, readerVars, stopping, published, actor, current, callerVars>>

WithdrawReaders ==
  /\ main = "stopped" /\ published
  /\ published' = FALSE
  /\ UNCHANGED <<switchVars, readerVars, stopping, threaded, actor, current, main, callerVars>>

\* The process ends, in order or not, and starts again: the switch comes from
\* the runtime state.
Restart ==
  /\ switch' = stored /\ UNCHANGED stored
  /\ enabled' = TRUE /\ cached' = FALSE /\ queue' = <<>>
  /\ stopping' = FALSE /\ threaded' = FALSE /\ published' = FALSE
  /\ actor' = "none" /\ current' = Nobody /\ main' = "boot"
  /\ pc' = [c \in Callers |-> "idle"]
  /\ to' = [c \in Callers |-> NoSwitch]
  /\ reply' = [c \in Callers |-> "free"]

-----------------------------------------------------------------------------
(* The actor thread: _run() and read_now().                                 *)

ActorGoes(step) ==
  /\ actor' = step
  /\ UNCHANGED <<switchVars, stopping, threaded, published, main>>

\* A mutant: the thread's loop ends when the reader is switched off.
ActorStopsWhenOff ==
  /\ actor = "due" /\ (stopping \/ ~enabled)
  /\ ActorGoes("gone")
  /\ UNCHANGED <<readerVars, current, callerVars>>

ActorStops ==
  /\ actor = "due" /\ stopping
  /\ ActorGoes("gone")
  /\ UNCHANGED <<readerVars, current, callerVars>>

\* A poll is due, or not yet.
PollStarts ==
  /\ actor = "due" /\ ~stopping /\ enabled
  /\ ActorGoes("reading")
  /\ UNCHANGED <<readerVars, current, callerVars>>

NotDue ==
  /\ actor = "due" /\ ~stopping
  /\ ActorGoes("serve")
  /\ UNCHANGED <<readerVars, current, callerVars>>

\* read_fn returned a value.
ReadReturns ==
  /\ actor = "reading"
  /\ ActorGoes("publish")
  /\ UNCHANGED <<readerVars, current, callerVars>>

\* A mutant: the loop looks for a due poll before it looks at the commands.
PollAgain == "due"

\* A poll goes on to the commands, a refresh was one of them.
AfterRead == IF current = Refresh THEN "due" ELSE "serve"

\* A mutant: the switch is not looked at again before the value is kept.
PublishUnchecked ==
  /\ actor = "publish"
  /\ cached' = TRUE /\ current' = Nobody
  /\ ActorGoes(AfterRead)
  /\ UNCHANGED <<enabled, queue, callerVars>>

\* Under the lock: keep the value unless the reader was switched off meanwhile.
Publish ==
  /\ actor = "publish"
  /\ cached' = (cached \/ enabled) /\ current' = Nobody
  /\ ActorGoes(AfterRead)
  /\ UNCHANGED <<enabled, queue, callerVars>>

\* read_fn raised or gave nothing: the last good value stays.
ReadFails ==
  /\ actor = "reading"
  /\ current' = Nobody
  /\ ActorGoes(AfterRead)
  /\ UNCHANGED <<readerVars, callerVars>>

\* No command came within the time slice.
NoCommand ==
  /\ actor = "serve" /\ queue = <<>>
  /\ ActorGoes("due")
  /\ UNCHANGED <<readerVars, current, callerVars>>

\* A mutant: the command is read from the queue and left there.
PeekCommand ==
  /\ actor = "serve" /\ queue # <<>> /\ Head(queue) # Refresh /\ enabled
  /\ current' = Head(queue)
  /\ ActorGoes("command")
  /\ UNCHANGED <<readerVars, callerVars>>

TakeCommand ==
  /\ actor = "serve" /\ queue # <<>> /\ Head(queue) # Refresh /\ enabled
  /\ queue' = Tail(queue)
  /\ current' = Head(queue)
  /\ ActorGoes("command")
  /\ UNCHANGED <<enabled, cached, callerVars>>

TakeRefresh ==
  /\ actor = "serve" /\ queue # <<>> /\ Head(queue) = Refresh /\ enabled
  /\ queue' = Tail(queue)
  /\ current' = Refresh
  /\ ActorGoes("reading")
  /\ UNCHANGED <<enabled, cached, callerVars>>

\* Switched off since the command was queued: its caller is told, if it waits.
RefuseCommand ==
  /\ actor = "serve" /\ queue # <<>> /\ ~enabled
  /\ queue' = Tail(queue)
  /\ ActorGoes("due")
  /\ IF Head(queue) # Refresh /\ pc[Head(queue)] = "waiting"
     THEN Told(Head(queue), "refused")
     ELSE UNCHANGED <<pc, reply>>
  /\ UNCHANGED <<enabled, cached, current, to>>

\* The command returned or raised.
CommandReturns ==
  /\ actor = "command"
  /\ current' = Nobody
  /\ ActorGoes("due")
  /\ IF pc[current] = "waiting" THEN Told(current, "answered") ELSE UNCHANGED <<pc, reply>>
  /\ UNCHANGED <<readerVars, to>>

-----------------------------------------------------------------------------
(* A caller's command: Supervisor.write_*, set_*, read_* and submit().      *)

callUnchanged == UNCHANGED <<switchVars, enabled, cached, threadVars, to>>

Ask(c) ==
  /\ Free(c)
  /\ Goes(c, "require")
  /\ callUnchanged /\ UNCHANGED <<queue, reply>>

\* _require_charge_controller_enabled
Require(c) ==
  /\ pc[c] = "require"
  /\ IF switch THEN Goes(c, "route") /\ UNCHANGED reply ELSE Told(c, "refused")
  /\ callUnchanged /\ UNCHANGED queue

\* Without readers the command runs on the caller's own thread.
Route(c) ==
  /\ pc[c] = "route"
  /\ Goes(c, IF published THEN "submit" ELSE "inline")
  /\ callUnchanged /\ UNCHANGED <<queue, reply>>

Submit(c) ==
  /\ pc[c] = "submit"
  /\ IF ~enabled THEN Told(c, "refused") /\ UNCHANGED queue
     ELSE IF ~threaded THEN Goes(c, "inline") /\ UNCHANGED <<queue, reply>>
     ELSE /\ Len(queue) < MaxQueue
          /\ queue' = Append(queue, c)
          /\ Goes(c, "waiting") /\ UNCHANGED reply
  /\ callUnchanged

InlineReturns(c) ==
  /\ pc[c] = "inline"
  /\ Told(c, "answered")
  /\ callUnchanged /\ UNCHANGED queue

\* Future.result() times out; the command stays where it is.
GiveUp(c) ==
  /\ pc[c] = "waiting"
  /\ Told(c, "free")
  /\ callUnchanged /\ UNCHANGED queue

-----------------------------------------------------------------------------
(* The operator's switch: set_charge_controller_enabled().                  *)

toggleUnchanged == UNCHANGED <<threadVars, reply>>

Ends(c) == Goes(c, "idle") /\ to' = [to EXCEPT ![c] = NoSwitch]

\* Only a change of the switch calls the hook.
AfterReader(c) == IF to[c].change THEN Goes(c, "hook") /\ UNCHANGED to ELSE Ends(c)

\* Under the switch's lock: read the previous value, set the new one.
SetSwitch(c, on) ==
  /\ Free(c)
  /\ switch' = on
  /\ to' = [to EXCEPT ![c] = [on |-> on, change |-> switch # on]]
  /\ Goes(c, "switched")
  /\ toggleUnchanged /\ UNCHANGED <<stored, readerVars>>

\* The reader, if this caller finds one.
FindReader(c) ==
  /\ pc[c] = "switched"
  /\ IF published THEN Goes(c, "reader") /\ UNCHANGED to ELSE AfterReader(c)
  /\ toggleUnchanged /\ UNCHANGED <<switchVars, readerVars>>

\* set_enabled(True): an event, and a refresh when it was off.
ReaderOn(c) ==
  /\ pc[c] = "reader" /\ to[c].on
  /\ enabled' = TRUE
  /\ IF enabled THEN AfterReader(c) /\ UNCHANGED queue
     ELSE IF ~threaded THEN Goes(c, "refresh") /\ UNCHANGED <<queue, to>>
     ELSE /\ Len(queue) < MaxQueue
          /\ queue' = Append(queue, Refresh)
          /\ AfterReader(c)
  /\ toggleUnchanged /\ UNCHANGED <<switchVars, cached>>

\* The reader's thread is gone: read_now() on the caller's own.
RefreshInline(c) ==
  /\ pc[c] = "refresh"
  /\ cached' \in {cached, cached \/ enabled}
  /\ AfterReader(c)
  /\ toggleUnchanged /\ UNCHANGED <<switchVars, enabled, queue>>

\* set_enabled(False): first the event ...
ReaderOff(c) ==
  /\ pc[c] = "reader" /\ ~to[c].on
  /\ enabled' = FALSE
  /\ Goes(c, "drop")
  /\ toggleUnchanged /\ UNCHANGED <<switchVars, cached, queue, to>>

\* ... then, under the lock, the cached telemetry.
DropCache(c) ==
  /\ pc[c] = "drop"
  /\ cached' = FALSE
  /\ AfterReader(c)
  /\ toggleUnchanged /\ UNCHANGED <<switchVars, enabled, queue>>

\* The change hook reads the switches afresh ...
HookReads(c) ==
  /\ pc[c] = "hook"
  /\ to' = [to EXCEPT ![c].on = switch]
  /\ Goes(c, "save")
  /\ toggleUnchanged /\ UNCHANGED <<switchVars, readerVars>>

\* ... and _save_state replaces the file under its own lock.
HookSaves(c) ==
  /\ pc[c] = "save"
  /\ stored' = to[c].on
  /\ Ends(c)
  /\ toggleUnchanged /\ UNCHANGED <<switch, readerVars>>

-----------------------------------------------------------------------------
MainStep == ConfigureReader \/ StartThread \/ PublishReaders \/ StopReader \/ Joined
              \/ WithdrawReaders

ActorStep ==
  \/ ActorStops \/ PollStarts \/ NotDue \/ ReadReturns \/ Publish \/ ReadFails
  \/ NoCommand \/ TakeCommand \/ TakeRefresh \/ RefuseCommand \/ CommandReturns

Command(c) == Ask(c) \/ Require(c) \/ Route(c) \/ Submit(c) \/ InlineReturns(c) \/ GiveUp(c)

Toggle(c) ==
  \/ \E on \in BOOLEAN : SetSwitch(c, on)
  \/ FindReader(c) \/ ReaderOn(c) \/ RefreshInline(c) \/ ReaderOff(c) \/ DropCache(c)
  \/ HookReads(c) \/ HookSaves(c)

Next ==
  \/ MainStep \/ ActorStep \/ Restart
  \/ \E c \in Askers : Command(c)
  \/ \E c \in Togglers : Toggle(c)

Spec == Init /\ [][Next]_vars

\* The actor thread runs; polls come due again and again and now and then one
\* of them returns a value.
Fairness == WF_vars(ActorStep) /\ SF_vars(PollStarts) /\ SF_vars(ReadReturns)

FairSpec == Spec /\ Fairness

-----------------------------------------------------------------------------
FlagsTypeOK ==
  /\ switch \in BOOLEAN /\ stored \in BOOLEAN /\ enabled \in BOOLEAN /\ cached \in BOOLEAN
  /\ stopping \in BOOLEAN /\ threaded \in BOOLEAN /\ published \in BOOLEAN
  /\ main \in MainSteps

QueueTypeOK ==
  /\ queue \in Seq(Callers \cup {Refresh}) /\ Len(queue) <= MaxQueue
  /\ actor \in ActorSteps
  /\ current \in Callers \cup {Refresh, Nobody}

CallersTypeOK ==
  /\ pc \in [Callers -> CallSteps]
  /\ to \in [Callers -> [on : BOOLEAN, change : BOOLEAN]]
  /\ reply \in [Callers -> {"free", "refused", "answered"}]

DeviceTypeOK == FlagsTypeOK /\ QueueTypeOK /\ CallersTypeOK

\* "Disable ..., dropping cached telemetry when off": once the reader is off and
\* its cache was dropped, no poll or refresh that was under way puts a value
\* back, however the switch was operated meanwhile and by however many.
DisabledPublishesNothing ==
  ~enabled /\ (\A c \in Callers : pc[c] # "drop") => ~cached

\* What became of a caller's last command.
PortOf(c) ==
  IF pc[c] = "inline" \/ (pc[c] = "waiting" /\ current = c) THEN "running"
  ELSE IF pc[c] \in {"require", "route", "submit", "waiting"} THEN "asked"
  ELSE IF current = c THEN "leftRunning"
  ELSE IF reply[c] = "free" /\ Contains(queue, c) THEN "left"
  ELSE reply[c]

Port == INSTANCE CommandPort WITH port <- [c \in Callers |-> PortOf(c)]

\* A caller that is told "user disabled" knows that its command never runs, one
\* that got an answer that it ran once, one that timed out that it runs at most
\* once - before, while and after the readers run.
CommandsHonest == Port!Spec

\* Where a caller uses the adapter on its own thread.
Aside == {"inline", "refresh"}

\* "The actor thread is the only code that ever touches the adapter": once the
\* readers run, no other thread starts a command or a poll of its own on the device.
OnlyActorEnters ==
  [][ main = "running" => \A c \in Callers : pc'[c] \in Aside => pc[c] = pc'[c] ]_vars

\* A queued command is taken, whatever polls, refreshes and their failures, the
\* switch and other commands do in between, as long as the readers run.
CommandsTaken ==
  \A c \in Callers : Contains(queue, c) ~> (main # "running" \/ ~Contains(queue, c))

\* A reader that stays on has telemetry again, whatever came before.
TelemetryReturns == <>[](enabled /\ main = "running") => <>[](cached \/ ~enabled)

\* "Reads and writes to one device can never race each other" (readers.py): at
\* most one thread is inside the adapter.
Inside == {c \in Callers : pc[c] \in Aside}
            \cup (IF actor \in {"reading", "command"} THEN {Nobody} ELSE {})
AdapterExclusive == Cardinality(Inside) <= 1

\* "Disabling is a single coherent action across control, telemetry ... The state
\* is persisted" (docs/telemetry/supervisor-api.md): with no request under way
\* the switch, the reader and the runtime state agree.
SwitchCoherent ==
  main = "running" /\ (\A c \in Callers : pc[c] = "idle")
    => enabled = switch /\ stored = switch
=============================================================================
