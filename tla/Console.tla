------------------------------ MODULE Console -------------------------------
(* The operator's console (cli/api_terminal_display.py): a terminal that     *)
(* shows the supervisor's snapshot and has two armed modes.  In tune mode    *)
(* the operator stages changes of the controllers' voltages and of the CCL   *)
(* factor and sends each as one delta; in options mode they stage the        *)
(* controllers' switches.  Requests may be refused, answered late or lost,   *)
(* and other clients write the same settings.  The server answers each       *)
(* request on a thread of its own: of a voltage it reads the setting by one  *)
(* command and writes what it planned by another; the rest of its side of a  *)
(* voltage is module ChargeSettings, of a switch module DeviceActor.         *)
EXTENDS Integers, Sequences

CONSTANTS
  Rows,           \* the tune rows, in the order of the screen
  Steps,          \* a row's steps, smallest first
  DefaultStep,    \* the index of the step a row starts with
  Budget,         \* a row's session budget
  IdleRounds,     \* TUNE_IDLE_TIMEOUT_S in refresh rounds
  Keys,           \* what the operator may press
  OthersMoves,    \* by how much another client may move a setting
  MaxPresses,     \* bound of the model: key presses
  MaxOthers,      \* bound of the model: changes by other clients
  MaxTyped        \* bound of the model: key presses waiting in the terminal

ASSUME ConsoleAssumption ==
  /\ Steps \in Seq(Nat \ {0}) /\ DefaultStep \in DOMAIN Steps
  /\ {Budget, IdleRounds, MaxPresses, MaxOthers, MaxTyped} \subseteq Nat
  /\ Rows \in Seq(STRING) /\ Rows # <<>> /\ OthersMoves \subseteq Int
  /\ \A i \in DOMAIN Rows : Rows[i] # "switch"

VARIABLES
  at,             \* main()'s place: "top", "wait", "commit", "quit"
  mode,           \* "view", "tune", "options"
  idle,           \* refresh rounds since the last key was read
  tty, buffer,    \* keys in the terminal; keys read into Python's buffer
  rows, index,    \* TuneState: [base, pending, step] of each row, the row selected
  option,         \* OptionsState for one controller: [base, pending]
  todo,           \* what the commit has still to send
  requests,       \* what was sent: [row, value, target, state], see Request
  flight,         \* the request the console waits for, 0 if for none
  server,         \* the settings as the supervisor has them
  switch,
  cache,          \* the snapshot the supervisor serves
  presses, others,
  sent, drift     \* history: a row's commits, and how far other clients moved it

keyVars == <<tty, buffer, presses>>
stageVars == <<rows, index, option>>
serverVars == <<server, switch, cache, others, drift>>
requestVars == <<todo, requests, flight, sent>>
consoleVars == <<at, mode, idle, keyVars, stageVars, requestVars, serverVars>>

RowSet == {Rows[i] : i \in DOMAIN Rows}
Magnitude(n) == IF n < 0 THEN -n ELSE n

(* Every row but the CCL factor is a controller's voltage.                   *)
Voltages == RowSet \ {"scaling"}

(* A request asks for a delta of its row, or for a value of the switch.  It  *)
(* is "sent", of a voltage then "planned" (its target is what the server     *)
(* will write), and in the end "done" or "refused".                          *)
Request(row, value) == [row |-> row, value |-> value, target |-> value, state |-> "sent"]
Taken(q, state, target) == [row |-> q.row, value |-> q.value, target |-> target, state |-> state]
Asked == requests[flight]

Staged(value) == [base |-> value, pending |-> value, step |-> DefaultStep]

ConsoleInit ==
  /\ at = "top" /\ mode = "view" /\ idle = 0
  /\ tty = <<>> /\ buffer = <<>> /\ presses = 0 /\ others = 0
  /\ rows = [r \in RowSet |-> Staged(0)] /\ index = 1
  /\ option = [base |-> TRUE, pending |-> TRUE]
  /\ todo = <<>> /\ requests = <<>> /\ flight = 0
  /\ server = [r \in RowSet |-> 0] /\ switch = TRUE
  /\ cache = [settings |-> server, enabled |-> switch]
  /\ sent = [r \in RowSet |-> 0] /\ drift = [r \in RowSet |-> 0]

-----------------------------------------------------------------------------
(* The operator types whatever the console is doing.                         *)
Press(key) ==
  /\ presses < MaxPresses /\ Len(tty) < MaxTyped /\ at # "quit"
  /\ tty' = Append(tty, key) /\ presses' = presses + 1
  /\ UNCHANGED <<at, mode, idle, buffer, stageVars, requestVars, serverVars>>

(* One round of the outer loop: the armed modes end after a spell without a  *)
(* key, then the page is fetched and drawn.                                  *)
Refresh ==
  /\ at = "top"
  /\ at' = "wait"
  /\ mode' = IF idle > IdleRounds THEN "view" ELSE mode
  /\ UNCHANGED <<idle, keyVars, stageVars, requestVars, serverVars>>

(* A slip: every round counts as activity. *)
IntervalEndsAwake ==
  /\ at = "wait"
  /\ at' = "top"
  /\ idle' = 0
  /\ UNCHANGED <<mode, keyVars, stageVars, requestVars, serverVars>>

(* The refresh interval ends, or the terminal is resized.  A page that took  *)
(* the whole interval to load leaves no time to look for keys.               *)
IntervalEnds ==
  /\ at = "wait"
  /\ at' = "top"
  /\ idle' = IF idle > IdleRounds THEN idle ELSE idle + 1
  /\ UNCHANGED <<mode, keyVars, stageVars, requestVars, serverVars>>

-----------------------------------------------------------------------------
(* What a key does.                                                          *)

Current == Rows[index]
Net(r) == rows[r].pending - rows[r].base
DirtyRows == SelectSeq(Rows, LAMBDA r : Net(r) # 0)

(* TuneState.adjust(): refused beyond the row's budget. *)
Adjusted(r, direction) ==
  LET candidate == rows[r].pending + direction * Steps[rows[r].step]
  IN  IF Magnitude(candidate - rows[r].base) > Budget
      THEN rows
      ELSE [rows EXCEPT ![r].pending = candidate]

(* toggle(), select() and cycle_step(): "0" selects v0, "[" and "]" change   *)
(* the step.                                                                 *)
NextRow == (index % Len(Rows)) + 1

Selected(key) ==
  IF key \in RowSet THEN CHOOSE i \in DOMAIN Rows : Rows[i] = key ELSE index

Cycled(direction) ==
  LET step == rows[Current].step + direction
  IN  IF step \in DOMAIN Steps THEN [rows EXCEPT ![Current].step = step] ELSE rows

Toggled == [option EXCEPT !.pending = ~@]

(* The rows and the switch as the supervisor's snapshot shows them. *)
Setpoints == [r \in RowSet |-> Staged(cache.settings[r])]
Switches == [base |-> cache.enabled, pending |-> cache.enabled]

(* The mode is entered with the snapshot's values, or not at all if the      *)
(* fetch fails.                                                              *)
EnterTune ==
  \/ mode' = "tune" /\ index' = 1 /\ rows' = Setpoints
  \/ UNCHANGED <<mode, index, rows>>

EnterOptions ==
  \/ mode' = "options" /\ option' = Switches
  \/ UNCHANGED <<mode, option>>

ViewKey(key) ==
  /\ mode = "view"
  /\ \/ key = "t" /\ EnterTune /\ at' = "top" /\ UNCHANGED option
     \/ key = "o" /\ EnterOptions /\ at' = "top" /\ UNCHANGED <<rows, index>>
     \/ key = "tab" /\ at' = "top" /\ UNCHANGED <<mode, stageVars>>
     \/ key = "q" /\ at' = "quit" /\ UNCHANGED <<mode, stageVars>>
     \/ key \notin {"t", "o", "tab", "q"} /\ UNCHANGED <<at, mode, stageVars>>
  /\ UNCHANGED requestVars

TuneAction(key) ==
  CASE key \in {"esc", "q", "t"} -> "cancel"
    [] key = "enter" -> "commit"
    [] key = "zero" -> "select"
    [] key = "o" -> "ignored"
    [] OTHER -> key

TuneKey(key) ==
  /\ mode = "tune"
  /\ \/ /\ TuneAction(key) = "cancel"
        /\ mode' = "view" /\ at' = "top" /\ UNCHANGED <<rows, index, todo>>
     \/ /\ TuneAction(key) = "commit"
        /\ at' = (IF DirtyRows = <<>> THEN "top" ELSE "commit") /\ todo' = DirtyRows
        /\ UNCHANGED <<mode, rows, index>>
     \/ /\ TuneAction(key) \in {"up", "down"}
        /\ rows' = Adjusted(Current, IF key = "up" THEN 1 ELSE -1)
        /\ at' = "top" /\ UNCHANGED <<mode, index, todo>>
     \/ /\ TuneAction(key) \in {"tab", "select"}
        /\ index' = IF key = "tab" THEN NextRow ELSE Selected("v0")
        /\ at' = "top" /\ UNCHANGED <<mode, rows, todo>>
     \/ /\ TuneAction(key) \in {"wider", "narrower"}
        /\ rows' = Cycled(IF key = "wider" THEN 1 ELSE -1)
        /\ at' = "top" /\ UNCHANGED <<mode, index, todo>>
     \/ /\ TuneAction(key) = "ignored"
        /\ UNCHANGED <<at, mode, rows, index, todo>>
  /\ UNCHANGED <<option, requests, flight, sent>>

OptionsAction(key) ==
  CASE key \in {"esc", "q", "o"} -> "cancel"
    [] key = "enter" -> "commit"
    [] key = "zero" -> "toggle"
    [] OTHER -> "ignored"

OptionsKey(key) ==
  /\ mode = "options"
  /\ \/ /\ OptionsAction(key) = "cancel"
        /\ mode' = "view" /\ at' = "top" /\ UNCHANGED <<option, todo>>
     \/ /\ OptionsAction(key) = "commit"
        /\ \/ option.pending = option.base /\ at' = "top" /\ UNCHANGED todo
           \/ option.pending # option.base /\ at' = "commit" /\ todo' = <<"switch">>
        /\ UNCHANGED <<mode, option>>
     \/ /\ OptionsAction(key) = "toggle"
        /\ option' = Toggled
        /\ at' = "top" /\ UNCHANGED <<mode, todo>>
     \/ /\ OptionsAction(key) = "ignored"
        /\ UNCHANGED <<at, mode, option, todo>>
  /\ UNCHANGED <<rows, index, requests, flight, sent>>

(* select() sees the terminal only; read(1) takes all of it into Python's    *)
(* buffer and returns the first key.  Keys in the buffer wait for the next   *)
(* key to be pressed.                                                        *)
ReadKey ==
  /\ at = "wait" /\ tty # <<>>
  /\ LET line == IF buffer = <<>> THEN tty ELSE buffer
     IN  /\ ViewKey(Head(line)) \/ TuneKey(Head(line)) \/ OptionsKey(Head(line))
         /\ buffer' = Tail(line)
  /\ tty' = IF buffer = <<>> THEN <<>> ELSE tty
  /\ idle' = 0
  /\ UNCHANGED <<presses, serverVars>>

-----------------------------------------------------------------------------
(* A commit sends one request for each row that has a change staged.         *)

Send ==
  /\ at = "commit" /\ flight = 0 /\ todo # <<>>
  /\ LET row == Head(todo)
     IN  IF row = "switch"
         THEN requests' = Append(requests, Request(row, option.pending)) /\ UNCHANGED sent
         ELSE /\ requests' = Append(requests, Request(row, Net(row)))
              /\ sent' = [sent EXCEPT ![row] = @ + 1]
  /\ flight' = Len(requests) + 1
  /\ todo' = Tail(todo)
  /\ UNCHANGED <<at, mode, idle, keyVars, stageVars, serverVars>>

CommitEnds ==
  /\ at = "commit" /\ flight = 0 /\ todo = <<>>
  /\ at' = "top"
  /\ UNCHANGED <<mode, idle, keyVars, stageVars, requestVars, serverVars>>

-----------------------------------------------------------------------------
(* The server.  Its threads get to the requests in any order, whether the    *)
(* console still waits for them or not, and to some perhaps never.           *)

(* A request that is not acted upon: bad, or refused by a guard or a device. *)
ServerRefuses(i) ==
  /\ requests[i].state \in {"sent", "planned"}
  /\ requests' = [requests EXCEPT ![i].state = "refused"]
  /\ UNCHANGED <<at, mode, idle, keyVars, stageVars, todo, flight, sent, serverVars>>

(* The first command of a voltage's delta: the setting is read, and what     *)
(* will be written is planned from it.                                       *)
ServerReads(i) ==
  LET q == requests[i]
  IN  /\ q.state = "sent" /\ q.row \in Voltages
      /\ requests' = [requests EXCEPT ![i] = Taken(q, "planned", server[q.row] + q.value)]
      /\ UNCHANGED <<at, mode, idle, keyVars, stageVars, todo, flight, sent, serverVars>>

(* Its second command writes what was planned, whatever was written in       *)
(* between.  The factor's delta is added under a lock; a switch is set.      *)
Ready(q) == q.state = IF q.row \in Voltages THEN "planned" ELSE "sent"

Result(q) == IF q.row = "scaling" THEN server["scaling"] + q.value ELSE q.target

(* The answer may be an error all the same, of the read-back or of the save. *)
ServerWrites(i) ==
  LET q == requests[i]
  IN  /\ Ready(q)
      /\ IF q.row = "switch"
         THEN switch' = q.value /\ UNCHANGED server
         ELSE server' = [server EXCEPT ![q.row] = Result(q)] /\ UNCHANGED switch
      /\ \E end \in {"done", "refused"} :
           requests' = [requests EXCEPT ![i] = Taken(q, end, Result(q))]
      /\ UNCHANGED <<at, mode, idle, keyVars, stageVars, todo, flight, sent, cache, others, drift>>

-----------------------------------------------------------------------------
(* The answer, or none.                                                      *)

(* The stage ends at the value given: base and pending both. *)
Settled(row, value) ==
  IF row = "switch"
  THEN option' = [base |-> value, pending |-> value] /\ UNCHANGED rows
  ELSE rows' = [rows EXCEPT ![row].base = value, ![row].pending = value] /\ UNCHANGED option

BaseOf(row) == IF row = "switch" THEN option.base ELSE rows[row].base

(* A reply tells the target: what was planned of a voltage, which the server *)
(* reads back only to say whether it is confirmed.  The CCL factor's is      *)
(* looked for under a name the server does not use, so the staged value      *)
(* stands for it.                                                            *)
Achieved == IF Asked.row = "scaling" THEN rows["scaling"].pending ELSE Asked.target

ReplyArrives ==
  /\ flight # 0 /\ Asked.state \in {"done", "refused"}
  /\ Settled(Asked.row, IF Asked.state = "done" THEN Achieved ELSE BaseOf(Asked.row))
  /\ flight' = 0
  /\ UNCHANGED <<at, mode, idle, keyVars, index, todo, requests, sent, serverVars>>

(* A slip: what was not answered is sent once more. *)
GivesUpRetrying ==
  /\ flight # 0
  /\ Settled(Asked.row, BaseOf(Asked.row))
  /\ flight' = 0
  /\ requests' = Append(requests, Request(Asked.row, Asked.value))
  /\ UNCHANGED <<at, mode, idle, keyVars, index, todo, sent, serverVars>>

(* A timeout or a lost connection: the stage is discarded, but the server    *)
(* may have the request all the same, have done half of it, or get to it     *)
(* later.                                                                    *)
GivesUp ==
  /\ flight # 0
  /\ Settled(Asked.row, BaseOf(Asked.row))
  /\ flight' = 0
  /\ UNCHANGED <<at, mode, idle, keyVars, index, todo, requests, sent, serverVars>>

-----------------------------------------------------------------------------
(* The supervisor's tick publishes a snapshot; other clients write.          *)
Publish ==
  /\ cache # [settings |-> server, enabled |-> switch]
  /\ cache' = [settings |-> server, enabled |-> switch]
  /\ UNCHANGED <<at, mode, idle, keyVars, stageVars, requestVars, server, switch, others, drift>>

OthersWrite ==
  /\ others < MaxOthers /\ others' = others + 1
  /\ \E r \in RowSet, by \in OthersMoves :
       /\ server' = [server EXCEPT ![r] = @ + by]
       /\ drift' = [drift EXCEPT ![r] = @ + Magnitude(by)]
  /\ UNCHANGED <<at, mode, idle, keyVars, stageVars, requestVars, switch, cache>>

Main == Refresh \/ IntervalEnds \/ ReadKey \/ Send \/ CommitEnds \/ ReplyArrives \/ GivesUp

Serves(i) == ServerRefuses(i) \/ ServerReads(i) \/ ServerWrites(i)

ConsoleNext ==
  \/ Main
  \/ \E key \in Keys : Press(key)
  \/ \E i \in DOMAIN requests : Serves(i)
  \/ Publish \/ OthersWrite

(* The loop goes on, a fetch and a request end at their timeouts, and time   *)
(* passes; of the operator and the server nothing is asked.                  *)
ConsoleFairness ==
  /\ WF_consoleVars(Refresh) /\ WF_consoleVars(IntervalEnds) /\ WF_consoleVars(ReadKey)
  /\ WF_consoleVars(Send) /\ WF_consoleVars(CommitEnds) /\ WF_consoleVars(GivesUp)

ConsoleSpec == ConsoleInit /\ [][ConsoleNext]_consoleVars /\ ConsoleFairness

-----------------------------------------------------------------------------
(* A setting is never further from where it started than its commits and the *)
(* other clients' moves account for, a budget for each commit: nothing is    *)
(* sent twice, no staged change outgrows its row, and a base read before     *)
(* other writes, a late write or one overtaken takes no row further than the *)
(* writes it was read after could.                                           *)
CommitWithinBudget ==
  \A r \in RowSet : Magnitude(server[r]) <= Budget * sent[r] + drift[r]

(* The console is never left armed: once the operator types no more, every   *)
(* armed mode ends, with keys unread, replies lost and pages that load so    *)
(* slowly that no key is ever looked for.                                    *)
ArmedModesEnd == <>[](mode = "view")

(* "On success the base advances to the achieved value": fails for the CCL   *)
(* factor when the console's base was out of date.                           *)
RepliesShown ==
  [][ReplyArrives /\ Asked.state = "done" /\ Asked.row # "switch"
       => rows'[Asked.row].base = Asked.target]_consoleVars

(* Every key is acted on: fails, keys typed while a page loads stay in the   *)
(* buffer until another is pressed.                                          *)
KeysRead == []<>(buffer = <<>> \/ at = "quit")
=============================================================================
