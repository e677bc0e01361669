------------------------- MODULE DeviceActor_proofs -------------------------
(***************************************************************************)
(* Theorems about DeviceActor, for any number of callers and togglers and  *)
(* any queue length.                                                       *)
(***************************************************************************)
EXTENDS DeviceActor, TLAPS

Item == Callers \cup {Refresh}

-----------------------------------------------------------------------------
(* The queue.                                                               *)

\* No caller's command is queued twice.
Distinct(q) == \A i, j \in 1 .. Len(q) : q[i] = q[j] /\ q[i] # Refresh => i = j

\* Taking the head of a queue leaves the others queued, and it no longer.
LEMMA TakenOnce ==
  ASSUME NEW q \in Seq(Item), q # <<>>, Distinct(q)
  PROVE  /\ Head(q) \in Item /\ Tail(q) \in Seq(Item) /\ Len(Tail(q)) = Len(q) - 1
         /\ Distinct(Tail(q))
         /\ Contains(q, Head(q))
         /\ \A c \in Callers : c # Head(q) => (Contains(Tail(q), c) <=> Contains(q, c))
         /\ Head(q) # Refresh => ~Contains(Tail(q), Head(q))
  <1> DEFINE t == Tail(q)
  <1>1. /\ Len(q) \in Nat \ {0} /\ Head(q) = q[1] /\ Head(q) \in Item
        /\ t \in Seq(Item) /\ Len(t) = Len(q) - 1
        /\ \A i \in 1 .. Len(t) : t[i] = q[i + 1] /\ i + 1 \in 1 .. Len(q)
    OBVIOUS
  <1>2. Distinct(t)
    <2> SUFFICES ASSUME NEW i \in 1 .. Len(t), NEW j \in 1 .. Len(t),
                        t[i] = t[j], t[i] # Refresh
                 PROVE  i = j
      BY DEF Distinct
    <2>1. q[i + 1] = q[j + 1] /\ q[i + 1] # Refresh
      BY <1>1
    <2>2. i + 1 = j + 1
      BY <2>1, <1>1 DEF Distinct
    <2> QED BY <2>2
  <1>3. Contains(q, Head(q))
    BY <1>1 DEF Contains
  <1>4. ASSUME NEW c \in Callers, c # Head(q)
        PROVE  Contains(t, c) <=> Contains(q, c)
    <2>1. ASSUME Contains(t, c) PROVE Contains(q, c)
      <3>1. PICK i \in 1 .. Len(t) : t[i] = c
        BY <2>1 DEF Contains
      <3> QED BY <3>1, <1>1 DEF Contains
    <2>2. ASSUME Contains(q, c) PROVE Contains(t, c)
      <3>1. PICK i \in 1 .. Len(q) : q[i] = c
        BY <2>2 DEF Contains
      <3>2. i # 1
        BY <3>1, <1>1, <1>4
      <3>3. i - 1 \in 1 .. Len(t) /\ t[i - 1] = q[(i - 1) + 1] /\ (i - 1) + 1 = i
        BY <3>2, <1>1
      <3> QED BY <3>1, <3>3 DEF Contains
    <2> QED BY <2>1, <2>2
  <1>5. ASSUME Head(q) # Refresh PROVE ~Contains(t, Head(q))
    <2> SUFFICES ASSUME NEW i \in 1 .. Len(t), t[i] = Head(q) PROVE FALSE
      BY DEF Contains
    <2>1. q[i + 1] = q[1] /\ q[1] # Refresh /\ i + 1 \in 1 .. Len(q) /\ 1 \in 1 .. Len(q)
      BY <1>1, <1>5
    <2>2. i + 1 = 1
      BY <2>1 DEF Distinct
    <2> QED BY <2>2
  <1> QED BY <1>1, <1>2, <1>3, <1>4, <1>5

\* Queueing an item that is not there queues that item alone.
LEMMA QueuedOnce ==
  ASSUME NEW q \in Seq(Item), NEW x \in Item, x # Refresh => ~Contains(q, x), Distinct(q)
  PROVE  /\ Append(q, x) \in Seq(Item) /\ Len(Append(q, x)) = Len(q) + 1
         /\ Distinct(Append(q, x))
         /\ Contains(Append(q, x), x)
         /\ \A c \in Callers : c # x => (Contains(Append(q, x), c) <=> Contains(q, c))
  <1> DEFINE a == Append(q, x)
  <1>1. /\ Len(q) \in Nat /\ a \in Seq(Item) /\ Len(a) = Len(q) + 1
        /\ \A i \in 1 .. Len(q) : a[i] = q[i] /\ i \in 1 .. Len(a)
        /\ a[Len(q) + 1] = x
    OBVIOUS
  <1>2. Distinct(a)
    <2> SUFFICES ASSUME NEW i \in 1 .. Len(a), NEW j \in 1 .. Len(a),
                        a[i] = a[j], a[i] # Refresh
                 PROVE  i = j
      BY DEF Distinct
    <2>1. CASE i \in 1 .. Len(q) /\ j \in 1 .. Len(q)
      BY <2>1, <1>1 DEF Distinct
    <2>2. CASE i = Len(q) + 1 /\ j \in 1 .. Len(q)
      BY <2>2, <1>1 DEF Contains
    <2>3. CASE j = Len(q) + 1 /\ i \in 1 .. Len(q)
      BY <2>3, <1>1 DEF Contains
    <2> QED BY <2>1, <2>2, <2>3, <1>1
  <1>3. Contains(a, x)
    <2>1. Len(q) + 1 \in 1 .. Len(a)
      BY <1>1
    <2> QED BY <2>1, <1>1 DEF Contains
  <1>4. ASSUME NEW c \in Callers, c # x PROVE Contains(a, c) <=> Contains(q, c)
    <2>1. ASSUME Contains(a, c) PROVE Contains(q, c)
      <3>1. PICK i \in 1 .. Len(a) : a[i] = c
        BY <2>1 DEF Contains
      <3>2. i \in 1 .. Len(q)
        BY <3>1, <1>1, <1>4
      <3> QED BY <3>1, <3>2, <1>1 DEF Contains
    <2>2. ASSUME Contains(q, c) PROVE Contains(a, c)
      <3>1. PICK i \in 1 .. Len(q) : q[i] = c
        BY <2>2 DEF Contains
      <3> QED BY <3>1, <1>1 DEF Contains
    <2> QED BY <2>1, <2>2
  <1> QED BY <1>1, <1>2, <1>3, <1>4

-----------------------------------------------------------------------------
(* Types.                                                                   *)

\* The steps of a caller, one by one.
CallerStep(c) == Command(c) \/ Toggle(c)

LEMMA StepCases ==
  Next => MainStep \/ ActorStep \/ Restart \/ \E c \in Callers : CallerStep(c)
  BY CallerAssumption DEF Next, CallerStep

LEMMA TypeInit == Init => DeviceTypeOK
  <1> SUFFICES ASSUME Init PROVE DeviceTypeOK
    OBVIOUS
  <1>1. FlagsTypeOK
    BY DEF Init, FlagsTypeOK, MainSteps
  <1>2. QueueTypeOK
    BY QueueAssumption DEF Init, QueueTypeOK, ActorSteps
  <1>3. CallersTypeOK
    BY DEF Init, CallersTypeOK, CallSteps, NoSwitch
  <1> QED BY <1>1, <1>2, <1>3 DEF DeviceTypeOK

LEMMA FlagsStep == DeviceTypeOK /\ [Next]_vars => FlagsTypeOK'
  <1> SUFFICES ASSUME FlagsTypeOK, CallersTypeOK, [Next]_vars PROVE FlagsTypeOK'
    BY DEF DeviceTypeOK
  <1> USE DEF FlagsTypeOK, MainSteps
  <1>1. CASE MainStep
    BY <1>1 DEF MainStep, ConfigureReader, StartThread, PublishReaders, StopReader, Joined,
                WithdrawReaders, switchVars, readerVars
  <1>2. CASE ActorStep
    BY <1>2 DEF ActorStep, ActorStops, PollStarts, NotDue, ReadReturns, Publish, ReadFails,
                NoCommand, TakeCommand, TakeRefresh, RefuseCommand, CommandReturns,
                ActorGoes, switchVars, readerVars
  <1>3. CASE Restart
    BY <1>3 DEF Restart
  <1>4. ASSUME NEW c \in Callers, Command(c) PROVE FlagsTypeOK'
    BY <1>4 DEF Command, Ask, Require, Route, Submit, InlineReturns, GiveUp, callUnchanged,
                switchVars, threadVars
  <1>5. ASSUME NEW c \in Callers, Toggle(c) PROVE FlagsTypeOK'
    <2> USE DEF toggleUnchanged, switchVars, readerVars, threadVars
    <2>1. CASE \E on \in BOOLEAN : SetSwitch(c, on)
      BY <2>1 DEF SetSwitch
    <2>2. CASE HookSaves(c)
      BY <2>2 DEF HookSaves, CallersTypeOK
    <2>3. CASE RefreshInline(c)
      BY <2>3 DEF RefreshInline
    <2> QED
      BY <1>5, <2>1, <2>2, <2>3 DEF Toggle, FindReader, ReaderOn, ReaderOff, DropCache, HookReads
  <1>6. CASE UNCHANGED vars
    BY <1>6 DEF vars, switchVars, readerVars, threadVars, callerVars
  <1> QED
    BY <1>1, <1>2, <1>3, <1>4, <1>5, <1>6, StepCases DEF CallerStep

\* What an item at the end does to a queue with room, and what taking the head does.
LEMMA QueueTypes ==
  ASSUME QueueTypeOK, NEW x \in Callers \cup {Refresh}
  PROVE  /\ Len(queue) < MaxQueue =>
              Append(queue, x) \in Seq(Callers \cup {Refresh}) /\ Len(Append(queue, x)) <= MaxQueue
         /\ queue # <<>> =>
              /\ Head(queue) \in Callers \cup {Refresh}
              /\ Tail(queue) \in Seq(Callers \cup {Refresh}) /\ Len(Tail(queue)) <= MaxQueue
  BY QueueAssumption DEF QueueTypeOK

LEMMA QueueStep == DeviceTypeOK /\ [Next]_vars => QueueTypeOK'
  <1> SUFFICES ASSUME QueueTypeOK, [Next]_vars PROVE QueueTypeOK'
    BY DEF DeviceTypeOK
  <1> USE DEF QueueTypeOK, ActorSteps
  <1>1. CASE MainStep
    BY <1>1 DEF MainStep, ConfigureReader, StartThread, PublishReaders, StopReader, Joined,
                WithdrawReaders, readerVars
  <1>2. CASE ActorStep
    <2> USE DEF ActorGoes, AfterRead
    <2>1. CASE TakeCommand
      BY <2>1, QueueTypes DEF TakeCommand
    <2>2. CASE TakeRefresh
      BY <2>2, QueueTypes DEF TakeRefresh
    <2>3. CASE RefuseCommand
      BY <2>3, QueueTypes DEF RefuseCommand
    <2> QED
      BY <1>2, <2>1, <2>2, <2>3
      DEF ActorStep, ActorStops, PollStarts, NotDue, ReadReturns, Publish, ReadFails, NoCommand,
          CommandReturns, readerVars
  <1>3. CASE Restart
    BY <1>3, QueueAssumption DEF Restart
  <1>4. ASSUME NEW c \in Callers, Command(c) PROVE QueueTypeOK'
    <2> USE DEF callUnchanged, threadVars
    <2>1. CASE Submit(c)
      BY <2>1, QueueTypes DEF Submit
    <2> QED
      BY <1>4, <2>1 DEF Command, Ask, Require, Route, InlineReturns, GiveUp
  <1>5. ASSUME NEW c \in Callers, Toggle(c) PROVE QueueTypeOK'
    <2> USE DEF toggleUnchanged, readerVars, threadVars
    <2>1. CASE ReaderOn(c)
      BY <2>1, QueueTypes DEF ReaderOn
    <2> QED
      BY <1>5, <2>1 DEF Toggle, SetSwitch, FindReader, RefreshInline, ReaderOff, DropCache,
                        HookReads, HookSaves
  <1>6. CASE UNCHANGED vars
    BY <1>6 DEF vars, readerVars, threadVars
  <1> QED
    BY <1>1, <1>2, <1>3, <1>4, <1>5, <1>6, StepCases DEF CallerStep

\* Going on to a step, and ending a request, keep the callers' types.
LEMMA CallerGoes ==
  ASSUME CallersTypeOK, NEW c \in Callers, UNCHANGED reply
  PROVE  /\ \A step \in CallSteps : Goes(c, step) /\ UNCHANGED to => CallersTypeOK'
         /\ Ends(c) => CallersTypeOK'
         /\ AfterReader(c) => CallersTypeOK'
  <1>1. ASSUME NEW step \in CallSteps, Goes(c, step), UNCHANGED to PROVE CallersTypeOK'
    BY <1>1 DEF Goes, CallersTypeOK
  <1>2. ASSUME Ends(c) PROVE CallersTypeOK'
    <2>1. pc' \in [Callers -> CallSteps]
      BY <1>2 DEF Ends, Goes, CallersTypeOK, CallSteps
    <2>2. NoSwitch \in [on : BOOLEAN, change : BOOLEAN]
      BY DEF NoSwitch
    <2>3. to' \in [Callers -> [on : BOOLEAN, change : BOOLEAN]]
      BY <1>2, <2>2 DEF Ends, CallersTypeOK
    <2> QED BY <2>1, <2>3 DEF CallersTypeOK
  <1>3. AfterReader(c) => (Goes(c, "hook") /\ UNCHANGED to) \/ Ends(c)
    BY DEF AfterReader
  <1> QED BY <1>1, <1>2, <1>3 DEF CallSteps

LEMMA CallersStep == DeviceTypeOK /\ [Next]_vars => CallersTypeOK'
  <1> SUFFICES ASSUME DeviceTypeOK, FlagsTypeOK, CallersTypeOK, [Next]_vars PROVE CallersTypeOK'
    BY DEF DeviceTypeOK
  <1> USE DEF CallersTypeOK, CallSteps, Told, Goes
  <1>1. CASE MainStep
    BY <1>1 DEF MainStep, ConfigureReader, StartThread, PublishReaders, StopReader, Joined,
                WithdrawReaders, callerVars
  <1>2. CASE ActorStep
    BY <1>2 DEF ActorStep, ActorStops, PollStarts, NotDue, ReadReturns, Publish, ReadFails,
                NoCommand, TakeCommand, TakeRefresh, RefuseCommand, CommandReturns, callerVars
  <1>3. CASE Restart
    BY <1>3 DEF Restart, NoSwitch
  <1>4. ASSUME NEW c \in Callers, Command(c) PROVE CallersTypeOK'
    BY <1>4 DEF Command, Ask, Require, Route, Submit, InlineReturns, GiveUp, callUnchanged
  <1>5. ASSUME NEW c \in Callers, Toggle(c) PROVE CallersTypeOK'
    <2> USE DEF toggleUnchanged
    <2>1. CASE \E on \in BOOLEAN : SetSwitch(c, on)
      BY <2>1 DEF SetSwitch, FlagsTypeOK
    <2>2. CASE ReaderOn(c)
      BY <2>2, CallerGoes DEF ReaderOn
    <2>3. CASE FindReader(c) \/ RefreshInline(c) \/ DropCache(c)
      BY <2>3, CallerGoes DEF FindReader, RefreshInline, DropCache
    <2>4. CASE ReaderOff(c) \/ HookSaves(c)
      BY <2>4, CallerGoes DEF ReaderOff, HookSaves
    <2>5. CASE HookReads(c)
      BY <2>5 DEF HookReads, FlagsTypeOK
    <2> QED BY <1>5, <2>1, <2>2, <2>3, <2>4, <2>5 DEF Toggle
  <1>6. CASE UNCHANGED vars
    BY <1>6 DEF vars, callerVars
  <1> QED
    BY <1>1, <1>2, <1>3, <1>4, <1>5, <1>6, StepCases DEF CallerStep

\* The queue, the threads' places and the callers' steps keep their types.
THEOREM DeviceTyped == Spec => []DeviceTypeOK
  <1>1. DeviceTypeOK /\ [Next]_vars => DeviceTypeOK'
    BY FlagsStep, QueueStep, CallersStep DEF DeviceTypeOK
  <1> QED BY TypeInit, <1>1, PTL DEF Spec

-----------------------------------------------------------------------------
(* Start-up, and the silence of a reader that is off.                       *)

\* Before start_readers() there is no thread and no cached value, and no caller
\* has found a reader; readers are published once their threads run, and stay
\* so until stop_readers().
Startup ==
  /\ main = "boot" =>
       /\ ~cached /\ ~published
       /\ \A c \in Callers : pc[c] \notin {"reader", "refresh", "drop"}
  /\ main \in {"boot", "starting"} => actor = "none"
  /\ main \in {"started", "running"} => threaded
  /\ main = "running" => published

LEMMA StartupStep == DeviceTypeOK /\ Startup /\ [Next]_vars => Startup'
  <1> SUFFICES ASSUME CallersTypeOK, Startup, [Next]_vars PROVE Startup'
    BY DEF DeviceTypeOK
  <1> USE DEF Startup
  <1>1. CASE MainStep
    BY <1>1 DEF MainStep, ConfigureReader, StartThread, PublishReaders, StopReader, Joined,
                WithdrawReaders, switchVars, callerVars
  <1>2. CASE ActorStep
    BY <1>2 DEF ActorStep, ActorStops, PollStarts, NotDue, ReadReturns, Publish, ReadFails,
                NoCommand, TakeCommand, TakeRefresh, RefuseCommand, CommandReturns, ActorGoes
  <1>3. CASE Restart
    BY <1>3 DEF Restart
  <1>4. ASSUME NEW c \in Callers, Command(c) PROVE Startup'
    BY <1>4 DEF Command, Ask, Require, Route, Submit, InlineReturns, GiveUp, callUnchanged,
                threadVars, Goes, Told, CallersTypeOK
  <1>5. ASSUME NEW c \in Callers, Toggle(c) PROVE Startup'
    BY <1>5 DEF Toggle, SetSwitch, FindReader, ReaderOn, RefreshInline, ReaderOff, DropCache,
                HookReads, HookSaves, AfterReader, Ends, toggleUnchanged, readerVars, threadVars,
                Goes, CallersTypeOK
  <1>6. CASE UNCHANGED vars
    BY <1>6 DEF vars, readerVars, threadVars, callerVars
  <1> QED
    BY <1>1, <1>2, <1>3, <1>4, <1>5, <1>6, StepCases DEF CallerStep

LEMMA SilenceStep ==
  DeviceTypeOK /\ Startup /\ DisabledPublishesNothing /\ [Next]_vars => DisabledPublishesNothing'
  <1> SUFFICES ASSUME CallersTypeOK, Startup, DisabledPublishesNothing, [Next]_vars
               PROVE  DisabledPublishesNothing'
    BY DEF DeviceTypeOK
  <1> USE DEF DisabledPublishesNothing
  <1>1. CASE MainStep
    BY <1>1 DEF MainStep, ConfigureReader, StartThread, PublishReaders, StopReader, Joined,
                WithdrawReaders, Startup, readerVars, callerVars
  <1>2. CASE ActorStep
    <2>1. \A c \in Callers : pc'[c] = "drop" <=> pc[c] = "drop"
      <3>1. CASE RefuseCommand
        BY <3>1 DEF RefuseCommand, Told, CallersTypeOK
      <3>2. CASE CommandReturns
        BY <3>2 DEF CommandReturns, Told, CallersTypeOK
      <3> QED
        BY <1>2, <3>1, <3>2 DEF ActorStep, ActorStops, PollStarts, NotDue, ReadReturns, Publish,
                                ReadFails, NoCommand, TakeCommand, TakeRefresh, callerVars
    <2>2. UNCHANGED enabled /\ (UNCHANGED cached \/ cached' = (cached \/ enabled))
      BY <1>2 DEF ActorStep, ActorStops, PollStarts, NotDue, ReadReturns, Publish, ReadFails,
                  NoCommand, TakeCommand, TakeRefresh, RefuseCommand, CommandReturns, readerVars
    <2> QED BY <2>1, <2>2
  <1>3. CASE Restart
    BY <1>3 DEF Restart
  <1>4. ASSUME NEW c \in Callers, Command(c) PROVE DisabledPublishesNothing'
    <2>1. \A d \in Callers : pc'[d] = "drop" <=> pc[d] = "drop"
      BY <1>4 DEF Command, Ask, Require, Route, Submit, InlineReturns, GiveUp, Free, Goes, Told,
                  CallersTypeOK
    <2> QED BY <1>4, <2>1 DEF Command, Ask, Require, Route, Submit, InlineReturns, GiveUp,
                              callUnchanged
  <1>5. ASSUME NEW c \in Callers, Toggle(c) PROVE DisabledPublishesNothing'
    <2> USE DEF AfterReader, Ends, Goes, CallersTypeOK
    <2>1. CASE (\E on \in BOOLEAN : SetSwitch(c, on)) \/ FindReader(c)
      BY <2>1 DEF SetSwitch, FindReader, Free, readerVars
    <2>2. CASE ReaderOn(c)
      BY <2>2 DEF ReaderOn
    <2>3. CASE RefreshInline(c)
      <3>1. \A d \in Callers : pc'[d] = "drop" <=> pc[d] = "drop"
        BY <2>3 DEF RefreshInline
      <3> QED BY <2>3, <3>1 DEF RefreshInline
    <2>4. CASE ReaderOff(c)
      BY <2>4 DEF ReaderOff
    <2>5. CASE DropCache(c)
      BY <2>5 DEF DropCache
    <2>6. CASE HookReads(c) \/ HookSaves(c)
      BY <2>6 DEF HookReads, HookSaves, readerVars
    <2> QED BY <1>5, <2>1, <2>2, <2>3, <2>4, <2>5, <2>6 DEF Toggle
  <1>6. CASE UNCHANGED vars
    BY <1>6 DEF vars, readerVars, callerVars
  <1> QED
    BY <1>1, <1>2, <1>3, <1>4, <1>5, <1>6, StepCases DEF CallerStep

LEMMA Silence == Spec => [](DeviceTypeOK /\ Startup /\ DisabledPublishesNothing)
  <1>1. Init => Startup /\ DisabledPublishesNothing
    BY DEF Init, Startup, DisabledPublishesNothing
  <1>2. DeviceTypeOK /\ [Next]_vars => DeviceTypeOK'
    BY FlagsStep, QueueStep, CallersStep DEF DeviceTypeOK
  <1> QED BY TypeInit, <1>1, <1>2, StartupStep, SilenceStep, PTL DEF Spec

\* A reader that is off, and whose cache was dropped, stays without telemetry.
THEOREM OffIsSilent == Spec => []DisabledPublishesNothing
  BY Silence, PTL

\* Once the readers run no other thread starts a command or a poll on the device.
THEOREM ActorAlone == Spec => OnlyActorEnters
  <1>1. DeviceTypeOK /\ Startup /\ [Next]_vars =>
          [main = "running" => \A c \in Callers : pc'[c] \in Aside => pc[c] = pc'[c]]_vars
    <2> SUFFICES ASSUME CallersTypeOK, Startup, Next, main = "running",
                        NEW c \in Callers, pc'[c] \in Aside, pc[c] # pc'[c]
                 PROVE  FALSE
      BY DEF DeviceTypeOK
    <2>1. threaded /\ published
      BY DEF Startup
    <2> USE DEF CallersTypeOK, Aside
    <2>2. CASE MainStep
      BY <2>2 DEF MainStep, ConfigureReader, StartThread, PublishReaders, StopReader, Joined,
                  WithdrawReaders, callerVars
    <2>3. CASE ActorStep
      BY <2>3 DEF ActorStep, ActorStops, PollStarts, NotDue, ReadReturns, Publish, ReadFails,
                  NoCommand, TakeCommand, TakeRefresh, RefuseCommand, CommandReturns, callerVars,
                  Told
    <2>4. CASE Restart
      BY <2>4 DEF Restart
    <2>5. ASSUME NEW d \in Callers, Command(d) PROVE FALSE
      BY <2>5, <2>1 DEF Command, Ask, Require, Route, Submit, InlineReturns, GiveUp, Goes, Told
    <2>6. ASSUME NEW d \in Callers, Toggle(d) PROVE FALSE
      BY <2>6, <2>1 DEF Toggle, SetSwitch, FindReader, ReaderOn, RefreshInline, ReaderOff, DropCache,
                  HookReads, HookSaves, AfterReader, Ends, Goes
    <2> QED BY <2>2, <2>3, <2>4, <2>5, <2>6, StepCases DEF CallerStep
  <1> QED BY <1>1, Silence, PTL DEF Spec, OnlyActorEnters

-----------------------------------------------------------------------------
(* The commands: DeviceActor implements CommandPort.                        *)

\* A caller that waits has its command queued or running, not both; a command
\* that is queued or runs has a caller that waits, or one that gave up and
\* starts nothing else before its command is over.
CallerInv(c) ==
  /\ pc[c] = "waiting" => Contains(queue, c) \/ current = c
  /\ Contains(queue, c) \/ current = c =>
       pc[c] = "waiting" \/ (pc[c] = "idle" /\ reply[c] = "free")
  /\ ~(Contains(queue, c) /\ current = c)

QueueInv == Distinct(queue) /\ (actor = "command" <=> current \in Callers)

PortInv == QueueInv /\ \A c \in Callers : CallerInv(c)

\* Steps between which a caller has no command under way.
Outside == {"idle", "switched", "reader", "drop", "refresh", "hook", "save"}

\* A step does not concern the command of caller d.
Same(d) ==
  /\ reply'[d] = reply[d]
  /\ current' = d <=> current = d
  /\ Contains(queue', d) <=> Contains(queue, d)
  /\ \/ pc'[d] = pc[d]
     \/ /\ {pc[d], pc'[d]} \subseteq Outside
        /\ ~Contains(queue, d) /\ current # d

LEMMA SameStays ==
  ASSUME NEW d \in Callers, CallerInv(d), Same(d)
  PROVE  CallerInv(d)' /\ PortOf(d)' = PortOf(d)
  BY DEF CallerInv, Same, PortOf, Outside

Ports == [c \in Callers |-> PortOf(c)]

\* A step in which one caller's command moves on and the others' stay.
LEMMA OneMoves ==
  ASSUME NEW c \in Callers, NEW from, NEW target, PortOf(c) \in from, PortOf(c)' = target,
         \A d \in Callers \ {c} : PortOf(d)' = PortOf(d)
  PROVE  Port!Becomes(c, from, target)
  <1>1. Ports[c] \in from
    BY DEF Ports
  <1>2. Ports' = [Ports EXCEPT ![c] = target]
    BY DEF Ports
  <1> QED BY <1>1, <1>2 DEF Ports, Port!Becomes

LEMMA NoneMoves ==
  ASSUME \A d \in Callers : PortOf(d)' = PortOf(d)
  PROVE  UNCHANGED Ports
  BY DEF Ports

\* What a step must do for PortInv and the refinement, when it is about no
\* command, and when it is about the command of c alone.
LEMMA AllSame ==
  ASSUME PortInv, QueueInv', \A d \in Callers : Same(d)
  PROVE  PortInv' /\ UNCHANGED Ports
  BY SameStays, NoneMoves DEF PortInv

LEMMA OneNotSame ==
  ASSUME PortInv, QueueInv', NEW c \in Callers, \A d \in Callers \ {c} : Same(d), CallerInv(c)',
         \/ PortOf(c) \in Port!Settled /\ PortOf(c)' = "asked"
         \/ PortOf(c) = "asked" /\ PortOf(c)' \in {"refused", "running", "left"}
         \/ PortOf(c) = "running" /\ PortOf(c)' \in {"answered", "leftRunning"}
         \/ PortOf(c) = "left" /\ PortOf(c)' \in {"leftRunning", "free"}
         \/ PortOf(c) = "leftRunning" /\ PortOf(c)' = "free"
  PROVE  PortInv' /\ Port!Next
  <1>1. \A d \in Callers \ {c} : CallerInv(d)' /\ PortOf(d)' = PortOf(d)
    BY SameStays DEF PortInv
  <1>2. PortInv'
    BY <1>1 DEF PortInv
  <1>3. \A from, target : PortOf(c) \in from /\ PortOf(c)' = target => Port!Becomes(c, from, target)
    BY <1>1, OneMoves
  <1>4. \/ Port!Ask(c) \/ Port!Refuse(c) \/ Port!Begin(c) \/ Port!Answer(c)
        \/ Port!GiveUp(c) \/ Port!LateBegin(c) \/ Port!LateEnd(c)
    BY <1>3 DEF Port!Ask, Port!Refuse, Port!Begin, Port!Answer, Port!GiveUp, Port!LateBegin,
                Port!LateEnd
  <1> QED BY <1>2, <1>4 DEF Port!Next

LEMMA PortMainStep ==
  ASSUME Startup, PortInv, MainStep
  PROVE  PortInv' /\ UNCHANGED Ports
  <1>1. UNCHANGED <<queue, current, pc, reply>>
    BY DEF MainStep, ConfigureReader, StartThread, PublishReaders, StopReader, Joined,
           WithdrawReaders, readerVars, callerVars
  <1>2. actor' = "command" <=> actor = "command"
    <2>1. CASE StartThread
      BY <2>1 DEF StartThread, Startup
    <2> QED
      BY <2>1 DEF MainStep, ConfigureReader, StartThread, PublishReaders, StopReader, Joined,
                  WithdrawReaders
  <1> QED BY <1>1, <1>2, AllSame DEF PortInv, QueueInv, Same

LEMMA PortActorStep ==
  ASSUME DeviceTypeOK, PortInv, ActorStep
  PROVE  PortInv' /\ (Port!Next \/ UNCHANGED Ports)
  <1> USE DEF PortInv, ActorGoes
  <1> QueueTypeOK /\ CallersTypeOK /\ Distinct(queue) /\ queue \in Seq(Item)
    BY DEF DeviceTypeOK, QueueTypeOK, QueueInv, Item
  <1>1. CASE \/ ActorStops \/ PollStarts \/ NotDue \/ ReadReturns \/ Publish \/ ReadFails
             \/ NoCommand
    <2>1. UNCHANGED <<queue, pc, reply>>
      BY <1>1 DEF ActorStops, PollStarts, NotDue, ReadReturns, Publish, ReadFails, NoCommand,
                  readerVars, callerVars
    <2>2. actor # "command" /\ actor' # "command" /\ current' \in {current, Nobody}
      BY <1>1 DEF ActorStops, PollStarts, NotDue, ReadReturns, Publish, ReadFails, NoCommand,
                  AfterRead
    <2>3. current \notin Callers /\ current' \notin Callers
      BY <2>2, CallerAssumption DEF QueueInv
    <2> QED BY <2>1, <2>2, <2>3, AllSame DEF QueueInv, Same
  <1>2. CASE TakeCommand
    <2>h. PICK h \in Callers : h = Head(queue)
      BY <1>2, TakenOnce DEF TakeCommand, Item
    <2>1. /\ actor = "serve" /\ queue # <<>> /\ h # Refresh /\ queue' = Tail(queue)
          /\ current' = h /\ actor' = "command" /\ UNCHANGED <<pc, reply>>
      BY <1>2, <2>h DEF TakeCommand, callerVars
    <2>2. /\ Distinct(queue') /\ Contains(queue, h) /\ ~Contains(queue', h)
          /\ \A c \in Callers : c # h => (Contains(queue', c) <=> Contains(queue, c))
      BY <2>1, <2>h, TakenOnce
    <2>3. current \notin Callers
      BY <2>1 DEF QueueInv
    <2>4. QueueInv' /\ \A d \in Callers \ {h} : Same(d)
      BY <2>1, <2>2, <2>3 DEF QueueInv, Same
    <2>5. CallerInv(h)'
      BY <2>1, <2>2 DEF CallerInv
    <2>6. \/ PortOf(h) = "asked" /\ PortOf(h)' = "running"
          \/ PortOf(h) = "left" /\ PortOf(h)' = "leftRunning"
      BY <2>1, <2>2, <2>3 DEF CallerInv, PortOf
    <2> QED BY <2>2, <2>4, <2>5, <2>6, OneNotSame
  <1>3. CASE TakeRefresh
    <2>1. /\ actor = "serve" /\ queue # <<>> /\ Head(queue) = Refresh /\ queue' = Tail(queue)
          /\ current' = Refresh /\ actor' = "reading" /\ UNCHANGED <<pc, reply>>
      BY <1>3 DEF TakeRefresh, callerVars
    <2>2. /\ Distinct(queue')
          /\ \A c \in Callers : Contains(queue', c) <=> Contains(queue, c)
      BY <2>1, TakenOnce, CallerAssumption
    <2>3. current \notin Callers /\ current' \notin Callers
      BY <2>1, CallerAssumption DEF QueueInv
    <2> QED BY <2>1, <2>2, <2>3, AllSame DEF QueueInv, Same
  <1>4. CASE RefuseCommand
    <2>h. PICK h \in Item : h = Head(queue)
      BY <1>4, TakenOnce DEF RefuseCommand
    <2>1. /\ actor = "serve" /\ queue # <<>> /\ queue' = Tail(queue)
          /\ current' = current /\ actor' = "due"
          /\ IF h # Refresh /\ pc[h] = "waiting" THEN Told(h, "refused")
                                                 ELSE UNCHANGED <<pc, reply>>
      BY <1>4, <2>h DEF RefuseCommand
    <2>2. /\ Distinct(queue') /\ Contains(queue, h)
          /\ h # Refresh => ~Contains(queue', h)
          /\ \A c \in Callers : c # h => (Contains(queue', c) <=> Contains(queue, c))
      BY <2>1, <2>h, TakenOnce
    <2>3. current \notin Callers /\ QueueInv'
      BY <2>1, <2>2 DEF QueueInv
    <2>4. CASE h = Refresh
      BY <2>1, <2>2, <2>3, <2>4, AllSame, CallerAssumption DEF Same
    <2>5. CASE h # Refresh
      <3>1. h \in Callers
        BY <2>5 DEF Item
      <3>2. \A d \in Callers \ {h} : Same(d)
        BY <2>1, <2>2, <2>5, <3>1 DEF Same, Told, CallersTypeOK
      <3>3. CASE pc[h] = "waiting"
        <4>1. pc'[h] = "idle" /\ reply'[h] = "refused"
          BY <2>1, <2>5, <3>1, <3>3 DEF Told, CallersTypeOK
        <4>2. CallerInv(h)' /\ PortOf(h) = "asked" /\ PortOf(h)' = "refused"
          BY <2>1, <2>2, <2>3, <2>5, <3>1, <3>3, <4>1 DEF CallerInv, PortOf
        <4> QED BY <2>3, <3>1, <3>2, <4>2, OneNotSame
      <3>4. CASE pc[h] # "waiting"
        <4>1. UNCHANGED <<pc, reply>> /\ pc[h] = "idle" /\ reply[h] = "free"
          BY <2>1, <2>2, <3>1, <3>4 DEF CallerInv
        <4>2. CallerInv(h)' /\ PortOf(h) = "left" /\ PortOf(h)' = "free"
          BY <2>1, <2>2, <2>3, <2>5, <3>1, <4>1 DEF CallerInv, PortOf
        <4> QED BY <2>3, <3>1, <3>2, <4>2, OneNotSame
      <3> QED BY <3>3, <3>4
    <2> QED BY <2>4, <2>5
  <1>5. CASE CommandReturns
    <2>c. PICK c \in Callers : c = current
      BY <1>5 DEF CommandReturns, QueueInv
    <2>1. /\ actor = "command" /\ current' = Nobody /\ actor' = "due" /\ queue' = queue
          /\ IF pc[c] = "waiting" THEN Told(c, "answered") ELSE UNCHANGED <<pc, reply>>
      BY <1>5, <2>c DEF CommandReturns, readerVars
    <2>2. Nobody \notin Callers /\ QueueInv'
      BY <2>1, CallerAssumption DEF QueueInv
    <2>3. \A d \in Callers \ {c} : Same(d)
      BY <2>1, <2>2, <2>c DEF Same, Told, CallersTypeOK
    <2>4. CASE pc[c] = "waiting"
      <3>1. pc'[c] = "idle" /\ reply'[c] = "answered"
        BY <2>1, <2>2, <2>4 DEF Told, CallersTypeOK
      <3>2. CallerInv(c)' /\ PortOf(c) = "running" /\ PortOf(c)' = "answered"
        BY <2>1, <2>2, <2>4, <3>1, <2>c DEF CallerInv, PortOf
      <3> QED BY <2>2, <2>3, <3>2, OneNotSame
    <2>5. CASE pc[c] # "waiting"
      <3>1. UNCHANGED <<pc, reply>> /\ pc[c] = "idle" /\ reply[c] = "free"
        BY <2>1, <2>2, <2>5, <2>c DEF CallerInv
      <3>2. CallerInv(c)' /\ PortOf(c) = "leftRunning" /\ PortOf(c)' = "free"
        BY <2>1, <2>2, <3>1, <2>c DEF CallerInv, PortOf
      <3> QED BY <2>2, <2>3, <3>2, OneNotSame
    <2> QED BY <2>4, <2>5
  <1> QED BY <1>1, <1>2, <1>3, <1>4, <1>5 DEF ActorStep

LEMMA PortCommandStep ==
  ASSUME DeviceTypeOK, PortInv, NEW c \in Callers, Command(c)
  PROVE  PortInv' /\ (Port!Next \/ UNCHANGED Ports)
  <1> USE DEF PortInv
  <1> QueueTypeOK /\ CallersTypeOK /\ Distinct(queue) /\ queue \in Seq(Item) /\ CallerInv(c)
    BY DEF DeviceTypeOK, QueueTypeOK, QueueInv, Item
  <1>1. UNCHANGED <<actor, current>> /\ \A d \in Callers \ {c} : pc'[d] = pc[d] /\ reply'[d] = reply[d]
    BY DEF Command, Ask, Require, Route, Submit, InlineReturns, GiveUp, callUnchanged, threadVars,
           Goes, Told, CallersTypeOK
  <1>2. ASSUME UNCHANGED queue PROVE QueueInv' /\ \A d \in Callers \ {c} : Same(d)
    BY <1>1, <1>2 DEF QueueInv, Same
  <1>3. CASE Ask(c)
    <2>1. UNCHANGED queue /\ pc'[c] = "require" /\ ~Contains(queue, c) /\ current # c /\ pc[c] = "idle"
      BY <1>3 DEF Ask, Free, Goes, CallersTypeOK
    <2>2. CallerInv(c)' /\ PortOf(c) = reply[c] /\ PortOf(c)' = "asked"
      BY <2>1, <1>1 DEF CallerInv, PortOf
    <2>3. PortOf(c) \in Port!Settled
      BY <2>2 DEF Port!Settled, CallersTypeOK
    <2> QED BY <1>2, <2>1, <2>2, <2>3, OneNotSame
  <1>4. CASE (Require(c) /\ switch) \/ (Route(c) /\ published)
    <2>1. /\ UNCHANGED <<queue, reply>> /\ pc[c] \in {"require", "route"}
          /\ pc'[c] \in {"route", "submit"}
      BY <1>4 DEF Require, Route, Goes, CallersTypeOK
    <2>2. CallerInv(c)' /\ PortOf(c)' = PortOf(c)
      BY <2>1, <1>1 DEF CallerInv, PortOf
    <2>3. \A d \in Callers : CallerInv(d)' /\ PortOf(d)' = PortOf(d)
      BY <1>2, <2>1, <2>2, SameStays
    <2> QED BY <1>2, <2>1, <2>3, NoneMoves
  <1>5. CASE (Require(c) /\ ~switch) \/ (Submit(c) /\ ~enabled)
    <2>1. /\ UNCHANGED queue /\ pc[c] \in {"require", "submit"}
          /\ pc'[c] = "idle" /\ reply'[c] = "refused"
      BY <1>5 DEF Require, Submit, Told, CallersTypeOK
    <2>2. CallerInv(c)' /\ PortOf(c) = "asked" /\ PortOf(c)' = "refused"
      BY <2>1, <1>1 DEF CallerInv, PortOf
    <2> QED BY <1>2, <2>1, <2>2, OneNotSame
  <1>6. CASE (Route(c) /\ ~published) \/ (Submit(c) /\ enabled /\ ~threaded)
    <2>1. UNCHANGED queue /\ pc[c] \in {"route", "submit"} /\ pc'[c] = "inline"
      BY <1>6 DEF Route, Submit, Goes, CallersTypeOK
    <2>2. CallerInv(c)' /\ PortOf(c) = "asked" /\ PortOf(c)' = "running"
      BY <2>1, <1>1 DEF CallerInv, PortOf
    <2> QED BY <1>2, <2>1, <2>2, OneNotSame
  <1>7. CASE Submit(c) /\ enabled /\ threaded
    <2>1. /\ pc[c] = "submit" /\ queue' = Append(queue, c) /\ pc'[c] = "waiting"
          /\ ~Contains(queue, c) /\ current # c /\ c # Refresh
      BY <1>7, CallerAssumption DEF Submit, Goes, CallerInv, CallersTypeOK
    <2>2. /\ Distinct(queue') /\ Contains(queue', c)
          /\ \A d \in Callers \ {c} : Contains(queue', d) <=> Contains(queue, d)
      BY <2>1, QueuedOnce DEF Item
    <2>3. QueueInv' /\ \A d \in Callers \ {c} : Same(d)
      BY <1>1, <2>2 DEF QueueInv, Same
    <2>4. CallerInv(c)' /\ PortOf(c)' = PortOf(c)
      BY <2>1, <2>2, <1>1 DEF CallerInv, PortOf
    <2>5. \A d \in Callers : CallerInv(d)' /\ PortOf(d)' = PortOf(d)
      BY <2>3, <2>4, SameStays
    <2> QED BY <2>3, <2>5, NoneMoves
  <1>8. CASE InlineReturns(c)
    <2>1. UNCHANGED queue /\ pc[c] = "inline" /\ pc'[c] = "idle" /\ reply'[c] = "answered"
      BY <1>8 DEF InlineReturns, Told, CallersTypeOK
    <2>2. CallerInv(c)' /\ PortOf(c) = "running" /\ PortOf(c)' = "answered"
      BY <2>1, <1>1 DEF CallerInv, PortOf
    <2> QED BY <1>2, <2>1, <2>2, OneNotSame
  <1>9. CASE GiveUp(c)
    <2>1. UNCHANGED queue /\ pc[c] = "waiting" /\ pc'[c] = "idle" /\ reply'[c] = "free"
      BY <1>9 DEF GiveUp, Told, CallersTypeOK
    <2>2. /\ CallerInv(c)'
          /\ \/ PortOf(c) = "asked" /\ PortOf(c)' = "left"
             \/ PortOf(c) = "running" /\ PortOf(c)' = "leftRunning"
      BY <2>1, <1>1 DEF CallerInv, PortOf
    <2> QED BY <1>2, <2>1, <2>2, OneNotSame
  <1> QED BY <1>3, <1>4, <1>5, <1>6, <1>7, <1>8, <1>9 DEF Command, Require, Route, Submit

LEMMA PortToggleStep ==
  ASSUME DeviceTypeOK, PortInv, NEW c \in Callers, Toggle(c)
  PROVE  PortInv' /\ UNCHANGED Ports
  <1> USE DEF PortInv
  <1> QueueTypeOK /\ CallersTypeOK /\ Distinct(queue) /\ queue \in Seq(Item) /\ CallerInv(c)
    BY DEF DeviceTypeOK, QueueTypeOK, QueueInv, Item
  <1>1. UNCHANGED <<actor, current, reply>>
    BY DEF Toggle, SetSwitch, FindReader, ReaderOn, RefreshInline, ReaderOff, DropCache, HookReads,
           HookSaves, toggleUnchanged, threadVars
  <1>2. \A d \in Callers \ {c} : pc'[d] = pc[d]
    BY DEF Toggle, SetSwitch, FindReader, ReaderOn, RefreshInline, ReaderOff, DropCache, HookReads,
           HookSaves, AfterReader, Ends, Goes, CallersTypeOK
  <1>3. pc[c] \in Outside /\ pc'[c] \in Outside
    BY DEF Toggle, SetSwitch, FindReader, ReaderOn, RefreshInline, ReaderOff, DropCache, HookReads,
           HookSaves, AfterReader, Ends, Goes, CallersTypeOK, Outside, Free
  <1>4. ~Contains(queue, c) /\ current # c
    <2>1. pc[c] # "idle" \/ Free(c)
      BY DEF Toggle, SetSwitch, FindReader, ReaderOn, RefreshInline, ReaderOff, DropCache,
             HookReads, HookSaves
    <2> QED BY <2>1, <1>3 DEF Free, CallerInv, Outside
  <1>5. Distinct(queue') /\ \A d \in Callers : Contains(queue', d) <=> Contains(queue, d)
    <2>1. UNCHANGED queue \/ queue' = Append(queue, Refresh)
      BY DEF Toggle, SetSwitch, FindReader, ReaderOn, RefreshInline, ReaderOff, DropCache,
             HookReads, HookSaves, readerVars
    <2>2. CASE queue' = Append(queue, Refresh)
      <3>1. \A d \in Callers : d # Refresh
        BY CallerAssumption
      <3> QED BY <2>2, <3>1, QueuedOnce DEF Item
    <2> QED BY <2>1, <2>2
  <1>6. \A d \in Callers : Same(d)
    BY <1>1, <1>2, <1>3, <1>4, <1>5 DEF Same
  <1>7. QueueInv'
    BY <1>1, <1>5 DEF QueueInv
  <1> QED BY <1>6, <1>7, AllSame

LEMMA PortRestart == ASSUME Restart PROVE PortInv' /\ Port!Next
  <1>1. /\ queue' = <<>> /\ actor' = "none" /\ current' = Nobody
        /\ pc' = [c \in Callers |-> "idle"] /\ reply' = [c \in Callers |-> "free"]
    BY DEF Restart
  <1>2. \A c \in Callers : ~Contains(queue', c) /\ current' # c
    BY <1>1, CallerAssumption DEF Contains
  <1>3. PortInv'
    BY <1>1, <1>2, CallerAssumption DEF PortInv, QueueInv, CallerInv, Distinct
  <1>4. \A c \in Callers : PortOf(c)' = "free"
    BY <1>1, <1>2 DEF PortOf
  <1> QED BY <1>3, <1>4 DEF Port!Next, Port!Die

LEMMA PortStep ==
  DeviceTypeOK /\ Startup /\ PortInv /\ [Next]_vars => PortInv' /\ [Port!Next]_Ports
  <1> SUFFICES ASSUME DeviceTypeOK, Startup, PortInv, [Next]_vars
               PROVE  PortInv' /\ (Port!Next \/ UNCHANGED Ports)
    OBVIOUS
  <1>1. CASE UNCHANGED vars
    <2>1. UNCHANGED <<queue, actor, current, pc, reply>>
      BY <1>1 DEF vars, readerVars, threadVars, callerVars
    <2> QED BY <2>1, AllSame DEF PortInv, QueueInv, Same
  <1> QED
    BY <1>1, PortMainStep, PortActorStep, PortCommandStep, PortToggleStep, PortRestart, StepCases
    DEF CallerStep

\* The actor, its start-up and shutdown, time-outs, the switch and restarts
\* included, implements the command port.
THEOREM ActorImplementsPort == Spec => CommandsHonest
  <1>1. Init => PortInv /\ Port!Init
    <2> SUFFICES ASSUME Init PROVE PortInv /\ Port!Init
      OBVIOUS
    <2>1. \A c \in Callers : ~Contains(queue, c) /\ current # c /\ pc[c] = "idle" /\ reply[c] = "free"
      BY CallerAssumption DEF Init, Contains
    <2>2. PortInv
      BY <2>1, CallerAssumption DEF Init, PortInv, QueueInv, CallerInv, Distinct
    <2>3. \A c \in Callers : PortOf(c) = "free"
      BY <2>1 DEF PortOf
    <2> QED BY <2>2, <2>3 DEF Port!Init
  <1>2. DeviceTypeOK /\ Startup /\ PortInv /\ [Next]_vars => PortInv' /\ [Port!Next]_Ports
    BY PortStep
  <1>3. Spec => [](DeviceTypeOK /\ Startup)
    BY Silence, PTL
  <1> QED BY <1>1, <1>2, <1>3, PTL DEF Spec, CommandsHonest, Port!Spec, Ports
=============================================================================
