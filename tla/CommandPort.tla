----------------------------- MODULE CommandPort -----------------------------
(***************************************************************************)
(* What a device's command port promises its callers, whichever thread     *)
(* runs the command.  A caller that is told its command was refused knows  *)
(* that it never runs; one that gets an answer knows that it ran exactly   *)
(* once; one that gave up waiting knows only that it runs at most once.    *)
(***************************************************************************)
CONSTANT Callers

VARIABLE port   \* port[c]: what became of the last command of caller c

\* "left" and "leftRunning" are commands nobody waits for any longer.
Settled == {"free", "refused", "answered"}
States == Settled \cup {"asked", "running", "left", "leftRunning"}

Becomes(c, from, to) == port[c] \in from /\ port' = [port EXCEPT ![c] = to]

Init == port = [c \in Callers |-> "free"]

Ask(c)    == Becomes(c, Settled, "asked")
Refuse(c) == Becomes(c, {"asked"}, "refused")
Begin(c)  == Becomes(c, {"asked"}, "running")
Answer(c) == Becomes(c, {"running"}, "answered")

GiveUp(c) == Becomes(c, {"asked"}, "left") \/ Becomes(c, {"running"}, "leftRunning")

\* A command left behind still runs, or is refused with nobody to tell.
LateBegin(c) == Becomes(c, {"left"}, "leftRunning")
LateEnd(c)   == Becomes(c, {"left", "leftRunning"}, "free")

\* The process dies with every caller and command in it.
Die == port' = [c \in Callers |-> "free"]

Next ==
  \/ \E c \in Callers : \/ Ask(c) \/ Refuse(c) \/ Begin(c) \/ Answer(c)
                        \/ GiveUp(c) \/ LateBegin(c) \/ LateEnd(c)
  \/ Die

Spec == Init /\ [][Next]_port
=============================================================================
