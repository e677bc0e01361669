--------------------------- MODULE MCChargeControl ---------------------------
(* ChargeControl over the snapshots that tell its decisions apart.          *)
EXTENDS ChargeControl

MCMaxAmps == [c \in Controllers |-> IF c = "classic" THEN 5 ELSE 7]

Pack == [ccl |-> 2000, soc |-> 97, voltage |-> 540, maxCell |-> 3500,
         minCell |-> 3480, cellTemp |-> 15, packTemp |-> 15]
Cells(mv) == [Pack EXCEPT !.maxCell = mv]
Ccl(a) == [Pack EXCEPT !.ccl = a]

Snapshot(b, flag) ==
  [battery |-> b, flag |-> flag, cold |-> FALSE, current |-> 0, load |-> 0,
   present |-> Controllers, active |-> Controllers, settings |-> Controllers]

Charging == Snapshot(Pack, TRUE)
Stopped == Snapshot(Pack, FALSE)
FlagGap == Snapshot(Pack, Null)
LimitsGap == Snapshot(Ccl(Null), TRUE)
Knee(a) == Snapshot(Ccl(a), TRUE)
HighCell == Snapshot(Cells(3620), TRUE)

MCInputs ==
  {Charging, Stopped, [FlagGap EXCEPT !.settings = {"epever"}], LimitsGap,
   Knee(130), Knee(40), Knee(3), [Knee(3) EXCEPT !.active = {"epever"}],
   [Knee(100) EXCEPT !.active = {"classic"}],
   [Knee(60) EXCEPT !.present = {"epever"}, !.current = 95, !.load = 25]}

LiveInputs ==
  {Charging, Stopped, FlagGap, [FlagGap EXCEPT !.cold = TRUE], HighCell,
   Knee(180), [Charging EXCEPT !.present = {}]}

CommandInputs == {Charging, Stopped}

MCBatteries == {i.battery : i \in MCInputs \cup LiveInputs}
NoFactors == {}
None == {}
Pauses == BOOLEAN
Zero == {0}
Three == {3}
OneFactor == {50}
=============================================================================
