--------------------------- MODULE MCChargeCeiling ---------------------------
(* ChargeCeiling at its default thresholds, over one snapshot per side of   *)
(* each of them and for each missing frame.                                 *)
EXTENDS ChargeCeiling

Healthy == [ccl |-> 2000, soc |-> 97, voltage |-> 540, maxCell |-> 3500,
            minCell |-> 3480, cellTemp |-> 15, packTemp |-> 14]

Knee(b) == [b EXCEPT !.ccl = 401]
NoLimits(b) == [b EXCEPT !.ccl = Null]
NoExtended(b) == [b EXCEPT !.maxCell = Null, !.minCell = Null, !.cellTemp = Null]

HighCell == [Healthy EXCEPT !.maxCell = 3620]
WideCell == [Healthy EXCEPT !.maxCell = 3550, !.minCell = 3400]
BandCell == [Healthy EXCEPT !.maxCell = 3619, !.minCell = 3480]
Frozen   == [Healthy EXCEPT !.cellTemp = 0]
Thawing  == [Healthy EXCEPT !.cellTemp = 1]
Thawed   == [Healthy EXCEPT !.cellTemp = 2]
FullPack == [Healthy EXCEPT !.soc = 100]
Resting  == [Healthy EXCEPT !.soc = 97, !.voltage = 541]
NoSoc    == [Healthy EXCEPT !.soc = Null]

MCBatteries ==
  {Null, Healthy, Knee(Healthy), HighCell, Knee(WideCell), BandCell, Frozen,
   Knee(Thawing), Thawed, FullPack, Resting, NoSoc,
   NoLimits(Healthy), NoLimits(HighCell), NoExtended(Healthy),
   NoExtended([Healthy EXCEPT !.packTemp = -3]),
   [Healthy EXCEPT !.ccl = 0], [HighCell EXCEPT !.cellTemp = -5, !.soc = 100],
   [Healthy EXCEPT !.ccl = 9]}

MCFactors == {25, 100, 101, -25}
=============================================================================
