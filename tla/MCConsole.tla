------------------------------ MODULE MCConsole -----------------------------
(* The console with one controller's voltage and the CCL factor, for TLC.    *)
EXTENDS Console

ModelRows == <<"v0", "scaling">>
ModelSteps == <<1, 2>>
ModelMoves == {1}
=============================================================================
