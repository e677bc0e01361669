----------------------------- MODULE MCMainLoop -----------------------------
(* The main loop for TLC.                                                    *)
EXTENDS MainLoop

ModelSkews == {-60, -9}
ModelLags == {4}
ModelMisreads == {-40, 30}

Seen(pack, hottest, sun, outside, full, load) ==
  [pack |-> pack, hottest |-> hottest, sun |-> sun, outside |-> outside, full |-> full, load |-> load]

(* Nothing readable; the cold pack under each light; the states between the  *)
(* thresholds; a full pack in the cold, with and without a hot cell beside   *)
(* cold ones; a pack that is hot throughout.                                 *)
ModelSnapshots ==
  { Seen("none", "none", "none", "none", FALSE, FALSE),
    Seen("cold", "mild", "strong", "cold", FALSE, TRUE),
    Seen("cold", "mild", "strong", "none", FALSE, FALSE),
    Seen("cool", "mild", "fair", "mild", FALSE, TRUE),
    Seen("warm", "mild", "weak", "mild", FALSE, TRUE),
    Seen("cool", "mild", "none", "cold", TRUE, FALSE),
    Seen("cold", "hot", "strong", "cold", TRUE, TRUE),
    Seen("hot", "hot", "strong", "cold", TRUE, TRUE) }
=============================================================================
