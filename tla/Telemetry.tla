------------------------------ MODULE Telemetry ------------------------------
(* What the charge path reads of the BMS: the frames of PylonCanSnapshot,   *)
(* any of which may be absent from a snapshot.                              *)
EXTENDS Integers

CONSTANT Null   \* Python's None: the frame that carries the value is absent

ASSUME NullAssumption == Null \notin Int

Reading == Int \cup {Null}

\* Currents in tenths of an ampere, cell voltages in millivolts, the pack
\* voltage in tenths of a volt, temperatures in degrees Celsius.
Battery == [ccl : Reading, soc : Reading, voltage : Reading, maxCell : Reading,
            minCell : Reading, cellTemp : Reading, packTemp : Reading]

\* What one frame brings is there, or missing, as a whole.
Frames == {{"ccl"}, {"soc"}, {"voltage", "packTemp"}, {"maxCell", "minCell", "cellTemp"}}

Decoded(b) == \A frame \in Frames : \A x, y \in frame : b[x] = Null <=> b[y] = Null
=============================================================================
