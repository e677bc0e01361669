--------------------------- MODULE HysteresisStop ---------------------------
(***************************************************************************)
(* What a latched charging stop promises, whatever it measures.  A reading *)
(* past the trip point is never answered with a charge allowance; a        *)
(* latched stop grants none until a reading past the recovery threshold    *)
(* has been seen; nothing else clears it but a restart, which starts with  *)
(* no reading and no allowance.  ChargeCeiling implements this three times *)
(* over, once for each of its latches.                                     *)
(***************************************************************************)
VARIABLES
  tripped,   \* the stop is latched
  reading,   \* what the last snapshot says of the guarded quantity
  granting   \* a charge allowance is granted now

stopVars == <<tripped, reading, granting>>

Readings == {"none", "trip", "between", "recovered"}

Init == ~tripped /\ reading = "none" /\ ~granting

\* The guarded quantity is past its trip point: the latch may set, and no
\* allowance is granted whether it does or an earlier stop hides the trip.
Trip == reading' = "trip" /\ (tripped => tripped') /\ ~granting'

\* A set latch holds through any other reading.
Hold == tripped /\ tripped' /\ ~granting'

\* Only a reading past the recovery threshold clears it.
Clear == tripped /\ reading' = "recovered" /\ ~tripped'

\* A clear latch stays clear: whether charging is granted is up to others.
Pass == ~tripped /\ ~tripped' /\ reading' # "trip"

\* The process restarts: the latch is forgotten with everything else.
Forget == ~tripped' /\ reading' = "none" /\ ~granting'

Next == Trip \/ Hold \/ Clear \/ Pass \/ Forget

Spec == Init /\ [][Next]_stopVars
=============================================================================
