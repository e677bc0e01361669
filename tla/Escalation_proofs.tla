------------------------- MODULE Escalation_proofs -------------------------
(***************************************************************************)
(* The watchdog's stamps never tell of more than was: RebootSustained for  *)
(* any transports, quorum, threshold and cooldown.                         *)
(***************************************************************************)
EXTENDS Escalation, TLAPS

(* The stamps and the true ages they stand for. *)
AgesTyped ==
  /\ firstBad \in {Missing} \cup 0 .. BlindAfter
  /\ lastBoot \in {Missing} \cup 0 .. Cooldown
  /\ goodAge \in 0 .. BlindAfter
  /\ bootAge \in 0 .. Cooldown
  /\ stepped \in BOOLEAN

(* Unless the clock was set, no stamp is older than what it stamps, and a
   reboot that has no stamp is long ago. *)
StampsHonest ==
  stepped = FALSE =>
    /\ firstBad <= goodAge
    /\ lastBoot <= bootAge
    /\ lastBoot = Missing => bootAge = Cooldown

StampInv == AgesTyped /\ StampsHonest

(* The bounds as far as the proofs need them. *)
LEMMA Bounds == BlindAfter \in Nat /\ BlindAfter # 0 /\ Cooldown \in Nat /\ Cooldown # 0
  BY EscalationAssumption

(* An age grows by one or stays, and a stamp that is there stays there. *)
LEMMA OlderGrows ==
  ASSUME NEW limit \in Nat, NEW age \in {Missing} \cup 0 .. limit
  PROVE  /\ Older(age, limit) \in {Missing} \cup 0 .. limit
         /\ Older(age, limit) = Missing <=> age = Missing
         /\ Older(age, limit) >= age
         /\ age >= 0 => Older(age, limit) \in 0 .. limit
         /\ age = limit => Older(age, limit) = limit
         /\ Older(age, limit) = 0 => age = 0 /\ limit = 0
         /\ \A other \in 0 .. limit : age <= other => Older(age, limit) <= Older(other, limit)
  BY DEF Older, Missing

LEMMA InitStamps == EscalationInit => StampInv
  <1> SUFFICES ASSUME EscalationInit PROVE StampInv
    OBVIOUS
  <1>1. /\ firstBad = Missing /\ lastBoot = Missing /\ stepped = FALSE
        /\ goodAge = 0 /\ bootAge = Cooldown
    BY DEF EscalationInit
  <1>2. AgesTyped
    <2>1. firstBad \in {Missing} \cup 0 .. BlindAfter /\ lastBoot \in {Missing} \cup 0 .. Cooldown
      BY <1>1
    <2>2. goodAge \in 0 .. BlindAfter /\ bootAge \in 0 .. Cooldown
      BY <1>1, Bounds
    <2>3. stepped \in BOOLEAN
      BY <1>1
    <2> QED BY <2>1, <2>2, <2>3 DEF AgesTyped
  <1>3. StampsHonest
    BY <1>1, Bounds DEF StampsHonest, Missing
  <1> QED BY <1>2, <1>3 DEF StampInv

(* Steps that leave the stamps and the ages alone. *)
stampVars == <<firstBad, lastBoot, goodAge, bootAge, stepped>>

LEMMA StampsStay == ASSUME StampInv, UNCHANGED stampVars PROVE StampInv'
  BY DEF StampInv, AgesTyped, StampsHonest, stampVars

LEMMA TickStamps ==
  ASSUME StampInv, Tick
  PROVE  StampInv' /\ bootAge' # 0
  <1>1. /\ firstBad' = Older(firstBad, BlindAfter) /\ lastBoot' = Older(lastBoot, Cooldown)
        /\ goodAge' = Older(goodAge, BlindAfter) /\ bootAge' = Older(bootAge, Cooldown)
        /\ stepped' = stepped
    BY DEF Tick
  <1>2. AgesTyped'
    BY <1>1, Bounds, OlderGrows DEF StampInv, AgesTyped
  <1>3. bootAge' # 0
    BY <1>1, Bounds, OlderGrows DEF StampInv, AgesTyped
  <1>4. StampsHonest'
    <2> SUFFICES ASSUME stepped' = FALSE
                 PROVE  /\ firstBad' <= goodAge' /\ lastBoot' <= bootAge'
                        /\ lastBoot' = Missing => bootAge' = Cooldown
      BY DEF StampsHonest
    <2>1. firstBad <= goodAge /\ lastBoot <= bootAge /\ (lastBoot = Missing => bootAge = Cooldown)
      BY <1>1 DEF StampInv, StampsHonest
    <2>2. firstBad' <= goodAge'
      BY <2>1, <1>1, Bounds, OlderGrows DEF StampInv, AgesTyped
    <2>3. lastBoot' <= bootAge'
      BY <2>1, <1>1, Bounds, OlderGrows DEF StampInv, AgesTyped
    <2>4. lastBoot' = Missing => bootAge' = Cooldown
      BY <2>1, <1>1, Bounds, OlderGrows DEF StampInv, AgesTyped
    <2> QED BY <2>2, <2>3, <2>4
  <1> QED BY <1>2, <1>3, <1>4 DEF StampInv

(* A boot clears the volatile stamp: nothing is left to be too old. *)
LEMMA PowerLossStamps ==
  ASSUME StampInv, PowerLoss
  PROVE  StampInv' /\ bootAge' = bootAge
  <1>1. /\ firstBad' = Missing /\ goodAge' = 0 /\ lastBoot' = lastBoot
        /\ bootAge' = bootAge /\ stepped' = stepped
    BY DEF PowerLoss, Boot
  <1> QED BY <1>1, Bounds DEF StampInv, AgesTyped, StampsHonest, Missing

LEMMA ClockStamps ==
  ASSUME StampInv, ClockSteps
  PROVE  StampInv' /\ bootAge' = bootAge
  <1>1. /\ firstBad' \in {Missing, BlindAfter} /\ lastBoot' \in {Missing, Cooldown}
        /\ goodAge' = goodAge /\ bootAge' = bootAge /\ stepped' = TRUE
    BY DEF ClockSteps
  <1> QED BY <1>1, Bounds DEF StampInv, AgesTyped, StampsHonest

(* The watchdog reboots by two stamps that are at their thresholds; what they
   stand for is then at least as old. *)
LEMMA RebootDue ==
  ASSUME StampInv, Reboots
  PROVE  /\ stepped # FALSE \/ (goodAge >= BlindAfter /\ bootAge >= Cooldown)
         /\ StampInv'
  <1>1. /\ firstBad' = Missing /\ goodAge' = 0 /\ lastBoot' = 0
        /\ bootAge' = 0 /\ stepped' = stepped
    BY DEF Reboots, Boot
  <1>2. firstBad = BlindAfter
    BY Bounds DEF Reboots, Aged
  <1>3. lastBoot = Missing \/ lastBoot = Cooldown
    <2>1. lastBoot \notin 0 .. Cooldown - 1
      BY DEF Reboots, InCooldown
    <2> QED BY <2>1, Bounds DEF StampInv, AgesTyped
  <1>4. stepped = FALSE => goodAge >= BlindAfter /\ bootAge >= Cooldown
    BY <1>2, <1>3, Bounds DEF StampInv, StampsHonest, AgesTyped
  <1>5. StampInv'
    BY <1>1, Bounds DEF StampInv, AgesTyped, StampsHonest, Missing
  <1> QED BY <1>4, <1>5

LEMMA WatchdogStamps ==
  ASSUME StampInv, Watchdog
  PROVE  /\ StampInv'
         /\ Rebooting => stepped # FALSE \/ (goodAge >= BlindAfter /\ bootAge >= Cooldown)
  <1>1. CASE Recovers
    <2>1. /\ firstBad' = Missing /\ goodAge' = 0 /\ lastBoot' = lastBoot
          /\ bootAge' = bootAge /\ stepped' = stepped
      BY <1>1 DEF Recovers
    <2>2. StampInv'
      BY <2>1, Bounds DEF StampInv, AgesTyped, StampsHonest, Missing
    <2> QED BY <2>1, <2>2 DEF Rebooting
  <1>2. CASE Waits
    <2>1. /\ firstBad' = Aged(firstBad) /\ goodAge' = goodAge /\ lastBoot' = lastBoot
          /\ bootAge' = bootAge /\ stepped' = stepped
      BY <1>2 DEF Waits
    <2>2. StampInv'
      BY <2>1, Bounds DEF StampInv, AgesTyped, StampsHonest, Aged
    <2> QED BY <2>1, <2>2 DEF Rebooting
  <1>3. CASE Reboots
    BY <1>3, RebootDue
  <1> QED BY <1>1, <1>2, <1>3 DEF Watchdog

(* Every step keeps the stamps honest, and none but a due reboot sets bootAge
   to 0. *)
LEMMA StepStamps ==
  ASSUME StampInv, [EscalationNext]_vars
  PROVE  /\ StampInv'
         /\ Rebooting => stepped # FALSE \/ (goodAge >= BlindAfter /\ bootAge >= Cooldown)
  <1>1. CASE Tick
    BY <1>1, TickStamps DEF Rebooting
  <1>2. CASE ClockSteps
    BY <1>2, ClockStamps DEF Rebooting
  <1>3. CASE PowerLoss
    BY <1>3, PowerLossStamps DEF Rebooting
  <1>4. CASE Watchdog
    BY <1>4, WatchdogStamps
  <1>5. CASE UNCHANGED stampVars
    BY <1>5, StampsStay DEF Rebooting, stampVars
  <1>6. Reports \/ UNCHANGED vars => UNCHANGED stampVars
    BY DEF Reports, stampVars, vars, watchdogVars
  <1>7. ASSUME NEW n \in Channels PROVE Notifier(n) \/ PingEnds(n) => UNCHANGED stampVars
    BY DEF Notifier, PingEnds, stampVars, watchdogVars
  <1> QED BY <1>1, <1>2, <1>3, <1>4, <1>5, <1>6, <1>7 DEF EscalationNext

(* The watchdog reboots only when every check for the whole threshold was bad
   and its last reboot is a cooldown ago, whatever boots and scripts clear,
   keep or leave half done (RebootSustained). *)
THEOREM RebootsAreSustained == EscalationSpec => RebootSustained
  <1>1. EscalationInit => StampInv
    BY InitStamps
  <1>2. StampInv /\ [EscalationNext]_vars => StampInv'
    BY StepStamps
  <1>3. StampInv /\ [EscalationNext]_vars
          => [Rebooting => stepped \/ (goodAge >= BlindAfter /\ bootAge >= Cooldown)]_vars
    <2> SUFFICES ASSUME StampInv, [EscalationNext]_vars, Rebooting, ~stepped
                 PROVE  goodAge >= BlindAfter /\ bootAge >= Cooldown
      OBVIOUS
    <2>1. stepped = FALSE
      BY DEF StampInv, AgesTyped
    <2> QED BY <2>1, StepStamps
  <1> QED BY <1>1, <1>2, <1>3, PTL DEF EscalationSpec, RebootSustained
=============================================================================
