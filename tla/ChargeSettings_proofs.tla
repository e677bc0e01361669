------------------------ MODULE ChargeSettings_proofs ------------------------
(* Proofs about ChargeSettings, for all threads, requests, limits and blocks: *)
(* first what a request may plan and what a command may leave behind, then    *)
(* one part of the inductive invariant after the other.                       *)
EXTENDS ChargeSettings, FiniteSetTheorems, TLAPS

Words == Cells("classic") \cup Cells("epever")
Settings == UNION {[names -> Int] : names \in SUBSET Words}
Command == [device : Devices, cells : Settings]
Entry == [device : Devices, cells : Settings, by : Threads]

\* The cells are some of the device's, and no voltage among them exceeds the cap.
Fits(d, cells, cap) ==
  /\ DOMAIN cells \subseteq Cells(d)
  /\ \A c \in DOMAIN cells \cap Guarded(d) : cells[c] <= cap

PlanFits(plan, cap) ==
  \A i \in DOMAIN plan : plan[i].cells # Blank /\ Fits(plan[i].device, plan[i].cells, cap)

SettingKinds == {"nudge", "scalar", "settings", "sync"}
EditKinds == {"factor", "factor_delta", "switch"}

-----------------------------------------------------------------------------
(* The operators the module is built from.                                   *)

LEMMA PayloadKinds ==
  ASSUME NEW r \in Requests
  PROVE  /\ r.kind \in SettingKinds \cup EditKinds
         /\ r.kind = "nudge" => r.device \in Devices /\ r.delta \in Int
         /\ r.kind = "scalar" => r.device \in Devices /\ r.volts \in Int
         /\ r.kind = "settings" => /\ r.device \in Devices
                                   /\ r.cells \in [DOMAIN r.cells -> Int]
                                   /\ DOMAIN r.cells \subseteq Cells(r.device)
                                   /\ DOMAIN r.cells # {}
         /\ r.kind = "sync" => r.offset \in Int /\ r.current \in BOOLEAN
         /\ r.kind = "factor" => r.value \in Int
         /\ r.kind = "factor_delta" => r.delta \in Int
         /\ r.kind = "switch" => r.device \in Devices /\ r.on \in BOOLEAN
<1> USE DEF SettingKinds, EditKinds
<1>1. CASE r \in [kind : {"nudge"}, device : Devices, delta : Int]
  BY <1>1
<1>2. CASE r \in [kind : {"scalar"}, device : Devices, volts : Int]
  BY <1>2
<1>3. ASSUME NEW d \in Devices, NEW names \in (SUBSET Cells(d)) \ {{}},
             r \in [kind : {"settings"}, device : {d}, cells : [names -> Int]]
      PROVE  /\ r.kind = "settings" /\ r.device \in Devices
             /\ r.cells \in [DOMAIN r.cells -> Int]
             /\ DOMAIN r.cells \subseteq Cells(r.device) /\ DOMAIN r.cells # {}
  <2>1. r.kind = "settings" /\ r.device = d /\ r.cells \in [names -> Int]
    BY <1>3
  <2> QED
    BY <2>1
<1>4. CASE r \in [kind : {"sync"}, offset : Int, current : BOOLEAN]
  BY <1>4
<1>5. CASE r \in [kind : {"factor"}, value : Int] \cup [kind : {"factor_delta"}, delta : Int]
  BY <1>5
<1>6. CASE r \in [kind : {"switch"}, device : Devices, on : BOOLEAN]
  BY <1>6
<1> QED
  BY <1>1, <1>2, <1>3, <1>4, <1>5, <1>6, RequestsAssumption DEF Payload

LEMMA SomeSettings ==
  ASSUME NEW names \in SUBSET Words, NEW f \in [names -> Int]
  PROVE  f \in Settings
  BY DEF Settings

LEMMA SettingsMap ==
  ASSUME NEW f \in Settings
  PROVE  /\ f \in [DOMAIN f -> Int]
         /\ DOMAIN f \subseteq Words
         /\ f = Blank <=> DOMAIN f = {}
  BY DEF Settings, Blank

LEMMA OnlyCells ==
  ASSUME NEW d \in Devices, NEW cells, cells \in [DOMAIN cells -> Int],
         DOMAIN cells \subseteq Cells(d), NEW names
  PROVE  /\ Only(cells, names) \in Settings
         /\ DOMAIN Only(cells, names) = DOMAIN cells \cap names
         /\ \A c \in DOMAIN cells \cap names : Only(cells, names)[c] = cells[c]
<1>1. Only(cells, names) \in [DOMAIN cells \cap names -> Int]
  BY DEF Only
<1>2. DOMAIN cells \cap names \in SUBSET Words
  BY DEF Words, Devices
<1> QED
  BY <1>1, <1>2, SomeSettings DEF Only

\* What is left out is filled in; what is named stays.
LEMMA FilledCells ==
  ASSUME NEW f, NEW g
  PROVE  /\ DOMAIN Filled(f, g) = DOMAIN f \cup DOMAIN g
         /\ \A c \in DOMAIN f : Filled(f, g)[c] = f[c]
         /\ \A c \in DOMAIN g \ DOMAIN f : Filled(f, g)[c] = g[c]
  BY DEF Filled

LEMMA SequenceOfParts ==
  ASSUME NEW a \in Seq(Command), NEW b \in Seq(Command), NEW c \in Seq(Command)
  PROVE  /\ a \o b \o c \in Seq(Command)
         /\ \A i \in DOMAIN (a \o b \o c) :
              \/ \E j \in DOMAIN a : (a \o b \o c)[i] = a[j]
              \/ \E j \in DOMAIN b : (a \o b \o c)[i] = b[j]
              \/ \E j \in DOMAIN c : (a \o b \o c)[i] = c[j]
<1> DEFINE ab == a \o b
           abc == ab \o c
<1>1. ab \in Seq(Command) /\ Len(ab) = Len(a) + Len(b)
  OBVIOUS
<1>2. \A i \in DOMAIN ab : IF i <= Len(a) THEN i \in DOMAIN a /\ ab[i] = a[i]
                           ELSE i - Len(a) \in DOMAIN b /\ ab[i] = b[i - Len(a)]
  OBVIOUS
<1>3. \A i \in DOMAIN ab : \/ \E j \in DOMAIN a : ab[i] = a[j]
                           \/ \E j \in DOMAIN b : ab[i] = b[j]
  BY <1>2
<1> HIDE DEF ab
<1>4. abc \in Seq(Command)
  BY <1>1
<1>5. \A i \in DOMAIN abc : IF i <= Len(ab) THEN i \in DOMAIN ab /\ abc[i] = ab[i]
                            ELSE i - Len(ab) \in DOMAIN c /\ abc[i] = c[i - Len(ab)]
  BY <1>1
<1>6. \A i \in DOMAIN abc : \/ \E j \in DOMAIN ab : abc[i] = ab[j]
                            \/ \E j \in DOMAIN c : abc[i] = c[j]
  BY <1>5
<1>7. \A i \in DOMAIN abc : \/ \E j \in DOMAIN a : abc[i] = a[j]
                            \/ \E j \in DOMAIN b : abc[i] = b[j]
                            \/ \E j \in DOMAIN c : abc[i] = c[j]
  BY <1>3, <1>6
<1> QED
  BY <1>4, <1>7 DEF ab

\* Plans that fit make up a plan that fits.
LEMMA PlansOfParts ==
  ASSUME NEW a \in Seq(Command), NEW b \in Seq(Command), NEW c \in Seq(Command), NEW cap,
         PlanFits(a, cap), PlanFits(b, cap), PlanFits(c, cap)
  PROVE  /\ a \o b \o c \in Seq(Command) /\ PlanFits(a \o b \o c, cap)
         /\ (Len(a) = 1 \/ Len(b) = 1 \/ Len(c) = 1) => Len(a \o b \o c) >= 1
<1> DEFINE abc == a \o b \o c
<1>1. /\ abc \in Seq(Command)
      /\ \A i \in DOMAIN abc : \/ \E j \in DOMAIN a : abc[i] = a[j]
                               \/ \E j \in DOMAIN b : abc[i] = b[j]
                               \/ \E j \in DOMAIN c : abc[i] = c[j]
  BY SequenceOfParts
<1>2. /\ Len(a) \in Nat /\ Len(b) \in Nat /\ Len(c) \in Nat
      /\ Len(abc) = Len(a) + Len(b) + Len(c)
  OBVIOUS
<1> HIDE DEF abc
<1>3. PlanFits(abc, cap)
  <2> SUFFICES ASSUME NEW i \in DOMAIN abc
               PROVE  abc[i].cells # Blank /\ Fits(abc[i].device, abc[i].cells, cap)
    BY DEF PlanFits
  <2>1. CASE \E j \in DOMAIN a : abc[i] = a[j]
    BY <2>1 DEF PlanFits
  <2>2. CASE \E j \in DOMAIN b : abc[i] = b[j]
    BY <2>2 DEF PlanFits
  <2>3. CASE \E j \in DOMAIN c : abc[i] = c[j]
    BY <2>3 DEF PlanFits
  <2> QED
    BY <1>1, <2>1, <2>2, <2>3
<1>4. (Len(a) = 1 \/ Len(b) = 1 \/ Len(c) = 1) => Len(abc) >= 1
  BY <1>2
<1> QED
  BY <1>1, <1>3, <1>4 DEF abc

LEMMA CellSets ==
  /\ Devices = {"classic", "epever"}
  /\ Voltages("classic") = {"absorb", "float", "equalize", "comp"}
  /\ Voltages("epever") = {"boost", "float", "equalize", "reconnect"}
  /\ Cells("classic") = Voltages("classic") \cup {"limit", "time"}
  /\ Cells("epever") = Voltages("epever") \cup {"current"} \cup Times
  /\ Times = {"boost_time", "equalize_time"}
  /\ \A d \in Devices : /\ Guarded(d) = Voltages(d) \ {"reconnect"}
                        /\ ScalarOf(d) \in Voltages(d) /\ Cells(d) \subseteq Words
                        /\ Voltages(d) \subseteq Cells(d)
  BY DEF Devices, Voltages, Cells, Times, Guarded, ScalarOf, Words

Cached == \A d \in Devices : cache[d] = Blank \/ Registers(d, cache[d])

\* A single command fits when its cells do.
LEMMA OneCommand ==
  ASSUME NEW d \in Devices, NEW cells \in Settings, cells # Blank, NEW cap, Fits(d, cells, cap)
  PROVE  /\ <<Write(d, cells)>> \in Seq(Command) /\ Len(<<Write(d, cells)>>) = 1
         /\ PlanFits(<<Write(d, cells)>>, cap)
<1>1. Write(d, cells) \in Command /\ Write(d, cells).device = d /\ Write(d, cells).cells = cells
  BY DEF Write, Command
<1>2. DOMAIN <<Write(d, cells)>> = {1} /\ <<Write(d, cells)>>[1] = Write(d, cells)
  OBVIOUS
<1>3. PlanFits(<<Write(d, cells)>>, cap)
  BY <1>1, <1>2, Zenon DEF PlanFits
<1> QED
  BY <1>1, <1>3

\* What the guard let through: no voltage it looked at exceeds the limit.
LEMMA GuardHolds ==
  ASSUME NEW r \in Requests, r.kind \in SettingKinds, NEW base, Verdict(r, base) = "go", Looks(r)
  PROVE  /\ cvl # Null /\ \A d \in Needs(r) : cache[d] # Blank
         /\ \A c \in DOMAIN Guards(r, base) : ~(Guards(r, base)[c] > cvl)
         /\ r.kind \in {"scalar", "nudge"} => Target(r, base) \in 1 .. 650
<1>1. ~OutOfRange(r, base)
      /\ cvl # Null /\ (\A d \in Needs(r) : cache[d] # Blank)
      /\ (\A c \in DOMAIN Guards(r, base) : ~(Guards(r, base)[c] > cvl))
  BY Zenon DEF Verdict
<1>2. ~OutOfRange(r, base)
  BY ONLY <1>1
<1>3. r.kind \in {"scalar", "nudge"} => Target(r, base) \in 1 .. 650
  BY ONLY <1>2 DEF OutOfRange
<1> QED
  BY ONLY <1>1, <1>3

LEMMA ScalarCells ==
  ASSUME NEW d \in Devices, NEW v \in Int
  PROVE  Scalar(d, v) \in [Voltages(d) -> Int]
<1>1. CASE d = "classic"
  <2> DEFINE s == [absorb |-> v, float |-> v - 1, equalize |-> v, comp |-> v]
  <2>1. DOMAIN s = {"absorb", "float", "equalize", "comp"}
    OBVIOUS
  <2>2. s.absorb \in Int /\ s.float \in Int /\ s.equalize \in Int /\ s.comp \in Int
    OBVIOUS
  <2>3. s = [c \in {"absorb", "float", "equalize", "comp"} |-> s[c]]
    BY <2>1
  <2> QED
    BY <1>1, <2>1, <2>2, <2>3, CellSets DEF Scalar
<1>2. CASE d = "epever"
  <2> DEFINE s == [boost |-> v, float |-> v, equalize |-> v, reconnect |-> v - 10]
  <2>1. DOMAIN s = {"boost", "float", "equalize", "reconnect"}
    OBVIOUS
  <2>2. s.boost \in Int /\ s.float \in Int /\ s.equalize \in Int /\ s.reconnect \in Int
    OBVIOUS
  <2>3. s = [c \in {"boost", "float", "equalize", "reconnect"} |-> s[c]]
    BY <2>1
  <2> QED
    BY <1>2, <2>1, <2>2, <2>3, CellSets DEF Scalar
<1> QED
  BY <1>1, <1>2, CellSets

LEMMA ScalarFits ==
  ASSUME NEW r \in Requests, r.kind \in {"scalar", "nudge"}, NEW base \in Int, cvl \in Nat,
         Verdict(r, base) = "go"
  PROVE  /\ Commands(r, base) \in Seq(Command) /\ Len(Commands(r, base)) >= 1
         /\ PlanFits(Commands(r, base), cvl)
<1> DEFINE d == r.device
           v == Target(r, base)
           s == Scalar(d, v)
<1>1. d \in Devices /\ v \in Int
  BY PayloadKinds DEF Target
<1>2. Commands(r, base) = <<Write(d, s)>>
  BY DEF Commands
<1>3. s \in [DOMAIN s -> Int] /\ DOMAIN s = Voltages(d)
  BY <1>1, ScalarCells
<1>4. Looks(r)
  BY DEF Looks
<1>5. Commands(r, base)[1].cells = s /\ Commands(r, base)[1].device = d
  BY <1>2 DEF Write
<1>6. Guards(r, base) = Only(s, Guarded(d))
  BY <1>5 DEF Guards
<1>7. /\ DOMAIN Only(s, Guarded(d)) = DOMAIN s \cap Guarded(d)
      /\ \A c \in DOMAIN s \cap Guarded(d) : Only(s, Guarded(d))[c] = s[c]
  BY DEF Only
<1>8. \A c \in DOMAIN s \cap Guarded(d) : s[c] <= cvl
  <2> SUFFICES ASSUME NEW c \in DOMAIN s \cap Guarded(d) PROVE s[c] <= cvl
    OBVIOUS
  <2>1. ~(s[c] > cvl)
    BY <1>4, <1>6, <1>7, GuardHolds DEF SettingKinds
  <2>2. s[c] \in Int
    BY <1>3
  <2> QED
    BY <2>1, <2>2
<1>9. s \in Settings /\ s # Blank
  <2>1. DOMAIN s \in SUBSET Words /\ DOMAIN s # {}
    BY <1>1, <1>3, CellSets
  <2>2. s \in Settings
    BY <1>3, <2>1, SomeSettings
  <2> QED
    BY <2>1, <2>2, SettingsMap
<1>10. Fits(d, s, cvl)
  BY <1>1, <1>3, <1>8, CellSets DEF Fits
<1> HIDE DEF d, v, s
<1> QED
  BY <1>1, <1>2, <1>9, <1>10, OneCommand

LEMMA ClassicSettingsFit ==
  ASSUME NEW r \in Requests, r.kind = "settings", r.device = "classic", NEW base, cvl \in Nat,
         Verdict(r, base) = "go"
  PROVE  /\ Commands(r, base) \in Seq(Command) /\ Len(Commands(r, base)) >= 1
         /\ PlanFits(Commands(r, base), cvl)
<1>1. /\ r.cells \in [DOMAIN r.cells -> Int] /\ DOMAIN r.cells # {}
      /\ DOMAIN r.cells \subseteq Cells("classic")
  BY PayloadKinds
<1>2. Commands(r, base) = <<Write("classic", r.cells)>>
  BY DEF Commands
<1>3. Commands(r, base)[1].cells = r.cells /\ Commands(r, base)[1].device = "classic"
  BY <1>2 DEF Write
<1>4. Guards(r, base) = Only(r.cells, Guarded("classic"))
  BY <1>3 DEF Guards
<1>5. \A c \in DOMAIN r.cells \cap Guarded("classic") : r.cells[c] <= cvl
  <2> SUFFICES ASSUME NEW c \in DOMAIN r.cells \cap Guarded("classic")
               PROVE  r.cells[c] <= cvl
    OBVIOUS
  <2>1. Looks(r)
    BY CellSets DEF Looks
  <2>2. ~(r.cells[c] > cvl)
    BY <1>4, <2>1, GuardHolds DEF SettingKinds, Only
  <2>3. r.cells[c] \in Int
    BY <1>1
  <2> QED
    BY <2>2, <2>3
<1>6. r.cells \in Settings /\ r.cells # Blank
  BY <1>1, CellSets, SomeSettings, SettingsMap
<1>7. Fits("classic", r.cells, cvl)
  BY <1>1, <1>5 DEF Fits
<1> QED
  BY <1>2, <1>6, <1>7, OneCommand, CellSets

\* One part of an EPEver's settings fits when its voltages do.
LEMMA PartFits ==
  ASSUME NEW r \in Requests, r.kind = "settings", r.device = "epever", NEW names, NEW cap,
         \A c \in DOMAIN r.cells \cap names \cap Guarded("epever") : r.cells[c] <= cap
  PROVE  /\ Part(r, names) \in Seq(Command) /\ PlanFits(Part(r, names), cap)
         /\ (DOMAIN r.cells \cap names # {} => Len(Part(r, names)) = 1)
<1> DEFINE cells == Only(r.cells, names)
<1>1. /\ r.cells \in [DOMAIN r.cells -> Int] /\ DOMAIN r.cells \subseteq Cells("epever")
  BY PayloadKinds
<1>2. /\ cells \in Settings /\ DOMAIN cells = DOMAIN r.cells \cap names
      /\ \A c \in DOMAIN cells : cells[c] = r.cells[c]
  <2>1. "epever" \in Devices
    BY CellSets
  <2>2. cells \in Settings
    BY <1>1, <2>1, OnlyCells
  <2> QED
    BY <2>2 DEF Only
<1>3. CASE DOMAIN r.cells \cap names = {}
  BY <1>3 DEF Part, PlanFits
<1>4. CASE DOMAIN r.cells \cap names # {}
  <2>1. cells # Blank
    BY <1>2, <1>4, SettingsMap
  <2>2. Fits("epever", cells, cap)
    BY <1>1, <1>2 DEF Fits
  <2>3. Part(r, names) = <<Write("epever", cells)>>
    BY <1>4 DEF Part
  <2> QED
    BY <1>2, <2>1, <2>2, <2>3, OneCommand, CellSets
<1> QED
  BY <1>3, <1>4

LEMMA EpeverSettingsFit ==
  ASSUME NEW r \in Requests, r.kind = "settings", r.device = "epever", NEW base, cvl \in Nat,
         Cached, Verdict(r, base) = "go"
  PROVE  /\ Commands(r, base) \in Seq(Command) /\ Len(Commands(r, base)) >= 1
         /\ PlanFits(Commands(r, base), cvl)
<1> DEFINE v == Part(r, Voltages("epever"))
           a == Part(r, {"current"})
           m == Part(r, Times)
<1>1. /\ r.cells \in [DOMAIN r.cells -> Int] /\ DOMAIN r.cells # {}
      /\ DOMAIN r.cells \subseteq Cells("epever")
  BY PayloadKinds
<1>2. Commands(r, base) = v \o a \o m
  BY DEF Commands
<1>3. a \in Seq(Command) /\ PlanFits(a, cvl)
  BY PartFits, CellSets
<1>4. m \in Seq(Command) /\ PlanFits(m, cvl)
  BY PartFits, CellSets
<1>5. v \in Seq(Command) /\ PlanFits(v, cvl)
  <2>1. CASE ~Looks(r)
    BY <2>1, PartFits DEF Looks
  <2>2. CASE Looks(r)
    <3>1. DOMAIN r.cells \cap Voltages("epever") # {}
      BY <2>2 DEF Looks
    <3>2. v = <<Write("epever", Only(r.cells, Voltages("epever")))>>
      BY <3>1 DEF Part
    <3>3. Commands(r, base)[1] = Write("epever", Only(r.cells, Voltages("epever")))
      BY <1>2, <1>3, <1>4, <3>2, PartFits
    <3>4. /\ Commands(r, base)[1].device = "epever"
          /\ Commands(r, base)[1].cells = Only(r.cells, Voltages("epever"))
      BY <3>3 DEF Write
    <3>5. Guards(r, base) = Only(Filled(Only(r.cells, Voltages("epever")), cache["epever"]),
                                 Guarded("epever"))
      BY <3>4 DEF Guards
    <3>6. \A c \in DOMAIN r.cells \cap Guarded("epever") : r.cells[c] <= cvl
      <4> SUFFICES ASSUME NEW c \in DOMAIN r.cells \cap Guarded("epever")
                   PROVE  r.cells[c] <= cvl
        OBVIOUS
      <4> DEFINE named == Only(r.cells, Voltages("epever"))
                 all == Filled(named, cache["epever"])
      <4>1. c \in DOMAIN named /\ named[c] = r.cells[c]
        BY CellSets DEF Only
      <4>2. c \in DOMAIN all /\ all[c] = r.cells[c]
        BY <4>1 DEF Filled
      <4>3. c \in DOMAIN Guards(r, base) /\ Guards(r, base)[c] = r.cells[c]
        BY <3>5, <4>2 DEF Only
      <4>4. ~(r.cells[c] > cvl)
        BY <2>2, <4>3, GuardHolds DEF SettingKinds
      <4>5. r.cells[c] \in Int
        BY <1>1
      <4> QED
        BY <4>4, <4>5
    <3> QED
      BY <3>6, PartFits
  <2> QED
    BY <2>1, <2>2
<1>6. \/ DOMAIN r.cells \cap Voltages("epever") # {}
      \/ DOMAIN r.cells \cap {"current"} # {}
      \/ DOMAIN r.cells \cap Times # {}
  BY <1>1, CellSets
<1>7. Len(v) = 1 \/ Len(a) = 1 \/ Len(m) = 1
  <2>1. CASE DOMAIN r.cells \cap Voltages("epever") # {}
    BY <2>1 DEF Part
  <2>2. CASE DOMAIN r.cells \cap {"current"} # {}
    BY <2>2 DEF Part
  <2>3. CASE DOMAIN r.cells \cap Times # {}
    BY <2>3 DEF Part
  <2> QED
    BY <1>6, <2>1, <2>2, <2>3
<1> HIDE DEF v, a, m
<1>8. /\ v \o a \o m \in Seq(Command) /\ Len(v \o a \o m) >= 1
      /\ PlanFits(v \o a \o m, cvl)
  BY <1>3, <1>4, <1>5, <1>7, PlansOfParts
<1> QED
  BY <1>2, <1>8

LEMMA SyncFits ==
  ASSUME NEW r \in Requests, r.kind = "sync", NEW base, cvl \in Nat, Cached,
         Verdict(r, base) = "go"
  PROVE  /\ Commands(r, base) \in Seq(Command) /\ Len(Commands(r, base)) >= 1
         /\ PlanFits(Commands(r, base), cvl)
<1> DEFINE s == Synced(r)
           amps == [current |-> cache["classic"]["limit"]]
           rest == IF r.current THEN <<Write("epever", amps)>> ELSE <<>>
<1>1. Looks(r) /\ Needs(r) = Devices
  BY DEF Looks, Needs
<1>2. Registers("classic", cache["classic"])
  BY <1>1, GuardHolds, CellSets DEF Cached, SettingKinds
<1>3. /\ cache["classic"]["absorb"] \in Int /\ cache["classic"]["float"] \in Int
      /\ cache["classic"]["equalize"] \in Int /\ cache["classic"]["limit"] \in Int
  BY <1>2, CellSets DEF Registers
<1>4. s \in [{"boost", "float", "equalize"} -> Int]
  <2>1. r.offset \in Int
    BY PayloadKinds
  <2>2. s.boost \in Int /\ s.float \in Int /\ s.equalize \in Int
    BY <1>3, <2>1 DEF Synced
  <2>3. DOMAIN s = {"boost", "float", "equalize"} /\ s = [c \in DOMAIN s |-> s[c]]
    BY DEF Synced
  <2> QED
    BY <2>2, <2>3
<1> HIDE DEF s
<1>5. Commands(r, base) = <<Write("epever", s)>> \o rest
  BY DEF Commands, s
<1>6. <<Write("epever", s)>> \o rest \in Seq(Command) /\ PlanFits(<<Write("epever", s)>> \o rest, cvl)
      /\ Len(<<Write("epever", s)>> \o rest) >= 1
  <2>1. (<<Write("epever", s)>> \o rest)[1] = Write("epever", s)
    OBVIOUS
  <2>2. Commands(r, base)[1].cells = s /\ Commands(r, base)[1].device = "epever"
    BY <1>5, <2>1 DEF Write
  <2>3. Guards(r, base) = Only(s, Guarded("epever"))
    BY <2>2 DEF Guards
  <2>4. \A c \in DOMAIN s \cap Guarded("epever") : s[c] <= cvl
    <3> SUFFICES ASSUME NEW c \in DOMAIN s \cap Guarded("epever") PROVE s[c] <= cvl
      OBVIOUS
    <3>1. ~(s[c] > cvl)
      BY <1>1, <2>3, GuardHolds DEF SettingKinds, Only
    <3>2. s[c] \in Int
      BY <1>4
    <3> QED
      BY <3>1, <3>2
  <2>5. s \in Settings /\ s # Blank /\ DOMAIN s \subseteq Cells("epever")
    <3>1. DOMAIN s \in SUBSET Words /\ DOMAIN s # {} /\ DOMAIN s \subseteq Cells("epever")
      BY <1>4, CellSets
    <3>2. s \in Settings
      BY <1>4, <3>1, SomeSettings
    <3> QED
      BY <3>1, <3>2, SettingsMap
  <2>6. amps \in Settings /\ amps # Blank /\ Fits("epever", amps, cvl)
    <3>1. DOMAIN amps = {"current"} /\ amps["current"] \in Int /\ amps = [c \in DOMAIN amps |-> amps[c]]
      BY <1>3
    <3>2. {"current"} \in SUBSET Words /\ {"current"} \subseteq Cells("epever")
          /\ {"current"} \cap Guarded("epever") = {}
      BY CellSets
    <3>3. amps \in [{"current"} -> Int]
      BY <3>1
    <3> HIDE DEF amps
    <3>4. amps \in Settings
      BY <3>2, <3>3, SomeSettings
    <3> QED
      BY <3>1, <3>2, <3>4, SettingsMap DEF Fits
  <2> HIDE DEF amps
  <2>7. /\ <<Write("epever", s)>> \in Seq(Command) /\ Len(<<Write("epever", s)>>) = 1
        /\ PlanFits(<<Write("epever", s)>>, cvl)
    BY <2>4, <2>5, OneCommand, CellSets DEF Fits
  <2>8. rest \in Seq(Command) /\ Len(rest) >= 0 /\ PlanFits(rest, cvl)
    <3>1. CASE r.current
      BY <2>6, <3>1, OneCommand, CellSets
    <3>2. CASE ~r.current
      BY <3>2 DEF PlanFits
    <3> QED
      BY <3>1, <3>2
  <2> DEFINE w == <<Write("epever", s)>>
  <2> HIDE DEF w, rest
  <2>9. w \o rest \in Seq(Command) /\ Len(w \o rest) = Len(w) + Len(rest)
    BY <2>7, <2>8 DEF w
  <2>10. \A i \in DOMAIN (w \o rest) : \/ \E j \in DOMAIN w : (w \o rest)[i] = w[j]
                                       \/ \E j \in DOMAIN rest : (w \o rest)[i] = rest[j]
    <3>1. \A i \in DOMAIN (w \o rest) :
            IF i <= Len(w) THEN i \in DOMAIN w /\ (w \o rest)[i] = w[i]
            ELSE i - Len(w) \in DOMAIN rest /\ (w \o rest)[i] = rest[i - Len(w)]
      BY <2>7, <2>8 DEF w
    <3> QED
      BY <3>1
  <2>11. PlanFits(w \o rest, cvl)
    BY <2>7, <2>8, <2>10, Zenon DEF PlanFits, w
  <2> QED
    BY <2>7, <2>8, <2>9, <2>11 DEF w
<1> QED
  BY <1>5, <1>6

\* Whatever a request may plan once the guard let it through: some commands, none
\* empty, none of a foreign cell, none above the limit the guard went by.
LEMMA CommandsFit ==
  ASSUME NEW r \in Requests, r.kind \in SettingKinds, NEW base \in Int, cvl \in Nat, Cached,
         Verdict(r, base) = "go"
  PROVE  /\ Commands(r, base) \in Seq(Command) /\ Len(Commands(r, base)) >= 1
         /\ PlanFits(Commands(r, base), cvl)
<1>1. CASE r.kind \in {"scalar", "nudge"}
  BY <1>1, ScalarFits
<1>2. CASE r.kind = "settings"
  <2>1. r.device = "classic" \/ r.device = "epever"
    BY <1>2, PayloadKinds, CellSets
  <2> QED
    BY <1>2, <2>1, ClassicSettingsFit, EpeverSettingsFit
<1>3. CASE r.kind = "sync"
  BY <1>3, SyncFits
<1> QED
  BY <1>1, <1>2, <1>3 DEF SettingKinds

-----------------------------------------------------------------------------
\* What a command may leave behind: nothing, or cells it named with the values it
\* named, of the EPEver a sound block; and all of them if it was done.
LEMMA OutcomesBounded ==
  ASSUME NEW c, c.device \in Devices, c.cells \in Settings,
         NEW o \in Outcomes(c)
  PROVE  /\ o.result \in {"done", "bad_request"} \cup Failures
         /\ DOMAIN o.cells \subseteq DOMAIN c.cells
         /\ \A x \in DOMAIN o.cells : o.cells[x] = c.cells[x]
         /\ o.result = "done" => o.cells = c.cells
         /\ c.cells = Blank => o.cells = Blank
         /\ c.device = "epever" /\ DOMAIN o.cells \cap Voltages("epever") # {}
              => Sound(Filled(o.cells, block["epever"]))
<1>1. \A cells, result : Outcome(cells, result).cells = cells /\ Outcome(cells, result).result = result
  BY DEF Outcome
<1>2. DOMAIN Blank = {}
  BY DEF Blank
<1>3. CASE \E f \in Failures : o = Outcome(Blank, f)
  BY <1>1, <1>2, <1>3 DEF Failures
<1>4. CASE c.cells = Blank /\ o = Outcome(Blank, "done")
  BY <1>1, <1>2, <1>4 DEF Failures
<1>5. CASE o = Outcome(Blank, "bad_request")
  BY <1>1, <1>2, <1>5 DEF Failures
<1>6. CASE Valid(c) /\ o = Outcome(c.cells, "done")
  BY <1>1, <1>6 DEF Valid
<1>7. ASSUME NEW cells \in Begun(c), NEW f \in Failures, Valid(c), o = Outcome(cells, f)
      PROVE  /\ DOMAIN cells \subseteq DOMAIN c.cells
             /\ \A x \in DOMAIN cells : cells[x] = c.cells[x]
             /\ c.device = "epever" /\ DOMAIN cells \cap Voltages("epever") # {}
                  => Sound(Filled(cells, block["epever"]))
  <2>1. CASE c.device = "epever" /\ DOMAIN c.cells \cap Times = {}
    BY <1>7, <2>1 DEF Begun, Valid
  <2>2. CASE ~(c.device = "epever" /\ DOMAIN c.cells \cap Times = {})
    <3>1. PICK k \in DOMAIN Order(c.device) :
            cells = Only(c.cells, {Order(c.device)[i] : i \in 1 .. k})
      BY <1>7, <2>2 DEF Begun
    <3>2. c.device = "epever" => {Order(c.device)[i] : i \in 1 .. k} \subseteq Times
      BY <3>1 DEF Order, Times
    <3>3. c.device = "epever" => DOMAIN cells \cap Voltages("epever") = {}
      BY <3>1, <3>2, CellSets DEF Only
    <3> QED
      BY <3>1, <3>3 DEF Only
  <2> QED
    BY <2>1, <2>2
<1>8. \/ \E f \in Failures : o = Outcome(Blank, f)
      \/ c.cells = Blank /\ o = Outcome(Blank, "done")
      \/ o = Outcome(Blank, "bad_request")
      \/ c.cells # Blank /\ Valid(c) /\ o = Outcome(c.cells, "done")
      \/ c.cells # Blank /\ Valid(c) /\ \E cells \in Begun(c), f \in Failures : o = Outcome(cells, f)
  BY DEF Outcomes
<1>9. CASE c.cells # Blank /\ Valid(c) /\ \E cells \in Begun(c), f \in Failures : o = Outcome(cells, f)
  BY <1>1, <1>7, <1>9 DEF Failures
<1> QED
  BY <1>3, <1>4, <1>5, <1>6, <1>8, <1>9

-----------------------------------------------------------------------------
(* The inductive invariant.                                                  *)

Awaited == {"base", "wait"}
Asked == {"read", "look", "send"} \cup Awaited
Answers == {"bad_request", "conflict", "dropped", "ok"}
Values(key) == IF key = "factor" THEN Int ELSE [Devices -> BOOLEAN]
Document == {f \in UNION {[names -> Int \cup [Devices -> BOOLEAN]] : names \in SUBSET Keys} :
               \A key \in DOMAIN f : f[key] \in Values(key)}

\* Where a request may be, and what it carries there.
CallType(c) ==
  \/ c = [pc |-> "idle"]
  \/ /\ c \in [pc : Asked, req : Requests, base : Int, plan : Seq(Command), next : Nat]
     /\ c.req.kind \in SettingKinds
     /\ c.pc \in {"read", "base"} => c.req.kind = "nudge"
  \/ /\ c \in [pc : {"edit"}, req : Requests, base : Int, plan : Seq(Command), next : Nat]
     /\ c.req.kind \in EditKinds
  \/ c \in [pc : {"save", "replace"}, req : Requests, edit : Document] /\ c.req.kind \in EditKinds
  \/ c \in [pc : {"over"}, answer : Answers, plan : Seq(Command)]

BlocksType ==
  /\ block = [d \in Devices |-> block[d]]
  /\ \A d \in Devices : Registers(d, block[d])

CacheType ==
  /\ cache = [d \in Devices |-> cache[d]]
  /\ Cached

QueueType == queue \in [Devices -> Seq(Entry)]

CallsType ==
  /\ call = [t \in Threads |-> call[t]]
  /\ \A t \in Threads : CallType(call[t])

HistoryType ==
  /\ cvl \in Nat
  /\ ran \in [Threads -> SUBSET Nat] /\ \A t \in Threads : IsFiniteSet(ran[t])
  /\ peak \in [Threads -> Nat]
  /\ DOMAIN seen = Threads

StateType ==
  /\ enabled \in [Devices -> BOOLEAN]
  /\ factor \in Int
  /\ file \in Document

\* The highest limit since a request arrived is at least the snapshot's.
PeakInv == \A t \in Threads : UnderWay(t) => cvl <= peak[t]

\* What a request plans fits below that limit, and the commands before the next
\* one, and only they, have taken effect.
PlanOf(c, done, cap) ==
  /\ c.pc \in {"send", "wait"} =>
       /\ c.next \in DOMAIN c.plan
       /\ PlanFits(c.plan, cap)
       /\ done = 1 .. (c.next - 1)
  /\ c.pc \in {"read", "base", "look"} => c.next = 1
  /\ c.pc \notin {"send", "wait", "over"} => done = {}
  /\ c.pc = "over" /\ c.answer = "ok" => done = DOMAIN c.plan
PlanInv == \A t \in Threads : PlanOf(call[t], ran[t], peak[t])

\* A queued command fits, belongs to a thread that waits for it or has given up,
\* and is the one that thread waits for.
EntryOf(e, d, c, cap) ==
  /\ Fits(d, e.cells, cap)
  /\ e.device = d
  /\ c.pc \in Awaited \/ (c.pc = "over" /\ c.answer = "dropped")
  /\ c.pc = "base" => d = c.req.device /\ e.cells = Blank
  /\ c.pc = "wait" => e.cells = c.plan[c.next].cells
EntryInv ==
  \A d \in Devices : \A i \in DOMAIN queue[d] :
    EntryOf(queue[d][i], d, call[queue[d][i].by], peak[queue[d][i].by])

\* No thread has two commands queued.
SingleInv ==
  \A d1, d2 \in Devices : \A i \in DOMAIN queue[d1] : \A j \in DOMAIN queue[d2] :
    queue[d1][i].by = queue[d2][j].by => d1 = d2 /\ i = j

\* While a nudge is under way, the setpoint the device has is among the seen ones.
NudgeInv ==
  \A t \in Threads :
    /\ \A d \in Devices : Nudging(t, d) => block[d][ScalarOf(d)] \in seen[t]
    /\ call[t].pc \in {"look", "send", "wait"} /\ call[t].req.kind = "nudge"
         => call[t].base \in seen[t]

\* A save that no other edit of its key overlaps carries the value in force; under the
\* lock it also carries, or rightly leaves out, what the file is to say of the other key.
SaveInv ==
  /\ \A t \in Threads : call[t].pc = "save" => DOMAIN call[t].edit = {Key(call[t].req)}
  /\ \A t \in Threads : call[t].pc = "replace" =>
       /\ lock = t /\ Key(call[t].req) \in DOMAIN call[t].edit
       /\ \A key \in Keys \ ({Key(call[t].req)} \cup strayed) :
            (\A u \in Threads : ~Saving(u, key)) => Stored(call[t].edit, key) = Memory[key]
  /\ \A key \in Keys \ strayed : \A t \in Threads : Saving(t, key) =>
       /\ call[t].edit[key] = Memory[key]
       /\ \A u \in Threads : Saving(u, key) => u = t

-----------------------------------------------------------------------------
(* How each step moves its request.                                          *)

LEMMA CallFields ==
  ASSUME NEW c, CallType(c)
  PROVE  /\ c.pc \in {"idle", "edit", "save", "replace", "over"} \cup Asked
         /\ c.pc \in Asked =>
              /\ c \in [pc : Asked, req : Requests, base : Int, plan : Seq(Command), next : Nat]
              /\ c.req.kind \in SettingKinds
              /\ c.pc \in {"read", "base"} => c.req.kind = "nudge"
         /\ c.pc = "edit" => c.req \in Requests /\ c.req.kind \in EditKinds
         /\ c.pc \in {"save", "replace"} =>
              /\ c.req \in Requests /\ c.req.kind \in EditKinds
              /\ c.edit \in Document
         /\ c.pc = "over" => c.answer \in Answers /\ c.plan \in Seq(Command)
<1> USE DEF Asked, Awaited
<1>1. CASE c = [pc |-> "idle"]
  BY <1>1
<1>2. CASE /\ c \in [pc : Asked, req : Requests, base : Int, plan : Seq(Command), next : Nat]
           /\ c.req.kind \in SettingKinds
           /\ c.pc \in {"read", "base"} => c.req.kind = "nudge"
  BY <1>2
<1>3. CASE /\ c \in [pc : {"edit"}, req : Requests, base : Int, plan : Seq(Command), next : Nat]
           /\ c.req.kind \in EditKinds
  BY <1>3
<1>4. CASE /\ c \in [pc : {"save", "replace"}, req : Requests, edit : Document]
           /\ c.req.kind \in EditKinds
  BY <1>4
<1>5. CASE c \in [pc : {"over"}, answer : Answers, plan : Seq(Command)]
  BY <1>5
<1> QED
  BY <1>1, <1>2, <1>3, <1>4, <1>5 DEF CallType

LEMMA OverType ==
  ASSUME NEW answer \in Answers
  PROVE  /\ CallType(Over(answer)) /\ Over(answer).pc = "over"
         /\ Over(answer).answer = answer /\ Over(answer).plan = <<>>
  BY DEF Over, CallType

LEMMA DoneType ==
  ASSUME NEW plan \in Seq(Command)
  PROVE  /\ CallType([Over("ok") EXCEPT !.plan = plan])
         /\ [Over("ok") EXCEPT !.plan = plan].pc = "over"
         /\ [Over("ok") EXCEPT !.plan = plan].answer = "ok"
         /\ [Over("ok") EXCEPT !.plan = plan].plan = plan
  BY DEF Over, CallType, Answers

\* A step that moves one thread keeps the others where they are.
LEMMA OneMoves ==
  ASSUME CallsType, NEW t \in Threads, NEW x, CallType(x), call' = [call EXCEPT ![t] = x]
  PROVE  /\ CallsType' /\ call'[t] = x
         /\ \A u \in Threads \ {t} : call'[u] = call[u]
  BY DEF CallsType, CallType

Others(t) == \A u \in Threads \ {t} : call'[u] = call[u]

LEMMA AskMoves ==
  ASSUME CallsType, NEW t \in Threads, NEW r \in Requests, Ask(t, r)
  PROVE  /\ CallsType' /\ Others(t)
         /\ call[t].pc = "idle"
         /\ \/ call'[t].pc = "over" /\ call'[t].answer = "bad_request"
            \/ call'[t].pc \in {"read", "look", "edit"} /\ call'[t].req = r /\ call'[t].next = 1
<1> DEFINE over == Over("bad_request")
           pc == CASE r.kind = "nudge" -> "read"
                   [] r.kind \in EditKinds -> "edit"
                   [] OTHER -> "look"
           asked == [pc |-> pc, req |-> r, base |-> Null, plan |-> <<>>, next |-> 1]
<1>1. call' = [call EXCEPT ![t] = over] \/ call' = [call EXCEPT ![t] = asked]
  BY DEF Ask, EditKinds
<1>2. CallType(over)
  BY OverType DEF Answers
<1>3. CallType(asked)
  <2>1. <<>> \in Seq(Command) /\ Null \in Int /\ 1 \in Nat
    BY DEF Null
  <2>2. r.kind \in SettingKinds \cup EditKinds
    BY PayloadKinds
  <2>3. CASE r.kind \in EditKinds
    <3>1. pc = "edit"
      BY <2>3 DEF EditKinds
    <3> QED
      BY <2>1, <2>3, <3>1 DEF CallType
  <2>4. CASE r.kind \in SettingKinds
    <3>1. pc \in Asked /\ (pc \in {"read", "base"} => r.kind = "nudge")
      BY <2>4 DEF EditKinds, SettingKinds, Asked
    <3> HIDE DEF pc
    <3> QED
      BY <2>1, <2>4, <3>1 DEF CallType
  <2> QED
    BY <2>2, <2>3, <2>4
<1>4. /\ asked.pc \in {"read", "look", "edit"} /\ asked.req = r /\ asked.next = 1
      /\ over.pc = "over" /\ over.answer = "bad_request" /\ call[t].pc = "idle"
  <2>1. pc \in {"read", "look", "edit"} /\ asked.pc = pc /\ asked.req = r /\ asked.next = 1
    OBVIOUS
  <2> QED
    BY <2>1, OverType DEF Ask, Answers
<1> HIDE DEF asked, over
<1> QED
  BY <1>1, <1>2, <1>3, <1>4, OneMoves DEF Others

LEMMA LookMoves ==
  ASSUME CallsType, Cached, cvl \in Nat, NEW t \in Threads, Look(t)
  PROVE  /\ CallsType' /\ Others(t)
         /\ call[t].pc = "look"
         /\ \/ call'[t].pc = "over" /\ call'[t].answer \in {"bad_request", "conflict"}
            \/ /\ call'[t].pc = "send" /\ Verdict(call[t].req, call[t].base) = "go"
               /\ call'[t].plan = Commands(call[t].req, call[t].base)
               /\ call'[t].req = call[t].req /\ call'[t].base = call[t].base
               /\ call'[t].next = call[t].next
<1> DEFINE c == call[t]
           v == Verdict(c.req, c.base)
           sent == [c EXCEPT !.pc = "send", !.plan = Commands(c.req, c.base)]
<1>1. /\ c.pc = "look"
      /\ IF v # "go" THEN call' = [call EXCEPT ![t] = Over(v)] ELSE call' = [call EXCEPT ![t] = sent]
  BY DEF Look
<1>2. /\ c \in [pc : Asked, req : Requests, base : Int, plan : Seq(Command), next : Nat]
      /\ c.req.kind \in SettingKinds
  BY <1>1, CallFields DEF CallsType, Asked
<1>3. v \in {"bad_request", "conflict", "go"}
  BY DEF Verdict
<1>4. CASE v # "go"
  <2>1. v \in Answers /\ v \in {"bad_request", "conflict"}
    BY <1>3, <1>4 DEF Answers
  <2> HIDE DEF v
  <2> QED
    BY <1>1, <1>4, <2>1, OverType, OneMoves DEF Others
<1>5. CASE v = "go"
  <2>1. Commands(c.req, c.base) \in Seq(Command)
    BY <1>2, <1>5, CommandsFit
  <2>2. /\ sent \in [pc : {"send"}, req : Requests, base : Int, plan : Seq(Command), next : Nat]
        /\ sent.pc = "send" /\ sent.plan = Commands(c.req, c.base)
        /\ sent.req = c.req /\ sent.base = c.base /\ sent.next = c.next
    BY <1>2, <2>1
  <2>3. CallType(sent)
    BY <1>2, <2>2 DEF CallType, Asked
  <2> HIDE DEF sent
  <2> QED
    BY <1>1, <1>5, <2>2, <2>3, OneMoves DEF Others
<1> QED
  BY <1>4, <1>5

LEMMA SubmitMoves ==
  ASSUME CallsType, NEW t \in Threads, call[t].pc \in Asked, NEW pc \in Asked,
         pc \in {"read", "base"} => call[t].req.kind = "nudge", NEW c, Submit(t, c, pc)
  PROVE  /\ CallsType' /\ Others(t)
         /\ \/ ~enabled[c.device] /\ call'[t].pc = "over" /\ call'[t].answer = "conflict"
               /\ UNCHANGED queue
            \/ /\ call'[t].pc = pc /\ call'[t].req = call[t].req /\ call'[t].base = call[t].base
               /\ call'[t].plan = call[t].plan /\ call'[t].next = call[t].next
               /\ queue' = [queue EXCEPT ![c.device] =
                              Append(@, [device |-> c.device, cells |-> c.cells, by |-> t])]
<1> DEFINE moved == [call[t] EXCEPT !.pc = pc]
<1>1. /\ call[t] \in [pc : Asked, req : Requests, base : Int, plan : Seq(Command), next : Nat]
      /\ call[t].req.kind \in SettingKinds
  BY CallFields DEF CallsType
<1>2. CASE ~enabled[c.device]
  <2>1. call' = [call EXCEPT ![t] = Over("conflict")] /\ UNCHANGED queue
    BY <1>2 DEF Submit
  <2> QED
    BY <1>2, <2>1, OverType, OneMoves, ZenonT(60) DEF Answers, Others
<1>3. CASE enabled[c.device]
  <2>1. /\ call' = [call EXCEPT ![t] = moved]
        /\ queue' = [queue EXCEPT ![c.device] =
                       Append(@, [device |-> c.device, cells |-> c.cells, by |-> t])]
    BY <1>1, <1>3 DEF Submit, CallsType
  <2>2. /\ moved \in [pc : Asked, req : Requests, base : Int, plan : Seq(Command), next : Nat]
        /\ moved.pc = pc /\ moved.req = call[t].req /\ moved.base = call[t].base
        /\ moved.plan = call[t].plan /\ moved.next = call[t].next
    BY <1>1
  <2>3. CallType(moved)
    BY <1>1, <2>2 DEF CallType
  <2> HIDE DEF moved
  <2> QED
    BY <2>1, <2>2, <2>3, OneMoves DEF Others
<1> QED
  BY <1>2, <1>3

LEMMA GiveUpMoves ==
  ASSUME CallsType, NEW t \in Threads, GiveUp(t)
  PROVE  /\ CallsType' /\ Others(t) /\ call[t].pc \in Awaited
         /\ call'[t].pc = "over" /\ call'[t].answer = "dropped"
<1>1. call' = [call EXCEPT ![t] = Over("dropped")] /\ call[t].pc \in Awaited
  BY DEF GiveUp, Awaited
<1> QED
  BY <1>1, OverType, OneMoves DEF Answers, Others

\* What the command that an actor ran may have left behind.
Bounded(d, e, o) ==
  /\ o.result \in {"done", "bad_request"} \cup Failures
  /\ DOMAIN o.cells \subseteq DOMAIN e.cells
  /\ \A x \in DOMAIN o.cells : o.cells[x] = e.cells[x]
  /\ o.result = "done" => o.cells = e.cells
  /\ e.cells = Blank => o.cells = Blank
  /\ d = "epever" /\ DOMAIN o.cells \cap Voltages("epever") # {}
       => Sound(Filled(o.cells, block["epever"]))

\* Where it leaves the request that waits for it.
Goes(t, d, o) ==
  \/ call[t].pc \notin Awaited /\ call'[t] = call[t]
  \/ call[t].pc \in Awaited /\ o.result # "done" /\ call'[t].pc = "over" /\ call'[t].answer = o.result
  \/ /\ call[t].pc = "base" /\ call'[t].pc = "look" /\ call'[t].req = call[t].req
     /\ call'[t].base = block[d][ScalarOf(d)] /\ call'[t].next = call[t].next
  \/ /\ call[t].pc = "wait" /\ o.result = "done" /\ call[t].next = Len(call[t].plan)
     /\ call'[t].pc = "over" /\ call'[t].answer = "ok" /\ call'[t].plan = call[t].plan
  \/ /\ call[t].pc = "wait" /\ o.result = "done" /\ call[t].next # Len(call[t].plan)
     /\ call'[t].pc = "send" /\ call'[t].next = call[t].next + 1
     /\ call'[t].plan = call[t].plan /\ call'[t].req = call[t].req /\ call'[t].base = call[t].base

LEMMA ReturnedType ==
  ASSUME BlocksType, CallsType, NEW t \in Threads, call[t].pc \in Awaited,
         NEW d \in Devices, NEW c, c.device = d, NEW o,
         o.result \in {"done", "bad_request"} \cup Failures,
         NEW x, x = Returned(t, c, o.result)
  PROVE  /\ CallType(x)
         /\ \/ o.result # "done" /\ x.pc = "over" /\ x.answer = o.result
            \/ /\ call[t].pc = "base" /\ x.pc = "look" /\ x.req = call[t].req
               /\ x.base = block[d][ScalarOf(d)] /\ x.next = call[t].next
            \/ /\ call[t].pc = "wait" /\ o.result = "done" /\ call[t].next = Len(call[t].plan)
               /\ x.pc = "over" /\ x.answer = "ok" /\ x.plan = call[t].plan
            \/ /\ call[t].pc = "wait" /\ o.result = "done" /\ call[t].next # Len(call[t].plan)
               /\ x.pc = "send" /\ x.next = call[t].next + 1
               /\ x.plan = call[t].plan /\ x.req = call[t].req /\ x.base = call[t].base
<1>1. /\ call[t] \in [pc : Asked, req : Requests, base : Int, plan : Seq(Command), next : Nat]
      /\ call[t].req.kind \in SettingKinds
  BY CallFields DEF CallsType, Asked
<1>2. CASE o.result # "done"
  <2>1. o.result \in Answers /\ x = Over(o.result)
    BY <1>2 DEF Answers, Failures, Returned
  <2> QED
    BY <1>2, <2>1, OverType
<1>3. CASE o.result = "done" /\ call[t].pc = "base"
  <2> DEFINE b == block[d][ScalarOf(d)]
             y == [call[t] EXCEPT !.pc = "look", !.base = b]
  <2>1. x = y
    BY <1>3 DEF Returned
  <2>2. b \in Int
    BY CellSets DEF BlocksType, Registers
  <2> HIDE DEF b
  <2>3. /\ y \in [pc : Asked, req : Requests, base : Int, plan : Seq(Command), next : Nat]
        /\ y.pc = "look" /\ y.req = call[t].req /\ y.base = b /\ y.next = call[t].next
    BY <1>1, <2>2 DEF Asked
  <2>4. CallType(y)
    BY <1>1, <2>3 DEF CallType
  <2> HIDE DEF y
  <2> QED
    BY <1>3, <2>1, <2>3, <2>4 DEF b
<1>4. CASE o.result = "done" /\ call[t].pc = "wait" /\ call[t].next = Len(call[t].plan)
  <2>1. x = [Over("ok") EXCEPT !.plan = call[t].plan]
    BY <1>4 DEF Returned
  <2>2. call[t].plan \in Seq(Command)
    BY <1>1
  <2> QED
    BY <1>4, <2>1, <2>2, DoneType
<1>5. CASE o.result = "done" /\ call[t].pc = "wait" /\ call[t].next # Len(call[t].plan)
  <2> DEFINE n == call[t].next + 1
             y == [call[t] EXCEPT !.pc = "send", !.next = n]
  <2>1. x = y
    BY <1>1, <1>5 DEF Returned
  <2>2. n \in Nat
    BY <1>1
  <2> HIDE DEF n
  <2>3. /\ y \in [pc : Asked, req : Requests, base : Int, plan : Seq(Command), next : Nat]
        /\ y.pc = "send" /\ y.next = n
        /\ y.plan = call[t].plan /\ y.req = call[t].req /\ y.base = call[t].base
    BY <1>1, <2>2 DEF Asked
  <2>4. CallType(y)
    BY <1>1, <2>3 DEF CallType
  <2> HIDE DEF y
  <2> QED
    BY <1>5, <2>1, <2>3, <2>4 DEF n
<1> QED
  BY <1>2, <1>3, <1>4, <1>5 DEF Awaited

LEMMA RunMoves ==
  ASSUME BlocksType, QueueType, CallsType, NEW d \in Devices, Run(d), Head(queue[d]).device = d
  PROVE  LET e == Head(queue[d])
             t == e.by
             n == Cardinality(ran[t]) + 1 IN
         /\ queue[d] # <<>> /\ e \in Entry /\ t \in Threads
         /\ queue' = [queue EXCEPT ![d] = Tail(@)]
         /\ CallsType' /\ Others(t)
         /\ \E o : /\ Bounded(d, e, o) /\ Goes(t, d, o)
                   /\ block' = [block EXCEPT ![d] = Filled(o.cells, @)]
                   /\ ran' = [ran EXCEPT ![t] = IF o.cells # Blank /\ o.cells = e.cells
                                                THEN @ \cup {n} ELSE @]
<1> DEFINE e == Head(queue[d])
           t == e.by
           n == Cardinality(ran[t]) + 1
<1>1. queue[d] # <<>> /\ queue' = [queue EXCEPT ![d] = Tail(@)]
  BY DEF Run
<1>2. e \in Entry
  BY <1>1 DEF QueueType
<1>3. t \in Threads /\ e.device = d /\ e.cells \in Settings
  BY <1>2 DEF Entry
<1>4. PICK o \in (IF enabled[d] THEN Outcomes(e) ELSE {Outcome(Blank, "conflict")}) :
        /\ block' = [block EXCEPT ![d] = Filled(o.cells, @)]
        /\ ran' = [ran EXCEPT ![t] = IF o.cells # Blank /\ o.cells = e.cells
                                     THEN @ \cup {n} ELSE @]
        /\ call' = [call EXCEPT ![t] = IF @.pc \in {"base", "wait"}
                                       THEN Returned(t, e, o.result) ELSE @]
  BY DEF Run
<1>5. Bounded(d, e, o)
  <2>1. CASE enabled[d]
    BY <1>3, <1>4, <2>1, OutcomesBounded DEF Bounded
  <2>2. CASE ~enabled[d]
    <3>1. o = Outcome(Blank, "conflict")
      BY <1>4, <2>2
    <3>2. o.cells = Blank /\ o.result = "conflict" /\ DOMAIN o.cells = {}
      BY <3>1 DEF Outcome, Blank
    <3> QED
      BY <3>2 DEF Bounded, Failures
  <2> QED
    BY <2>1, <2>2
<1>6. CallsType' /\ Others(t) /\ Goes(t, d, o)
  <2>1. CASE call[t].pc \notin Awaited
    <3>1. call' = [call EXCEPT ![t] = call[t]]
      BY <1>3, <1>4, <2>1 DEF Awaited, CallsType
    <3> QED
      BY <1>3, <2>1, <3>1, OneMoves, Zenon DEF CallsType, Others, Goes
  <2>2. CASE call[t].pc \in Awaited
    <3> DEFINE x == Returned(t, e, o.result)
    <3>1. call' = [call EXCEPT ![t] = x]
      BY <1>3, <1>4, <2>2 DEF Awaited, CallsType
    <3>2. o.result \in {"done", "bad_request"} \cup Failures
      BY <1>5 DEF Bounded
    <3> HIDE DEF x, e, t
    <3>3. /\ CallType(x)
         /\ \/ o.result # "done" /\ x.pc = "over" /\ x.answer = o.result
            \/ /\ call[t].pc = "base" /\ x.pc = "look" /\ x.req = call[t].req
               /\ x.base = block[d][ScalarOf(d)] /\ x.next = call[t].next
            \/ /\ call[t].pc = "wait" /\ o.result = "done" /\ call[t].next = Len(call[t].plan)
               /\ x.pc = "over" /\ x.answer = "ok" /\ x.plan = call[t].plan
            \/ /\ call[t].pc = "wait" /\ o.result = "done" /\ call[t].next # Len(call[t].plan)
               /\ x.pc = "send" /\ x.next = call[t].next + 1
               /\ x.plan = call[t].plan /\ x.req = call[t].req /\ x.base = call[t].base
      BY <1>3, <2>2, <3>2, ReturnedType DEF x
    <3>4. CallsType' /\ call'[t] = x /\ Others(t)
      BY <1>3, <3>1, <3>3, OneMoves DEF Others
    <3> QED
      BY <2>2, <3>3, <3>4 DEF Goes
  <2> QED
    BY <2>1, <2>2
<1> QED
  BY <1>1, <1>2, <1>3, <1>4, <1>5, <1>6

\* Documents: the empty one, and one completed by another.
LEMMA BlankDocument ==
  Blank \in Document /\ DOMAIN Blank = {} /\ \A key : Stored(Blank, key) = Configured[key]
<1>1. DOMAIN Blank = {}
  BY DEF Blank
<1>2. Blank \in [{} -> Int \cup [Devices -> BOOLEAN]]
  BY DEF Blank
<1>3. Blank \in UNION {[names -> Int \cup [Devices -> BOOLEAN]] : names \in SUBSET Keys}
  BY <1>2, Zenon
<1> QED
  BY <1>1, <1>3, Zenon DEF Document, Stored

LEMMA DocumentMap ==
  ASSUME NEW names \in SUBSET Keys, NEW f,
         f = [key \in names |-> f[key]], \A key \in names : f[key] \in Values(key)
  PROVE  f \in Document
<1>1. f \in [names -> Int \cup [Devices -> BOOLEAN]]
  BY DEF Values
<1>2. DOMAIN f = names
  BY <1>1
<1> QED
  BY <1>1, <1>2 DEF Document

LEMMA DocumentOf ==
  ASSUME NEW f \in Document
  PROVE  /\ DOMAIN f \subseteq Keys /\ f = [key \in DOMAIN f |-> f[key]]
         /\ \A key \in DOMAIN f : f[key] \in Values(key)
<1>1. PICK names \in SUBSET Keys : f \in [names -> Int \cup [Devices -> BOOLEAN]]
  BY DEF Document
<1> QED
  BY <1>1 DEF Document

LEMMA FilledDocument ==
  ASSUME NEW f \in Document, NEW g \in Document
  PROVE  /\ Filled(f, g) \in Document /\ DOMAIN Filled(f, g) = DOMAIN f \cup DOMAIN g
         /\ \A key \in DOMAIN f : Filled(f, g)[key] = f[key]
         /\ \A key \in Keys \ DOMAIN f : Stored(Filled(f, g), key) = Stored(g, key)
<1> DEFINE h == Filled(f, g)
           names == DOMAIN f \cup DOMAIN g
<1>1. names \in SUBSET Keys
  BY DocumentOf
<1>2. h = [key \in names |-> IF key \in DOMAIN f THEN f[key] ELSE g[key]]
  BY DEF Filled
<1> HIDE DEF h, names
<1>3. DOMAIN h = names /\ \A key \in names : h[key] = IF key \in DOMAIN f THEN f[key] ELSE g[key]
  BY <1>2
<1>4. h = [key \in names |-> h[key]]
  BY <1>2
<1>5. \A key \in names : h[key] \in Values(key)
  BY <1>3, DocumentOf DEF names
<1>6. h \in Document
  BY <1>1, <1>4, <1>5, DocumentMap
<1>7. \A key \in Keys \ DOMAIN f : Stored(h, key) = Stored(g, key)
  BY <1>3 DEF Stored, names
<1> QED
  BY <1>3, <1>6, <1>7 DEF h, names

LEMMA KeyOf ==
  ASSUME NEW r \in Requests
  PROVE  Key(r) \in Keys /\ (Key(r) = "enabled" <=> r.kind = "switch")
  BY DEF Key, Keys

\* The record that an edit leaves to be saved.
LEMMA EditedType ==
  ASSUME CallsType, NEW t \in Threads, call[t].pc = "edit",
         NEW key, key = Key(call[t].req), NEW value \in Values(key), Edited(t, key, value)
  PROVE  /\ CallsType' /\ Others(t)
         /\ call'[t].pc = "save" /\ call'[t].req = call[t].req
         /\ DOMAIN call'[t].edit = {key} /\ call'[t].edit[key] = value
<1> DEFINE edit == [k \in {key} |-> value]
           x == [pc |-> "save", req |-> call[t].req, edit |-> edit]
<1>1. call[t].req \in Requests /\ call[t].req.kind \in EditKinds
  BY CallFields DEF CallsType
<1>2. key \in Keys
  BY <1>1, KeyOf
<1>3. DOMAIN edit = {key} /\ edit[key] = value /\ edit = [k \in {key} |-> edit[k]]
  OBVIOUS
<1>4. edit \in Document
  <2> HIDE DEF edit
  <2>1. {key} \in SUBSET Keys /\ \A k \in {key} : edit[k] \in Values(k)
    BY <1>2, <1>3
  <2> QED
    BY <1>3, <2>1, DocumentMap
<1>5. call' = [call EXCEPT ![t] = x]
  BY DEF Edited, CallsType
<1> HIDE DEF edit
<1>6. x.pc = "save" /\ x.req = call[t].req /\ x.edit = edit
  OBVIOUS
<1>7. CallType(x)
  BY <1>1, <1>4 DEF CallType
<1> HIDE DEF x
<1> QED
  BY <1>3, <1>5, <1>6, <1>7, OneMoves, ZenonT(60) DEF Others

LEMMA EditMoves ==
  ASSUME CallsType, StateType, NEW t \in Threads, EditFactor(t) \/ EditSwitch(t)
  PROVE  LET key == Key(call[t].req) IN
         /\ CallsType' /\ Others(t) /\ call[t].pc = "edit" /\ StateType'
         /\ UNCHANGED <<file, lock>>
         /\ \/ /\ call'[t].pc = "over" /\ call'[t].answer \in {"bad_request", "ok"}
               /\ call'[t].plan = <<>> /\ Memory' = Memory /\ strayed' = strayed
            \/ /\ call'[t].pc = "save" /\ call'[t].req = call[t].req
               /\ DOMAIN call'[t].edit = {key} /\ call'[t].edit[key] = Memory'[key]
               /\ \A k \in Keys \ {key} : Memory'[k] = Memory[k]
               /\ strayed' = IF \E u \in Threads : Saving(u, key) THEN strayed \cup {key}
                                                                  ELSE strayed \ {key}
<1> DEFINE r == call[t].req
           key == Key(r)
<1>1. call[t].pc = "edit" /\ UNCHANGED <<file, lock>>
  BY DEF EditFactor, EditSwitch
<1>2. r \in Requests /\ r.kind \in EditKinds
  BY <1>1, CallFields DEF CallsType
<1>3. CASE EditFactor(t)
  <2> DEFINE value == IF r.kind = "factor" THEN r.value ELSE factor + r.delta
  <2>1. key = "factor" /\ UNCHANGED <<enabled, file>>
    BY <1>3 DEF EditFactor
  <2>2. CASE value \in MinFactor .. MaxFactor
    <3>1. factor' = value /\ Edited(t, "factor", value)
      BY <1>3, <2>2 DEF EditFactor
    <3>2. value \in Int /\ value \in Values("factor")
      BY <2>2 DEF Values, MinFactor, MaxFactor
    <3> HIDE DEF value, key
    <3>3. /\ CallsType' /\ Others(t)
          /\ call'[t].pc = "save" /\ call'[t].req = call[t].req
          /\ DOMAIN call'[t].edit = {key} /\ call'[t].edit[key] = value
      BY <1>1, <2>1, <3>1, <3>2, EditedType DEF key
    <3>4. StateType'
      BY <2>1, <3>1, <3>2 DEF StateType
    <3>5. Memory'["factor"] = value /\ Memory'["enabled"] = Memory["enabled"]
      BY <2>1, <3>1 DEF Memory
    <3>6. strayed' = IF \E u \in Threads : Saving(u, "factor") THEN strayed \cup {"factor"}
                                                               ELSE strayed \ {"factor"}
      BY <3>1 DEF Edited
    <3> QED
      BY <1>1, <2>1, <3>2, <3>3, <3>4, <3>5, <3>6 DEF key, Keys
  <2>3. CASE value \notin MinFactor .. MaxFactor
    <3>1. call' = [call EXCEPT ![t] = Over("bad_request")] /\ UNCHANGED <<factor, strayed>>
      BY <1>3, <2>3 DEF EditFactor
    <3>2. CallsType' /\ Others(t) /\ call'[t] = Over("bad_request")
      BY <3>1, OverType, OneMoves DEF Answers, Others
    <3> QED
      BY <1>1, <2>1, <3>1, <3>2, OverType DEF Answers, StateType, Memory
  <2> QED
    BY <2>2, <2>3
<1>4. CASE EditSwitch(t)
  <2>1. key = "enabled" /\ UNCHANGED <<factor, file>> /\ enabled' = [enabled EXCEPT ![r.device] = r.on]
    BY <1>4 DEF EditSwitch
  <2>2. r.device \in Devices /\ r.on \in BOOLEAN
    BY <1>2, <2>1, PayloadKinds, KeyOf
  <2>3. enabled' \in [Devices -> BOOLEAN]
    BY <2>1, <2>2 DEF StateType
  <2>4. StateType'
    BY <2>1, <2>3 DEF StateType
  <2>5. CASE enabled[r.device] # r.on
    <3>1. Edited(t, "enabled", enabled')
      BY <1>4, <2>5 DEF EditSwitch
    <3>2. enabled' \in Values("enabled")
      BY <2>3 DEF Values
    <3>3. /\ CallsType' /\ Others(t)
          /\ call'[t].pc = "save" /\ call'[t].req = call[t].req
          /\ DOMAIN call'[t].edit = {key} /\ call'[t].edit[key] = enabled'
      BY <1>1, <2>1, <3>1, <3>2, EditedType
    <3>4. Memory'["enabled"] = enabled' /\ Memory'["factor"] = Memory["factor"]
      BY <2>1 DEF Memory
    <3>5. strayed' = IF \E u \in Threads : Saving(u, "enabled") THEN strayed \cup {"enabled"}
                                                                ELSE strayed \ {"enabled"}
      BY <3>1 DEF Edited
    <3> QED
      BY <1>1, <2>1, <2>4, <3>2, <3>3, <3>4, <3>5 DEF Keys
  <2>6. CASE enabled[r.device] = r.on
    <3>1. call' = [call EXCEPT ![t] = Over("ok")] /\ UNCHANGED strayed
      BY <1>4, <2>6 DEF EditSwitch
    <3>2. enabled' = enabled
      BY <2>1, <2>2, <2>6 DEF StateType
    <3>3. CallsType' /\ Others(t) /\ call'[t] = Over("ok")
      BY <3>1, OverType, OneMoves DEF Answers, Others
    <3> QED
      BY <1>1, <2>1, <2>4, <3>1, <3>2, <3>3, OverType DEF Answers, Memory
  <2> QED
    BY <2>5, <2>6
<1> QED
  BY <1>3, <1>4

LEMMA SaveLoadsMoves ==
  ASSUME CallsType, StateType, SaveInv, NEW t \in Threads, SaveLoads(t)
  PROVE  LET key == Key(call[t].req) IN
         /\ CallsType' /\ Others(t) /\ call[t].pc = "save" /\ lock = NoOne /\ lock' = t
         /\ call'[t].pc = "replace" /\ call'[t].req = call[t].req
         /\ key \in DOMAIN call'[t].edit /\ call'[t].edit[key] = call[t].edit[key]
         /\ UNCHANGED <<enabled, factor, file>> /\ strayed \subseteq strayed'
         /\ \A k \in Keys \ ({key} \cup strayed') : Stored(call'[t].edit, k) = Stored(file, k)
<1> DEFINE r == call[t].req
           key == Key(r)
<1>0. PICK data \in {file, Blank} :
         /\ call' = [call EXCEPT ![t] =
                       [pc |-> "replace", req |-> @.req, edit |-> Filled(@.edit, data)]]
         /\ strayed' = strayed \cup (DOMAIN file \ (DOMAIN data \cup {key}))
  BY DEF SaveLoads
<1> DEFINE edit == Filled(call[t].edit, data)
           x == [pc |-> "replace", req |-> r, edit |-> edit]
<1>1. /\ call[t].pc = "save" /\ lock = NoOne /\ lock' = t /\ call' = [call EXCEPT ![t] = x]
      /\ UNCHANGED <<enabled, factor, file>>
  BY <1>0 DEF SaveLoads, CallsType
<1>2. r \in Requests /\ r.kind \in EditKinds /\ key \in Keys /\ call[t].edit \in Document
  BY <1>1, CallFields, KeyOf DEF CallsType
<1>3. DOMAIN call[t].edit = {key}
  BY <1>1 DEF SaveInv
<1>4. file \in Document /\ data \in Document
  BY <1>0, BlankDocument DEF StateType
<1>5. /\ edit \in Document /\ key \in DOMAIN edit /\ edit[key] = call[t].edit[key]
      /\ \A k \in Keys \ {key} : Stored(edit, k) = Stored(data, k)
  <2> DEFINE f == call[t].edit
  <2>1. f \in Document /\ DOMAIN f = {key} /\ key \in DOMAIN f
    BY <1>2, <1>3
  <2> HIDE DEF f, key
  <2>2. /\ Filled(f, data) \in Document /\ DOMAIN Filled(f, data) = DOMAIN f \cup DOMAIN data
        /\ \A k \in DOMAIN f : Filled(f, data)[k] = f[k]
        /\ \A k \in Keys \ DOMAIN f : Stored(Filled(f, data), k) = Stored(data, k)
    BY <1>4, <2>1, FilledDocument, Zenon
  <2> QED
    BY <2>1, <2>2 DEF f
<1>6. \A k \in Keys \ ({key} \cup strayed') : Stored(data, k) = Stored(file, k)
  BY <1>0, BlankDocument DEF Stored
<1> HIDE DEF edit, key
<1>7. CallType(x) /\ x.pc = "replace" /\ x.req = r /\ x.edit = edit
  BY <1>2, <1>5 DEF CallType
<1> HIDE DEF x
<1>8. CallsType' /\ Others(t) /\ call'[t] = x
  BY <1>1, <1>7, OneMoves DEF Others
<1>9. \A k \in Keys \ ({key} \cup strayed') : Stored(edit, k) = Stored(file, k)
  BY <1>5, <1>6
<1> QED
  BY <1>0, <1>1, <1>5, <1>7, <1>8, <1>9 DEF key

LEMMA SaveReplacesMoves ==
  ASSUME CallsType, StateType, NEW t \in Threads, SaveReplaces(t)
  PROVE  LET key == Key(call[t].req) IN
         /\ CallsType' /\ Others(t) /\ call[t].pc = "replace" /\ StateType'
         /\ call'[t].pc = "over" /\ call'[t].answer = "ok" /\ call'[t].plan = <<>>
         /\ UNCHANGED <<enabled, factor>>
         /\ \/ file' = call[t].edit /\ strayed' = strayed
            \/ file' = file /\ strayed' = strayed \cup {key}
<1>1. /\ call[t].pc = "replace" /\ call' = [call EXCEPT ![t] = Over("ok")]
      /\ UNCHANGED <<enabled, factor>>
      /\ \/ file' = call[t].edit /\ UNCHANGED strayed
         \/ strayed' = strayed \cup {Key(call[t].req)} /\ UNCHANGED file
  BY DEF SaveReplaces
<1>2. call[t].edit \in Document
  BY <1>1, CallFields DEF CallsType
<1>3. CallsType' /\ Others(t) /\ call'[t] = Over("ok")
  BY <1>1, OverType, OneMoves DEF Answers, Others
<1>4. StateType'
  BY <1>1, <1>2 DEF StateType
<1> QED
  BY <1>1, <1>3, <1>4, OverType DEF Answers

\* A submitted command is one more at the end of its device's queue.
LEMMA SubmitsMoves ==
  ASSUME CallsType, PlanInv, NEW t \in Threads, ReadBase(t) \/ Send(t)
  PROVE  /\ CallsType' /\ Others(t) /\ call[t].pc \in {"read", "send"}
         /\ UNCHANGED <<block, ran, cvl, cache, stateVars, peak, seen>>
         /\ \/ call'[t].pc = "over" /\ call'[t].answer = "conflict" /\ UNCHANGED queue
            \/ \E d \in Devices, cells \in Settings :
                 /\ queue' = [queue EXCEPT ![d] =
                                Append(@, [device |-> d, cells |-> cells, by |-> t])]
                 /\ Fits(d, cells, peak[t])
                 /\ call'[t].req = call[t].req /\ call'[t].base = call[t].base
                 /\ call'[t].plan = call[t].plan /\ call'[t].next = call[t].next
                 /\ \/ /\ call[t].pc = "read" /\ call'[t].pc = "base"
                       /\ d = call[t].req.device /\ cells = Blank
                    \/ /\ call[t].pc = "send" /\ call'[t].pc = "wait"
                       /\ cells = call[t].plan[call[t].next].cells
<1>1. CASE ReadBase(t)
  <2> DEFINE d == call[t].req.device
  <2>1. /\ call[t].pc = "read" /\ Submit(t, Write(d, Blank), "base")
    BY <1>1 DEF ReadBase
  <2>2. call[t].req \in Requests /\ call[t].req.kind = "nudge" /\ d \in Devices
    BY <2>1, CallFields, PayloadKinds DEF CallsType, Asked
  <2>3. Write(d, Blank).device = d /\ Write(d, Blank).cells = Blank
    BY DEF Write
  <2>4. Blank \in Settings /\ Fits(d, Blank, peak[t])
    <3>1. DOMAIN Blank = {} /\ Blank \in [{} -> Int] /\ {} \in SUBSET Words
      BY DEF Blank
    <3> QED
      BY <3>1, SomeSettings DEF Fits
  <2>5. "base" \in Asked /\ call[t].pc \in Asked
    BY <2>1 DEF Asked, Awaited
  <2>6. UNCHANGED <<block, ran, cvl, cache, stateVars, peak, seen>>
    BY <2>1 DEF Submit
  <2> DEFINE w == Write(d, Blank)
  <2> HIDE DEF d, w
  <2>7. /\ CallsType' /\ Others(t)
         /\ \/ ~enabled[w.device] /\ call'[t].pc = "over" /\ call'[t].answer = "conflict"
               /\ UNCHANGED queue
            \/ /\ call'[t].pc = "base" /\ call'[t].req = call[t].req /\ call'[t].base = call[t].base
               /\ call'[t].plan = call[t].plan /\ call'[t].next = call[t].next
               /\ queue' = [queue EXCEPT ![w.device] =
                              Append(@, [device |-> w.device, cells |-> w.cells, by |-> t])]
    BY <2>1, <2>2, <2>5, SubmitMoves DEF w
  <2>8. w.device = d /\ w.cells = Blank
    BY <2>3 DEF w
  <2> QED
    BY <2>1, <2>2, <2>4, <2>6, <2>7, <2>8 DEF d
<1>2. CASE Send(t)
  <2> DEFINE w == call[t].plan[call[t].next]
  <2>1. /\ call[t].pc = "send" /\ Submit(t, w, "wait")
    BY <1>2 DEF Send
  <2>2. call[t].plan \in Seq(Command)
    BY <2>1, CallFields DEF CallsType, Asked
  <2>3. call[t].next \in DOMAIN call[t].plan /\ PlanFits(call[t].plan, peak[t])
    BY <2>1 DEF PlanInv, PlanOf
  <2>4. w \in Command /\ Fits(w.device, w.cells, peak[t])
    BY <2>2, <2>3 DEF PlanFits
  <2>5. w.device \in Devices /\ w.cells \in Settings
    BY <2>4 DEF Command
  <2>6. "wait" \in Asked /\ call[t].pc \in Asked
    BY <2>1, SMTT(40) DEF Asked, Awaited
  <2>7. UNCHANGED <<block, ran, cvl, cache, stateVars, peak, seen>>
    BY <2>1 DEF Submit
  <2> HIDE DEF w
  <2>8. /\ CallsType' /\ Others(t)
         /\ \/ ~enabled[w.device] /\ call'[t].pc = "over" /\ call'[t].answer = "conflict"
               /\ UNCHANGED queue
            \/ /\ call'[t].pc = "wait" /\ call'[t].req = call[t].req /\ call'[t].base = call[t].base
               /\ call'[t].plan = call[t].plan /\ call'[t].next = call[t].next
               /\ queue' = [queue EXCEPT ![w.device] =
                              Append(@, [device |-> w.device, cells |-> w.cells, by |-> t])]
    BY <2>1, <2>6, SubmitMoves
  <2> QED
    BY <2>1, <2>4, <2>5, <2>7, <2>8, Zenon DEF w
<1> QED
  BY <1>1, <1>2

LEMMA RestartMoves ==
  ASSUME CallsType, Restart
  PROVE  /\ CallsType'
         /\ \A t \in Threads : IF UnderWay(t) THEN call'[t].pc = "over" /\ call'[t].answer = "dropped"
                                              ELSE call'[t] = call[t]
<1>1. \A t \in Threads : call'[t] = IF UnderWay(t) THEN Over("dropped") ELSE call[t]
  BY DEF Restart
<1>2. call' = [t \in Threads |-> call'[t]]
  BY <1>1 DEF Restart
<1>3. \A t \in Threads : CallType(call'[t])
  BY <1>1, OverType DEF Answers, CallsType
<1>4. CallsType'
  BY <1>2, <1>3 DEF CallsType, CallType
<1> QED
  BY <1>1, <1>4, OverType DEF Answers
-----------------------------------------------------------------------------
(* The invariant, part by part.                                              *)

TypeInv == /\ BlocksType /\ CacheType /\ QueueType /\ CallsType /\ HistoryType /\ StateType

Inv == /\ TypeInv /\ SaveInv /\ PeakInv /\ PlanInv
       /\ EntryInv /\ SingleInv /\ NudgeInv /\ BlockSound /\ FileMatchesMemory

\* The device that a queue's first command names is the queue's.
LEMMA HeadsDevice ==
  ASSUME Inv, NEW d \in Devices, queue[d] # <<>>
  PROVE  /\ Head(queue[d]) = queue[d][1] /\ 1 \in DOMAIN queue[d]
         /\ Head(queue[d]).device = d
<1>1. queue[d] \in Seq(Entry)
  BY DEF Inv, TypeInv, QueueType
<1>2. Head(queue[d]) = queue[d][1] /\ 1 \in DOMAIN queue[d]
  BY <1>1
<1> QED
  BY <1>2 DEF Inv, EntryInv, EntryOf

LEMMA CallsHold ==
  ASSUME Inv, [SettingsNext]_vars
  PROVE  CallsType'
<1> USE DEF Inv, TypeInv, CacheType, HistoryType
<1>1. ASSUME NEW t \in Threads, NEW r \in Requests, Ask(t, r) PROVE CallsType'
  BY <1>1, AskMoves
<1>2. ASSUME NEW t \in Threads, ReadBase(t) \/ Send(t) PROVE CallsType'
  BY <1>2, SubmitsMoves
<1>3. ASSUME NEW t \in Threads, Look(t) PROVE CallsType'
  BY <1>3, LookMoves
<1>4. ASSUME NEW t \in Threads, GiveUp(t) PROVE CallsType'
  BY <1>4, GiveUpMoves
<1>5. ASSUME NEW t \in Threads, EditFactor(t) \/ EditSwitch(t) PROVE CallsType'
  BY <1>5, EditMoves
<1>6. ASSUME NEW t \in Threads, SaveLoads(t) PROVE CallsType'
  BY <1>6, SaveLoadsMoves
<1>7. ASSUME NEW t \in Threads, SaveReplaces(t) PROVE CallsType'
  BY <1>7, SaveReplacesMoves
<1>8. ASSUME NEW d \in Devices, Run(d) PROVE CallsType'
  BY <1>8, HeadsDevice, RunMoves, Zenon DEF Run
<1>9. CASE Restart
  BY <1>9, RestartMoves
<1>10. ASSUME UNCHANGED call PROVE CallsType'
  BY <1>10 DEF CallsType, CallType
<1>11. (\E d \in Devices : Poll(d)) \/ BatteryPoll \/ UNCHANGED vars => UNCHANGED call
  BY DEF Poll, BatteryPoll, vars
<1> QED
  BY <1>1, <1>2, <1>3, <1>4, <1>5, <1>6, <1>7, <1>8, <1>9, <1>10, <1>11 DEF SettingsNext

\* Which steps change what.
LEMMA Changes ==
  ASSUME [SettingsNext]_vars
  PROVE  /\ UNCHANGED <<block, ran>> \/ \E d \in Devices : Run(d)
         /\ \/ UNCHANGED queue \/ Restart \/ \E d \in Devices : Run(d)
            \/ \E t \in Threads : ReadBase(t) \/ Send(t)
         /\ \/ UNCHANGED cache \/ Restart \/ \E d \in Devices : Poll(d)
            \/ \E t \in Threads : EditSwitch(t)
         /\ UNCHANGED cvl \/ BatteryPoll \/ Restart
         /\ UNCHANGED peak \/ BatteryPoll \/ \E t \in Threads, r \in Requests : Ask(t, r)
         /\ UNCHANGED seen \/ (\E d \in Devices : Run(d)) \/ \E t \in Threads, r \in Requests : Ask(t, r)
         /\ \/ UNCHANGED stateVars \/ Restart
            \/ \E t \in Threads : EditFactor(t) \/ EditSwitch(t) \/ SaveLoads(t) \/ SaveReplaces(t)
<1> USE DEF deviceVars, stateVars
<1>1. ASSUME NEW t \in Threads, NEW r \in Requests, Ask(t, r)
      PROVE  UNCHANGED <<deviceVars, cvl, cache, stateVars>>
  BY <1>1 DEF Ask
<1>2. ASSUME NEW t \in Threads, ReadBase(t) \/ Send(t)
      PROVE  UNCHANGED <<block, ran, cvl, cache, stateVars, peak, seen>>
  BY <1>2, Zenon DEF ReadBase, Send, Submit
<1>3. ASSUME NEW t \in Threads, Look(t) \/ GiveUp(t)
      PROVE  UNCHANGED <<deviceVars, cvl, cache, stateVars, peak, seen>>
  BY <1>3 DEF Look, GiveUp
<1>4. ASSUME NEW t \in Threads, EditFactor(t) \/ SaveLoads(t) \/ SaveReplaces(t)
      PROVE  UNCHANGED <<deviceVars, cvl, cache, peak, seen>>
  BY <1>4 DEF EditFactor, SaveLoads, SaveReplaces
<1>5. ASSUME NEW t \in Threads, EditSwitch(t)
      PROVE  UNCHANGED <<deviceVars, cvl, peak, seen>>
  BY <1>5 DEF EditSwitch
<1>6. ASSUME NEW d \in Devices, Run(d)
      PROVE  UNCHANGED <<cvl, cache, stateVars, peak>>
  BY <1>6 DEF Run
<1>7. ASSUME NEW d \in Devices, Poll(d)
      PROVE  UNCHANGED <<deviceVars, cvl, stateVars, call, peak, seen>>
  BY <1>7 DEF Poll
<1>8. CASE Restart
  BY <1>8 DEF Restart
<1>9. CASE BatteryPoll
  BY <1>9 DEF BatteryPoll
<1>10. CASE UNCHANGED vars
  BY <1>10 DEF vars
<1> QED
  BY <1>1, <1>2, <1>3, <1>4, <1>5, <1>6, <1>7, <1>8, <1>9, <1>10 DEF SettingsNext

\* What a command leaves behind keeps the device's registers.
LEMMA RegistersKept ==
  ASSUME NEW d \in Devices, NEW b, Registers(d, b), NEW e, e.cells \in Settings, NEW o, Bounded(d, e, o)
  PROVE  Registers(d, Filled(o.cells, b))
<1> DEFINE f == Filled(o.cells, b)
<1>1. DOMAIN b \subseteq DOMAIN f /\ f = [c \in DOMAIN f |-> f[c]]
  BY DEF Filled
<1>2. \A c \in DOMAIN f : f[c] \in Int
  <2> SUFFICES ASSUME NEW c \in DOMAIN f PROVE f[c] \in Int
    OBVIOUS
  <2>1. CASE c \in DOMAIN o.cells
    <3>1. f[c] = e.cells[c] /\ c \in DOMAIN e.cells
      BY <2>1 DEF Filled, Bounded
    <3> QED
      BY <3>1, SettingsMap
  <2>2. CASE c \notin DOMAIN o.cells
    <3>1. c \in DOMAIN b /\ f[c] = b[c]
      BY <2>2 DEF Filled
    <3> QED
      BY <3>1 DEF Registers
  <2> QED
    BY <2>1, <2>2
<1> HIDE DEF f
<1>3. f \in [DOMAIN f -> Int]
  BY <1>1, <1>2
<1> QED
  BY <1>1, <1>3 DEF Registers, f

LEMMA BlocksHold ==
  ASSUME Inv, [SettingsNext]_vars
  PROVE  BlocksType' /\ BlockSound'
<1> USE DEF Inv, TypeInv
<1>1. ASSUME NEW d \in Devices, Run(d) PROVE BlocksType' /\ BlockSound'
  <2> DEFINE e == Head(queue[d])
  <2>1. e \in Entry /\ e.cells \in Settings /\ \E o : Bounded(d, e, o)
                                  /\ block' = [block EXCEPT ![d] = Filled(o.cells, @)]
    BY <1>1, HeadsDevice, RunMoves DEF Run, Entry
  <2>2. PICK o : Bounded(d, e, o) /\ block' = [block EXCEPT ![d] = Filled(o.cells, @)]
    BY <2>1
  <2> HIDE DEF e
  <2>3. /\ block'[d] = Filled(o.cells, block[d])
        /\ \A x \in Devices \ {d} : block'[x] = block[x]
        /\ block' = [x \in Devices |-> block'[x]]
    BY <2>2 DEF BlocksType
  <2>4. BlocksType'
    <3>1. Registers(d, block'[d])
      BY <2>1, <2>2, <2>3, RegistersKept DEF BlocksType
    <3>2. \A x \in Devices : Registers(x, block'[x])
      BY <2>3, <3>1 DEF BlocksType
    <3> QED
      BY <2>3, <3>2 DEF BlocksType, Registers
  <2>5. BlockSound'
    <3>1. CASE d # "epever"
      BY <2>3, <3>1, CellSets DEF BlockSound, Sound
    <3>2. CASE d = "epever" /\ DOMAIN o.cells \cap Voltages("epever") # {}
      BY <2>2, <2>3, <3>2 DEF BlockSound, Sound, Bounded
    <3>3. CASE d = "epever" /\ DOMAIN o.cells \cap Voltages("epever") = {}
      <4>1. DOMAIN o.cells \subseteq Cells("epever")
        <5>1. e = queue[d][1] /\ 1 \in DOMAIN queue[d]
          BY <1>1, HeadsDevice DEF e, Run
        <5>2. Fits(d, e.cells, peak[e.by])
          BY <5>1 DEF EntryInv, EntryOf
        <5> QED
          BY <2>2, <3>3, <5>2 DEF Bounded, Fits
      <4>2. \A c \in Voltages("epever") \cup {"charging_limit"} :
              c \in DOMAIN block[d] /\ c \notin DOMAIN o.cells
        BY <3>3, <4>1, CellSets DEF BlocksType, Registers
      <4>3. \A c \in Voltages("epever") \cup {"charging_limit"} : block'[d][c] = block[d][c]
        BY <2>3, <4>2 DEF Filled
      <4> QED
        BY <3>3, <4>3, CellSets DEF BlockSound, Sound
    <3> QED
      BY <3>1, <3>2, <3>3
  <2> QED
    BY <2>4, <2>5, SMTT(40)
<1>2. CASE UNCHANGED <<block, ran>>
  BY <1>2 DEF BlocksType, BlockSound, Registers, Sound
<1> QED
  BY <1>1, <1>2, Changes

LEMMA CacheHolds ==
  ASSUME Inv, [SettingsNext]_vars
  PROVE  CacheType'
<1> USE DEF Inv, TypeInv, CacheType
<1>1. ASSUME NEW d \in Devices, Poll(d) PROVE CacheType'
  <2>1. cache' = [cache EXCEPT ![d] = block[d]] \/ cache' = [cache EXCEPT ![d] = Blank]
    BY <1>1 DEF Poll
  <2>2. Registers(d, block[d])
    BY DEF BlocksType
  <2> QED
    BY <2>1, <2>2 DEF Cached, Registers, Blank
<1>2. ASSUME NEW t \in Threads, EditSwitch(t) PROVE CacheType'
  <2>1. cache' = cache \/ \E d : cache' = [cache EXCEPT ![d] = Blank]
    BY <1>2 DEF EditSwitch
  <2> QED
    BY <2>1 DEF Cached, Registers, Blank
<1>3. CASE Restart
  BY <1>3 DEF Restart, Cached
<1>4. CASE UNCHANGED cache
  BY <1>4 DEF Cached, Registers
<1> QED
  BY <1>1, <1>2, <1>3, <1>4, Changes

LEMMA QueueHolds ==
  ASSUME Inv, [SettingsNext]_vars
  PROVE  QueueType'
<1> USE DEF Inv, TypeInv
<1>1. ASSUME NEW d \in Devices, Run(d) PROVE QueueType'
  <2>1. queue' = [queue EXCEPT ![d] = Tail(@)] /\ queue[d] # <<>>
    BY <1>1 DEF Run
  <2> QED
    BY <2>1 DEF QueueType
<1>2. ASSUME NEW t \in Threads, ReadBase(t) \/ Send(t) PROVE QueueType'
  <2>1. CASE UNCHANGED queue
    BY <2>1 DEF QueueType
  <2>2. CASE ~UNCHANGED queue
    <3>0. CallsType /\ PlanInv
      OBVIOUS
    <3> HIDE DEF Inv, TypeInv
    <3>1. PICK d \in Devices, cells \in Settings :
                 /\ queue' = [queue EXCEPT ![d] =
                                Append(@, [device |-> d, cells |-> cells, by |-> t])]
                 /\ Fits(d, cells, peak[t])
                 /\ call'[t].req = call[t].req /\ call'[t].base = call[t].base
                 /\ call'[t].plan = call[t].plan /\ call'[t].next = call[t].next
                 /\ \/ /\ call[t].pc = "read" /\ call'[t].pc = "base"
                       /\ d = call[t].req.device /\ cells = Blank
                    \/ /\ call[t].pc = "send" /\ call'[t].pc = "wait"
                       /\ cells = call[t].plan[call[t].next].cells
      BY <1>2, <2>2, <3>0, SubmitsMoves
    <3> USE DEF Inv, TypeInv
    <3>2. [device |-> d, cells |-> cells, by |-> t] \in Entry
      BY DEF Entry
    <3> QED
      BY <3>1, <3>2 DEF QueueType
  <2> QED
    BY <2>1, <2>2
<1>3. CASE Restart
  BY <1>3 DEF Restart, QueueType
<1>4. CASE UNCHANGED queue
  BY <1>4 DEF QueueType
<1> QED
  BY <1>1, <1>2, <1>3, <1>4, Changes

LEMMA HistoryHolds ==
  ASSUME Inv, [SettingsNext]_vars
  PROVE  HistoryType'
<1> USE DEF Inv, TypeInv, HistoryType
<1>0. DOMAIN seen' = Threads
  BY Changes DEF Run, Ask
<1>1. cvl' \in Nat
  <2>1. CASE BatteryPoll
    BY <2>1, SettingsAssumption DEF BatteryPoll, SettingsAssumption
  <2>2. CASE Restart
    BY <2>2 DEF Restart, Null
  <2> QED
    BY <2>1, <2>2, Changes
<1>2. peak' \in [Threads -> Nat]
  <2>1. CASE BatteryPoll
    BY <1>1, <2>1 DEF BatteryPoll
  <2>2. ASSUME NEW t \in Threads, NEW r \in Requests, Ask(t, r) PROVE peak' \in [Threads -> Nat]
    BY <2>2 DEF Ask
  <2> QED
    BY <2>1, <2>2, Changes
<1>3. ran' \in [Threads -> SUBSET Nat] /\ \A t \in Threads : IsFiniteSet(ran'[t])
  <2>1. ASSUME NEW d \in Devices, Run(d)
        PROVE  ran' \in [Threads -> SUBSET Nat] /\ \A t \in Threads : IsFiniteSet(ran'[t])
    <3>1. PICK t \in Threads : LET n == Cardinality(ran[t]) + 1 IN
            ran' = [ran EXCEPT ![t] = @ \cup {n}] \/ ran' = ran
      <4> DEFINE t == Head(queue[d]).by
                 n == Cardinality(ran[t]) + 1
      <4>1. Head(queue[d]).device = d
        BY <2>1, HeadsDevice DEF Run
      <4>2. t \in Threads /\ \E o : ran' = [ran EXCEPT ![t] = IF o.cells # Blank /\ o.cells = Head(queue[d]).cells
                                                             THEN @ \cup {n} ELSE @]
        BY <2>1, <4>1, RunMoves
      <4> HIDE DEF t, n
      <4>3. ran' = [ran EXCEPT ![t] = @ \cup {n}] \/ ran' = ran
        BY <4>2
      <4> QED
        BY <4>2, <4>3 DEF n
    <3> DEFINE n == Cardinality(ran[t]) + 1
    <3>2. n \in Nat
      BY FS_CardinalityType
    <3>3. IsFiniteSet(ran[t] \cup {n})
      BY FS_AddElement
    <3> HIDE DEF n
    <3>4. CASE ran' = [ran EXCEPT ![t] = @ \cup {n}]
      BY <3>2, <3>3, <3>4
    <3> QED
      BY <3>1, <3>4 DEF n
  <2> QED
    BY <2>1, Changes
<1> QED
  BY <1>0, <1>1, <1>2, <1>3

\* A request that is under way after a step has arrived with it, or was under way
\* before and asks for the same.
LEMMA RequestsStay ==
  ASSUME Inv, [SettingsNext]_vars, NEW t \in Threads, UnderWay(t)'
  PROVE  \/ \E r \in Requests : Ask(t, r)
         \/ UnderWay(t) /\ call'[t].req = call[t].req
<1> USE DEF Inv, TypeInv, CacheType, HistoryType
<1>0. call'[t].pc \notin {"idle", "over"}
  BY DEF UnderWay
<1> DEFINE Stays == UnderWay(t) /\ call'[t].req = call[t].req
<1>1. ASSUME NEW u \in Threads, NEW r \in Requests, Ask(u, r), u # t PROVE Stays
  BY <1>0, <1>1, AskMoves DEF Others, UnderWay
<1>2. ASSUME NEW u \in Threads, ReadBase(u) \/ Send(u) PROVE Stays
  BY <1>0, <1>2, SubmitsMoves, ZenonT(60) DEF Others, UnderWay
<1>3. ASSUME NEW u \in Threads, Look(u) PROVE Stays
  BY <1>0, <1>3, LookMoves DEF Others, UnderWay
<1>4. ASSUME NEW u \in Threads, GiveUp(u) PROVE Stays
  BY <1>0, <1>4, GiveUpMoves DEF Others, UnderWay
<1>5. ASSUME NEW u \in Threads, EditFactor(u) \/ EditSwitch(u) PROVE Stays
  BY <1>0, <1>5, EditMoves DEF Others, UnderWay
<1>6. ASSUME NEW u \in Threads, SaveLoads(u) PROVE Stays
  BY <1>0, <1>6, SaveLoadsMoves DEF Others, UnderWay
<1>7. ASSUME NEW u \in Threads, SaveReplaces(u) PROVE Stays
  BY <1>0, <1>7, SaveReplacesMoves DEF Others, UnderWay
<1>8. ASSUME NEW d \in Devices, Run(d) PROVE Stays
  <2> DEFINE u == Head(queue[d]).by
  <2>1. Head(queue[d]).device = d
    BY <1>8, HeadsDevice DEF Run
  <2>2. Others(u) /\ \E o : Goes(u, d, o)
    BY <1>8, <2>1, RunMoves
  <2>3. PICK o : Goes(u, d, o)
    BY <2>2
  <2> HIDE DEF u
  <2>4. CASE t # u
    BY <1>0, <2>2, <2>4 DEF Others, UnderWay
  <2>5. CASE t = u
    BY <1>0, <2>3, <2>5 DEF Goes, UnderWay
  <2> QED
    BY <2>4, <2>5
<1>9. CASE Restart
  BY <1>0, <1>9, RestartMoves DEF UnderWay
<1>10. ASSUME UNCHANGED call PROVE Stays
  BY <1>0, <1>10 DEF UnderWay
<1>11. (\E d \in Devices : Poll(d)) \/ BatteryPoll \/ UNCHANGED vars => UNCHANGED call
  BY DEF Poll, BatteryPoll, vars
<1> QED
  BY <1>1, <1>2, <1>3, <1>4, <1>5, <1>6, <1>7, <1>8, <1>9, <1>10, <1>11 DEF SettingsNext

LEMMA PeakHolds ==
  ASSUME Inv, [SettingsNext]_vars
  PROVE  PeakInv'
<1> USE DEF Inv, TypeInv, HistoryType
<1>1. cvl' \in Nat /\ peak' \in [Threads -> Nat]
  BY HistoryHolds
<1> SUFFICES ASSUME NEW t \in Threads, UnderWay(t)' PROVE cvl' <= peak'[t]
  BY DEF PeakInv
<1>2. CASE BatteryPoll
  <2>1. UnderWay(t)
    BY <1>2 DEF BatteryPoll, UnderWay
  <2>2. peak'[t] = IF cvl' > peak[t] THEN cvl' ELSE peak[t]
    BY <1>2, <2>1 DEF BatteryPoll
  <2> QED
    BY <1>1, <2>2
<1>3. ASSUME NEW r \in Requests, Ask(t, r) PROVE cvl' <= peak'[t]
  BY <1>1, <1>3 DEF Ask
<1>4. CASE ~BatteryPoll /\ ~\E r \in Requests : Ask(t, r)
  <2>0. ~Restart
    BY RestartMoves DEF UnderWay
  <2>1. cvl' = cvl /\ UnderWay(t)
    BY <1>4, <2>0, Changes, RequestsStay
  <2>2. peak'[t] = peak[t]
    <3>1. ASSUME NEW u \in Threads, NEW r \in Requests, Ask(u, r), u # t PROVE peak'[t] = peak[t]
      BY <3>1 DEF Ask
    <3> QED
      BY <1>4, <3>1, Changes
  <2> QED
    BY <2>1, <2>2 DEF PeakInv
<1> QED
  BY <1>2, <1>3, <1>4

\* Nothing lowers the highest limit of a request that has arrived.
LEMMA PeaksRise ==
  ASSUME Inv, [SettingsNext]_vars, NEW t \in Threads, call[t].pc # "idle"
  PROVE  peak[t] <= peak'[t]
<1> USE DEF Inv, TypeInv, HistoryType
<1>1. CASE BatteryPoll
  <2>1. peak'[t] = IF UnderWay(t) /\ cvl' > peak[t] THEN cvl' ELSE peak[t]
    BY <1>1 DEF BatteryPoll
  <2> QED
    BY <2>1, HistoryHolds
<1>2. ASSUME NEW u \in Threads, NEW r \in Requests, Ask(u, r) PROVE peak[t] <= peak'[t]
  BY <1>2 DEF Ask
<1>3. CASE UNCHANGED peak
  BY <1>3
<1> QED
  BY <1>1, <1>2, <1>3, Changes

LEMMA FitsBelow ==
  ASSUME NEW d, NEW cells \in Settings, NEW cap \in Nat, NEW more \in Nat, cap <= more, Fits(d, cells, cap)
  PROVE  Fits(d, cells, more)
<1>1. \A c \in DOMAIN cells : cells[c] \in Int
  BY SettingsMap
<1> QED
  BY <1>1 DEF Fits

LEMMA PlanKept ==
  ASSUME Inv, [SettingsNext]_vars, NEW t \in Threads, call'[t] = call[t], ran'[t] = ran[t]
  PROVE  PlanOf(call'[t], ran'[t], peak'[t])
<1> USE DEF Inv, TypeInv, HistoryType
<1>1. CASE call[t].pc \in {"send", "wait"}
  <2>1. peak[t] <= peak'[t] /\ peak[t] \in Nat /\ peak'[t] \in Nat
    BY <1>1, PeaksRise, HistoryHolds
  <2>2. call[t].plan \in Seq(Command)
    BY <1>1, CallFields DEF CallsType, Asked, Awaited
  <2>3. PlanFits(call[t].plan, peak[t])
    BY <1>1 DEF PlanInv, PlanOf
  <2>4. PlanFits(call[t].plan, peak'[t])
    <3> SUFFICES ASSUME NEW i \in DOMAIN call[t].plan
                 PROVE  /\ call[t].plan[i].cells # Blank
                        /\ Fits(call[t].plan[i].device, call[t].plan[i].cells, peak'[t])
      BY DEF PlanFits
    <3>1. call[t].plan[i] \in Command
      BY <2>2
    <3>2. call[t].plan[i].cells \in Settings
      BY <3>1 DEF Command
    <3> QED
      BY <2>1, <2>3, <3>2, FitsBelow DEF PlanFits
  <2> QED
    BY <1>1, <2>4 DEF PlanInv, PlanOf
<1>2. CASE call[t].pc \notin {"send", "wait"}
  BY <1>2 DEF PlanInv, PlanOf
<1> QED
  BY <1>1, <1>2

LEMMA OneMore ==
  ASSUME NEW n \in Nat, 1 <= n
  PROVE  Cardinality(1 .. (n - 1)) + 1 = n /\ (1 .. (n - 1)) \cup {n} = 1 .. n
<1>1. n - 1 \in Int /\ (1 > n - 1 => n = 1)
  OBVIOUS
<1>2. Cardinality(1 .. (n - 1)) = IF 1 > n - 1 THEN 0 ELSE (n - 1) - 1 + 1
  BY <1>1, FS_Interval
<1> QED
  BY <1>1, <1>2

LEMMA PlanAfterRun ==
  ASSUME Inv, [SettingsNext]_vars, NEW d \in Devices, Run(d), NEW t \in Threads
  PROVE  PlanOf(call'[t], ran'[t], peak'[t])
<1> USE DEF Inv, TypeInv, HistoryType
<1> DEFINE e == Head(queue[d])
           u == e.by
           n == Cardinality(ran[u]) + 1
<1>1. e.device = d /\ e = queue[d][1] /\ 1 \in DOMAIN queue[d]
  BY HeadsDevice DEF Run
<1>2. /\ u \in Threads /\ Others(u) /\ e \in Entry
      /\ \E o : /\ Bounded(d, e, o) /\ Goes(u, d, o)
                /\ ran' = [ran EXCEPT ![u] = IF o.cells # Blank /\ o.cells = e.cells
                                             THEN @ \cup {n} ELSE @]
  BY <1>1, RunMoves
<1>3. PICK o : /\ Bounded(d, e, o) /\ Goes(u, d, o)
               /\ ran' = [ran EXCEPT ![u] = IF o.cells # Blank /\ o.cells = e.cells
                                            THEN @ \cup {n} ELSE @]
  BY <1>2
<1>4. EntryOf(e, d, call[u], peak[u])
  BY <1>1 DEF EntryInv
<1>5. PlanOf(call[u], ran[u], peak[u]) /\ peak' = peak
  BY <1>2 DEF PlanInv, Run
<1> DEFINE more == IF o.cells # Blank /\ o.cells = e.cells THEN ran[u] \cup {n} ELSE ran[u]
<1>6. ran'[u] = more /\ \A v \in Threads \ {u} : ran'[v] = ran[v]
  BY <1>2, <1>3
<1>7. ran[u] = 1 .. 0 => n = 1
  BY OneMore
<1> HIDE DEF e, u, n
<1>8. CASE t # u
  BY <1>2, <1>6, <1>8, PlanKept DEF Others
<1>9. CASE t = u
  <2>1. CASE call[u].pc \notin Awaited
    BY <1>3, <1>4, <1>9, <2>1 DEF Goes, EntryOf, PlanOf, Awaited
  <2>2. CASE call'[u].pc = "over" /\ call'[u].answer = o.result /\ o.result # "done"
    <3>1. o.result # "ok"
      BY <1>3 DEF Bounded, Failures
    <3> QED
      BY <1>9, <2>2, <3>1 DEF PlanOf
  <2>3. CASE call[u].pc = "base" /\ call'[u].pc = "look" /\ call'[u].next = call[u].next
    <3>1. o.cells = Blank
      BY <1>3, <1>4, <2>3 DEF Bounded, EntryOf
    <3> QED
      BY <1>5, <1>6, <1>9, <2>3, <3>1 DEF PlanOf
  <2>4. ASSUME call[u].pc = "wait", o.result = "done"
        PROVE  /\ call[u].next \in DOMAIN call[u].plan /\ PlanFits(call[u].plan, peak[u])
               /\ call[u].plan \in Seq(Command) /\ call[u].next \in Nat /\ 1 <= call[u].next
               /\ ran'[u] = 1 .. call[u].next
    <3>1. /\ call[u].next \in DOMAIN call[u].plan /\ PlanFits(call[u].plan, peak[u])
          /\ ran[u] = 1 .. (call[u].next - 1)
      BY <1>5, <2>4 DEF PlanOf
    <3>2. call[u].plan \in Seq(Command) /\ call[u].next \in Nat
      BY <1>2, <2>4, CallFields DEF CallsType, Asked, Awaited
    <3>3. o.cells = e.cells /\ e.cells = call[u].plan[call[u].next].cells
      BY <1>3, <1>4, <2>4 DEF Bounded, EntryOf
    <3>4. o.cells # Blank
      BY <3>1, <3>3 DEF PlanFits
    <3>5. 1 <= call[u].next
      BY <3>1, <3>2
    <3>6. ran'[u] = ran[u] \cup {n}
      BY <1>6, <3>3, <3>4
    <3> QED
      BY <3>1, <3>2, <3>5, <3>6, OneMore DEF n
  <2>5. CASE /\ call[u].pc = "wait" /\ o.result = "done" /\ call[u].next = Len(call[u].plan)
             /\ call'[u].pc = "over" /\ call'[u].answer = "ok" /\ call'[u].plan = call[u].plan
    <3>1. ran'[u] = DOMAIN call[u].plan
      BY <2>4, <2>5
    <3> QED
      BY <1>9, <2>5, <3>1 DEF PlanOf
  <2>6. CASE /\ call[u].pc = "wait" /\ o.result = "done" /\ call[u].next # Len(call[u].plan)
             /\ call'[u].pc = "send" /\ call'[u].next = call[u].next + 1
             /\ call'[u].plan = call[u].plan
    <3>1. call'[u].next \in DOMAIN call[u].plan /\ 1 .. (call'[u].next - 1) = 1 .. call[u].next
      BY <2>4, <2>6
    <3> QED
      BY <1>5, <1>9, <2>4, <2>6, <3>1 DEF PlanOf
  <2> QED
    BY <1>3, <2>1, <2>2, <2>3, <2>5, <2>6 DEF Goes
<1> QED
  BY <1>8, <1>9

LEMMA PlanHolds ==
  ASSUME Inv, [SettingsNext]_vars
  PROVE  PlanInv'
<1> USE DEF Inv, TypeInv, CacheType, HistoryType
<1> SUFFICES ASSUME NEW t \in Threads PROVE PlanOf(call'[t], ran'[t], peak'[t])
  BY DEF PlanInv
<1>1. ASSUME NEW d \in Devices, Run(d) PROVE PlanOf(call'[t], ran'[t], peak'[t])
  BY <1>1, PlanAfterRun
<1>2. CASE UNCHANGED <<block, ran>>
  <2>1. PlanOf(call[t], ran[t], peak[t]) /\ ran'[t] = ran[t]
    BY <1>2 DEF PlanInv
  <2> DEFINE Holds == PlanOf(call'[t], ran'[t], peak'[t])
  <2>2. ASSUME call'[t] = call[t] PROVE Holds
    BY <2>1, <2>2, PlanKept
  <2>3. ASSUME NEW u \in Threads, NEW r \in Requests, Ask(u, r) PROVE Holds
    <3>1. CASE u = t
      BY <2>1, <2>3, <3>1, AskMoves DEF PlanOf
    <3> QED
      BY <2>2, <2>3, <3>1, AskMoves DEF Others
  <2>4. ASSUME NEW u \in Threads, ReadBase(u) \/ Send(u) PROVE Holds
    <3>1. CASE u = t
      BY <2>1, <2>4, <3>1, SubmitsMoves DEF PlanOf
    <3> QED
      BY <2>2, <2>4, <3>1, SubmitsMoves DEF Others
  <2>5. ASSUME NEW u \in Threads, Look(u) PROVE Holds
    <3>1. CASE u = t
      <4> DEFINE plan == Commands(call[t].req, call[t].base)
      <4>1. /\ call[t].pc = "look" /\ call[t].next = 1 /\ ran'[t] = {}
            /\ call[t].req \in Requests /\ call[t].req.kind \in SettingKinds /\ call[t].base \in Int
        BY <2>1, <2>5, <3>1, CallFields DEF Look, PlanOf, CallsType, Asked
      <4>2. CASE call'[t].pc = "over" /\ call'[t].answer \in {"bad_request", "conflict"}
        BY <4>2 DEF PlanOf
      <4>3. CASE /\ call'[t].pc = "send" /\ Verdict(call[t].req, call[t].base) = "go"
                 /\ call'[t].plan = plan /\ call'[t].next = call[t].next
        <5>1. plan \in Seq(Command) /\ Len(plan) >= 1 /\ PlanFits(plan, cvl)
          BY <4>1, <4>3, CommandsFit
        <5>2. cvl <= peak'[t] /\ cvl \in Nat /\ peak'[t] \in Nat
          <6>1. cvl <= peak[t]
            BY <4>1 DEF PeakInv, UnderWay
          <6>2. peak[t] <= peak'[t] /\ peak'[t] \in Nat
            BY <4>1, PeaksRise, HistoryHolds
          <6> QED
            BY <6>1, <6>2
        <5> HIDE DEF plan
        <5>3. PlanFits(plan, peak'[t])
          <6> SUFFICES ASSUME NEW i \in DOMAIN plan
                       PROVE  plan[i].cells # Blank /\ Fits(plan[i].device, plan[i].cells, peak'[t])
            BY DEF PlanFits
          <6>1. plan[i] \in Command
            BY <5>1
          <6>2. plan[i].cells \in Settings
            BY <6>1 DEF Command
          <6> QED
            BY <5>1, <5>2, <6>2, FitsBelow DEF PlanFits
        <5>4. 1 \in DOMAIN plan /\ 1 .. (1 - 1) = {}
          BY <5>1
        <5> QED
          BY <4>1, <4>3, <5>3, <5>4 DEF PlanOf
      <4> QED
        BY <2>5, <3>1, <4>2, <4>3, LookMoves
    <3> QED
      BY <2>2, <2>5, <3>1, LookMoves DEF Others
  <2>6. ASSUME NEW u \in Threads, GiveUp(u) PROVE Holds
    <3>1. CASE u = t
      BY <2>6, <3>1, GiveUpMoves DEF PlanOf
    <3> QED
      BY <2>2, <2>6, <3>1, GiveUpMoves DEF Others
  <2>7. DOMAIN <<>> = {}
    OBVIOUS
  <2>8. ASSUME NEW u \in Threads, EditFactor(u) \/ EditSwitch(u) PROVE Holds
    <3>1. CASE u = t
      <4>1. call[t].pc = "edit"
        BY <2>8, <3>1 DEF EditFactor, EditSwitch
      <4>2. ran'[t] = {}
        BY <2>1, <4>1 DEF PlanOf
      <4>3. \/ call'[t].pc = "over" /\ call'[t].plan = <<>>
            \/ call'[t].pc = "save"
        BY <2>8, <3>1, EditMoves
      <4> QED
        BY <2>7, <4>2, <4>3 DEF PlanOf
    <3> QED
      BY <2>2, <2>8, <3>1, EditMoves DEF Others
  <2>9. ASSUME NEW u \in Threads, SaveLoads(u) PROVE Holds
    <3>1. CASE u = t
      BY <2>1, <2>9, <3>1, SaveLoadsMoves DEF PlanOf
    <3> QED
      BY <2>2, <2>9, <3>1, SaveLoadsMoves DEF Others
  <2>10. ASSUME NEW u \in Threads, SaveReplaces(u) PROVE Holds
    <3>1. CASE u = t
      BY <2>1, <2>7, <2>10, <3>1, SaveReplacesMoves DEF PlanOf
    <3> QED
      BY <2>2, <2>10, <3>1, SaveReplacesMoves DEF Others
  <2>11. CASE Restart
    <3>1. CASE UnderWay(t)
      BY <2>11, <3>1, RestartMoves DEF PlanOf
    <3> QED
      BY <2>2, <2>11, <3>1, RestartMoves
  <2>12. (\E d \in Devices : Poll(d)) \/ BatteryPoll \/ UNCHANGED vars => call' = call
    BY DEF Poll, BatteryPoll, vars
  <2> HIDE DEF Holds
  <2>13. Holds
    BY <1>1, <2>2, <2>3, <2>4, <2>5, <2>6, <2>8, <2>9, <2>10, <2>11, <2>12
    DEF SettingsNext, Holds
  <2> QED
    BY <2>13 DEF Holds
<1> QED
  BY <1>1, <1>2, Changes

-----------------------------------------------------------------------------

\* How the queues move: a command is appended, the first one is run, or all are lost.
LEMMA AppendedEntries ==
  ASSUME QueueType, NEW d \in Devices, NEW e \in Entry,
         queue' = [queue EXCEPT ![d] = Append(@, e)], NEW x \in Devices, NEW i \in DOMAIN queue'[x]
  PROVE  \/ i \in DOMAIN queue[x] /\ queue'[x][i] = queue[x][i]
         \/ x = d /\ i = Len(queue[d]) + 1 /\ queue'[x][i] = e
  BY DEF QueueType

LEMMA TailEntries ==
  ASSUME QueueType, NEW d \in Devices, queue[d] # <<>>,
         queue' = [queue EXCEPT ![d] = Tail(@)], NEW x \in Devices, NEW i \in DOMAIN queue'[x]
  PROVE  LET j == IF x = d THEN i + 1 ELSE i IN
         j \in DOMAIN queue[x] /\ queue'[x][i] = queue[x][j]
  BY DEF QueueType

\* A queued command stays as it was, in terms of its request, unless the request moves on.
LEMMA EntryKept ==
  ASSUME Inv, [SettingsNext]_vars, NEW d \in Devices, NEW i \in DOMAIN queue[d],
         NEW u, u = queue[d][i].by,
         call'[u] = call[u] \/ (call'[u].pc = "over" /\ call'[u].answer = "dropped")
  PROVE  EntryOf(queue[d][i], d, call'[u], peak'[u])
<1> DEFINE e == queue[d][i]
<1>1. e \in Entry /\ EntryOf(e, d, call[u], peak[u])
  BY DEF Inv, TypeInv, QueueType, EntryInv
<1>2. u \in Threads /\ e.cells \in Settings
  BY <1>1 DEF Entry
<1> HIDE DEF e
<1>3. call[u].pc # "idle"
  BY <1>1 DEF EntryOf, Awaited
<1>4. peak[u] <= peak'[u] /\ peak[u] \in Nat /\ peak'[u] \in Nat
  BY <1>2, <1>3, PeaksRise, HistoryHolds DEF Inv, TypeInv, HistoryType
<1>5. Fits(d, e.cells, peak'[u])
  BY <1>1, <1>2, <1>4, FitsBelow, SMTT(40) DEF EntryOf
<1>6. EntryOf(e, d, call'[u], peak'[u])
  BY <1>1, <1>5 DEF EntryOf, Awaited
<1> QED
  BY <1>6 DEF e

\* Only a thread that waits, or gave up waiting, has a command queued.
LEMMA WhoQueues ==
  ASSUME Inv, NEW d \in Devices, NEW i \in DOMAIN queue[d]
  PROVE  LET u == queue[d][i].by IN
         /\ queue[d][i] \in Entry /\ u \in Threads
         /\ call[u].pc \in Awaited \/ (call[u].pc = "over" /\ call[u].answer = "dropped")
<1>1. queue[d][i] \in Entry /\ EntryOf(queue[d][i], d, call[queue[d][i].by], peak[queue[d][i].by])
  BY DEF Inv, TypeInv, QueueType, EntryInv
<1> QED
  BY <1>1 DEF Entry, EntryOf

\* A step that leaves the queues alone leaves their entries' requests waiting or given up.
LEMMA WaitersStay ==
  ASSUME Inv, [SettingsNext]_vars, ~Restart, \A d \in Devices : ~Run(d),
         NEW u \in Threads, call[u].pc \in Awaited \/ (call[u].pc = "over" /\ call[u].answer = "dropped")
  PROVE  call'[u] = call[u] \/ (call'[u].pc = "over" /\ call'[u].answer = "dropped")
<1> USE DEF Inv, TypeInv, CacheType, HistoryType
<1> DEFINE Stays == call'[u] = call[u] \/ (call'[u].pc = "over" /\ call'[u].answer = "dropped")
<1>0. call[u].pc \notin {"idle", "read", "look", "send", "edit", "save", "replace"}
  BY DEF Awaited
<1>1. ASSUME NEW t \in Threads, NEW r \in Requests, Ask(t, r) PROVE Stays
  BY <1>0, <1>1, AskMoves DEF Others
<1>2. ASSUME NEW t \in Threads, ReadBase(t) \/ Send(t) PROVE Stays
  BY <1>0, <1>2, SubmitsMoves DEF Others
<1>3. ASSUME NEW t \in Threads, Look(t) PROVE Stays
  BY <1>0, <1>3, LookMoves DEF Others
<1>4. ASSUME NEW t \in Threads, GiveUp(t) PROVE Stays
  BY <1>4, GiveUpMoves DEF Others
<1>5. ASSUME NEW t \in Threads, EditFactor(t) \/ EditSwitch(t) PROVE Stays
  BY <1>0, <1>5, EditMoves DEF Others
<1>6. ASSUME NEW t \in Threads, SaveLoads(t) PROVE Stays
  BY <1>0, <1>6, SaveLoadsMoves DEF Others
<1>7. ASSUME NEW t \in Threads, SaveReplaces(t) PROVE Stays
  BY <1>0, <1>7, SaveReplacesMoves DEF Others
<1>8. (\E d \in Devices : Poll(d)) \/ BatteryPoll \/ UNCHANGED vars => call' = call
  BY DEF Poll, BatteryPoll, vars
<1>9. call' = call => Stays
  OBVIOUS
<1> HIDE DEF Stays
<1>10. Stays
  BY <1>1, <1>2, <1>3, <1>4, <1>5, <1>6, <1>7, <1>8, <1>9 DEF SettingsNext
<1> QED
  BY <1>10 DEF Stays

LEMMA EntryHolds ==
  ASSUME Inv, [SettingsNext]_vars
  PROVE  EntryInv'
<1> SUFFICES ASSUME NEW x \in Devices, NEW i \in DOMAIN queue'[x]
             PROVE  EntryOf(queue'[x][i], x, call'[queue'[x][i].by], peak'[queue'[x][i].by])
  BY DEF EntryInv
<1> DEFINE Holds == EntryOf(queue'[x][i], x, call'[queue'[x][i].by], peak'[queue'[x][i].by])
<1>1. ASSUME NEW d \in Devices, Run(d) PROVE Holds
  <2> DEFINE j == IF x = d THEN i + 1 ELSE i
  <2>1. queue[d] # <<>> /\ queue' = [queue EXCEPT ![d] = Tail(@)]
    BY <1>1 DEF Run
  <2>2. j \in DOMAIN queue[x] /\ queue'[x][i] = queue[x][j]
    BY <2>1, TailEntries DEF Inv, TypeInv
  <2>3. /\ Head(queue[d]) = queue[d][1] /\ 1 \in DOMAIN queue[d] /\ Head(queue[d]).device = d
    BY <2>1, HeadsDevice
  <2>4. Others(queue[d][1].by)
    BY <1>1, <2>3, RunMoves DEF Inv, TypeInv
  <2>5. ~(x = d /\ j = 1)
    <3>1. i # 0
      BY <2>1 DEF Inv, TypeInv, QueueType
    <3>2. i \in Int
      BY <2>1 DEF Inv, TypeInv, QueueType
    <3> QED
      BY <3>1, <3>2
  <2> HIDE DEF j
  <2>6. queue[x][j].by # queue[d][1].by
    BY <2>2, <2>3, <2>5 DEF Inv, SingleInv
  <2>7. queue[x][j].by \in Threads
    BY <2>2, WhoQueues
  <2>8. call'[queue[x][j].by] = call[queue[x][j].by]
    BY <2>4, <2>6, <2>7 DEF Others
  <2> QED
    BY <2>2, <2>8, EntryKept
<1>2. ASSUME ~Restart, \A d \in Devices : ~Run(d), i \in DOMAIN queue[x], queue'[x][i] = queue[x][i]
      PROVE  Holds
  <2>1. /\ queue[x][i].by \in Threads
        /\ \/ call[queue[x][i].by].pc \in Awaited
           \/ call[queue[x][i].by].pc = "over" /\ call[queue[x][i].by].answer = "dropped"
    BY <1>2, WhoQueues
  <2> QED
    BY <1>2, <2>1, WaitersStay, EntryKept
<1>3. ASSUME NEW t \in Threads, ReadBase(t) \/ Send(t), ~Restart, \A d \in Devices : ~Run(d)
      PROVE  Holds
  <2>1. CASE UNCHANGED queue
    BY <1>2, <1>3, <2>1
  <2>2. CASE ~UNCHANGED queue
    <3>0. CallsType /\ PlanInv
      BY DEF Inv, TypeInv
    <3>1. PICK d \in Devices, cells \in Settings :
                 /\ queue' = [queue EXCEPT ![d] =
                                Append(@, [device |-> d, cells |-> cells, by |-> t])]
                 /\ Fits(d, cells, peak[t])
                 /\ call'[t].req = call[t].req /\ call'[t].base = call[t].base
                 /\ call'[t].plan = call[t].plan /\ call'[t].next = call[t].next
                 /\ \/ /\ call[t].pc = "read" /\ call'[t].pc = "base"
                       /\ d = call[t].req.device /\ cells = Blank
                    \/ /\ call[t].pc = "send" /\ call'[t].pc = "wait"
                       /\ cells = call[t].plan[call[t].next].cells
      BY <1>3, <2>2, <3>0, SubmitsMoves
    <3> DEFINE e == [device |-> d, cells |-> cells, by |-> t]
    <3>2. e \in Entry /\ e.device = d /\ e.cells = cells /\ e.by = t
      BY DEF Entry
    <3>3. UNCHANGED peak
      BY <1>3, SubmitsMoves DEF Inv, TypeInv
    <3> HIDE DEF e
    <3>4. \/ i \in DOMAIN queue[x] /\ queue'[x][i] = queue[x][i]
          \/ x = d /\ queue'[x][i] = e
      BY <3>1, <3>2, AppendedEntries DEF Inv, TypeInv, e
    <3>5. CASE x = d /\ queue'[x][i] = e
      BY <3>1, <3>2, <3>3, <3>5, Zenon DEF EntryOf, Awaited
    <3> QED
      BY <1>2, <1>3, <3>4, <3>5
  <2> QED
    BY <2>1, <2>2
<1>4. CASE Restart
  <2>1. queue'[x] = <<>>
    BY <1>4 DEF Restart
  <2> QED
    BY <2>1
<1>5. ASSUME ~Restart, \A d \in Devices : ~Run(d) PROVE Holds
  <2>1. UNCHANGED queue \/ \E t \in Threads : ReadBase(t) \/ Send(t)
    BY <1>5, Changes
  <2>2. UNCHANGED queue => Holds
    BY <1>2, <1>5
  <2> QED
    BY <1>3, <1>5, <2>1, <2>2
<1> HIDE DEF Holds
<1>6. Holds
  BY <1>1, <1>4, <1>5 DEF Holds
<1> QED
  BY <1>6 DEF Holds

LEMMA SingleHolds ==
  ASSUME Inv, [SettingsNext]_vars
  PROVE  SingleInv'
<1> USE DEF Inv, TypeInv
<1> SUFFICES ASSUME NEW x \in Devices, NEW y \in Devices, NEW i \in DOMAIN queue'[x], NEW k \in DOMAIN queue'[y],
                    queue'[x][i].by = queue'[y][k].by
             PROVE  x = y /\ i = k
  BY DEF SingleInv
<1>1. ASSUME NEW d \in Devices, Run(d) PROVE x = y /\ i = k
  <2> DEFINE ii == IF x = d THEN i + 1 ELSE i
             kk == IF y = d THEN k + 1 ELSE k
  <2>1. queue[d] # <<>> /\ queue' = [queue EXCEPT ![d] = Tail(@)]
    BY <1>1 DEF Run
  <2>2. /\ ii \in DOMAIN queue[x] /\ queue'[x][i] = queue[x][ii]
        /\ kk \in DOMAIN queue[y] /\ queue'[y][k] = queue[y][kk]
    <3>1. QueueType
      OBVIOUS
    <3> HIDE DEF Inv, TypeInv
    <3> DEFINE j(z, m) == IF z = d THEN m + 1 ELSE m
    <3>2. \A z \in Devices : \A m \in DOMAIN queue'[z] :
            j(z, m) \in DOMAIN queue[z] /\ queue'[z][m] = queue[z][j(z, m)]
      BY <2>1, <3>1, TailEntries
    <3> HIDE DEF j
    <3>3. /\ j(x, i) \in DOMAIN queue[x] /\ queue'[x][i] = queue[x][j(x, i)]
          /\ j(y, k) \in DOMAIN queue[y] /\ queue'[y][k] = queue[y][j(y, k)]
      BY <3>2
    <3> QED
      BY <3>3 DEF j
  <2>3. i \in Int /\ k \in Int
    BY <2>1 DEF QueueType
  <2>4. x = y /\ ii = kk
    <3>1. queue[x][ii].by = queue[y][kk].by
      BY <2>2
    <3>2. SingleInv
      OBVIOUS
    <3> HIDE DEF ii, kk, Inv, TypeInv
    <3> QED
      BY <2>2, <3>1, <3>2 DEF SingleInv
  <2> QED
    BY <2>3, <2>4
<1>2. ASSUME NEW t \in Threads, ReadBase(t) \/ Send(t), ~UNCHANGED queue PROVE x = y /\ i = k
  <2>1. PICK d \in Devices, cells \in Settings :
          queue' = [queue EXCEPT ![d] = Append(@, [device |-> d, cells |-> cells, by |-> t])]
    <3>1. CallsType /\ PlanInv
      OBVIOUS
    <3> HIDE DEF Inv, TypeInv
    <3>2. PICK d \in Devices, cells \in Settings :
                 /\ queue' = [queue EXCEPT ![d] =
                                Append(@, [device |-> d, cells |-> cells, by |-> t])]
                 /\ Fits(d, cells, peak[t])
                 /\ call'[t].req = call[t].req /\ call'[t].base = call[t].base
                 /\ call'[t].plan = call[t].plan /\ call'[t].next = call[t].next
                 /\ \/ /\ call[t].pc = "read" /\ call'[t].pc = "base"
                       /\ d = call[t].req.device /\ cells = Blank
                    \/ /\ call[t].pc = "send" /\ call'[t].pc = "wait"
                       /\ cells = call[t].plan[call[t].next].cells
      BY <1>2, <3>1, SubmitsMoves
    <3> QED
      BY <3>2
  <2> DEFINE e == [device |-> d, cells |-> cells, by |-> t]
  <2>2. e \in Entry /\ e.by = t /\ call[t].pc \in {"read", "send"}
    BY <1>2, SubmitsMoves DEF Entry
  <2> HIDE DEF e
  <2>3. \A z \in Devices : \A j \in DOMAIN queue[z] : queue[z][j].by # t
    BY <2>2, WhoQueues DEF Awaited
  <2>4. \/ i \in DOMAIN queue[x] /\ queue'[x][i] = queue[x][i]
        \/ x = d /\ i = Len(queue[d]) + 1 /\ queue'[x][i] = e
    BY <2>1, <2>2, AppendedEntries DEF e
  <2>5. \/ k \in DOMAIN queue[y] /\ queue'[y][k] = queue[y][k]
        \/ y = d /\ k = Len(queue[d]) + 1 /\ queue'[y][k] = e
    BY <2>1, <2>2, AppendedEntries DEF e
  <2> QED
    BY <2>2, <2>3, <2>4, <2>5 DEF SingleInv
<1>3. CASE Restart
  BY <1>3 DEF Restart
<1>4. CASE UNCHANGED queue
  BY <1>4 DEF SingleInv
<1> QED
  BY <1>1, <1>2, <1>3, <1>4, Changes

LEMMA NudgeHolds ==
  ASSUME Inv, [SettingsNext]_vars
  PROVE  NudgeInv'
<1> USE DEF Inv, TypeInv, CacheType, HistoryType
<1> SUFFICES ASSUME NEW t \in Threads
             PROVE  /\ \A d \in Devices : Nudging(t, d)' => block'[d][ScalarOf(d)] \in seen'[t]
                    /\ call'[t].pc \in {"look", "send", "wait"} /\ call'[t].req.kind = "nudge"
                         => call'[t].base \in seen'[t]
  BY DEF NudgeInv
<1>0. /\ \A d \in Devices : Nudging(t, d) => block[d][ScalarOf(d)] \in seen[t]
      /\ call[t].pc \in {"look", "send", "wait"} /\ call[t].req.kind = "nudge"
           => call[t].base \in seen[t]
  BY DEF NudgeInv
<1>1. ASSUME NEW r \in Requests, Ask(t, r)
      PROVE  /\ seen'[t] = IF r.kind = "nudge" THEN {block[r.device][ScalarOf(r.device)]} ELSE {}
             /\ UNCHANGED <<block, cvl, cache>>
             /\ r.kind = "nudge" => call'[t].pc \in {"over", "read"}
  <2>1. seen' = [seen EXCEPT ![t] = IF r.kind = "nudge" THEN {block[r.device][ScalarOf(r.device)]} ELSE {}]
    BY <1>1 DEF Ask
  <2>2. UNCHANGED <<block, cvl, cache>>
    BY <1>1 DEF Ask, deviceVars
  <2>3. ASSUME r.kind = "nudge" PROVE call'[t].pc \in {"over", "read"}
    <3>1. \/ call' = [call EXCEPT ![t] = Over("bad_request")]
          \/ call' = [call EXCEPT ![t] = [pc |-> "read", req |-> r, base |-> Null, plan |-> <<>>, next |-> 1]]
      BY <1>1, <2>3 DEF Ask
    <3> QED
      BY <3>1 DEF CallsType, Over
  <2> QED
    BY <2>1, <2>2, <2>3
<1>2. ASSUME NEW d \in Devices, Run(d)
      PROVE  /\ seen'[t] = IF Nudging(t, d) THEN seen[t] \cup {block'[d][ScalarOf(d)]} ELSE seen[t]
             /\ \A x \in Devices \ {d} : block'[x] = block[x]
  <2>1. seen'[t] = IF Nudging(t, d) THEN seen[t] \cup {block'[d][ScalarOf(d)]} ELSE seen[t]
    BY <1>2 DEF Run
  <2>2. \A x \in Devices \ {d} : block'[x] = block[x]
    <3>1. \E o : block' = [block EXCEPT ![d] = Filled(o.cells, @)]
      BY <1>2 DEF Run
    <3> QED
      BY <3>1 DEF BlocksType
  <2> QED
    BY <2>1, <2>2
<1>3. ASSUME ~\E r \in Requests : Ask(t, r), \A d \in Devices : ~Run(d)
      PROVE  seen'[t] = seen[t] /\ UNCHANGED block
  <2>1. ASSUME NEW u \in Threads, NEW r \in Requests, Ask(u, r), u # t PROVE seen'[t] = seen[t]
    BY <2>1 DEF Ask
  <2>2. UNCHANGED seen \/ \E u \in Threads, r \in Requests : Ask(u, r)
    BY <1>3, Changes
  <2>3. UNCHANGED block
    BY <1>3, Changes
  <2> QED
    BY <1>3, <2>1, <2>2, <2>3
<1>4. ASSUME NEW d \in Devices, Nudging(t, d)' PROVE block'[d][ScalarOf(d)] \in seen'[t]
  <2>0. UnderWay(t)' /\ call'[t].req.kind = "nudge" /\ call'[t].req.device = d
    BY <1>4 DEF Nudging
  <2>1. ASSUME NEW r \in Requests, Ask(t, r) PROVE block'[d][ScalarOf(d)] \in seen'[t]
    <3>1. call'[t].req = r
      BY <2>0, <2>1, AskMoves DEF UnderWay
    <3> QED
      BY <1>1, <2>0, <2>1, <3>1
  <2>2. CASE ~\E r \in Requests : Ask(t, r)
    <3>1. UnderWay(t) /\ call'[t].req = call[t].req
      BY <2>0, <2>2, RequestsStay
    <3>2. Nudging(t, d) /\ \A x \in Devices \ {d} : ~Nudging(t, x)
      BY <2>0, <3>1 DEF Nudging
    <3>3. block[d][ScalarOf(d)] \in seen[t]
      BY <1>0, <3>2
    <3>4. ASSUME NEW x \in Devices, Run(x) PROVE block'[d][ScalarOf(d)] \in seen'[t]
      <4>1. CASE x = d
        BY <1>2, <3>2, <3>4, <4>1
      <4>2. CASE x # d
        <5>1. seen'[t] = seen[t] /\ block'[d] = block[d]
          BY <1>2, <3>2, <3>4, <4>2
        <5> QED
          BY <3>3, <5>1
      <4> QED
        BY <4>1, <4>2
    <3> QED
      BY <1>3, <2>2, <3>3, <3>4
  <2> QED
    BY <2>1, <2>2
<1> DEFINE Based(c) == c.pc \in {"look", "send", "wait"} /\ c.req.kind = "nudge"
<1>5. ASSUME Based(call'[t]) PROVE call'[t].base \in seen'[t]
  <2>1. UnderWay(t)' /\ ~\E r \in Requests : Ask(t, r)
    <3>1. UnderWay(t)'
      BY <1>5 DEF UnderWay
    <3>2. ASSUME NEW r \in Requests, Ask(t, r) PROVE FALSE
      <4>1. call'[t].req = r
        BY <1>5, <3>2, AskMoves
      <4> QED
        BY <1>1, <1>5, <3>2, <4>1
    <3> QED
      BY <3>1, <3>2
  <2>2. UnderWay(t) /\ call'[t].req = call[t].req
    BY <2>1, RequestsStay
  <2>3. seen[t] \subseteq seen'[t]
    BY <1>2, <1>3, <2>1
  <2>4. ASSUME call'[t].base = call[t].base, call[t].pc \in {"look", "send", "wait"}
        PROVE  call'[t].base \in seen'[t]
    BY <1>0, <1>5, <2>2, <2>3, <2>4
  <2>5. ASSUME NEW u \in Threads, NEW r \in Requests, Ask(u, r) PROVE call'[t].base \in seen'[t]
    <3>1. call'[t] = call[t]
      BY <2>1, <2>5, AskMoves DEF Others
    <3> QED
      BY <1>5, <2>4, <3>1
  <2>6. ASSUME NEW u \in Threads, ReadBase(u) \/ Send(u) PROVE call'[t].base \in seen'[t]
    BY <1>5, <2>4, <2>6, SubmitsMoves, ZenonT(60) DEF Others
  <2>7. ASSUME NEW u \in Threads, Look(u) PROVE call'[t].base \in seen'[t]
    BY <1>5, <2>4, <2>7, LookMoves DEF Others
  <2>8. ASSUME NEW u \in Threads, GiveUp(u) PROVE call'[t].base \in seen'[t]
    BY <1>5, <2>4, <2>8, GiveUpMoves DEF Others
  <2>9. ASSUME NEW u \in Threads, EditFactor(u) \/ EditSwitch(u) PROVE call'[t].base \in seen'[t]
    BY <1>5, <2>4, <2>9, EditMoves DEF Others
  <2>10. ASSUME NEW u \in Threads, SaveLoads(u) PROVE call'[t].base \in seen'[t]
    BY <1>5, <2>4, <2>10, SaveLoadsMoves DEF Others
  <2>11. ASSUME NEW u \in Threads, SaveReplaces(u) PROVE call'[t].base \in seen'[t]
    BY <1>5, <2>4, <2>11, SaveReplacesMoves DEF Others
  <2>12. ASSUME NEW d \in Devices, Run(d) PROVE call'[t].base \in seen'[t]
    <3> DEFINE e == Head(queue[d])
               u == e.by
    <3>1. e.device = d /\ e = queue[d][1] /\ 1 \in DOMAIN queue[d]
      BY <2>12, HeadsDevice DEF Run
    <3>2. EntryOf(e, d, call[u], peak[u])
      BY <3>1 DEF EntryInv
    <3>3. Others(u) /\ \E o : Goes(u, d, o)
      BY <2>12, <3>1, RunMoves
    <3>4. PICK o : Goes(u, d, o)
      BY <3>3
    <3> HIDE DEF e, u
    <3>5. CASE t # u
      BY <1>5, <2>4, <3>3, <3>5 DEF Others
    <3>6. CASE t = u /\ call[t].pc = "base" /\ call'[t].base = block[d][ScalarOf(d)]
      <4>1. Nudging(t, d)
        BY <1>5, <2>2, <3>2, <3>6 DEF Nudging, EntryOf
      <4> QED
        BY <1>0, <2>3, <3>6, <4>1
    <3>7. CASE t = u /\ ~(call[t].pc = "base" /\ call'[t].base = block[d][ScalarOf(d)])
      <4>1. \/ call'[t] = call[t]
            \/ call[t].pc = "wait" /\ call'[t].base = call[t].base
        BY <1>5, <3>4, <3>7 DEF Goes
      <4> QED
        BY <1>5, <2>4, <4>1
    <3> QED
      BY <3>5, <3>6, <3>7
  <2>13. CASE Restart
    BY <1>5, <2>4, <2>13, RestartMoves
  <2>14. (\E d \in Devices : Poll(d)) \/ BatteryPoll \/ UNCHANGED vars => call' = call
    BY DEF Poll, BatteryPoll, vars
  <2>15. call' = call => call'[t].base \in seen'[t]
    BY <1>5, <2>4
  <2> HIDE DEF Based
  <2> QED
    BY <2>5, <2>6, <2>7, <2>8, <2>9, <2>10, <2>11, <2>12, <2>13, <2>14, <2>15 DEF SettingsNext
<1> QED
  BY <1>4, <1>5

-----------------------------------------------------------------------------
(* The overrides.                                                            *)

\* An edit that is being saved after a step has just been made, or was being saved
\* before with the same value.
LEMMA SavingBefore ==
  ASSUME Inv, [SettingsNext]_vars, NEW t \in Threads, NEW key, Saving(t, key)'
  PROVE  /\ ~Restart /\ ~SaveReplaces(t) /\ key = Key(call'[t].req)
         /\ \/ (EditFactor(t) \/ EditSwitch(t)) /\ key = Key(call[t].req)
            \/ SaveLoads(t) /\ Saving(t, key) /\ call'[t].edit[key] = call[t].edit[key]
            \/ call'[t] = call[t] /\ Saving(t, key)
<1> USE DEF Inv, TypeInv, CacheType, HistoryType
<1>0. call'[t].pc \in {"save", "replace"} /\ Key(call'[t].req) = key
  BY DEF Saving
<1>1. call'[t] = call[t] => Saving(t, key)
  BY <1>0 DEF Saving
<1>2. ~Restart
  BY <1>0, RestartMoves DEF UnderWay
<1>3. ~SaveReplaces(t)
  BY <1>0, SaveReplacesMoves
<1> DEFINE Goal == \/ (EditFactor(t) \/ EditSwitch(t)) /\ key = Key(call[t].req)
                   \/ SaveLoads(t) /\ Saving(t, key) /\ call'[t].edit[key] = call[t].edit[key]
                   \/ call'[t] = call[t] /\ Saving(t, key)
<1>4. ASSUME NEW u \in Threads, NEW r \in Requests, Ask(u, r) PROVE Goal
  BY <1>0, <1>1, <1>4, AskMoves DEF Others
<1>5. ASSUME NEW u \in Threads, ReadBase(u) \/ Send(u) PROVE Goal
  BY <1>0, <1>1, <1>5, SubmitsMoves DEF Others
<1>6. ASSUME NEW u \in Threads, Look(u) PROVE Goal
  BY <1>0, <1>1, <1>6, LookMoves DEF Others
<1>7. ASSUME NEW u \in Threads, GiveUp(u) PROVE Goal
  BY <1>0, <1>1, <1>7, GiveUpMoves DEF Others
<1>8. ASSUME NEW u \in Threads, EditFactor(u) \/ EditSwitch(u) PROVE Goal
  <2>1. CASE u = t
    BY <1>0, <1>8, <2>1, EditMoves
  <2> QED
    BY <1>1, <1>8, <2>1, EditMoves DEF Others
<1>9. ASSUME NEW u \in Threads, SaveLoads(u) PROVE Goal
  <2>1. CASE u = t
    <3>1. call'[t].req = call[t].req /\ call[t].pc = "save"
      BY <1>9, <2>1, SaveLoadsMoves
    <3>2. Saving(t, key)
      BY <1>0, <3>1 DEF Saving
    <3>3. call'[t].edit[key] = call[t].edit[key]
      BY <1>0, <1>9, <2>1, <3>1, SaveLoadsMoves
    <3> QED
      BY <1>9, <2>1, <3>2, <3>3
  <2> QED
    BY <1>1, <1>9, <2>1, SaveLoadsMoves DEF Others
<1>10. ASSUME NEW u \in Threads, SaveReplaces(u) PROVE Goal
  BY <1>1, <1>3, <1>10, SaveReplacesMoves DEF Others
<1>11. ASSUME NEW d \in Devices, Run(d) PROVE Goal
  <2> DEFINE u == Head(queue[d]).by
  <2>1. Head(queue[d]).device = d
    BY <1>11, HeadsDevice DEF Run
  <2>2. Others(u) /\ \E o : Goes(u, d, o)
    BY <1>11, <2>1, RunMoves
  <2>3. PICK o : Goes(u, d, o)
    BY <2>2
  <2> HIDE DEF u
  <2>4. CASE t # u
    BY <1>1, <2>2, <2>4 DEF Others
  <2>5. CASE t = u
    BY <1>0, <1>1, <2>3, <2>5 DEF Goes
  <2> QED
    BY <2>4, <2>5
<1>12. (\E d \in Devices : Poll(d)) \/ BatteryPoll \/ UNCHANGED vars => call' = call
  BY DEF Poll, BatteryPoll, vars
<1>13. call' = call => Goal
  BY <1>1
<1> HIDE DEF Goal
<1>14. Goal
  BY <1>2, <1>4, <1>5, <1>6, <1>7, <1>8, <1>9, <1>10, <1>11, <1>12, <1>13 DEF SettingsNext
<1> QED
  BY <1>0, <1>2, <1>3, <1>14 DEF Goal

\* An edit stops being saved only when its save is done, or by a restart.
LEMMA SavingAfter ==
  ASSUME Inv, [SettingsNext]_vars, ~Restart, NEW t \in Threads, ~SaveReplaces(t),
         NEW key, Saving(t, key)
  PROVE  Saving(t, key)'
<1> USE DEF Inv, TypeInv, CacheType, HistoryType
<1>0. call[t].pc \in {"save", "replace"} /\ Key(call[t].req) = key
  BY DEF Saving
<1> DEFINE Goal == Saving(t, key)'
<1>1. call'[t] = call[t] => Goal
  BY <1>0 DEF Saving
<1>4. ASSUME NEW u \in Threads, NEW r \in Requests, Ask(u, r) PROVE Goal
  BY <1>0, <1>1, <1>4, AskMoves DEF Others
<1>5. ASSUME NEW u \in Threads, ReadBase(u) \/ Send(u) PROVE Goal
  BY <1>0, <1>1, <1>5, SubmitsMoves DEF Others
<1>6. ASSUME NEW u \in Threads, Look(u) PROVE Goal
  BY <1>0, <1>1, <1>6, LookMoves DEF Others
<1>7. ASSUME NEW u \in Threads, GiveUp(u) PROVE Goal
  BY <1>0, <1>1, <1>7, GiveUpMoves DEF Others, Awaited
<1>8. ASSUME NEW u \in Threads, EditFactor(u) \/ EditSwitch(u) PROVE Goal
  BY <1>0, <1>1, <1>8, EditMoves DEF Others
<1>9. ASSUME NEW u \in Threads, SaveLoads(u) PROVE Goal
  <2>1. CASE u = t
    BY <1>0, <1>9, <2>1, SaveLoadsMoves DEF Saving
  <2> QED
    BY <1>1, <1>9, <2>1, SaveLoadsMoves DEF Others
<1>10. ASSUME NEW u \in Threads, SaveReplaces(u) PROVE Goal
  BY <1>1, <1>10, SaveReplacesMoves DEF Others
<1>11. ASSUME NEW d \in Devices, Run(d) PROVE Goal
  <2> DEFINE u == Head(queue[d]).by
  <2>1. Head(queue[d]).device = d
    BY <1>11, HeadsDevice DEF Run
  <2>2. Others(u) /\ \E o : Goes(u, d, o)
    BY <1>11, <2>1, RunMoves
  <2>3. PICK o : Goes(u, d, o)
    BY <2>2
  <2> HIDE DEF u
  <2>4. CASE t # u
    BY <1>1, <2>2, <2>4 DEF Others
  <2>5. CASE t = u
    BY <1>0, <1>1, <2>3, <2>5 DEF Goes, Awaited
  <2> QED
    BY <2>4, <2>5
<1>12. (\E d \in Devices : Poll(d)) \/ BatteryPoll \/ UNCHANGED vars => call' = call
  BY DEF Poll, BatteryPoll, vars
<1>13. call' = call => Goal
  BY <1>1
<1> HIDE DEF Goal
<1>14. Goal
  BY <1>4, <1>5, <1>6, <1>7, <1>8, <1>9, <1>10, <1>11, <1>12, <1>13 DEF SettingsNext
<1> QED
  BY <1>14 DEF Goal

\* An edit that is being saved after it, by a step that strays nobody from the key, found
\* no other save of it under way.
LEMMA LoneEdit ==
  ASSUME Inv, NEW t \in Threads, EditFactor(t) \/ EditSwitch(t), call'[t].pc = "save",
         NEW key, key = Key(call[t].req), key \notin strayed'
  PROVE  (\A u \in Threads : ~Saving(u, key)) /\ call'[t].edit[key] = Memory'[key]
  BY EditMoves DEF Inv, TypeInv

\* An override that no step edits and nobody strays from keeps its value.
LEMMA Unedited ==
  ASSUME Inv, [SettingsNext]_vars, ~Restart, NEW key \in Keys, key \notin strayed',
         \A t \in Threads : (EditFactor(t) \/ EditSwitch(t)) /\ call'[t].pc = "save" =>
                              key # Key(call[t].req)
  PROVE  key \notin strayed /\ Memory'[key] = Memory[key]
<1> USE DEF Inv, TypeInv
<1>1. ASSUME NEW t \in Threads, EditFactor(t) \/ EditSwitch(t)
      PROVE  key \notin strayed /\ Memory'[key] = Memory[key]
  <2> DEFINE k == Key(call[t].req)
  <2>1. \/ Memory' = Memory /\ strayed' = strayed
        \/ /\ call'[t].pc = "save"
           /\ \A x \in Keys \ {k} : Memory'[x] = Memory[x]
           /\ strayed' = strayed \cup {k} \/ strayed' = strayed \ {k}
    BY <1>1, EditMoves
  <2>2. call'[t].pc = "save" => key # k
    BY <1>1
  <2> HIDE DEF k
  <2> QED
    BY <2>1, <2>2
<1>2. ASSUME NEW t \in Threads, SaveLoads(t)
      PROVE  key \notin strayed /\ Memory'[key] = Memory[key]
  <2>1. UNCHANGED <<enabled, factor>> /\ strayed \subseteq strayed'
    BY <1>2, SaveLoadsMoves
  <2> QED
    BY <2>1 DEF Memory
<1>3. ASSUME NEW t \in Threads, SaveReplaces(t)
      PROVE  key \notin strayed /\ Memory'[key] = Memory[key]
  <2>1. UNCHANGED <<enabled, factor>> /\ strayed \subseteq strayed'
    BY <1>3, SaveReplacesMoves
  <2> QED
    BY <2>1 DEF Memory
<1>4. UNCHANGED stateVars => Memory' = Memory /\ strayed' = strayed
  BY DEF stateVars, Memory
<1> QED
  BY <1>1, <1>2, <1>3, <1>4, Changes

LEMMA StateHolds ==
  ASSUME Inv, [SettingsNext]_vars
  PROVE  StateType'
<1> USE DEF Inv, TypeInv
<1>1. ASSUME NEW t \in Threads, EditFactor(t) \/ EditSwitch(t) PROVE StateType'
  BY <1>1, EditMoves
<1>2. ASSUME NEW t \in Threads, SaveReplaces(t) PROVE StateType'
  BY <1>2, SaveReplacesMoves
<1>3. ASSUME NEW t \in Threads, SaveLoads(t) PROVE StateType'
  BY <1>3 DEF SaveLoads, StateType
<1>4. CASE Restart
  <2>1. PICK read \in SUBSET DOMAIN file :
          /\ factor' = (IF "factor" \in read THEN file ELSE Configured).factor
          /\ enabled' = (IF "enabled" \in read THEN file ELSE Configured).enabled
    BY <1>4 DEF Restart
  <2>2. \A key \in DOMAIN file : file[key] \in Values(key)
    BY DocumentOf DEF StateType
  <2>3. Configured.factor \in Int /\ Configured.enabled \in [Devices -> BOOLEAN]
    BY SettingsAssumption DEF Configured, SettingsAssumption, MinFactor, MaxFactor
  <2>4. factor' \in Int
    BY <2>1, <2>2, <2>3 DEF Values
  <2>5. enabled' \in [Devices -> BOOLEAN]
    BY <2>1, <2>2, <2>3 DEF Values
  <2> QED
    BY <1>4, <2>4, <2>5 DEF Restart, StateType
<1>5. CASE UNCHANGED stateVars
  BY <1>5 DEF stateVars, StateType
<1> QED
  BY <1>1, <1>2, <1>3, <1>4, <1>5, Changes

LEMMA SaveHolds ==
  ASSUME Inv, [SettingsNext]_vars
  PROVE  SaveInv'
<1> USE DEF Inv, TypeInv
<1>1. ASSUME NEW t \in Threads, call'[t].pc \in {"save", "replace"}
      PROVE  /\ ~Restart /\ ~SaveReplaces(t)
             /\ \/ (EditFactor(t) \/ EditSwitch(t))
                \/ SaveLoads(t)
                \/ call'[t] = call[t]
  <2>1. PICK key : key = Key(call'[t].req)
    OBVIOUS
  <2>2. Saving(t, key)'
    BY <1>1, <2>1 DEF Saving
  <2> QED
    BY <2>2, SavingBefore
<1>2. ASSUME NEW t \in Threads, call'[t].pc = "save" PROVE DOMAIN call'[t].edit = {Key(call'[t].req)}
  <2>1. CASE EditFactor(t) \/ EditSwitch(t)
    BY <1>2, <2>1, EditMoves
  <2>2. CASE SaveLoads(t)
    BY <1>2, <2>2, SaveLoadsMoves
  <2>3. CASE call'[t] = call[t]
    BY <1>2, <2>3 DEF SaveInv
  <2> QED
    BY <1>1, <1>2, <2>1, <2>2, <2>3
<1>3. ASSUME NEW t \in Threads, call'[t].pc = "replace"
      PROVE  /\ lock' = t /\ Key(call'[t].req) \in DOMAIN call'[t].edit
             /\ \A key \in Keys \ ({Key(call'[t].req)} \cup strayed') :
                  (\A u \in Threads : ~Saving(u, key)') =>
                    Stored(call'[t].edit, key) = Memory'[key]
  <2>1. CASE EditFactor(t) \/ EditSwitch(t)
    BY <1>3, <2>1, EditMoves
  <2>2. CASE SaveLoads(t)
    <3>1. /\ lock' = t /\ call'[t].req = call[t].req /\ UNCHANGED <<enabled, factor, file>>
          /\ Key(call[t].req) \in DOMAIN call'[t].edit /\ strayed \subseteq strayed'
          /\ \A k \in Keys \ ({Key(call[t].req)} \cup strayed') :
               Stored(call'[t].edit, k) = Stored(file, k)
      BY <2>2, SaveLoadsMoves
    <3>2. ASSUME NEW key \in Keys \ ({Key(call[t].req)} \cup strayed'),
                 \A u \in Threads : ~Saving(u, key)'
          PROVE  Stored(call'[t].edit, key) = Memory'[key]
      <4>1. \A u \in Threads : ~Saving(u, key)
        <5> SUFFICES ASSUME NEW u \in Threads, Saving(u, key) PROVE FALSE
          OBVIOUS
        <5>1. ~SaveReplaces(u)
          <6>1. call[u].pc = "replace" => lock = u
            BY DEF SaveInv
          <6>2. lock = NoOne
            BY <2>2, SaveLoadsMoves
          <6> QED
            BY <6>1, <6>2, SettingsAssumption DEF SaveReplaces, SettingsAssumption
        <5>2. ~Restart
          BY <1>1, <1>3
        <5> QED
          BY <3>2, <5>1, <5>2, SavingAfter
      <4>2. Stored(file, key) = Memory[key]
        BY <3>1, <3>2, <4>1 DEF FileMatchesMemory
      <4>3. Memory' = Memory
        BY <3>1 DEF Memory
      <4> QED
        BY <3>1, <3>2, <4>2, <4>3
    <3> QED
      BY <3>1, <3>2
  <2>3. CASE call'[t] = call[t]
    <3>1. /\ lock = t /\ Key(call[t].req) \in DOMAIN call[t].edit
          /\ \A key \in Keys \ ({Key(call[t].req)} \cup strayed) :
               (\A u \in Threads : ~Saving(u, key)) => Stored(call[t].edit, key) = Memory[key]
      BY <1>3, <2>3 DEF SaveInv
    <3>2. ~Restart /\ \A u \in Threads : ~SaveLoads(u) /\ ~SaveReplaces(u)
      <4>1. ASSUME NEW u \in Threads, SaveLoads(u) PROVE FALSE
        <5>1. lock = NoOne
          BY <4>1 DEF SaveLoads
        <5> QED
          BY <3>1, <5>1, SettingsAssumption DEF SettingsAssumption
      <4>2. ASSUME NEW u \in Threads, SaveReplaces(u) PROVE FALSE
        <5>1. call[u].pc = "replace"
          BY <4>2 DEF SaveReplaces
        <5>2. u = t
          BY <3>1, <5>1 DEF SaveInv
        <5> QED
          BY <1>1, <1>3, <4>2, <5>2
      <4> QED
        BY <1>1, <1>3, <4>1, <4>2
    <3>3. lock' = lock
      BY <3>2, Changes, EditMoves DEF stateVars
    <3>4. ASSUME NEW key \in Keys \ ({Key(call[t].req)} \cup strayed'),
                 \A u \in Threads : ~Saving(u, key)'
          PROVE  Stored(call[t].edit, key) = Memory'[key]
      <4>1. \A u \in Threads : ~Saving(u, key)
        BY <3>2, <3>4, SavingAfter
      <4>2. ASSUME NEW u \in Threads, EditFactor(u) \/ EditSwitch(u), call'[u].pc = "save",
                   key = Key(call[u].req)
            PROVE  FALSE
        <5>1. call'[u].req = call[u].req
          BY <4>2, EditMoves
        <5>2. Saving(u, key)'
          BY <4>2, <5>1 DEF Saving
        <5> QED
          BY <3>4, <5>2
      <4>3. key \notin strayed /\ Memory'[key] = Memory[key]
        BY <3>2, <3>4, <4>2, Unedited
      <4> QED
        BY <3>1, <3>4, <4>1, <4>3
    <3> QED
      BY <2>3, <3>1, <3>3, <3>4
  <2> QED
    BY <1>1, <1>3, <2>1, <2>2, <2>3
<1>4. ASSUME NEW key \in Keys, key \notin strayed', NEW t \in Threads, Saving(t, key)'
      PROVE  /\ call'[t].edit[key] = Memory'[key]
             /\ \A u \in Threads : Saving(u, key)' => u = t
  <2>0. ~Restart
    BY <1>4, SavingBefore
  <2> DEFINE Edits(u) == (EditFactor(u) \/ EditSwitch(u)) /\ key = Key(call[u].req)
  <2>2. ASSUME NEW u \in Threads, Saving(u, key)'
        PROVE  Edits(u) \/ (Saving(u, key) /\ call'[u].edit[key] = call[u].edit[key])
    BY <2>2, SavingBefore
  <2>3. ASSUME NEW u \in Threads, Edits(u), call'[u].pc = "save"
        PROVE  /\ \A v \in Threads : ~Saving(v, key)
               /\ call'[u].edit[key] = Memory'[key]
               /\ \A v \in Threads : Edits(v) => u = v
    <3>1. /\ \A v \in Threads : ~Saving(v, key)
          /\ call'[u].edit[key] = Memory'[key]
      BY <1>4, <2>3, LoneEdit
    <3>2. \A v \in Threads : Edits(v) => u = v
      <4>1. Others(u) /\ call'[u].pc # "edit"
        BY <2>3, EditMoves
      <4> SUFFICES ASSUME NEW v \in Threads, Edits(v), u # v PROVE FALSE
        OBVIOUS
      <4>2. call'[v].pc # "edit" /\ call[v].pc = "edit"
        BY EditMoves
      <4> QED
        BY <4>1, <4>2 DEF Others
    <3> QED
      BY <3>1, <3>2
  <2>4. CASE \E u \in Threads : Edits(u) /\ call'[u].pc = "save"
    <3>1. PICK u \in Threads : Edits(u) /\ call'[u].pc = "save"
      BY <2>4
    <3>2. /\ \A v \in Threads : ~Saving(v, key)
          /\ call'[u].edit[key] = Memory'[key]
          /\ \A v \in Threads : Edits(v) => u = v
      BY <2>3, <3>1
    <3>3. \A v \in Threads : Saving(v, key)' => v = u
      BY <2>2, <3>2
    <3> HIDE DEF Edits
    <3> QED
      BY <1>4, <3>2, <3>3
  <2>5. CASE ~\E u \in Threads : Edits(u) /\ call'[u].pc = "save"
    <3>1. key \notin strayed /\ Memory'[key] = Memory[key]
      BY <1>4, <2>0, <2>5, Unedited
    <3>2. ASSUME NEW u \in Threads, Saving(u, key)'
          PROVE  Saving(u, key) /\ call'[u].edit[key] = call[u].edit[key]
      <4>1. ~Edits(u)
        <5>1. Edits(u) => call'[u].pc \in {"over", "save"}
          BY EditMoves
        <5> QED
          BY <2>5, <3>2, <5>1 DEF Saving
      <4> QED
        BY <2>2, <3>2, <4>1
    <3>3. /\ call[t].edit[key] = Memory[key]
          /\ \A u \in Threads : Saving(u, key) => u = t
      BY <1>4, <3>1, <3>2 DEF SaveInv
    <3> QED
      BY <1>4, <3>1, <3>2, <3>3
  <2> QED
    BY <2>4, <2>5
<1> QED
  BY <1>2, <1>3, <1>4 DEF SaveInv

LEMMA FileHolds ==
  ASSUME Inv, [SettingsNext]_vars
  PROVE  FileMatchesMemory'
<1> USE DEF Inv, TypeInv
<1> SUFFICES ASSUME NEW key \in Keys, key \notin strayed', \A t \in Threads : ~Saving(t, key)'
             PROVE  Stored(file', key) = Memory'[key]
  BY DEF FileMatchesMemory, Stored
<1>1. CASE Restart
  <2>1. PICK read \in SUBSET DOMAIN file :
          /\ factor' = (IF "factor" \in read THEN file ELSE Configured).factor
          /\ enabled' = (IF "enabled" \in read THEN file ELSE Configured).enabled
          /\ strayed' = DOMAIN file \ read
    BY <1>1 DEF Restart
  <2>2. key \in DOMAIN file <=> key \in read
    BY <2>1
  <2>3. Memory'[key] = IF key \in read THEN file[key] ELSE Configured[key]
    <3>1. CASE key = "factor"
      BY <2>1, <3>1 DEF Memory
    <3>2. CASE key = "enabled"
      BY <2>1, <3>2 DEF Memory
    <3> QED
      BY <3>1, <3>2 DEF Keys
  <2>4. file' = file
    BY <1>1 DEF Restart
  <2> QED
    BY <2>2, <2>3, <2>4 DEF Stored
<1>2. CASE ~Restart
  <2>1. ASSUME NEW t \in Threads, EditFactor(t) \/ EditSwitch(t), call'[t].pc = "save",
               key = Key(call[t].req)
        PROVE  FALSE
    <3>1. call'[t].req = call[t].req
      BY <2>1, EditMoves
    <3>2. Saving(t, key)'
      BY <2>1, <3>1 DEF Saving
    <3> QED
      BY <3>2
  <2>2. key \notin strayed /\ Memory'[key] = Memory[key]
    BY <1>2, <2>1, Unedited
  <2>3. CASE \A t \in Threads : ~Saving(t, key)
    <3>1. Stored(file, key) = Memory[key]
      BY <2>2, <2>3 DEF FileMatchesMemory
    <3>2. ASSUME NEW t \in Threads, SaveReplaces(t) PROVE Stored(file', key) = Memory[key]
      <4>1. call[t].pc = "replace" /\ (file' = call[t].edit \/ file' = file)
        BY <3>2, SaveReplacesMoves
      <4>2. key # Key(call[t].req)
        BY <2>3, <4>1 DEF Saving
      <4>3. Stored(call[t].edit, key) = Memory[key]
        BY <2>2, <2>3, <4>1, <4>2 DEF SaveInv
      <4> QED
        BY <3>1, <4>1, <4>3
    <3>3. ASSUME NEW t \in Threads, EditFactor(t) \/ EditSwitch(t) \/ SaveLoads(t) PROVE file' = file
      BY <3>3 DEF EditFactor, EditSwitch, SaveLoads
    <3>4. UNCHANGED stateVars => file' = file
      BY DEF stateVars
    <3>5. Stored(file', key) = Memory[key]
      BY <1>2, <3>1, <3>2, <3>3, <3>4, Changes
    <3> QED
      BY <2>2, <3>5
  <2>4. ASSUME NEW t \in Threads, Saving(t, key) PROVE Stored(file', key) = Memory'[key]
    <3>1. SaveReplaces(t)
      BY <1>2, <2>4, SavingAfter
    <3>2. key = Key(call[t].req) /\ call[t].pc = "replace"
      BY <2>4, <3>1 DEF Saving, SaveReplaces
    <3>3. file' = call[t].edit
      BY <3>1, <3>2, SaveReplacesMoves
    <3>4. call[t].edit[key] = Memory[key] /\ key \in DOMAIN call[t].edit
      BY <2>2, <2>4, <3>2 DEF SaveInv
    <3> QED
      BY <2>2, <3>3, <3>4 DEF Stored
  <2> QED
    BY <2>3, <2>4
<1> QED
  BY <1>1, <1>2

-----------------------------------------------------------------------------
(* The theorems.                                                             *)

LEMMA InvHolds ==
  ASSUME Inv, [SettingsNext]_vars
  PROVE  Inv'
<1>1. TypeInv'
  BY BlocksHold, CacheHolds, QueueHolds, CallsHold, HistoryHolds, StateHolds DEF TypeInv
<1>2. SaveInv' /\ FileMatchesMemory'
  BY SaveHolds, FileHolds
<1>3. PeakInv' /\ PlanInv' /\ EntryInv' /\ SingleInv' /\ NudgeInv' /\ BlockSound'
  BY PeakHolds, PlanHolds, EntryHolds, SingleHolds, NudgeHolds, BlocksHold
<1> QED
  BY <1>1, <1>2, <1>3 DEF Inv

LEMMA InvStarts ==
  ASSUME SettingsInit
  PROVE  Inv
<1> USE DEF SettingsInit
<1>0. \A t \in Threads : call[t].pc = "idle" /\ ran[t] = {}
  OBVIOUS
<1>1. BlocksType /\ BlockSound
  <2>1. /\ block = [d \in Devices |-> block[d]]
        /\ \A d \in Devices : Registers(d, block[d])
        /\ Sound(block["epever"])
    BY BlocksAssumption DEF BlocksAssumption
  <2> QED
    BY <2>1 DEF BlocksType, BlockSound
<1>2. CacheType
  BY DEF CacheType, Cached
<1>3. QueueType
  BY DEF QueueType
<1>4. CallsType
  BY DEF CallsType, CallType
<1>5. HistoryType
  <2>1. cvl \in Nat /\ Null \in Nat
    BY SettingsAssumption DEF SettingsAssumption, Null
  <2>2. IsFiniteSet({})
    BY FS_EmptySet
  <2> QED
    BY <2>1, <2>2 DEF HistoryType
<1>6. StateType
  BY BlankDocument, SettingsAssumption DEF StateType, SettingsAssumption, MinFactor, MaxFactor
<1>7. SaveInv /\ PeakInv /\ NudgeInv
  BY <1>0 DEF SaveInv, PeakInv, NudgeInv, Saving, UnderWay, Nudging
<1>8. PlanInv
  BY <1>0 DEF PlanInv, PlanOf
<1>9. EntryInv /\ SingleInv
  BY DEF EntryInv, SingleInv
<1>10. FileMatchesMemory
  BY BlankDocument DEF FileMatchesMemory, Memory, Configured
<1> QED
  BY <1>1, <1>2, <1>3, <1>4, <1>5, <1>6, <1>7, <1>8, <1>9, <1>10 DEF Inv, TypeInv

\* All of the above holds in every state the handlers, actors and restarts can reach:
\* the invariant that every result below rests on.
THEOREM SettingsInv == SettingsSpec => []Inv
<1>1. SettingsInit => Inv
  BY InvStarts
<1>2. Inv /\ [SettingsNext]_vars => Inv'
  BY InvHolds
<1> QED
  BY <1>1, <1>2, PTL DEF SettingsSpec

\* The EPEver never holds a voltage block that its adapter would refuse: not when handlers
\* that each looked at an older block write at the same time, nor when a command runs after
\* its caller gave up, for any payloads and any number of threads.
\* [epever.py, write_charge_voltages()]
THEOREM BlockStaysSound == SettingsSpec => []BlockSound
<1>1. Inv => BlockSound
  BY DEF Inv
<1> QED
  BY <1>1, SettingsInv, PTL

\* "ok" is answered only when every command of the request has taken effect, and a refusal
\* only when none of them is still queued; only a request that was dropped may be followed
\* by its own command.  [web_display.py, the handlers' except clauses]
THEOREM AnswersHonest == SettingsSpec => []AnswerHonest
<1>1. Inv => AnswerHonest
  <2> SUFFICES ASSUME Inv, NEW t \in Threads, call[t].pc = "over"
               PROVE  /\ call[t].answer = "ok" => ran[t] = DOMAIN call[t].plan
                      /\ call[t].answer \in {"bad_request", "conflict"} =>
                           \A d \in Devices : \A i \in DOMAIN queue[d] : queue[d][i].by # t
    BY DEF AnswerHonest
  <2>1. call[t].answer = "ok" => ran[t] = DOMAIN call[t].plan
    BY DEF Inv, PlanInv, PlanOf
  <2>2. ASSUME call[t].answer # "dropped", NEW d \in Devices, NEW i \in DOMAIN queue[d]
        PROVE  queue[d][i].by # t
    BY <2>2, WhoQueues DEF Awaited
  <2> QED
    BY <2>1, <2>2
<1> QED
  BY <1>1, SettingsInv, PTL

\* What a nudge adds its step to is a setpoint that the device itself had since the request
\* arrived, however many other handlers write it meanwhile.  [supervisor.py,
\* read_classic_settings(); web_display.py, the voltage-nudge handlers]
THEOREM NudgesFromFresh == SettingsSpec => []NudgeFromFresh
<1>1. Inv => NudgeFromFresh
  BY DEF Inv, NudgeInv, NudgeFromFresh
<1> QED
  BY <1>1, SettingsInv, PTL

\* No request raises a guarded voltage above the highest limit that the snapshot has held
\* since it arrived, whatever it asks for, whoever else writes, however late its command
\* runs, and however old a battery reading the snapshot keeps.
\* [web_display.py, _guard_voltage_targets_against_bms()]
THEOREM RaisesWithinLimit == SettingsSpec => RaisedWithinLimit
<1>1. Inv /\ [SettingsNext]_vars =>
        \A d \in Devices : queue[d] # <<>> =>
          \A c \in Guarded(d) :
            block'[d][c] > block[d][c] => block'[d][c] <= peak[Head(queue[d]).by]
  <2> SUFFICES ASSUME Inv, [SettingsNext]_vars, NEW d \in Devices, queue[d] # <<>>,
                      NEW c \in Guarded(d), block'[d][c] > block[d][c]
               PROVE  block'[d][c] <= peak[Head(queue[d]).by]
    OBVIOUS
  <2> DEFINE e == Head(queue[d])
  <2>1. c \in DOMAIN block[d] /\ block[d][c] \in Int
    BY CellSets DEF Inv, TypeInv, BlocksType, Registers, Guarded
  <2>2. block'[d] # block[d]
    BY <2>1
  <2>3. Run(d)
    <3>1. ASSUME NEW x \in Devices, Run(x), x # d PROVE FALSE
      <4>1. \E o : block' = [block EXCEPT ![x] = Filled(o.cells, @)]
        BY <3>1 DEF Run
      <4>2. block'[d] = block[d]
        BY <3>1, <4>1 DEF Inv, TypeInv, BlocksType
      <4> QED
        BY <2>2, <4>2
    <3> QED
      BY <2>2, <3>1, Changes
  <2>4. e.device = d /\ e = queue[d][1] /\ 1 \in DOMAIN queue[d]
    BY HeadsDevice
  <2>5. \E o : Bounded(d, e, o) /\ block' = [block EXCEPT ![d] = Filled(o.cells, @)]
    BY <2>3, <2>4, RunMoves DEF Inv, TypeInv
  <2>6. Fits(d, e.cells, peak[e.by])
    BY <2>4 DEF Inv, EntryInv, EntryOf
  <2> HIDE DEF e
  <2>7. PICK o : Bounded(d, e, o) /\ block' = [block EXCEPT ![d] = Filled(o.cells, @)]
    BY <2>5
  <2>8. block'[d] = Filled(o.cells, block[d])
    BY <2>7 DEF Inv, TypeInv, BlocksType
  <2>9. c \in DOMAIN o.cells
    BY <2>1, <2>8 DEF Filled
  <2>10. c \in DOMAIN e.cells /\ block'[d][c] = e.cells[c]
    BY <2>7, <2>8, <2>9 DEF Filled, Bounded
  <2>11. block'[d][c] <= peak[e.by]
    BY <2>6, <2>10 DEF Fits
  <2> QED
    BY <2>11 DEF e
<1> QED
  BY <1>1, SettingsInv, PTL DEF SettingsSpec, RaisedWithinLimit

\* Once no edit of an override is being saved, the file says what the process goes by, for
\* any interleaving of edits of both overrides with saves and restarts, and after saves
\* whose load failed: except of an override whose last edits overlapped, or that the file
\* system would not write or give back.  [runtime_state.py, _save_state()]
THEOREM FileFollowsMemory == SettingsSpec => []FileMatchesMemory
<1>1. Inv => FileMatchesMemory
  BY DEF Inv
<1> QED
  BY <1>1, SettingsInv, PTL
=============================================================================
