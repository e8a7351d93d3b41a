------------------------ MODULE ExternalLoaderProofs ------------------------
(***************************************************************************)
(* Proofs about ExternalLoader and PlannedLoader: for every placement of   *)
(* BAR1, every plan and any number of boots, the loader gives the machine  *)
(* back clean or not at all, and never lets a moved GPU master the bus.    *)
(***************************************************************************)
EXTENDS PlannedLoader, TLAPS

\* The phases in which nothing has been changed yet, and those in which the
\* destination is reserved.
Before == {"start", "load", "check", "reserve"}
Changing == {"apply", "measure", "enable", "openReceipt", "writeReceipt",
             "handoff", "successor"}

Quiet == "busMaster" \notin command

\* The position in a list of writes is one of its positions.
PositionInv ==
    /\ at = "apply" => k <= Len(ApplyWrites)
    /\ at = "enable" => k <= Len(EnableWrites)
    /\ at = "release" => Current = firmware

OwnerInv ==
    /\ at \in Before \cup {"returned"} => Current = firmware /\ ~ reserved
    /\ at \in {"start", "load", "returned"} => image = "none"
    /\ at \in Changing \cup {"reserve", "restore", "release"} => saved = firmware

\* How far apply has got: its first write turns bus mastering off.
ApplyInv ==
    /\ at = "apply" => (k = 1 /\ Current = firmware) \/ Quiet
    /\ at \in Changing \ {"apply"} => Quiet

\* How far a restore has got.
RestoreInv ==
    /\ at = "restore" =>
          /\ k = 1 => Quiet \/ ~ Moved
          /\ k > 1 => Quiet
          /\ k > 5 => straps.set0 = firmware.straps.set0
          /\ k > 6 => straps = firmware.straps
          /\ k > 8 => high = firmware.high
          /\ k > 9 => low = firmware.low
    /\ at = "halted" => Quiet \/ ~ Moved

IInv == TypeOK /\ PositionInv /\ OwnerInv /\ ApplyInv /\ RestoreInv

-----------------------------------------------------------------------------

\* The writes whose value their register can hold, and those of them that do
\* not turn bus mastering on.
RegisterWrites ==
    {Set("command", c) : c \in SUBSET Command} \cup
    {Set("high", a) : a \in Nat} \cup
    {Set("low", a) : a \in 0 .. FourGiB - 1} \cup
    {Set("set0", v) : v \in [part: Part1, enable: BOOLEAN]} \cup
    {Set("set1", v) : v \in [part: Part2, enable: BOOLEAN]}

QuietWrites ==
    {w \in RegisterWrites : w.register = "command" => "busMaster" \notin w.value}

LEMMA JoinedType ==
    ASSUME NEW S, NEW s \in Seq(S), NEW t \in Seq(S)
    PROVE  s \o t \in Seq(S) /\ Len(s \o t) = Len(s) + Len(t)
OBVIOUS

LEMMA Sums ==
    ASSUME NEW a, NEW b, NEW c, a = 4, b \in 0 .. 2, c = 1
    PROVE  a + b \in 4 .. 6 /\ (a + b) + c \in 5 .. 7
OBVIOUS

LEMMA DestinationTyped ==
    ASSUME plan.destination \in Nat
    PROVE  /\ plan.destination \div FourGiB \in Nat
           /\ plan.destination % FourGiB \in 0 .. FourGiB - 1
BY DEF FourGiB

LEMMA QuietCommand ==
    ASSUME NEW c \in SUBSET Command, "busMaster" \notin c
    PROVE  Set("command", c) \in QuietWrites
BY DEF QuietWrites, RegisterWrites, Set

LEMMA QuietAddress ==
    ASSUME plan.destination \in Nat
    PROVE  /\ Set("high", plan.destination \div FourGiB) \in QuietWrites
           /\ Set("low", plan.destination % FourGiB) \in QuietWrites
BY DestinationTyped DEF QuietWrites, RegisterWrites, Set

\* The two parts of a selector fit their fields and add up to the selector,
\* so the plan programs the aperture that was asked for (target_parts).
LEMMA TargetParts ==
    ASSUME NEW s \in Selectors
    PROVE  /\ target_parts(s).set0 \in Part1
           /\ target_parts(s).set1 \in Part2
           /\ target_parts(s).set0 + target_parts(s).set1 = s
BY DEF Selectors, MAX_BAR_SIZE_SELECTOR, target_parts, Part1, Part2

LEMMA QuietStraps ==
    ASSUME plan.selector \in PlannedSelectors
    PROVE  /\ Set("set0", StrapWritten(plan.selector, "set0")) \in QuietWrites
           /\ Set("set1", StrapWritten(plan.selector, "set1")) \in QuietWrites
<1>1. plan.selector \in Selectors
  BY DEF PlannedSelectors, Selectors, MAX_BAR_SIZE_SELECTOR
<1> QED
  BY <1>1, TargetParts DEF QuietWrites, RegisterWrites, Set, StrapWritten

LEMMA StrapWritesQuiet ==
    ASSUME plan.selector \in PlannedSelectors
    PROVE  StrapWrites \in Seq(QuietWrites) /\ Len(StrapWrites) \in 0 .. 2
<1> DEFINE s0 == Set("set0", StrapWritten(plan.selector, "set0"))
           s1 == Set("set1", StrapWritten(plan.selector, "set1"))
           p0 == IF "set0" \in planned_writes(saved.straps, plan.selector)
                 THEN <<s0>> ELSE <<>>
           p1 == IF "set1" \in planned_writes(saved.straps, plan.selector)
                 THEN <<s1>> ELSE <<>>
<1>1. s0 \in QuietWrites /\ s1 \in QuietWrites
  BY QuietStraps
<1> HIDE DEF s0, s1
<1>2. /\ p0 \in Seq(QuietWrites) /\ Len(p0) \in 0 .. 1
      /\ p1 \in Seq(QuietWrites) /\ Len(p1) \in 0 .. 1
  BY <1>1
<1>3. StrapWrites = p0 \o p1
  BY DEF StrapWrites, s0, s1
<1> HIDE DEF p0, p1
<1> QED
  BY <1>2, <1>3

LEMMA ApplyWritesQuiet ==
    ASSUME plan.selector \in PlannedSelectors, plan.destination \in Nat,
           saved.command \in SUBSET Command
    PROVE  /\ ApplyWrites \in Seq(QuietWrites)
           /\ Len(ApplyWrites) \in 5 .. 7
           /\ EnableWrites \in Seq(QuietWrites)
           /\ Len(EnableWrites) = 3
<1> DEFINE c1 == Set("command", saved.command \ Command)
           h == Set("high", plan.destination \div FourGiB)
           l == Set("low", plan.destination % FourGiB)
           c2 == Set("command", (saved.command \ {"busMaster"}) \cup {"memory"})
           c3 == Set("command", saved.command \ {"busMaster"})
           first == <<c1, h, l, c2>>
<1>1. /\ saved.command \ Command \in SUBSET Command
      /\ (saved.command \ {"busMaster"}) \cup {"memory"} \in SUBSET Command
      /\ saved.command \ {"busMaster"} \in SUBSET Command
      /\ "busMaster" \notin saved.command \ Command
      /\ "busMaster" \notin (saved.command \ {"busMaster"}) \cup {"memory"}
  BY DEF Command
<1>2. c1 \in QuietWrites /\ c2 \in QuietWrites /\ c3 \in QuietWrites
  BY <1>1, QuietCommand
<1>3. h \in QuietWrites /\ l \in QuietWrites
  BY QuietAddress
<1>4. ApplyWrites = first \o StrapWrites \o <<c1>> /\ EnableWrites = <<h, l, c3>>
  BY DEF ApplyWrites, EnableWrites
<1> HIDE DEF c1, h, l, c2, c3
<1>5. /\ first \in Seq(QuietWrites) /\ Len(first) = 4
      /\ <<c1>> \in Seq(QuietWrites) /\ Len(<<c1>>) = 1
      /\ <<h, l, c3>> \in Seq(QuietWrites) /\ Len(<<h, l, c3>>) = 3
  BY <1>2, <1>3
<1> HIDE DEF first
<1>6. StrapWrites \in Seq(QuietWrites) /\ Len(StrapWrites) \in 0 .. 2
  BY StrapWritesQuiet
<1> DEFINE both == first \o StrapWrites
           last == <<c1>>
<1>7. last \in Seq(QuietWrites) /\ Len(last) = 1
  BY <1>5
<1>8. first \in Seq(QuietWrites) /\ Len(first) = 4
  BY <1>5
<1>9. both \in Seq(QuietWrites) /\ Len(both) = Len(first) + Len(StrapWrites)
  BY <1>6, <1>8, JoinedType
<1>10. ApplyWrites = both \o last
  BY <1>4
<1> HIDE DEF both, last
<1>11. ApplyWrites \in Seq(QuietWrites) /\ Len(ApplyWrites) = Len(both) + Len(last)
  BY <1>7, <1>9, <1>10, JoinedType
<1>12. Len(ApplyWrites) \in 5 .. 7
  <2>1. Len(ApplyWrites) = (Len(first) + Len(StrapWrites)) + Len(last)
    BY <1>9, <1>11 DEF both
  <2> QED
    BY <1>6, <1>7, <1>8, <2>1, Sums
<1>13. EnableWrites \in Seq(QuietWrites) /\ Len(EnableWrites) = 3
  BY <1>4, <1>5
<1> QED
  BY <1>11, <1>12, <1>13

LEMMA RestoreWritesFit ==
    ASSUME plan.destination \in Nat, saved \in Registers
    PROVE  /\ RestoreWrites \in Seq(RegisterWrites)
           /\ Len(RestoreWrites) = 10
           /\ \A i \in 1 .. 9 : RestoreWrites[i] \in QuietWrites
           /\ RestoreWrites[1] = Set("command", saved.command \ Command)
           /\ RestoreWrites[5] = Set("set0", saved.straps.set0)
           /\ RestoreWrites[6] = Set("set1", saved.straps.set1)
           /\ RestoreWrites[7] = Set("command", saved.command \ Command)
           /\ RestoreWrites[8] = Set("high", saved.high)
           /\ RestoreWrites[9] = Set("low", saved.low)
           /\ RestoreWrites[10] = Set("command", saved.command)
<1> DEFINE c1 == Set("command", saved.command \ Command)
           h == Set("high", plan.destination \div FourGiB)
           l == Set("low", plan.destination % FourGiB)
           c2 == Set("command", (saved.command \ {"busMaster"}) \cup {"memory"})
           s0 == Set("set0", saved.straps.set0)
           s1 == Set("set1", saved.straps.set1)
           h2 == Set("high", saved.high)
           l2 == Set("low", saved.low)
           c3 == Set("command", saved.command)
<1>1. /\ saved.command \ Command \in SUBSET Command
      /\ (saved.command \ {"busMaster"}) \cup {"memory"} \in SUBSET Command
      /\ "busMaster" \notin saved.command \ Command
      /\ "busMaster" \notin (saved.command \ {"busMaster"}) \cup {"memory"}
  BY DEF Command, Registers
<1>2. c1 \in QuietWrites /\ c2 \in QuietWrites
  BY <1>1, QuietCommand
<1>3. h \in QuietWrites /\ l \in QuietWrites
  BY QuietAddress
<1>4. s0 \in QuietWrites /\ s1 \in QuietWrites /\ h2 \in QuietWrites /\ l2 \in QuietWrites
  BY DEF QuietWrites, RegisterWrites, Set, Registers, StrapRegisters
<1>5. c3 \in RegisterWrites
  BY DEF RegisterWrites, Set, Registers
<1>6. RestoreWrites = <<c1, h, l, c2, s0, s1, c1, h2, l2, c3>>
  BY DEF RestoreWrites
<1>7. QuietWrites \subseteq RegisterWrites
  BY DEF QuietWrites
<1> HIDE DEF c1, h, l, c2, s0, s1, h2, l2, c3
<1>8. /\ RestoreWrites \in Seq(RegisterWrites)
      /\ Len(RestoreWrites) = 10
      /\ \A i \in 1 .. 9 : RestoreWrites[i] \in QuietWrites
  BY <1>2, <1>3, <1>4, <1>5, <1>6, <1>7
<1> QED
  BY <1>6, <1>8 DEF c1, s0, s1, h2, l2, c3

-----------------------------------------------------------------------------

LEMMA WriteValue ==
    ASSUME NEW w \in RegisterWrites
    PROVE  /\ w.register \in {"command", "high", "low", "set0", "set1"}
           /\ w.register = "command" => w.value \in SUBSET Command
           /\ w.register = "high" => w.value \in Nat
           /\ w.register = "low" => w.value \in 0 .. FourGiB - 1
           /\ w.register = "set0" => w.value \in [part: Part1, enable: BOOLEAN]
           /\ w.register = "set1" => w.value \in [part: Part2, enable: BOOLEAN]
<1>1. CASE \E c \in SUBSET Command : w = Set("command", c)
  BY <1>1 DEF Set
<1>2. CASE \E a \in Nat : w = Set("high", a)
  BY <1>2 DEF Set
<1>3. CASE \E a \in 0 .. FourGiB - 1 : w = Set("low", a)
  BY <1>3 DEF Set
<1>4. CASE \E v \in [part: Part1, enable: BOOLEAN] : w = Set("set0", v)
  BY <1>4 DEF Set
<1>5. CASE \E v \in [part: Part2, enable: BOOLEAN] : w = Set("set1", v)
  BY <1>5 DEF Set
<1> QED
  BY <1>1, <1>2, <1>3, <1>4, <1>5 DEF RegisterWrites

\* A register write keeps the registers well formed.
LEMMA WriteTyped ==
    ASSUME Current \in Registers, NEW w \in RegisterWrites, Write(w)
    PROVE  Current' \in Registers
<1>1. /\ command \in SUBSET Command /\ high \in Nat /\ low \in 0 .. FourGiB - 1
      /\ straps \in StrapRegisters
  BY DEF Current, Registers
<1>2. CASE w.register = "command"
  BY <1>1, <1>2 DEF Write, RegisterWrites, Set, Current, Registers
<1>3. CASE w.register = "high"
  BY <1>1, <1>3 DEF Write, RegisterWrites, Set, Current, Registers
<1>4. CASE w.register = "low"
  BY <1>1, <1>4 DEF Write, RegisterWrites, Set, Current, Registers
<1>5. CASE w.register \in {"set0", "set1"}
  <2>1. /\ w.register = "set0" => w.value \in [part: Part1, enable: BOOLEAN]
        /\ w.register = "set1" => w.value \in [part: Part2, enable: BOOLEAN]
    BY WriteValue
  <2>2. [straps EXCEPT ![w.register] = w.value] \in StrapRegisters
    BY <1>1, <1>5, <2>1 DEF StrapRegisters
  <2>3. /\ straps' \in {straps, [straps EXCEPT ![w.register] = w.value]}
        /\ UNCHANGED <<command, high, low>>
    BY <1>5 DEF Write
  <2> QED
    BY <1>1, <2>2, <2>3 DEF Current, Registers
<1> QED
  BY <1>2, <1>3, <1>4, <1>5 DEF RegisterWrites, Set

LEMMA SameTyped ==
    ASSUME Current \in Registers, UNCHANGED registers
    PROVE  Current' \in Registers /\ Current' = Current
BY DEF Current, registers

\* A step of write_checked, whether it fails or not, writes one entry of the
\* list or nothing.
LEMMA ListStep ==
    ASSUME NEW list, NEW next, NEW failed,
           \/ WriteChecked(list, next)
           \/ WriteFails(list, failed)
    PROVE  \/ Write(list[k])
           \/ UNCHANGED registers
BY DEF WriteChecked, WriteFails

LEMMA NextPosition ==
    ASSUME NEW i \in 1 .. 10, NEW n \in 1 .. 10, i < n
    PROVE  i + 1 \in 1 .. 10
OBVIOUS

\* It moves on in the list or leaves its phase.
LEMMA ListMove ==
    ASSUME NEW list, NEW next, NEW failed,
           k \in 1 .. 10, Len(list) \in 1 .. 10, k <= Len(list),
           \/ WriteChecked(list, next)
           \/ WriteFails(list, failed)
    PROVE  /\ \/ at' = at /\ k' = k + 1 /\ k' \in 1 .. Len(list)
              \/ at' \in {next, failed} /\ k' = 1
           /\ k' \in 1 .. 10
<1>1. CASE WriteFails(list, failed)
  BY <1>1 DEF WriteFails, Goto
<1>2. CASE WriteChecked(list, next)
  <2>1. (k < Len(list) /\ k' = k + 1 /\ at' = at) \/ (k' = 1 /\ at' = next)
    BY <1>2 DEF WriteChecked, Goto
  <2>2. k < Len(list) => k + 1 \in 1 .. Len(list)
    OBVIOUS
  <2>3. k < Len(list) => k + 1 \in 1 .. 10
    BY NextPosition
  <2> QED
    BY <2>1, <2>2, <2>3
<1> QED
  BY <1>1, <1>2

LEMMA StillQuiet ==
    ASSUME NEW w \in QuietWrites, Quiet, Write(w) \/ UNCHANGED registers
    PROVE  Quiet'
<1>1. CASE w.register = "command"
  BY <1>1 DEF Quiet, QuietWrites, Write, registers
<1>2. CASE w.register \in {"high", "low", "set0", "set1"}
  BY <1>2 DEF Quiet, Write, registers
<1> QED
  BY <1>1, <1>2 DEF QuietWrites, RegisterWrites, Set

-----------------------------------------------------------------------------

PlanOK ==
    /\ plan.selector \in PlannedSelectors
    /\ plan.destination \in Nat
    /\ plan.source \in Registers

ControlOK ==
    /\ reserved \in BOOLEAN
    /\ receipt \in {"absent", "partial", "complete"}
    /\ at \in Phases
    /\ k \in 1 .. 10
    /\ image \in {"none", "loaded", "started"}
    /\ measured \in BOOLEAN
    /\ boots \in 0 .. MaxBoots

RecordsOK ==
    /\ Current \in Registers
    /\ saved \in Registers
    /\ firmware \in Registers

LEMMA TypeParts == TypeOK <=> PlanOK /\ ControlOK /\ RecordsOK
BY DEF TypeOK, PlanOK, ControlOK, RecordsOK

\* The registers as firmware leaves them are well formed.
LEMMA PlacementsTyped == Placements \subseteq Registers
<1>1. \A b \in Bases : b \div FourGiB \in Nat /\ b % FourGiB \in 0 .. FourGiB - 1
  BY ConstantsAssumption DEF FourGiB
<1> QED
  BY <1>1, ConstantsAssumption DEF Placements, Registers

LEMMA PlacedIsCurrent ==
    ASSUME NEW f \in Placements,
           command = f.command, high = f.high, low = f.low, straps = f.straps
    PROVE  Current = f
BY DEF Placements, Current

LEMMA PlacedIsCurrentNext ==
    ASSUME NEW f \in Placements,
           command' = f.command, high' = f.high, low' = f.low, straps' = f.straps
    PROVE  Current' = f
BY DEF Placements, Current

LEMMA InitInv == Init => IInv
<1> SUFFICES ASSUME Init PROVE IInv
  OBVIOUS
<1>1. PICK source \in Placements, sel \in Requests, d \in Destinations :
         /\ plan = [selector |-> sel, destination |-> d, source |-> source]
         /\ firmware = source
  BY DEF Init
<1>2. source \in Registers
  BY PlacementsTyped
<1>3. Current = firmware /\ saved = firmware
  BY <1>1, PlacedIsCurrent DEF Init
<1>4. PlanOK
  BY <1>1, <1>2, ConstantsAssumption DEF PlanOK
<1>5. ControlOK
  <2>1. /\ reserved = FALSE /\ receipt = "absent" /\ at = "start" /\ k = 1
        /\ image = "none" /\ measured = FALSE /\ boots = 0
    BY DEF Init
  <2>2. boots \in 0 .. MaxBoots /\ k \in 1 .. 10
    BY <2>1, ConstantsAssumption
  <2>3. reserved \in BOOLEAN /\ measured \in BOOLEAN
    BY <2>1
  <2> QED
    BY <2>1, <2>2, <2>3, Zenon DEF ControlOK, Phases
<1>6. RecordsOK
  BY <1>1, <1>2, <1>3 DEF RecordsOK
<1>7. TypeOK
  BY <1>4, <1>5, <1>6, TypeParts
<1> QED
  BY <1>3, <1>7 DEF Init, IInv, PositionInv, OwnerInv, ApplyInv, RestoreInv,
     Before, Changing

-----------------------------------------------------------------------------

LEMMA StillTyped ==
    ASSUME TypeOK, UNCHANGED <<plan, firmware>>, ControlOK',
           Current' \in Registers, saved' \in Registers
    PROVE  TypeOK'
<1>1. PlanOK' /\ RecordsOK'
  BY TypeParts DEF PlanOK, RecordsOK
<1> QED
  BY <1>1 DEF TypeOK, PlanOK, ControlOK, RecordsOK

\* The lists of writes do not change while they are worked through.
LEMMA SameLists ==
    ASSUME UNCHANGED <<plan, saved>>
    PROVE  ApplyWrites' = ApplyWrites /\ EnableWrites' = EnableWrites
BY DEF ApplyWrites, EnableWrites, StrapWrites

\* In every well-formed state the lists of writes are within their bounds.
LEMMA TypedLists ==
    TypeOK => /\ ApplyWrites \in Seq(QuietWrites)
              /\ Len(ApplyWrites) \in 5 .. 7
              /\ EnableWrites \in Seq(QuietWrites)
              /\ Len(EnableWrites) = 3
<1> SUFFICES ASSUME TypeOK
             PROVE  /\ ApplyWrites \in Seq(QuietWrites)
                    /\ Len(ApplyWrites) \in 5 .. 7
                    /\ EnableWrites \in Seq(QuietWrites)
                    /\ Len(EnableWrites) = 3
  OBVIOUS
<1>1. plan.selector \in PlannedSelectors /\ plan.destination \in Nat
  BY DEF TypeOK
<1>2. saved.command \in SUBSET Command
  BY DEF TypeOK, Registers
<1> QED
  BY <1>1, <1>2, ApplyWritesQuiet

LEMMA TypedListsNext ==
    TypeOK' => Len(ApplyWrites)' >= 1 /\ Len(EnableWrites)' >= 1
<1>1. TypeOK => Len(ApplyWrites) >= 1 /\ Len(EnableWrites) >= 1
  <2> SUFFICES ASSUME TypeOK PROVE Len(ApplyWrites) >= 1 /\ Len(EnableWrites) >= 1
    OBVIOUS
  <2>1. Len(ApplyWrites) \in 5 .. 7 /\ Len(EnableWrites) = 3
    BY TypedLists, Zenon
  <2> DEFINE a == Len(ApplyWrites)
             e == Len(EnableWrites)
  <2>2. a \in 5 .. 7 /\ e = 3
    BY <2>1
  <2> HIDE DEF a, e
  <2>3. a >= 1 /\ e >= 1
    BY <2>2
  <2> QED
    BY <2>3 DEF a, e
<1>2. TypeOK' => (Len(ApplyWrites) >= 1 /\ Len(EnableWrites) >= 1)'
  BY <1>1, PTL
<1> QED
  BY <1>2

\* The steps that write no register.
Waiting ==
    \/ Refuse \/ Validate \/ PrepareHandoff \/ ApplyRefuses \/ Check \/ Reserve
    \/ OpenReceipt \/ WriteReceipt \/ StartImage \/ SuccessorReturns \/ Release

LEMMA WaitingTyped ==
    ASSUME TypeOK, Waiting
    PROVE  TypeOK'
<1>1. UNCHANGED <<plan, firmware, measured, boots, registers>>
  BY DEF Waiting, Refuse, Validate, PrepareHandoff, ApplyRefuses, Check, Reserve,
     OpenReceipt, WriteReceipt, StartImage, SuccessorReturns, Release, medium, history
<1>2. Current' \in Registers
  BY <1>1, SameTyped, TypeParts DEF RecordsOK
<1>3. saved' \in {saved, Current}
  BY DEF Waiting, Refuse, Validate, PrepareHandoff, ApplyRefuses, Check, Reserve,
     OpenReceipt, WriteReceipt, StartImage, SuccessorReturns, Release
<1>4. /\ reserved' \in {reserved, TRUE, FALSE}
      /\ receipt' \in {receipt, "partial", "complete"}
      /\ image' \in {image, "none", "loaded", "started"}
  BY DEF Waiting, Refuse, Validate, PrepareHandoff, ApplyRefuses, Check, Reserve,
     OpenReceipt, WriteReceipt, StartImage, SuccessorReturns, Release, medium
<1>5. at' \in Phases /\ k' = 1
  BY DEF Waiting, Refuse, Validate, PrepareHandoff, ApplyRefuses, Check, Reserve,
     OpenReceipt, WriteReceipt, StartImage, SuccessorReturns, Release, Goto,
     Phases, Ended
<1>6. ControlOK'
  <2>1. ControlOK
    BY TypeParts
  <2>2. k' \in 1 .. 10
    BY <1>5
  <2> QED
    BY <1>1, <1>4, <1>5, <2>1, <2>2, Zenon DEF ControlOK
<1> QED
  BY <1>1, <1>2, <1>3, <1>6, StillTyped, TypeParts DEF RecordsOK

LEMMA WaitingInv ==
    ASSUME IInv, Waiting
    PROVE  IInv'
<1> USE DEF IInv
<1>1. TypeOK'
  BY WaitingTyped
<1>2. Current' = Current /\ firmware' = firmware
  BY DEF Waiting, Refuse, Validate, PrepareHandoff, ApplyRefuses, Check, Reserve,
     OpenReceipt, WriteReceipt, StartImage, SuccessorReturns, Release, history,
     registers, Current
<1>3. UNCHANGED registers
  BY DEF Waiting, Refuse, Validate, PrepareHandoff, ApplyRefuses, Check, Reserve,
     OpenReceipt, WriteReceipt, StartImage, SuccessorReturns, Release
<1>4. PositionInv'
  <2>1. at' = "apply" \/ at' = "release" \/ at' = "enable" => at = "reserve"
    BY DEF Waiting, Refuse, Validate, PrepareHandoff, ApplyRefuses, Check, Reserve,
       OpenReceipt, WriteReceipt, StartImage, SuccessorReturns, Release, Goto
  <2>2. k' = 1 /\ (at = "reserve" => at' # "release")
    BY DEF Waiting, Refuse, Validate, PrepareHandoff, ApplyRefuses, Check, Reserve,
       OpenReceipt, WriteReceipt, StartImage, SuccessorReturns, Release, Goto
  <2>3. Len(ApplyWrites)' >= 1 /\ Len(EnableWrites)' >= 1
    BY <1>1, TypedListsNext
  <2> QED
    BY <2>1, <2>2, <2>3 DEF PositionInv
<1>5. OwnerInv'
  BY <1>2 DEF OwnerInv, Waiting, Refuse, Validate, PrepareHandoff, ApplyRefuses,
     Check, Reserve, OpenReceipt, WriteReceipt, StartImage, SuccessorReturns,
     Release, Before, Changing, Goto, PositionInv
<1>6. ApplyInv'
  BY <1>2, <1>3 DEF ApplyInv, OwnerInv, Waiting, Refuse, Validate, PrepareHandoff,
     ApplyRefuses, Check, Reserve, OpenReceipt, WriteReceipt, StartImage,
     SuccessorReturns, Release, Before, Changing, Goto, Quiet, registers
<1>7. RestoreInv'
  BY <1>2, <1>3 DEF RestoreInv, ApplyInv, PositionInv, Waiting, Refuse, Validate,
     PrepareHandoff, ApplyRefuses, Check, Reserve, OpenReceipt, WriteReceipt,
     StartImage, SuccessorReturns, Release, Goto, Quiet, Moved, registers, Changing,
     Current
<1> QED
  BY <1>1, <1>4, <1>5, <1>6, <1>7

-----------------------------------------------------------------------------

\* What a step through a list of well-formed writes keeps, whatever the list.
LEMMA WritingTyped ==
    ASSUME TypeOK, NEW list \in Seq(RegisterWrites), Len(list) \in 1 .. 10,
           k <= Len(list), NEW next \in Phases, NEW failed \in Phases,
           WriteChecked(list, next) \/ WriteFails(list, failed),
           UNCHANGED <<reserved, medium, saved, history>>,
           image' \in {image, "none"}
    PROVE  TypeOK'
<1>1. list[k] \in RegisterWrites
  BY DEF TypeOK
<1>2. Write(list[k]) \/ UNCHANGED registers
  BY ListStep
<1>3. Current' \in Registers
  BY <1>1, <1>2, WriteTyped, SameTyped, TypeParts DEF RecordsOK
<1>4. k \in 1 .. 10
  BY DEF TypeOK
<1>5. at' \in Phases /\ k' \in 1 .. 10
  <2>1. at \in Phases
    BY DEF TypeOK
  <2>2. /\ \/ at' = at /\ k' = k + 1 /\ k' \in 1 .. Len(list)
           \/ at' \in {next, failed} /\ k' = 1
        /\ k' \in 1 .. 10
    BY <1>4, ListMove
  <2> QED
    BY <2>1, <2>2, Zenon
<1>6. ControlOK'
  <2>1. ControlOK
    BY TypeParts
  <2> QED
    BY <1>5, <2>1, Zenon DEF ControlOK, medium, history
<1> QED
  BY <1>3, <1>6, StillTyped, TypeParts DEF RecordsOK, medium, history

\* The steps through the lists of apply.
Applying == Apply \/ Enable

LEMMA ApplyingInv ==
    ASSUME IInv, Applying
    PROVE  IInv'
<1> USE DEF IInv
<1> DEFINE list == IF at = "apply" THEN ApplyWrites ELSE EnableWrites
           next == IF at = "apply" THEN "measure" ELSE "openReceipt"
<1>1. /\ at \in {"apply", "enable"}
      /\ WriteChecked(list, next) \/ WriteFails(list, "restore")
      /\ UNCHANGED <<reserved, medium, saved, image, history>>
  BY DEF Applying, Apply, Enable
<1>2. list \in Seq(QuietWrites) /\ Len(list) \in 1 .. 10
  <2>1. /\ ApplyWrites \in Seq(QuietWrites) /\ Len(ApplyWrites) \in 5 .. 7
        /\ EnableWrites \in Seq(QuietWrites) /\ Len(EnableWrites) = 3
    BY TypedLists, Zenon
  <2> QED
    BY <2>1
<1>3. k \in 1 .. 10 /\ k <= Len(list)
  BY <1>1 DEF PositionInv, TypeOK
<1>4. /\ UNCHANGED <<plan, saved, firmware>>
      /\ ApplyWrites' = ApplyWrites /\ EnableWrites' = EnableWrites
  BY <1>1, SameLists DEF medium, history
<1>5. (at = "apply" /\ k = 1 /\ Current = firmware) \/ Quiet
  BY <1>1 DEF ApplyInv, Changing
<1>6. at = "apply" => list = ApplyWrites
  OBVIOUS
<1>7. at = "enable" => list = EnableWrites
  OBVIOUS
<1>8. at = "apply" => next = "measure"
  OBVIOUS
<1>9. at = "enable" => next = "openReceipt"
  OBVIOUS
<1>10. ApplyWrites[1] = Set("command", saved.command \ Command)
  <2> DEFINE first == <<Set("command", saved.command \ Command),
                        Set("high", plan.destination \div FourGiB),
                        Set("low", plan.destination % FourGiB),
                        Set("command", (saved.command \ {"busMaster"}) \cup {"memory"})>>
             last == <<Set("command", saved.command \ Command)>>
  <2>1. ApplyWrites = first \o StrapWrites \o last
    BY DEF ApplyWrites
  <2>2. first[1] = Set("command", saved.command \ Command) /\ Len(first) = 4
    OBVIOUS
  <2>3. first \in Seq({first[1], first[2], first[3], first[4]})
    OBVIOUS
  <2> QED
    BY <2>1, <2>2
<1> HIDE DEF list, next
<1>11. next \in Phases /\ next \in {"measure", "openReceipt"}
  BY <1>1, <1>8, <1>9 DEF Phases
<1>12. \/ at' = at /\ k' = k + 1 /\ k' \in 1 .. Len(list)
       \/ at' \in {next, "restore"} /\ k' = 1
  BY <1>1, <1>2, <1>3, ListMove
<1>13. Write(list[k]) \/ UNCHANGED registers
  BY <1>1, ListStep
<1>14. list[k] \in QuietWrites
  BY <1>2, <1>3
<1>15. TypeOK'
  <2>1. list \in Seq(RegisterWrites) /\ Len(list) \in 1 .. 10
    BY <1>2 DEF QuietWrites
  <2>2. "restore" \in Phases
    BY DEF Phases
  <2> QED
    BY <1>1, <1>3, <1>11, <2>1, <2>2, WritingTyped
<1>16. Quiet' \/ (at' = "restore" /\ k' = 1 /\ ~ Moved')
  <2>1. CASE Quiet
    BY <1>13, <1>14, <2>1, StillQuiet
  <2>2. CASE at = "apply" /\ k = 1 /\ Current = firmware /\ Write(list[k])
    <3>1. Write(Set("command", saved.command \ Command))
      BY <1>6, <1>10, <2>2
    <3>2. command' = saved.command \ Command
      BY <3>1 DEF Write, Set
    <3> QED
      BY <3>2 DEF Quiet, Command
  <2>3. CASE at = "apply" /\ k = 1 /\ Current = firmware /\ ~ Write(list[k])
    <3>1. at' = "restore" /\ k' = 1 /\ UNCHANGED registers
      BY <1>1, <2>3 DEF WriteChecked, WriteFails, Goto
    <3> QED
      BY <1>4, <2>3, <3>1 DEF Moved, Current, registers
  <2> QED
    BY <1>5, <2>1, <2>2, <2>3
<1>17. PositionInv'
  BY <1>1, <1>4, <1>6, <1>7, <1>11, <1>12 DEF PositionInv
<1>18. OwnerInv'
  BY <1>1, <1>4, <1>11, <1>12 DEF OwnerInv, Before, Changing
<1>19. ApplyInv'
  BY <1>1, <1>11, <1>12, <1>16 DEF ApplyInv, Changing
<1>20. RestoreInv'
  BY <1>1, <1>11, <1>12, <1>16 DEF RestoreInv
<1> QED
  BY <1>15, <1>17, <1>18, <1>19, <1>20

-----------------------------------------------------------------------------

\* What each write of the restore list does to the register it is for.
LEMMA RestoreEffects ==
    ASSUME TypeOK, NEW r, NEW v, Write(Set(r, v)), Read(r)' = v
    PROVE  /\ r = "command" => command' = v /\ UNCHANGED <<high, low, straps>>
           /\ r = "high" => high' = v /\ UNCHANGED <<command, low, straps>>
           /\ r = "low" => low' = v /\ UNCHANGED <<command, high, straps>>
           /\ r = "set0" => /\ straps'.set0 = v
                            /\ UNCHANGED <<command, high, low>>
           /\ r = "set1" => /\ straps'.set1 = v /\ straps'.set0 = straps.set0
                            /\ UNCHANGED <<command, high, low>>
<1>1. CASE r = "command"
  BY <1>1 DEF Write, Set
<1>2. CASE r = "high"
  BY <1>2 DEF Write, Set
<1>3. CASE r = "low"
  BY <1>3 DEF Write, Set
<1>4. CASE r = "set0"
  BY <1>4 DEF Write, Set, Read
<1>5. CASE r = "set1"
  <2>1. straps \in StrapRegisters
    BY DEF TypeOK, Registers, Current
  <2> QED
    BY <1>5, <2>1 DEF Write, Set, Read, StrapRegisters
<1> QED
  BY <1>1, <1>2, <1>3, <1>4, <1>5

LEMMA RestoreInvariant ==
    ASSUME IInv, Restore
    PROVE  IInv'
<1> USE DEF IInv
<1>1. /\ at = "restore"
      /\ \/ WriteChecked(RestoreWrites, "release") /\ UNCHANGED image
         \/ WriteFails(RestoreWrites, "halted") /\ image' = "none"
      /\ UNCHANGED <<reserved, medium, saved, history>>
  BY DEF Restore
<1>2. saved = firmware /\ k \in 1 .. 10 /\ saved \in Registers /\ plan.destination \in Nat
  BY <1>1 DEF OwnerInv, TypeOK
<1>3. /\ RestoreWrites \in Seq(RegisterWrites)
      /\ Len(RestoreWrites) = 10
      /\ \A i \in 1 .. 9 : RestoreWrites[i] \in QuietWrites
      /\ RestoreWrites[1] = Set("command", firmware.command \ Command)
      /\ RestoreWrites[5] = Set("set0", firmware.straps.set0)
      /\ RestoreWrites[6] = Set("set1", firmware.straps.set1)
      /\ RestoreWrites[7] = Set("command", firmware.command \ Command)
      /\ RestoreWrites[8] = Set("high", firmware.high)
      /\ RestoreWrites[9] = Set("low", firmware.low)
      /\ RestoreWrites[10] = Set("command", firmware.command)
  BY <1>2, RestoreWritesFit, Zenon
<1> DEFINE list == RestoreWrites
<1> HIDE DEF list
<1>4. UNCHANGED <<saved, firmware, reserved>>
  BY <1>1 DEF history
<1>5. \/ at' = at /\ k' = k + 1 /\ k < 10 /\ WriteChecked(RestoreWrites, "release")
      \/ at' = "release" /\ k' = 1 /\ k = 10 /\ WriteChecked(RestoreWrites, "release")
      \/ at' = "halted" /\ k' = 1 /\ WriteFails(RestoreWrites, "halted")
  BY <1>1, <1>2, <1>3 DEF WriteChecked, WriteFails, Goto
<1>6. TypeOK'
  <2>1. list \in Seq(RegisterWrites) /\ Len(list) \in 1 .. 10 /\ k <= Len(list)
    BY <1>2, <1>3 DEF list
  <2>2. "release" \in Phases /\ "halted" \in Phases
    BY DEF Phases, Ended
  <2>3. WriteChecked(list, "release") \/ WriteFails(list, "halted")
    BY <1>1 DEF list
  <2>4. image' \in {image, "none"}
    BY <1>1
  <2> QED
    BY <1>1, <2>1, <2>2, <2>3, <2>4, WritingTyped
<1>7. Write(RestoreWrites[k]) \/ UNCHANGED registers
  BY <1>1, ListStep
<1>8. k > 1 => Quiet
  BY <1>1 DEF RestoreInv
<1>9. k <= 9 /\ Write(RestoreWrites[k]) => Quiet'
  <2>1. CASE k = 1 /\ Write(RestoreWrites[k])
    <3>1. Write(Set("command", firmware.command \ Command))
      BY <1>3, <2>1
    <3>2. command' = firmware.command \ Command
      BY <3>1 DEF Write, Set
    <3> QED
      BY <3>2 DEF Quiet, Command
  <2>2. CASE k \in 2 .. 9 /\ Write(RestoreWrites[k])
    <3>1. RestoreWrites[k] \in QuietWrites
      BY <1>3, <2>2
    <3>2. Quiet
      BY <1>8, <2>2
    <3> QED
      BY <2>2, <3>1, <3>2, StillQuiet
  <2> QED
    BY <1>2, <2>1, <2>2
<1>10. /\ k > 5 => straps.set0 = firmware.straps.set0
       /\ k > 6 => straps = firmware.straps
       /\ k > 8 => high = firmware.high
       /\ k > 9 => low = firmware.low
  BY <1>1 DEF RestoreInv
<1>11. CASE at' = at /\ k' = k + 1 /\ k < 10 /\ WriteChecked(RestoreWrites, "release")
  <2>1. PICK w \in {RestoreWrites[k]} : Write(w) /\ Read(w.register)' = w.value
    BY <1>11 DEF WriteChecked
  <2>2. k \in 1 .. 9 /\ k' = k + 1
    BY <1>2, <1>11
  <2>3. Quiet'
    BY <1>9, <2>1, <2>2
  <2>4. RestoreInv'
    <3> DEFINE Restored ==
          /\ k + 1 > 5 => straps'.set0 = firmware.straps.set0
          /\ k + 1 > 6 => straps' = firmware.straps
          /\ k + 1 > 8 => high' = firmware.high
          /\ k + 1 > 9 => low' = firmware.low
    <3>1. Restored
      <4>1. CASE k \in 1 .. 4
        BY <4>1
      <4>2. CASE k = 5
        <5>1. w = Set("set0", firmware.straps.set0)
          BY <1>3, <4>2
        <5>2. w.register = "set0" /\ w.value = firmware.straps.set0
          BY <5>1 DEF Set
        <5>3. straps'.set0 = firmware.straps.set0
          BY <2>1, <5>1, <5>2, RestoreEffects
        <5> QED
          BY <4>2, <5>3
      <4>3. CASE k = 6
        <5>1. w = Set("set1", firmware.straps.set1)
          BY <1>3, <4>3
        <5>2. w.register = "set1" /\ w.value = firmware.straps.set1
          BY <5>1 DEF Set
        <5>3. straps'.set1 = firmware.straps.set1 /\ straps'.set0 = straps.set0
          BY <2>1, <5>1, <5>2, RestoreEffects
        <5>4. straps' \in StrapRegisters /\ firmware.straps \in StrapRegisters
          BY <1>2, <1>6 DEF TypeOK, Current, Registers
        <5>5. straps' = firmware.straps
          BY <1>10, <4>3, <5>3, <5>4 DEF StrapRegisters
        <5> QED
          BY <4>3, <5>5
      <4>4. CASE k = 7
        <5>1. w = Set("command", firmware.command \ Command)
          BY <1>3, <4>4
        <5>2. straps' = straps
          BY <2>1, <5>1 DEF Write, Set
        <5> QED
          BY <1>10, <4>4, <5>2
      <4>5. CASE k = 8
        <5>1. w = Set("high", firmware.high)
          BY <1>3, <4>5
        <5>2. straps' = straps /\ high' = firmware.high
          BY <2>1, <5>1 DEF Write, Set
        <5> QED
          BY <1>10, <4>5, <5>2
      <4>6. CASE k = 9
        <5>1. w = Set("low", firmware.low)
          BY <1>3, <4>6
        <5>2. straps' = straps /\ high' = high /\ low' = firmware.low
          BY <2>1, <5>1 DEF Write, Set
        <5> QED
          BY <1>10, <4>6, <5>2
      <4> QED
        BY <2>2, <4>1, <4>2, <4>3, <4>4, <4>5, <4>6
    <3> QED
      BY <1>1, <1>4, <1>11, <2>2, <2>3, <3>1 DEF RestoreInv
  <2> QED
    BY <1>1, <1>4, <1>6, <1>11, <2>3, <2>4
       DEF PositionInv, OwnerInv, ApplyInv, Before, Changing
<1>12. CASE at' = "release" /\ k' = 1 /\ k = 10 /\ WriteChecked(RestoreWrites, "release")
  <2>1. Write(Set("command", firmware.command))
    BY <1>3, <1>12 DEF WriteChecked
  <2>2. command' = firmware.command /\ UNCHANGED <<high, low, straps>>
    BY <2>1 DEF Write, Set
  <2>3. Current' = firmware
    <3>1. straps = firmware.straps /\ high = firmware.high /\ low = firmware.low
      BY <1>10, <1>12
    <3> QED
      BY <1>2, <2>2, <3>1 DEF Current, Registers
  <2> QED
    BY <1>1, <1>4, <1>6, <1>12, <2>3
       DEF PositionInv, OwnerInv, ApplyInv, RestoreInv, Before, Changing
<1>13. CASE at' = "halted" /\ k' = 1 /\ WriteFails(RestoreWrites, "halted")
  <2>1. Quiet' \/ ~ Moved'
    <3>1. CASE UNCHANGED registers
      <4>1. Quiet \/ ~ Moved
        BY <1>1, <1>2 DEF RestoreInv
      <4> QED
        BY <1>4, <3>1, <4>1 DEF Quiet, Moved, registers
    <3>2. CASE k <= 9 /\ Write(RestoreWrites[k])
      BY <1>9, <3>2
    <3>3. CASE k = 10 /\ Write(RestoreWrites[k])
      <4>1. Write(Set("command", firmware.command))
        BY <1>3, <3>3
      <4>2. UNCHANGED <<high, low, straps>>
        BY <4>1 DEF Write, Set
      <4>3. straps = firmware.straps /\ high = firmware.high /\ low = firmware.low
        BY <1>10, <3>3
      <4> QED
        BY <1>4, <4>2, <4>3 DEF Moved
    <3> QED
      BY <1>2, <1>7, <3>1, <3>2, <3>3
  <2> QED
    BY <1>1, <1>4, <1>6, <1>13, <2>1
       DEF PositionInv, OwnerInv, ApplyInv, RestoreInv, Before, Changing
<1> QED
  BY <1>5, <1>11, <1>12, <1>13

-----------------------------------------------------------------------------

LEMMA MeasureInv ==
    ASSUME IInv, Measure
    PROVE  IInv'
<1> USE DEF IInv
<1>1. /\ at = "measure" /\ at' \in {"enable", "restore"} /\ k' = 1
      /\ UNCHANGED <<reserved, medium, saved, image, firmware, boots>>
      /\ command' = command /\ straps' = straps
      /\ high' \in {high, AllOnes} /\ low' \in {low, FourGiB - 1}
      /\ measured' \in {measured, TRUE}
  BY DEF Measure, Goto, registers
<1>2. Quiet'
  BY <1>1 DEF ApplyInv, Changing, Quiet
<1>3. Current' \in Registers
  <2>1. high' \in Nat
    BY <1>1 DEF TypeOK, Current, Registers, AllOnes
  <2>2. low' \in 0 .. FourGiB - 1
    BY <1>1 DEF TypeOK, Current, Registers, FourGiB
  <2> QED
    BY <1>1, <2>1, <2>2 DEF TypeOK, Current, Registers
<1>4. TypeOK'
  <2>1. at' \in Phases /\ k' \in 1 .. 10
    BY <1>1 DEF Phases
  <2>2. ControlOK'
    BY <1>1, <2>1, TypeParts, Zenon DEF ControlOK, medium
  <2> QED
    BY <1>1, <1>3, <2>2, StillTyped, TypeParts DEF RecordsOK, medium
<1>5. PositionInv'
  BY <1>1, <1>4, TypedListsNext DEF PositionInv
<1> QED
  BY <1>1, <1>2, <1>4, <1>5
     DEF OwnerInv, ApplyInv, RestoreInv, Before, Changing

LEMMA PowerCycleInv ==
    ASSUME IInv, PowerCycle
    PROVE  IInv'
<1> USE DEF IInv
<1>1. /\ firmware' \in Placements /\ saved' = firmware'
      /\ at' = "start" /\ k' = 1 /\ image' = "none" /\ reserved' = FALSE
      /\ boots < MaxBoots /\ boots' = boots + 1
      /\ UNCHANGED <<medium, measured>>
  BY DEF PowerCycle, Goto
<1>2. Current' = firmware' /\ firmware' \in Registers
  BY <1>1, PlacedIsCurrentNext, PlacementsTyped DEF PowerCycle
<1>3. TypeOK'
  <2>1. at' \in Phases /\ k' \in 1 .. 10
    BY <1>1 DEF Phases
  <2>2. boots' \in 0 .. MaxBoots
    BY <1>1, ConstantsAssumption DEF TypeOK
  <2>3. reserved' \in BOOLEAN
    BY <1>1
  <2>4. ControlOK'
    BY <1>1, <2>1, <2>2, <2>3, TypeParts, Zenon DEF ControlOK, medium
  <2>5. PlanOK' /\ RecordsOK'
    BY <1>1, <1>2, TypeParts DEF PlanOK, RecordsOK, medium
  <2> QED
    BY <2>4, <2>5 DEF TypeOK, PlanOK, ControlOK, RecordsOK
<1> QED
  BY <1>1, <1>2, <1>3
     DEF PositionInv, OwnerInv, ApplyInv, RestoreInv, Before, Changing

LEMMA StutterInv ==
    ASSUME IInv, UNCHANGED vars
    PROVE  IInv'
<1>1. UNCHANGED <<command, high, low, straps, reserved, plan, receipt, at, k,
                  saved, image, firmware, measured, boots>>
  BY DEF vars, registers, medium, history
<1> QED
  BY <1>1 DEF IInv, TypeOK, PositionInv, OwnerInv, ApplyInv, RestoreInv, Current,
     ApplyWrites, EnableWrites, StrapWrites, Quiet, Moved

-----------------------------------------------------------------------------

\* Every step of the loader, and of the power supply, keeps the strengthening.
LEMMA StepInv ==
    ASSUME IInv, [Next]_vars
    PROVE  IInv'
<1>1. CASE Waiting
  BY <1>1, WaitingInv
<1>2. CASE Applying
  BY <1>2, ApplyingInv
<1>3. CASE Measure
  BY <1>3, MeasureInv
<1>4. CASE Restore
  BY <1>4, RestoreInvariant
<1>5. CASE PowerCycle
  BY <1>5, PowerCycleInv
<1>6. CASE UNCHANGED vars
  BY <1>6, StutterInv
<1> QED
  BY <1>1, <1>2, <1>3, <1>4, <1>5, <1>6 DEF Next, LoaderStep, Waiting, Applying

\* What the strengthening implies of the two properties proved below.
LEMMA CleanFromInv == IInv => FallbackIsClean
BY DEF IInv, OwnerInv, FallbackIsClean, Before

LEMMA QuietFromInv == IInv => DmaOffWhileMoved
BY DEF IInv, TypeOK, OwnerInv, ApplyInv, RestoreInv, PositionInv,
   DmaOffWhileMoved, Before, Changing, Moved, Current, Phases, Ended, Quiet

\* How far the loader has got determines which registers are still moved and
\* whether bus mastering is off: the strengthening of the properties below.
THEOREM InductiveInvariant == Spec => []IInv
BY StepInv, InitInv, PTL DEF Spec

\* The registers stay within what they can hold, and the loader's position
\* within the list it works through (execute.rs, write_checked).
THEOREM TypeCorrect == Spec => []TypeOK
<1>1. IInv => TypeOK
  BY DEF IInv
<1> QED
  BY <1>1, InductiveInvariant, PTL

\* Whenever the loader returns to the firmware - a plan it refused, a failed
\* write it undid, a successor that gave up - every register is as firmware
\* left it and the destination is free (app.rs, run and halt_failed_restore).
THEOREM CleanFallback == Spec => []FallbackIsClean
BY CleanFromInv, InductiveInvariant, PTL

\* No sequence of failing writes, in apply, in the receipt or in the restore
\* itself, lets the GPU master the bus while its BAR1 or its straps differ
\* from what the firmware programmed (execute.rs, apply and restore).
THEOREM DmaOff == Spec => []DmaOffWhileMoved
BY QuietFromInv, InductiveInvariant, PTL


-----------------------------------------------------------------------------
(* What BAR1 decodes.                                                      *)

LEMMA ApertureTable ==
    /\ Apertures[0] = 1 /\ Apertures[1] = 2 /\ Apertures[2] = 4 /\ Apertures[3] = 8
    /\ Apertures[4] = 16 /\ Apertures[5] = 32 /\ Apertures[6] = 64
    /\ Apertures[7] = 128 /\ Apertures[8] = 256 /\ Apertures[9] = 512
    /\ Apertures[10] = 1024
BY DEF Apertures

\* An address that is aligned to an aperture is aligned to each smaller one.
LEMMA Aligned ==
    ASSUME NEW a \in Nat, NEW n \in 0 .. 10, NEW m \in 0 .. n, a % Apertures[n] = 0
    PROVE  a % Apertures[m] = 0 /\ Apertures[m] \in 1 .. Apertures[n]
<1>1. /\ a % 1024 = 0 => a % 512 = 0
      /\ a % 512 = 0 => a % 256 = 0
      /\ a % 256 = 0 => a % 128 = 0
      /\ a % 128 = 0 => a % 64 = 0
      /\ a % 64 = 0 => a % 32 = 0
      /\ a % 32 = 0 => a % 16 = 0
      /\ a % 16 = 0 => a % 8 = 0
      /\ a % 8 = 0 => a % 4 = 0
      /\ a % 4 = 0 => a % 2 = 0
      /\ a % 1 = 0
  OBVIOUS
<1> QED
  BY <1>1, ApertureTable

\* What the registers hold of an address, for each aperture.
LEMMA HeldLowTable ==
    ASSUME NEW v \in Int, NEW s
    PROVE  /\ Aperture(s) = 1 => HeldLow(v, s) = v - (v % 1)
           /\ Aperture(s) = 2 => HeldLow(v, s) = v - (v % 2)
           /\ Aperture(s) = 4 => HeldLow(v, s) = v - (v % 4)
           /\ Aperture(s) = 8 => HeldLow(v, s) = v - (v % 8)
           /\ Aperture(s) = 16 => HeldLow(v, s) = v - (v % 16)
           /\ Aperture(s) = 32 => HeldLow(v, s) = v - (v % 32)
           /\ Aperture(s) \in {64, 128, 256, 512, 1024} => HeldLow(v, s) = 0
BY DEF HeldLow, FourGiB

LEMMA HeldHighTable ==
    ASSUME NEW v \in Int, NEW s
    PROVE  /\ Aperture(s) \in {1, 2, 4, 8, 16, 32, 64} => HeldHigh(v, s) = v
           /\ Aperture(s) = 128 => HeldHigh(v, s) = v - (v % 2)
           /\ Aperture(s) = 256 => HeldHigh(v, s) = v - (v % 4)
           /\ Aperture(s) = 512 => HeldHigh(v, s) = v - (v % 8)
           /\ Aperture(s) = 1024 => HeldHigh(v, s) = v - (v % 16)
<1> DEFINE r == Aperture(s) \div FourGiB
<1>1. /\ Aperture(s) = 128 => r = 2
      /\ Aperture(s) = 256 => r = 4
      /\ Aperture(s) = 512 => r = 8
      /\ Aperture(s) = 1024 => r = 16
  BY DEF FourGiB
<1>2. HeldHigh(v, s) = IF Aperture(s) <= FourGiB THEN v ELSE v - (v % r)
  BY DEF HeldHigh
<1> HIDE DEF r
<1> QED
  BY <1>1, <1>2 DEF FourGiB

\* The registers hold an aligned address exactly.
LEMMA HeldExactly ==
    ASSUME NEW a \in Nat, NEW s, NEW m \in 0 .. 10,
           Aperture(s) = Apertures[m], a % Apertures[m] = 0
    PROVE  HeldHigh(a \div FourGiB, s) * FourGiB + HeldLow(a % FourGiB, s) = a
<1> DEFINE h == a \div FourGiB
           l == a % FourGiB
<1>1. /\ h \in Nat /\ l \in 0 .. 63 /\ h * 64 + l = a
      /\ a % 2 = 0 => l % 2 = 0
      /\ a % 4 = 0 => l % 4 = 0
      /\ a % 8 = 0 => l % 8 = 0
      /\ a % 16 = 0 => l % 16 = 0
      /\ a % 32 = 0 => l % 32 = 0
      /\ a % 64 = 0 => l = 0
      /\ a % 128 = 0 => h % 2 = 0 /\ l = 0
      /\ a % 256 = 0 => h % 4 = 0 /\ l = 0
      /\ a % 512 = 0 => h % 8 = 0 /\ l = 0
      /\ a % 1024 = 0 => h % 16 = 0 /\ l = 0
      /\ l % 1 = 0
  BY DEF FourGiB
<1> HIDE DEF h, l
<1>2. CASE m \in 0 .. 5
  <2>1. HeldLow(l, s) = l
    BY <1>1, <1>2, ApertureTable, HeldLowTable
  <2>2. HeldHigh(h, s) = h
    BY <1>1, <1>2, ApertureTable, HeldHighTable
  <2> QED
    BY <1>1, <2>1, <2>2 DEF h, l, FourGiB
<1>3. CASE m \in 6 .. 10
  <2>1. HeldLow(l, s) = 0 /\ l = 0
    BY <1>1, <1>3, ApertureTable, HeldLowTable
  <2>2. HeldHigh(h, s) = h
    BY <1>1, <1>3, ApertureTable, HeldHighTable
  <2> QED
    BY <1>1, <2>1, <2>2 DEF h, l, FourGiB
<1> QED
  BY <1>2, <1>3

-----------------------------------------------------------------------------

PlacedInv ==
    /\ firmware \in Placements
    /\ plan.selector \in Requests
    /\ PlacedBy(firmware, plan.selector, plan.destination)

\* Both straps are as firmware left them or as planned.
Between ==
    /\ straps.set0.part \in {firmware.straps.set0.part, target_parts(plan.selector).set0}
    /\ straps.set1.part \in {firmware.straps.set1.part, target_parts(plan.selector).set1}

HighSet == high = plan.destination \div FourGiB
LowSet == low = plan.destination % FourGiB

Handing == {"openReceipt", "writeReceipt", "handoff", "successor"}

\* From when to when the destination is reserved and in the registers.
SetInv ==
    /\ at \in Changing \cup {"restore"} => reserved
    /\ at = "apply" => (k > 2 => HighSet) /\ (k > 3 => LowSet)
    /\ at \in Changing \ {"apply"} => HighSet /\ LowSet
    /\ at = "restore" => (k \in 3 .. 8 => HighSet) /\ (k \in 4 .. 9 => LowSet)

\* The positions at which the address may be a mixture.
OffInv ==
    \/ at = "apply" /\ k \in 2 .. 4
    \/ at \in {"measure", "enable"}
    \/ at = "restore" /\ k \in {2, 3, 4, 8, 9, 10}
    => "memory" \notin command

WindowInv == "memory" \in command => ~ Moved \/ (HighSet /\ LowSet /\ reserved)

MeasuredInv ==
    /\ at \in Handing \cup {"enable"} => measured /\ Aperture(straps) = Size
    /\ at \in Handing => "memory" \in command
    /\ at \in {"handoff", "successor"} => receipt = "complete"

SpaceInv == PlacedInv /\ Between /\ SetInv /\ OffInv /\ WindowInv /\ MeasuredInv

LEMMA SpaceInit == Init => SpaceInv
<1> SUFFICES ASSUME Init PROVE SpaceInv
  OBVIOUS
<1>1. PICK source \in Placements, sel \in Requests, d \in Destinations :
         /\ PlacedBy(source, sel, d)
         /\ plan = [selector |-> sel, destination |-> d, source |-> source]
         /\ firmware = source
  BY DEF Init
<1>2. /\ high = firmware.high /\ low = firmware.low /\ straps = firmware.straps
      /\ at = "start"
  BY DEF Init
<1>3. PlacedInv
  BY <1>1 DEF PlacedInv
<1> QED
  BY <1>2, <1>3 DEF SpaceInv, Between, SetInv, OffInv, WindowInv, MeasuredInv, Moved,
     Changing, Handing

LEMMA PlacedKept ==
    ASSUME PlacedInv, UNCHANGED <<plan, firmware>>
    PROVE  PlacedInv'
BY DEF PlacedInv

\* Steps that write no register.
LEMMA WaitingSpace ==
    ASSUME IInv, SpaceInv, Waiting
    PROVE  SpaceInv'
<1> USE DEF SpaceInv
<1>1. UNCHANGED <<command, high, low, straps, plan, firmware, measured>>
  BY DEF Waiting, Refuse, Validate, PrepareHandoff, ApplyRefuses, Check, Reserve,
     OpenReceipt, WriteReceipt, StartImage, SuccessorReturns, Release, medium, history,
     registers
<1>2. PlacedInv'
  BY <1>1, PlacedKept
<1>3. /\ Between' /\ (HighSet' <=> HighSet) /\ (LowSet' <=> LowSet) /\ (Moved' <=> Moved)
  BY <1>1 DEF Between, HighSet, LowSet, Moved
<1>4. SetInv'
  BY <1>3 DEF SetInv, Waiting, Refuse, Validate, PrepareHandoff, ApplyRefuses, Check,
     Reserve, OpenReceipt, WriteReceipt, StartImage, SuccessorReturns, Release, Goto,
     Changing
<1>5. OffInv'
  BY <1>1 DEF OffInv, Waiting, Refuse, Validate, PrepareHandoff, ApplyRefuses, Check,
     Reserve, OpenReceipt, WriteReceipt, StartImage, SuccessorReturns, Release, Goto
<1>6. WindowInv'
  <2>1. at = "release" => ~ Moved
    BY DEF IInv, PositionInv, Current, Moved
  <2>2. at # "release" => reserved' = reserved \/ reserved'
    BY DEF Waiting, Refuse, Validate, PrepareHandoff, ApplyRefuses, Check, Reserve,
       OpenReceipt, WriteReceipt, StartImage, SuccessorReturns, Release
  <2> QED
    BY <1>1, <1>3, <2>1, <2>2 DEF WindowInv
<1>7. MeasuredInv'
  <2>1. Aperture(straps)' = Aperture(straps) /\ Size' = Size
    BY <1>1 DEF Aperture, Size
  <2> QED
    BY <1>1, <2>1 DEF MeasuredInv, Waiting, Refuse, Validate, PrepareHandoff,
       ApplyRefuses, Check, Reserve, OpenReceipt, WriteReceipt, StartImage,
       SuccessorReturns, Release, Goto, Handing, medium
<1> QED
  BY <1>2, <1>3, <1>4, <1>5, <1>6, <1>7

-----------------------------------------------------------------------------

LEMMA WriteEffect ==
    ASSUME NEW r, NEW v, Write(Set(r, v))
    PROVE  /\ r = "command" => command' = v /\ UNCHANGED <<high, low, straps>>
           /\ r = "high" => high' = v /\ UNCHANGED <<command, low, straps>>
           /\ r = "low" => low' = v /\ UNCHANGED <<command, high, straps>>
           /\ r \in {"set0", "set1"} =>
                 /\ straps' \in {straps, [straps EXCEPT ![r] = v]}
                 /\ UNCHANGED <<command, high, low>>
BY DEF Write, Set

\* A strap write of the plan or of the restore keeps the straps between the
\* two.
LEMMA BetweenKept ==
    ASSUME TypeOK, Between, UNCHANGED <<plan, firmware>>,
           NEW r \in {"set0", "set1"}, NEW v,
           v.part \in {firmware.straps[r].part, target_parts(plan.selector)[r]},
           straps' \in {straps, [straps EXCEPT ![r] = v]}
    PROVE  Between'
<1>1. straps \in StrapRegisters
  BY DEF TypeOK, Current, Registers
<1>2. CASE r = "set0"
  BY <1>1, <1>2 DEF Between, StrapRegisters, target_parts
<1>3. CASE r = "set1"
  BY <1>1, <1>3 DEF Between, StrapRegisters, target_parts
<1> QED
  BY <1>2, <1>3

\* The positions in three lists joined.  Each step names the few facts it needs:
\* the provers lose sequences whose length is a known number.
Joined(S, first, mid, last, list) ==
    /\ first \in Seq(S) /\ mid \in Seq(S) /\ last \in Seq(S)
    /\ Len(first) = 4 /\ Len(mid) \in 0 .. 2 /\ Len(last) = 1
    /\ list = (first \o mid) \o last

InOrder(first, mid, last, list) ==
    /\ Len(list) \in 5 .. 7
    /\ \A i \in 1 .. 4 : list[i] = first[i]
    /\ \A i \in 5 .. Len(list) - 1 : i - 4 \in 1 .. Len(mid) /\ list[i] = mid[i - 4]
    /\ list[Len(list)] = last[1]

LEMMA Sandwich ==
    ASSUME NEW S, NEW first, NEW mid, NEW last, NEW list, Joined(S, first, mid, last, list)
    PROVE  InOrder(first, mid, last, list)
<1> USE DEF Joined
<1> DEFINE both == first \o mid
<1>1. /\ both \in Seq(S) /\ Len(both) = Len(first) + Len(mid)
      /\ \A i \in 1 .. Len(first) : both[i] = first[i]
      /\ \A i \in Len(first) + 1 .. Len(first) + Len(mid) : both[i] = mid[i - Len(first)]
  BY ONLY first \in Seq(S), mid \in Seq(S)
<1>2. list = both \o last
  OBVIOUS
<1>7. both \in Seq(S)
  BY <1>1
<1> HIDE DEF both
<1>3. /\ Len(list) = Len(both) + Len(last)
      /\ \A i \in 1 .. Len(both) : list[i] = both[i]
      /\ \A i \in Len(both) + 1 .. Len(both) + Len(last) : list[i] = last[i - Len(both)]
  BY ONLY <1>7, <1>2, last \in Seq(S)
<1> DEFINE n == Len(mid)
           f == Len(first)
           b == Len(both)
           e == Len(last)
           m == Len(list)
<1>4. /\ n \in 0 .. 2 /\ f = 4 /\ e = 1
      /\ b = f + n /\ m = b + e
  <2>1. b = f + n /\ m = b + e
    BY ONLY <1>1, <1>3
  <2>2. n \in 0 .. 2 /\ f = 4 /\ e = 1
    OBVIOUS
  <2> QED
    BY <2>1, <2>2
<1>5. /\ \A i \in 1 .. f : both[i] = first[i]
      /\ \A i \in f + 1 .. f + n : both[i] = mid[i - f]
      /\ \A i \in 1 .. b : list[i] = both[i]
      /\ \A i \in b + 1 .. b + e : list[i] = last[i - b]
  BY <1>1, <1>3
<1> HIDE DEF n, f, b, e, m
<1>6. /\ m \in 5 .. 7
      /\ \A i \in 1 .. 4 : list[i] = first[i]
      /\ \A i \in 5 .. m - 1 : i - 4 \in 1 .. n /\ list[i] = mid[i - 4]
      /\ list[m] = last[1]
  <2>1. \A i \in 1 .. 4 : i \in 1 .. b /\ i \in 1 .. f
    BY <1>4
  <2>2. \A i \in 5 .. m - 1 : i \in 1 .. b /\ i \in f + 1 .. f + n /\ i - 4 \in 1 .. n
    BY <1>4
  <2>3. m \in b + 1 .. b + e /\ m - b = 1 /\ m \in 5 .. 7
    BY <1>4
  <2>4. \A i \in 5 .. m - 1 : list[i] = mid[i - 4]
    BY ONLY <1>4, <1>5, <2>2
  <2>5. list[m] = last[1]
    BY ONLY <1>4, <1>5, <2>3
  <2>6. \A i \in 1 .. 4 : list[i] = first[i]
    BY ONLY <1>4, <1>5, <2>1
  <2> QED
    BY ONLY <2>2, <2>3, <2>4, <2>5, <2>6
<1> QED
  BY <1>6 DEF n, m, InOrder

\* The writes of apply, by position.
LEMMA ApplyWriteAt ==
    ASSUME TypeOK
    PROVE  /\ Len(ApplyWrites) \in 5 .. 7
           /\ ApplyWrites[1] = Set("command", saved.command \ Command)
           /\ ApplyWrites[2] = Set("high", plan.destination \div FourGiB)
           /\ ApplyWrites[3] = Set("low", plan.destination % FourGiB)
           /\ ApplyWrites[4] = Set("command", (saved.command \ {"busMaster"}) \cup {"memory"})
           /\ \A i \in 5 .. Len(ApplyWrites) - 1 : \E r \in {"set0", "set1"} :
                 ApplyWrites[i] = Set(r, StrapWritten(plan.selector, r))
           /\ ApplyWrites[Len(ApplyWrites)] = Set("command", saved.command \ Command)
<1> DEFINE c1 == Set("command", saved.command \ Command)
           h == Set("high", plan.destination \div FourGiB)
           l == Set("low", plan.destination % FourGiB)
           c2 == Set("command", (saved.command \ {"busMaster"}) \cup {"memory"})
           s0 == Set("set0", StrapWritten(plan.selector, "set0"))
           s1 == Set("set1", StrapWritten(plan.selector, "set1"))
           p0 == IF "set0" \in planned_writes(saved.straps, plan.selector)
                 THEN <<s0>> ELSE <<>>
           p1 == IF "set1" \in planned_writes(saved.straps, plan.selector)
                 THEN <<s1>> ELSE <<>>
           list == ApplyWrites
<1>1. list = (<<c1, h, l, c2>> \o (p0 \o p1)) \o <<c1>>
  BY DEF ApplyWrites, StrapWrites
<1>3. s0 = Set("set0", StrapWritten(plan.selector, "set0"))
  OBVIOUS
<1>4. s1 = Set("set1", StrapWritten(plan.selector, "set1"))
  OBVIOUS
<1> HIDE DEF c1, h, l, c2, s0, s1, list
<1> DEFINE Late == {s0, s1}
           S == {c1, h, l, c2, s0, s1}
           mid == p0 \o p1
           first == <<c1, h, l, c2>>
           last == <<c1>>
<1>5. s0 \in Late /\ s1 \in Late
  OBVIOUS
<1>7. \A x \in Late : x \in S
  OBVIOUS
<1>8. c1 \in S /\ h \in S /\ l \in S /\ c2 \in S
  OBVIOUS
<1>9. list = (first \o mid) \o last
  BY <1>1
<1> HIDE DEF Late, S
<1>10. mid \in Seq(Late) /\ Len(mid) \in 0 .. 2
  <2>1. /\ p0 \in Seq(Late) /\ Len(p0) \in 0 .. 1
        /\ p1 \in Seq(Late) /\ Len(p1) \in 0 .. 1
    BY <1>5
  <2> HIDE DEF p0, p1
  <2>2. mid = p0 \o p1
    OBVIOUS
  <2> HIDE DEF mid
  <2> QED
    BY <2>1, <2>2
<1> HIDE DEF mid
<1>11. mid \in Seq(S) /\ \A i \in 1 .. Len(mid) : mid[i] \in Late
  BY <1>7, <1>10
<1>12. /\ first \in Seq(S) /\ Len(first) = 4
       /\ first[1] = c1 /\ first[2] = h /\ first[3] = l /\ first[4] = c2
       /\ last \in Seq(S) /\ Len(last) = 1 /\ last[1] = c1
  BY <1>8
<1> HIDE DEF first, last
<1>13. /\ Len(list) \in 5 .. 7
       /\ \A i \in 1 .. 4 : list[i] = first[i]
       /\ \A i \in 5 .. Len(list) - 1 : i - 4 \in 1 .. Len(mid) /\ list[i] = mid[i - 4]
       /\ list[Len(list)] = last[1]
  <2>1. first \in Seq(S) /\ mid \in Seq(S) /\ last \in Seq(S)
    BY <1>11, <1>12
  <2>2. Len(first) = 4 /\ Len(mid) \in 0 .. 2 /\ Len(last) = 1
    BY <1>10, <1>12
  <2>3. Joined(S, first, mid, last, list)
    BY <1>9, <2>1, <2>2 DEF Joined
  <2>4. InOrder(first, mid, last, list)
    BY <2>3, Sandwich, Zenon
  <2> QED
    BY <2>4 DEF InOrder
<1>6. /\ list[1] = c1 /\ list[2] = h /\ list[3] = l /\ list[4] = c2
      /\ \A i \in 5 .. Len(list) - 1 : list[i] \in {s0, s1}
      /\ list[Len(list)] = c1
  BY <1>11, <1>12, <1>13 DEF Late
<1> QED
  BY <1>3, <1>4, <1>6, <1>13 DEF list, c1, h, l, c2

\* One write of apply, whether it is reported as failed or not.
LEMMA ApplyWriteSpace ==
    ASSUME IInv, SpaceInv, at = "apply", UNCHANGED <<plan, firmware, reserved, saved>>,
           Write(ApplyWrites[k])
    PROVE  /\ Between'
           /\ k > 1 => HighSet'
           /\ k > 2 => LowSet'
           /\ k \in 1 .. 3 \/ k = Len(ApplyWrites) => "memory" \notin command'
           /\ WindowInv'
<1> USE DEF IInv, SpaceInv
<1>1. k \in 1 .. Len(ApplyWrites) /\ Len(ApplyWrites) \in 5 .. 7
  BY ApplyWriteAt DEF PositionInv, TypeOK
<1>2. "memory" \notin saved.command \ Command
  BY DEF Command
<1>3. CASE k = 1
  <2>1. Write(Set("command", saved.command \ Command))
    BY <1>3, ApplyWriteAt
  <2>2. command' = saved.command \ Command /\ UNCHANGED straps
    BY <2>1, WriteEffect
  <2> QED
    BY <1>1, <1>2, <1>3, <2>2 DEF WindowInv, Between
<1>4. CASE k = 2
  <2>1. Write(Set("high", plan.destination \div FourGiB))
    BY <1>4, ApplyWriteAt
  <2>2. high' = plan.destination \div FourGiB /\ UNCHANGED <<command, straps>>
    BY <2>1, WriteEffect
  <2> QED
    BY <1>1, <1>4, <2>2 DEF WindowInv, Between, OffInv, HighSet
<1>5. CASE k = 3
  <2>1. Write(Set("low", plan.destination % FourGiB))
    BY <1>5, ApplyWriteAt
  <2>2. low' = plan.destination % FourGiB /\ UNCHANGED <<command, high, straps>>
    BY <2>1, WriteEffect
  <2> QED
    BY <1>1, <1>5, <2>2 DEF WindowInv, Between, OffInv, HighSet, LowSet, SetInv
<1>6. CASE k = 4
  <2>1. Write(Set("command", (saved.command \ {"busMaster"}) \cup {"memory"}))
    BY <1>6, ApplyWriteAt
  <2>2. UNCHANGED <<low, high, straps>>
    BY <2>1, WriteEffect
  <2>3. HighSet' /\ LowSet' /\ reserved'
    BY <1>6, <2>2 DEF HighSet, LowSet, SetInv, Changing
  <2>4. Between'
    BY <2>2 DEF Between
  <2>5. ~ (k \in 1 .. 3 \/ k = Len(ApplyWrites))
    <3> DEFINE n == Len(ApplyWrites)
    <3>1. n \in 5 .. 7
      BY <1>1
    <3> HIDE DEF n
    <3>2. ~ (k \in 1 .. 3 \/ k = n)
      BY <1>6, <3>1
    <3> QED
      BY <3>2 DEF n
  <2> QED
    BY <2>3, <2>4, <2>5 DEF WindowInv
<1>7. CASE k \in 5 .. Len(ApplyWrites) - 1
  <2>1. PICK r \in {"set0", "set1"} : Write(Set(r, StrapWritten(plan.selector, r)))
    BY <1>7, ApplyWriteAt
  <2>2. /\ straps' \in {straps, [straps EXCEPT ![r] = StrapWritten(plan.selector, r)]}
        /\ UNCHANGED <<command, high, low>>
    BY <2>1, WriteEffect
  <2>3. Between'
    <3>1. StrapWritten(plan.selector, r).part = target_parts(plan.selector)[r]
      BY DEF StrapWritten
    <3> QED
      BY <2>2, <3>1, BetweenKept
  <2> QED
    BY <1>1, <1>7, <2>2, <2>3 DEF WindowInv, HighSet, LowSet, SetInv, Changing
<1>8. CASE k = Len(ApplyWrites)
  <2>1. Write(Set("command", saved.command \ Command))
    BY <1>8, ApplyWriteAt
  <2>2. command' = saved.command \ Command /\ UNCHANGED <<low, high, straps>>
    BY <2>1, WriteEffect
  <2>3. HighSet' /\ LowSet'
    <3>1. k > 3 /\ k > 2
      BY <1>1, <1>8
    <3> QED
      BY <2>2, <3>1 DEF HighSet, LowSet, SetInv
  <2>4. Between'
    BY <2>2 DEF Between
  <2> QED
    BY <1>2, <2>2, <2>3, <2>4 DEF WindowInv
<1> QED
  BY <1>1, <1>3, <1>4, <1>5, <1>6, <1>7, <1>8

\* Nothing written.
LEMMA UnwrittenSpace ==
    ASSUME SpaceInv, UNCHANGED <<registers, plan, firmware, reserved>>
    PROVE  /\ Between' /\ WindowInv' /\ (HighSet' <=> HighSet) /\ (LowSet' <=> LowSet)
           /\ command' = command
BY DEF SpaceInv, registers, Between, WindowInv, HighSet, LowSet, Moved

LEMMA ApplySpace ==
    ASSUME IInv, SpaceInv, Apply
    PROVE  SpaceInv'
<1> USE DEF IInv, SpaceInv
<1>1. /\ at = "apply" /\ reserved
      /\ WriteChecked(ApplyWrites, "measure") \/ WriteFails(ApplyWrites, "restore")
      /\ UNCHANGED <<plan, firmware, reserved, saved>>
  BY DEF Apply, medium, history, SetInv, Changing
<1>2. k \in 1 .. Len(ApplyWrites) /\ Len(ApplyWrites) \in 5 .. 7
  BY <1>1, ApplyWriteAt DEF PositionInv, TypeOK
<1>3. PlacedInv'
  BY <1>1, PlacedKept
<1>4. CASE WriteFails(ApplyWrites, "restore")
  <2>1. at' = "restore" /\ k' = 1 /\ (Write(ApplyWrites[k]) \/ UNCHANGED registers)
    BY <1>4 DEF WriteFails, Goto
  <2>2. Between' /\ WindowInv'
    BY <1>1, <2>1, ApplyWriteSpace, UnwrittenSpace
  <2> QED
    BY <1>1, <1>3, <2>1, <2>2 DEF SetInv, OffInv, MeasuredInv, Changing, Handing
<1>5. CASE WriteChecked(ApplyWrites, "measure")
  <2>1. Write(ApplyWrites[k])
    BY <1>5 DEF WriteChecked
  <2>2. /\ Between' /\ WindowInv'
        /\ k > 1 => HighSet'
        /\ k > 2 => LowSet'
        /\ k \in 1 .. 3 \/ k = Len(ApplyWrites) => "memory" \notin command'
    BY <1>1, <2>1, ApplyWriteSpace
  <2>3. CASE k < Len(ApplyWrites) /\ k' = k + 1 /\ UNCHANGED at
    <3>1. k' \in 3 .. 7 => k > 1
      BY <1>2, <2>3
    <3>2. /\ k' > 2 => k > 1
          /\ k' > 3 => k > 2
          /\ k' \in 2 .. 4 => k \in 1 .. 3
      BY <1>2, <2>3
    <3> QED
      BY <1>1, <1>3, <2>2, <2>3, <3>2 DEF SetInv, OffInv, MeasuredInv, Changing, Handing
  <2>4. CASE k = Len(ApplyWrites) /\ Goto("measure")
    <3>1. HighSet' /\ LowSet' /\ "memory" \notin command'
      <4>1. k > 2
        BY <1>2, <2>4
      <4> QED
        BY <2>2, <2>4, <4>1
    <3>2. at' = "measure"
      BY <2>4 DEF Goto
    <3> QED
      BY <1>1, <1>3, <2>2, <3>1, <3>2 DEF SetInv, OffInv, MeasuredInv, Changing, Handing
  <2> QED
    BY <1>5, <2>3, <2>4 DEF WriteChecked
<1> QED
  BY <1>1, <1>4, <1>5

-----------------------------------------------------------------------------

LEMMA EnableSpace ==
    ASSUME IInv, SpaceInv, Enable
    PROVE  SpaceInv'
<1> USE DEF IInv, SpaceInv
<1>1. /\ at = "enable" /\ reserved /\ HighSet /\ LowSet /\ "memory" \notin command
      /\ measured /\ Aperture(straps) = Size
      /\ WriteChecked(EnableWrites, "openReceipt") \/ WriteFails(EnableWrites, "restore")
      /\ UNCHANGED <<plan, firmware, reserved, saved, measured>>
  BY DEF Enable, medium, history, SetInv, Changing, OffInv, MeasuredInv
<1>2. k \in 1 .. 3 /\ Len(EnableWrites) = 3
  <2>1. Len(EnableWrites) = 3
    BY TypedLists, Zenon
  <2>2. k \in 1 .. 10 /\ k <= Len(EnableWrites)
    BY <1>1 DEF PositionInv, TypeOK
  <2> QED
    BY <2>1, <2>2
<1>3. /\ EnableWrites[1] = Set("high", plan.destination \div FourGiB)
      /\ EnableWrites[2] = Set("low", plan.destination % FourGiB)
      /\ EnableWrites[3] = Set("command", saved.command \ {"busMaster"})
  BY DEF EnableWrites
<1>4. PlacedInv'
  BY <1>1, PlacedKept
<1>5. "memory" \in saved.command \ {"busMaster"}
  BY <1>1 DEF OwnerInv, Changing, PlacedInv, PlacedBy
<1>6. ASSUME Write(EnableWrites[k])
      PROVE  /\ UNCHANGED straps /\ HighSet' /\ LowSet'
             /\ IF k = 3 THEN "memory" \in command' ELSE "memory" \notin command'
  <2>1. CASE k = 1
    <3>1. Write(Set("high", plan.destination \div FourGiB))
      BY <1>3, <1>6, <2>1
    <3>2. high' = plan.destination \div FourGiB /\ UNCHANGED <<command, low, straps>>
      BY <3>1, WriteEffect
    <3> QED
      BY <1>1, <2>1, <3>2 DEF HighSet, LowSet
  <2>2. CASE k = 2
    <3>1. Write(Set("low", plan.destination % FourGiB))
      BY <1>3, <1>6, <2>2
    <3>2. low' = plan.destination % FourGiB /\ UNCHANGED <<command, high, straps>>
      BY <3>1, WriteEffect
    <3> QED
      BY <1>1, <2>2, <3>2 DEF HighSet, LowSet
  <2>3. CASE k = 3
    <3>1. Write(Set("command", saved.command \ {"busMaster"}))
      BY <1>3, <1>6, <2>3
    <3>2. command' = saved.command \ {"busMaster"} /\ UNCHANGED <<low, high, straps>>
      BY <3>1, WriteEffect
    <3> QED
      BY <1>1, <1>5, <2>3, <3>2 DEF HighSet, LowSet
  <2> QED
    BY <1>2, <2>1, <2>2, <2>3
<1>7. /\ UNCHANGED straps /\ HighSet' /\ LowSet' /\ reserved'
  <2>1. Write(EnableWrites[k]) \/ UNCHANGED registers
    BY <1>1, ListStep
  <2> QED
    BY <1>1, <1>6, <2>1 DEF registers, HighSet, LowSet
<1>8. Between' /\ WindowInv' /\ Aperture(straps)' = Size'
  BY <1>1, <1>7 DEF Between, WindowInv, Size, Aperture
<1>9. CASE WriteFails(EnableWrites, "restore")
  <2>1. at' = "restore" /\ k' = 1
    BY <1>9 DEF WriteFails, Goto
  <2> QED
    BY <1>4, <1>7, <1>8, <2>1 DEF SetInv, OffInv, MeasuredInv, Changing, Handing
<1>10. CASE WriteChecked(EnableWrites, "openReceipt")
  <2>1. IF k = 3 THEN "memory" \in command' ELSE "memory" \notin command'
    BY <1>6, <1>10 DEF WriteChecked
  <2>2. \/ k < 3 /\ at' = "enable"
        \/ k = 3 /\ at' = "openReceipt"
    BY <1>1, <1>2, <1>10 DEF WriteChecked, Goto
  <2> QED
    BY <1>1, <1>4, <1>7, <1>8, <2>1, <2>2 DEF SetInv, OffInv, MeasuredInv, Changing, Handing
<1> QED
  BY <1>1, <1>9, <1>10

LEMMA MeasureSpace ==
    ASSUME IInv, SpaceInv, Measure
    PROVE  SpaceInv'
<1> USE DEF IInv, SpaceInv
<1>1. /\ at = "measure" /\ reserved /\ HighSet /\ LowSet /\ "memory" \notin command
      /\ UNCHANGED <<plan, firmware, reserved, saved, command, straps>>
      /\ \/ at' = "enable" /\ measured' /\ Aperture(straps) = Size /\ UNCHANGED registers
         \/ at' = "restore" /\ k' = 1
  BY DEF Measure, Goto, medium, registers, SetInv, Changing, OffInv
<1>2. PlacedInv' /\ Between' /\ WindowInv' /\ "memory" \notin command'
  BY <1>1, PlacedKept DEF Between, WindowInv
<1>3. CASE at' = "enable" /\ measured' /\ Aperture(straps) = Size /\ UNCHANGED registers
  <2>1. HighSet' /\ LowSet' /\ Aperture(straps)' = Size'
    BY <1>1, <1>3 DEF HighSet, LowSet, registers, Aperture, Size
  <2> QED
    BY <1>1, <1>2, <1>3, <2>1 DEF SetInv, OffInv, MeasuredInv, Changing, Handing
<1>4. CASE at' = "restore" /\ k' = 1
  BY <1>1, <1>2, <1>4 DEF SetInv, OffInv, MeasuredInv, Changing, Handing
<1> QED
  BY <1>1, <1>3, <1>4

-----------------------------------------------------------------------------

LEMMA RestoreWritesMove ==
    /\ RestoreWrites[2] = Set("high", plan.destination \div FourGiB)
    /\ RestoreWrites[3] = Set("low", plan.destination % FourGiB)
    /\ RestoreWrites[4] = Set("command", (saved.command \ {"busMaster"}) \cup {"memory"})
BY DEF RestoreWrites

\* One write of the restore, whether it is reported as failed or not.
LEMMA RestoreWriteSpace ==
    ASSUME IInv, SpaceInv, at = "restore", UNCHANGED <<plan, firmware, reserved, saved>>,
           Write(RestoreWrites[k])
    PROVE  /\ Between'
           /\ k \in 2 .. 7 => HighSet'
           /\ k \in 3 .. 8 => LowSet'
           /\ k \in {1, 2, 3, 7, 8, 9} => "memory" \notin command'
           /\ WindowInv'
<1> USE DEF IInv, SpaceInv
<1>1. k \in 1 .. 10 /\ saved = firmware /\ saved \in Registers /\ plan.destination \in Nat
  BY DEF TypeOK, OwnerInv
<1>2. /\ RestoreWrites[1] = Set("command", firmware.command \ Command)
      /\ RestoreWrites[5] = Set("set0", firmware.straps.set0)
      /\ RestoreWrites[6] = Set("set1", firmware.straps.set1)
      /\ RestoreWrites[7] = Set("command", firmware.command \ Command)
      /\ RestoreWrites[8] = Set("high", firmware.high)
      /\ RestoreWrites[9] = Set("low", firmware.low)
      /\ RestoreWrites[10] = Set("command", firmware.command)
  BY <1>1, RestoreWritesFit, Zenon
<1>3. "memory" \notin firmware.command \ Command
  BY DEF Command
<1>4. /\ k \in 3 .. 8 => HighSet
      /\ k \in 4 .. 9 => LowSet
      /\ k \in {2, 3, 4, 8, 9, 10} => "memory" \notin command
      /\ reserved
  BY DEF SetInv, OffInv
<1>5. CASE k \in {1, 7}
  <2>1. Write(Set("command", firmware.command \ Command))
    BY <1>2, <1>5
  <2>2. command' = firmware.command \ Command /\ UNCHANGED <<high, low, straps>>
    BY <2>1, WriteEffect
  <2> QED
    BY <1>3, <1>4, <1>5, <2>2 DEF WindowInv, Between, HighSet, LowSet
<1>6. CASE k = 2
  <2>1. Write(Set("high", plan.destination \div FourGiB))
    BY <1>6, RestoreWritesMove
  <2>2. high' = plan.destination \div FourGiB /\ UNCHANGED <<command, low, straps>>
    BY <2>1, WriteEffect
  <2> QED
    BY <1>4, <1>6, <2>2 DEF WindowInv, Between, HighSet
<1>7. CASE k = 3
  <2>1. Write(Set("low", plan.destination % FourGiB))
    BY <1>7, RestoreWritesMove
  <2>2. low' = plan.destination % FourGiB /\ UNCHANGED <<command, high, straps>>
    BY <2>1, WriteEffect
  <2> QED
    BY <1>4, <1>7, <2>2 DEF WindowInv, Between, HighSet, LowSet
<1>8. CASE k = 4
  <2>1. Write(Set("command", (saved.command \ {"busMaster"}) \cup {"memory"}))
    BY <1>8, RestoreWritesMove
  <2>2. UNCHANGED <<high, low, straps>>
    BY <2>1, WriteEffect
  <2> QED
    BY <1>4, <1>8, <2>2 DEF WindowInv, Between, HighSet, LowSet
<1>9. CASE k = 5
  <2>1. Write(Set("set0", firmware.straps.set0))
    BY <1>2, <1>9
  <2>2. /\ straps' \in {straps, [straps EXCEPT !["set0"] = firmware.straps.set0]}
        /\ UNCHANGED <<command, high, low>>
    BY <2>1, WriteEffect
  <2>3. Between'
    BY <2>2, BetweenKept
  <2> QED
    BY <1>4, <1>9, <2>2, <2>3 DEF WindowInv, HighSet, LowSet
<1>10. CASE k = 6
  <2>1. Write(Set("set1", firmware.straps.set1))
    BY <1>2, <1>10
  <2>2. /\ straps' \in {straps, [straps EXCEPT !["set1"] = firmware.straps.set1]}
        /\ UNCHANGED <<command, high, low>>
    BY <2>1, WriteEffect
  <2>3. Between'
    BY <2>2, BetweenKept
  <2> QED
    BY <1>4, <1>10, <2>2, <2>3 DEF WindowInv, HighSet, LowSet
<1>11. CASE k = 8
  <2>1. Write(Set("high", firmware.high))
    BY <1>2, <1>11
  <2>2. UNCHANGED <<command, low, straps>>
    BY <2>1, WriteEffect
  <2> QED
    BY <1>4, <1>11, <2>2 DEF WindowInv, Between, LowSet
<1>12. CASE k = 9
  <2>1. Write(Set("low", firmware.low))
    BY <1>2, <1>12
  <2>2. UNCHANGED <<command, high, straps>>
    BY <2>1, WriteEffect
  <2> QED
    BY <1>4, <1>12, <2>2 DEF WindowInv, Between
<1>13. CASE k = 10
  <2>1. Write(Set("command", firmware.command))
    BY <1>2, <1>13
  <2>2. UNCHANGED <<high, low, straps>>
    BY <2>1, WriteEffect
  <2>3. straps = firmware.straps /\ high = firmware.high /\ low = firmware.low
    BY <1>13 DEF RestoreInv
  <2> QED
    BY <1>13, <2>2, <2>3 DEF WindowInv, Between, Moved
<1> QED
  BY <1>1, <1>5, <1>6, <1>7, <1>8, <1>9, <1>10, <1>11, <1>12, <1>13

LEMMA RestoreSpace ==
    ASSUME IInv, SpaceInv, Restore
    PROVE  SpaceInv'
<1> USE DEF IInv, SpaceInv
<1>1. /\ at = "restore" /\ reserved /\ k \in 1 .. 10
      /\ WriteChecked(RestoreWrites, "release") \/ WriteFails(RestoreWrites, "halted")
      /\ UNCHANGED <<plan, firmware, reserved, saved>>
  BY DEF Restore, medium, history, SetInv, TypeOK
<1>2. PlacedInv'
  BY <1>1, PlacedKept
<1>3. Len(RestoreWrites) = 10
  <2>1. plan.destination \in Nat /\ saved \in Registers
    BY DEF TypeOK
  <2> QED
    BY <2>1, RestoreWritesFit, Zenon
<1>4. CASE WriteFails(RestoreWrites, "halted")
  <2>1. at' = "halted" /\ (Write(RestoreWrites[k]) \/ UNCHANGED registers)
    BY <1>4 DEF WriteFails, Goto
  <2>2. Between' /\ WindowInv'
    BY <1>1, <2>1, RestoreWriteSpace, UnwrittenSpace
  <2> QED
    BY <1>2, <2>1, <2>2 DEF SetInv, OffInv, MeasuredInv, Changing, Handing
<1>5. CASE WriteChecked(RestoreWrites, "release")
  <2>1. Write(RestoreWrites[k])
    BY <1>5 DEF WriteChecked
  <2>2. /\ Between' /\ WindowInv'
        /\ k \in 2 .. 7 => HighSet'
        /\ k \in 3 .. 8 => LowSet'
        /\ k \in {1, 2, 3, 7, 8, 9} => "memory" \notin command'
    BY <1>1, <2>1, RestoreWriteSpace
  <2>3. CASE k < 10 /\ k' = k + 1 /\ UNCHANGED at
    <3>1. /\ k' \in 3 .. 8 => k \in 2 .. 7
          /\ k' \in 4 .. 9 => k \in 3 .. 8
          /\ k' \in {2, 3, 4, 8, 9, 10} => k \in {1, 2, 3, 7, 8, 9}
      BY <1>1, <2>3
    <3> QED
      BY <1>1, <1>2, <2>2, <2>3, <3>1 DEF SetInv, OffInv, MeasuredInv, Changing, Handing
  <2>4. CASE Goto("release")
    BY <1>2, <2>2, <2>4 DEF Goto, SetInv, OffInv, MeasuredInv, Changing, Handing
  <2> QED
    BY <1>3, <1>5, <2>3, <2>4 DEF WriteChecked
<1> QED
  BY <1>1, <1>4, <1>5

LEMMA PowerCycleSpace ==
    ASSUME IInv, SpaceInv, PowerCycle
    PROVE  SpaceInv'
<1>1. /\ firmware' \in Placements /\ PlacedBy(firmware', plan.selector, plan.destination)
      /\ high' = firmware'.high /\ low' = firmware'.low /\ straps' = firmware'.straps
      /\ at' = "start" /\ UNCHANGED plan
  BY DEF PowerCycle, Goto, medium
<1>2. PlacedInv'
  BY <1>1 DEF SpaceInv, PlacedInv
<1> QED
  BY <1>1, <1>2 DEF SpaceInv, Between, SetInv, OffInv, WindowInv, MeasuredInv, Moved,
     Changing, Handing

LEMMA StutterSpace ==
    ASSUME SpaceInv, UNCHANGED vars
    PROVE  SpaceInv'
BY DEF vars, registers, medium, history, SpaceInv, PlacedInv, Between, SetInv, OffInv,
   WindowInv, MeasuredInv, Moved, HighSet, LowSet, Aperture, Size

LEMMA StepSpace ==
    ASSUME IInv, SpaceInv, [Next]_vars
    PROVE  SpaceInv'
<1>1. CASE Waiting
  BY <1>1, WaitingSpace
<1>2. CASE Apply
  BY <1>2, ApplySpace
<1>3. CASE Enable
  BY <1>3, EnableSpace
<1>4. CASE Measure
  BY <1>4, MeasureSpace
<1>5. CASE Restore
  BY <1>5, RestoreSpace
<1>6. CASE PowerCycle
  BY <1>6, PowerCycleSpace
<1>7. CASE UNCHANGED vars
  BY <1>7, StutterSpace
<1> QED
  BY <1>1, <1>2, <1>3, <1>4, <1>5, <1>6, <1>7 DEF Next, LoaderStep, Waiting

-----------------------------------------------------------------------------

\* The straps as firmware leaves them are such that neither strap alone, at its
\* planned value, selects more than the plan asks for.  The loader does not
\* check this.  The straps of a Turing board are 2 and 0.
Steady ==
    \A s \in InitialStraps, sel \in Requests :
        s.set0.part + s.set1.part < sel =>
            /\ s.set0.part + target_parts(sel).set1 <= sel
            /\ target_parts(sel).set0 + s.set1.part <= sel

LEMMA SmallerAperture ==
    ASSUME NEW m \in 0 .. 10, NEW n \in 0 .. 10
    PROVE  Apertures[m] < Apertures[n] <=> m < n
BY ApertureTable

\* The sum of the strap parts selects the aperture.
LEMMA PartsSum ==
    ASSUME NEW s \in StrapRegisters
    PROVE  s.set0.part + s.set1.part \in 0 .. 10
BY DEF StrapRegisters, Part1, Part2

LEMMA RequestedSelector ==
    ASSUME PlacedInv
    PROVE  /\ plan.selector \in 3 .. 9 /\ plan.selector \in Selectors
           /\ firmware.straps \in InitialStraps /\ firmware.straps \in StrapRegisters
           /\ firmware.straps.set0.part + firmware.straps.set1.part < plan.selector
<1>1. plan.selector \in 3 .. 9
  BY ConstantsAssumption DEF PlacedInv, PlannedSelectors
<1>2. firmware.straps \in InitialStraps
  BY DEF PlacedInv, Placements
<1>3. firmware.straps \in StrapRegisters
  BY <1>2, ConstantsAssumption
<1>4. Aperture(firmware.straps) < Apertures[plan.selector]
  BY DEF PlacedInv, PlacedBy
<1> QED
  BY <1>1, <1>2, <1>3, <1>4, PartsSum, SmallerAperture
     DEF Aperture, Selectors, MAX_BAR_SIZE_SELECTOR

\* At the destination BAR1 answers to the destination and as much as the
\* straps select.
LEMMA DecodedThere ==
    ASSUME TypeOK, PlacedInv, HighSet, LowSet, NEW m \in 0 .. plan.selector,
           Aperture(straps) = Apertures[m]
    PROVE  /\ Decoded = [start |-> plan.destination, end |-> plan.destination + Apertures[m]]
           /\ Apertures[m] \in 1 .. Size
<1>1. plan.selector \in 0 .. 10 /\ plan.destination \in Nat
  BY RequestedSelector DEF TypeOK
<1>2. plan.destination % Apertures[plan.selector] = 0
  BY DEF PlacedInv, PlacedBy
<1>3. plan.destination % Apertures[m] = 0 /\ Apertures[m] \in 1 .. Apertures[plan.selector]
  BY <1>1, <1>2, Aligned
<1>4. m \in 0 .. 10
  BY <1>1
<1>5. HeldHigh(plan.destination \div FourGiB, straps) * FourGiB
         + HeldLow(plan.destination % FourGiB, straps) = plan.destination
  BY <1>1, <1>3, <1>4, HeldExactly
<1> QED
  BY <1>3, <1>5 DEF Decoded, HighSet, LowSet, Size

LEMMA HighAndLow ==
    ASSUME NEW a \in Nat
    PROVE  /\ (a \div FourGiB) * FourGiB + (a % FourGiB) = a
           /\ a \div FourGiB \in Nat /\ a % FourGiB \in Nat
BY DEF FourGiB

\* Where firmware put it, BAR1 answers to exactly that.
LEMMA DecodedHere ==
    ASSUME PlacedInv, ~ Moved
    PROVE  Decoded = FirmwareSpan
<1>1. PICK b \in Bases : firmware.high = b \div FourGiB /\ firmware.low = b % FourGiB
  BY DEF PlacedInv, Placements
<1>2. b \in Nat
  BY ConstantsAssumption
<1>3. (b \div FourGiB) * FourGiB + (b % FourGiB) = b
  BY <1>2, HighAndLow
<1>4. b % Aperture(firmware.straps) = 0
  <2>1. (firmware.high * FourGiB + firmware.low) % Aperture(firmware.straps) = 0
    BY DEF PlacedInv, PlacedBy
  <2>2. ((b \div FourGiB) * FourGiB + (b % FourGiB)) % Aperture(firmware.straps) = 0
    BY ONLY <1>1, <2>1, Zenon
  <2> QED
    BY ONLY <1>3, <2>2, Zenon
<1>5. /\ firmware.straps.set0.part + firmware.straps.set1.part \in 0 .. 10
      /\ Aperture(firmware.straps)
            = Apertures[firmware.straps.set0.part + firmware.straps.set1.part]
  BY RequestedSelector, PartsSum DEF Aperture
<1>6. HeldHigh(b \div FourGiB, firmware.straps) * FourGiB
         + HeldLow(b % FourGiB, firmware.straps) = b
  BY <1>2, <1>4, <1>5, HeldExactly
<1>7. high = b \div FourGiB /\ low = b % FourGiB /\ straps = firmware.straps
  BY <1>1 DEF Moved
<1>8. Decoded = [start |-> b, end |-> b + Aperture(firmware.straps)]
  BY <1>6, <1>7, Zenon DEF Decoded
<1>9. FirmwareSpan = [start |-> b, end |-> b + Aperture(firmware.straps)]
  <2>1. firmware.high * FourGiB + firmware.low = (b \div FourGiB) * FourGiB + (b % FourGiB)
    BY ONLY <1>1, Zenon
  <2>2. firmware.high * FourGiB + firmware.low = b
    BY ONLY <1>3, <2>1, Zenon
  <2> QED
    BY ONLY <2>2, Zenon DEF FirmwareSpan
<1> QED
  BY <1>8, <1>9

LEMMA OwnFromInv ==
    ASSUME Steady, IInv, SpaceInv
    PROVE  DecodesOwnSpace
<1> SUFFICES ASSUME "memory" \in command
             PROVE  \/ Contains(FirmwareSpan, Decoded)
                    \/ reserved /\ Contains(Reservation, Decoded)
  BY DEF DecodesOwnSpace
<1>1. TypeOK /\ PlacedInv /\ Between
  BY DEF IInv, SpaceInv
<1>2. CASE ~ Moved
  <2>1. Decoded = FirmwareSpan
    BY <1>1, <1>2, DecodedHere
  <2>2. Contains(Decoded, Decoded)
    <3>1. Decoded.start \in Int /\ Decoded.end \in Int
      <4>1. firmware.high \in Nat /\ firmware.low \in Nat
        BY <1>1 DEF TypeOK, Registers, FourGiB
      <4>2. Aperture(firmware.straps) \in Int
        BY <1>1, RequestedSelector, PartsSum, ApertureTable DEF Aperture
      <4> QED
        BY <2>1, <4>1, <4>2 DEF FirmwareSpan, FourGiB
    <3> QED
      BY <3>1 DEF Contains
  <2> QED
    BY <2>1, <2>2
<1>3. CASE HighSet /\ LowSet /\ reserved
  <2> DEFINE m == straps.set0.part + straps.set1.part
             sel == plan.selector
  <2>1. m \in 0 .. sel
    <3>1. /\ sel \in 3 .. 9 /\ sel \in Selectors /\ sel \in Requests
          /\ firmware.straps \in InitialStraps /\ firmware.straps \in StrapRegisters
          /\ firmware.straps.set0.part + firmware.straps.set1.part < sel
      BY <1>1, RequestedSelector DEF PlacedInv
    <3>2. /\ firmware.straps.set0.part + target_parts(sel).set1 <= sel
          /\ target_parts(sel).set0 + firmware.straps.set1.part <= sel
      BY <3>1 DEF Steady
    <3>3. /\ target_parts(sel).set0 + target_parts(sel).set1 = sel
          /\ target_parts(sel).set0 \in 0 .. 3 /\ target_parts(sel).set1 \in 0 .. 7
      BY <3>1, TargetParts DEF Part1, Part2
    <3>4. firmware.straps.set0.part \in 0 .. 3 /\ firmware.straps.set1.part \in 0 .. 7
      BY <3>1 DEF StrapRegisters, Part1, Part2
    <3>5. /\ straps.set0.part \in {firmware.straps.set0.part, target_parts(sel).set0}
          /\ straps.set1.part \in {firmware.straps.set1.part, target_parts(sel).set1}
      BY <1>1 DEF Between
    <3> QED
      BY <3>1, <3>2, <3>3, <3>4, <3>5
  <2>2. Aperture(straps) = Apertures[m]
    BY DEF Aperture
  <2> HIDE DEF m
  <2>3. /\ Decoded = [start |-> plan.destination, end |-> plan.destination + Apertures[m]]
        /\ Apertures[m] \in 1 .. Size
    BY <1>1, <1>3, <2>1, <2>2, DecodedThere
  <2>4. plan.destination \in Nat
    BY <1>1 DEF TypeOK
  <2>5. Size \in Int
    BY <1>1, RequestedSelector, ApertureTable DEF Size
  <2> QED
    BY <1>3, <2>3, <2>4, <2>5 DEF Contains, Reservation
<1> QED
  BY <1>2, <1>3 DEF SpaceInv, WindowInv

LEMMA HandoffFromInv ==
    ASSUME IInv, SpaceInv
    PROVE  HandoffIsMeasured
<1> SUFFICES ASSUME at = "successor"
             PROVE  /\ reserved /\ "memory" \in command /\ Decoded = Reservation
                    /\ measured /\ receipt = "complete"
  BY DEF HandoffIsMeasured
<1>1. /\ reserved /\ "memory" \in command /\ measured /\ receipt = "complete"
      /\ HighSet /\ LowSet /\ Aperture(straps) = Size
  BY DEF SpaceInv, SetInv, MeasuredInv, Changing, Handing
<1>2. TypeOK /\ PlacedInv
  BY DEF IInv, SpaceInv
<1>3. plan.selector \in 0 .. plan.selector
  BY <1>2, RequestedSelector
<1>4. Decoded = [start |-> plan.destination,
                 end |-> plan.destination + Apertures[plan.selector]]
  BY <1>1, <1>2, <1>3, DecodedThere DEF Size
<1> QED
  BY <1>1, <1>4 DEF Reservation, Size

\* Which addresses are in the registers and what the straps may select, at each
\* position of each list of writes.
THEOREM SpaceInvariant == Spec => []SpaceInv
BY SpaceInit, StepSpace, InductiveInvariant, PTL DEF Spec

\* Between any two of the writes, and after any of them failed, BAR1 answers
\* only to the addresses firmware gave it or to the reserved destination, for
\* straps from which no single strap write overshoots (execute.rs, apply and
\* restore: the straps change while decoding is on).
THEOREM OwnSpace ==
    ASSUME Steady
    PROVE  Spec => []DecodesOwnSpace
<1>1. IInv /\ SpaceInv => DecodesOwnSpace
  BY OwnFromInv
<1> QED
  BY <1>1, InductiveInvariant, SpaceInvariant, PTL

\* Windows Boot Manager is started only with the measured aperture at exactly
\* the reserved destination and the receipt written (app.rs, run), whatever
\* the straps were.
THEOREM MeasuredHandoff == Spec => []HandoffIsMeasured
BY HandoffFromInv, InductiveInvariant, SpaceInvariant, PTL

-----------------------------------------------------------------------------

(***************************************************************************)
(* The loader on its bus: whatever changes in the machine between two      *)
(* boots, it works only on the machine the diagnostic saw, and what is     *)
(* proved above of one loader holds for it.                                *)
(***************************************************************************)

\* The phases after the loader's own comparison with the diagnostic.
Checked == Changing \cup {"reserve", "restore", "release"}

\* The machine of this boot is the one the diagnostic saw, down to the
\* registers firmware left, and the plan is the one made from it.
Diagnosed ==
    at \in Checked =>
        /\ firmware = plan.source
        /\ capture(surroundings, firmware) = capture(report, plan.source)
        /\ make_plan(capture(surroundings, firmware), report.gpu, plan.selector)
              = {plan.destination}

-----------------------------------------------------------------------------

\* A step on the bus is a step of the loader: the rest only adds conditions.
LEMMA PlannedStep == ASSUME [PlannedNext]_plannedVars PROVE [Next]_vars
BY DEF PlannedNext, PlannedValidate, PlannedCheck, PlannedReserve, OnTheGpu,
       PlannedPowerCycle, plannedVars, Next, LoaderStep

THEOREM PlannedInductive == PlannedSpec => []IInv
<1>1. PlannedInit => IInv
  BY InitInv DEF PlannedInit
<1>2. IInv /\ [PlannedNext]_plannedVars => IInv'
  BY PlannedStep, StepInv
<1> QED
  BY <1>1, <1>2, PTL DEF PlannedSpec

\* On whatever bus, the loader that returns to the firmware leaves every
\* register as firmware left it, reserves nothing and keeps no successor.
THEOREM PlannedFallback == PlannedSpec => []FallbackIsClean
BY PlannedInductive, CleanFromInv, PTL

\* On whatever bus, the GPU cannot master it while BAR1 or the straps differ
\* from what firmware left.
THEOREM PlannedDmaOff == PlannedSpec => []DmaOffWhileMoved
BY PlannedInductive, QuietFromInv, PTL

-----------------------------------------------------------------------------

LEMMA CheckDiagnoses ==
    ASSUME IInv, PlannedCheck
    PROVE  Diagnosed'
<1>1. firmware = Current /\ Current = plan.source
  BY DEF PlannedCheck, Check, IInv, OwnerInv, Before
<1>2. /\ capture(surroundings, Current) = capture(report, plan.source)
      /\ make_plan(capture(surroundings, Current), report.gpu, plan.selector)
            = {plan.destination}
  BY DEF PlannedCheck, FreshDiagnosticMatches, validate_plan, FullPlan
<1>3. UNCHANGED <<firmware, plan, surroundings, report>>
  BY DEF PlannedCheck, Check, medium, history
<1> QED
  BY <1>1, <1>2, <1>3 DEF Diagnosed

\* The steps that lead to no phase of Checked from outside of it, and none
\* of which changes the machine or the plan.
LEMMA OtherStepsKeepDiagnosed ==
    ASSUME TypeOK, Diagnosed,
           PlannedValidate \/ PlannedReserve \/ OnTheGpu \/ UNCHANGED plannedVars
    PROVE  Diagnosed'
<1>1. UNCHANGED <<firmware, plan, surroundings, report>>
  BY DEF PlannedValidate, PlannedReserve, OnTheGpu, plannedVars, vars, medium, history,
         Validate, Reserve, Refuse, PrepareHandoff, ApplyRefuses, Apply, Measure,
         Enable, OpenReceipt, WriteReceipt, StartImage, SuccessorReturns, Restore, Release
<1>2. at' \in Checked => at \in Checked
  BY DEF PlannedValidate, PlannedReserve, OnTheGpu, plannedVars, vars, Goto, Checked,
         Changing, WriteChecked, WriteFails,
         Validate, Reserve, Refuse, PrepareHandoff, ApplyRefuses, Apply, Measure,
         Enable, OpenReceipt, WriteReceipt, StartImage, SuccessorReturns, Restore, Release
<1> QED
  BY <1>1, <1>2 DEF Diagnosed

\* From the check before the first write until the end of the boot the
\* machine is exactly the one of the diagnostic, and the destination is the
\* one the plan's own rules give for it: a card, a display, a window or a BAR
\* that changed in between never meets a write (app.rs run, execute.rs apply).
THEOREM OnlyTheDiagnosedMachine == PlannedSpec => []Diagnosed
<1>1. PlannedInit => Diagnosed
  BY DEF PlannedInit, Init, Diagnosed, Checked, Changing
<1>2. IInv /\ Diagnosed /\ [PlannedNext]_plannedVars => Diagnosed'
  <2> SUFFICES ASSUME IInv, Diagnosed, [PlannedNext]_plannedVars
               PROVE  Diagnosed'
    OBVIOUS
  <2>1. CASE PlannedCheck
    BY <2>1, CheckDiagnoses
  <2>2. CASE PlannedPowerCycle
    BY <2>2 DEF PlannedPowerCycle, PowerCycle, Goto, Diagnosed, Checked, Changing
  <2>3. CASE PlannedValidate \/ PlannedReserve \/ OnTheGpu \/ UNCHANGED plannedVars
    BY <2>3, OtherStepsKeepDiagnosed DEF IInv
  <2> QED
    BY <2>1, <2>2, <2>3 DEF PlannedNext
<1> QED
  BY <1>1, <1>2, PlannedInductive, PTL DEF PlannedSpec

-----------------------------------------------------------------------------

\* What the proof about one loader says of the registers at each position of
\* each list of writes holds on the bus as well.
THEOREM PlannedSpace == PlannedSpec => []SpaceInv
<1>1. PlannedInit => SpaceInv
  BY SpaceInit DEF PlannedInit
<1>2. IInv /\ SpaceInv /\ [PlannedNext]_plannedVars => SpaceInv'
  BY PlannedStep, StepSpace
<1> QED
  BY <1>1, <1>2, PlannedInductive, PTL DEF PlannedSpec

\* What the plan's rules give is a place that no memory BAR of the snapshot
\* is in.
LEMMA DestinationIsFree ==
    ASSUME NEW s, NEW target, NEW selector, NEW base,
           base \in make_plan(s, target, selector),
           NEW d \in s.devices, NEW b \in d.bars, b.memory
    PROVE  ~ Overlaps(b.span, Span(base, 2 ^ selector))
<1> DEFINE taken == {c.span : c \in {e \in UNION {f.bars : f \in s.devices} : e.memory}}
<1>1. PICK span : base \in Place(span, 2 ^ selector, taken)
  BY DEF make_plan
<1>2. b.span \in taken
  OBVIOUS
<1> HIDE DEF taken
<1>3. \A t \in taken : ~ Overlaps(t, Span(base, 2 ^ selector))
  BY <1>1 DEF Place
<1> QED
  BY <1>2, <1>3

\* The snapshot has every BAR firmware assigned.
LEMMA Captured ==
    ASSUME NEW s, NEW regs, NEW d \in s.devices, NEW b \in d.bars
    PROVE  \E e \in capture(s, regs).devices : b \in e.bars
<1>1. capture_device(s, d, regs) \in capture(s, regs).devices
  BY DEF capture
<1>2. b \in Bars(s, d, regs)
  BY DEF Bars
<1>3. b \in capture_device(s, d, regs).bars
  BY <1>2 DEF capture_device
<1> QED
  BY <1>1, <1>3

LEMMA ReservationIsFree ==
    ASSUME IInv, Diagnosed, at \in Checked
    PROVE  Elsewhere(Reservation, surroundings)
<1> SUFFICES ASSUME NEW d \in surroundings.devices, NEW b \in d.bars, b.memory
             PROVE  ~ Overlaps(b.span, Reservation)
  BY DEF Elsewhere
<1>1. PICK e \in capture(surroundings, firmware).devices : b \in e.bars
  BY Captured
<1>2. plan.destination \in make_plan(capture(surroundings, firmware), report.gpu, plan.selector)
  BY DEF Diagnosed
<1>3. ~ Overlaps(b.span, Span(plan.destination, 2 ^ plan.selector))
  BY <1>1, <1>2, DestinationIsFree
<1>4. Size = 2 ^ plan.selector
  BY DEF IInv, TypeOK, PlannedSelectors, Size, Apertures
<1> QED
  BY <1>3, <1>4 DEF Reservation, Span

\* Firmware placed BAR1 where no other BAR is, and what the loader reserves
\* is such a place as well.
Apart ==
    /\ surroundings \in Surroundings
    /\ Elsewhere(FirmwareSpan, surroundings)
    /\ reserved => Elsewhere(Reservation, surroundings)

LEMMA ApartInit == PlannedInit => Apart
BY DEF PlannedInit, Init, WellAssigned, Apart

LEMMA ApartStep ==
    ASSUME IInv, Diagnosed, Apart, [PlannedNext]_plannedVars
    PROVE  Apart'
<1>1. CASE PlannedPowerCycle
  BY <1>1 DEF PlannedPowerCycle, PowerCycle, WellAssigned, Apart
<1>2. CASE PlannedReserve
  <2>1. UNCHANGED <<plan, firmware, surroundings>>
    BY <1>2 DEF PlannedReserve, Reserve, medium, history
  <2>2. Elsewhere(Reservation, surroundings)
    BY <1>2, ReservationIsFree DEF PlannedReserve, Reserve, Checked
  <2> QED
    BY <2>1, <2>2 DEF Apart, Elsewhere, Reservation, Size, FirmwareSpan, Overlaps
<1>3. CASE PlannedValidate \/ PlannedCheck \/ OnTheGpu \/ UNCHANGED plannedVars
  <2>1. UNCHANGED <<plan, firmware, surroundings>>
    BY <1>3 DEF PlannedValidate, PlannedCheck, OnTheGpu, plannedVars, vars, medium, history,
         Validate, Check, Refuse, PrepareHandoff, ApplyRefuses, Apply, Measure,
         Enable, OpenReceipt, WriteReceipt, StartImage, SuccessorReturns, Restore, Release
  <2>2. reserved' => reserved
    BY <1>3 DEF PlannedValidate, PlannedCheck, OnTheGpu, plannedVars, vars,
         Validate, Check, Refuse, PrepareHandoff, ApplyRefuses, Apply, Measure,
         Enable, OpenReceipt, WriteReceipt, StartImage, SuccessorReturns, Restore, Release
  <2> QED
    BY <2>1, <2>2 DEF Apart, Elsewhere, Reservation, Size, FirmwareSpan, Overlaps
<1> QED
  BY <1>1, <1>2, <1>3 DEF PlannedNext

\* Nothing else decodes what firmware gave BAR1 or what the loader reserved.
THEOREM ApartInvariant == PlannedSpec => []Apart
BY ApartInit, ApartStep, PlannedInductive, OnlyTheDiagnosedMachine, PTL DEF PlannedSpec

-----------------------------------------------------------------------------

LEMMA DecodedIntegers ==
    ASSUME IInv
    PROVE  Decoded.start \in Int /\ Decoded.end \in Int
<1>1. high \in Nat /\ low \in Int
  BY DEF IInv, TypeOK, Current, Registers, FourGiB
<1>2. straps.set0.part + straps.set1.part \in 0 .. 10
  BY DEF IInv, TypeOK, Current, Registers, StrapRegisters, Part1, Part2
<1>3. Aperture(straps) \in {1, 2, 4, 8, 16, 32, 64, 128, 256, 512, 1024}
  BY <1>2, ApertureTable DEF Aperture
<1>4. HeldHigh(high, straps) \in Int
  BY <1>1, <1>3, HeldHighTable
<1>5. HeldLow(low, straps) \in Int
  BY <1>1, <1>3, HeldLowTable
<1> QED
  BY <1>3, <1>4, <1>5 DEF Decoded, FourGiB

\* Two spans that have an address in common: so has any span around the second.
LEMMA OverlapsMore ==
    ASSUME NEW a, NEW b, NEW c,
           a.start \in Int, a.end \in Int, b.start \in Int, b.end \in Int,
           c.start \in Int, c.end \in Int, Contains(c, b), Overlaps(a, b)
    PROVE  Overlaps(a, c)
BY DEF Contains, Overlaps

LEMMA AloneFromInv ==
    ASSUME Steady, IInv, SpaceInv, Apart
    PROVE  DecodesAlone
<1>1. DecodesOwnSpace
  BY OwnFromInv
<1>2. ASSUME "memory" \in command
      PROVE  Elsewhere(Decoded, surroundings)
  <2> SUFFICES ASSUME NEW d \in surroundings.devices, NEW b \in d.bars, b.memory,
                      Overlaps(b.span, Decoded)
               PROVE  FALSE
    BY DEF Elsewhere
  <2>1. b.span.start \in Int /\ b.span.end \in Int
    BY SurroundingsAssumption DEF Apart
  <2>2. CASE Contains(FirmwareSpan, Decoded)
    <3>1. FirmwareSpan.start \in Int /\ FirmwareSpan.end \in Int
      <4>1. firmware.high \in Int /\ firmware.low \in Int
        BY DEF IInv, TypeOK, Registers, FourGiB
      <4>2. firmware.straps.set0.part + firmware.straps.set1.part \in 0 .. 10
        BY DEF IInv, TypeOK, Registers, StrapRegisters, Part1, Part2
      <4>3. Aperture(firmware.straps) \in Int
        BY <4>2, ApertureTable DEF Aperture
      <4> QED
        BY <4>1, <4>3 DEF FirmwareSpan, FourGiB
    <3>2. Overlaps(b.span, FirmwareSpan)
      BY <2>1, <2>2, <3>1, DecodedIntegers, OverlapsMore
    <3> QED
      BY <3>2 DEF Apart, Elsewhere
  <2>3. CASE reserved /\ Contains(Reservation, Decoded)
    <3>1. Reservation.start \in Int /\ Reservation.end \in Int
      <4>1. plan.destination \in Int /\ plan.selector \in 3 .. 9
        BY DEF IInv, TypeOK, PlannedSelectors
      <4>2. Size \in Int
        BY <4>1, ApertureTable DEF Size
      <4> QED
        BY <4>1, <4>2 DEF Reservation
    <3>2. Overlaps(b.span, Reservation)
      BY <2>1, <2>3, <3>1, DecodedIntegers, OverlapsMore
    <3> QED
      BY <2>3, <3>2 DEF Apart, Elsewhere
  <2> QED
    BY <1>1, <1>2, <2>2, <2>3 DEF DecodesOwnSpace
<1> QED
  BY <1>1, <1>2 DEF DecodesAlone

\* While memory decoding is on, BAR1 answers to nothing that belongs to another
\* BAR of the machine, in whatever state a failed write, a failed restore or a
\* machine changed between boots leaves it, for straps from which no single
\* strap write overshoots (plan.rs make_plan, execute.rs apply and restore).
THEOREM Alone ==
    ASSUME Steady
    PROVE  PlannedSpec => []DecodesAlone
<1>1. IInv /\ SpaceInv /\ Apart => DecodesAlone
  BY AloneFromInv
<1> QED
  BY <1>1, PlannedInductive, PlannedSpace, ApartInvariant, PTL

\* On whatever bus, Windows Boot Manager is started only with the measured
\* aperture at exactly the reserved destination and the receipt written.
THEOREM PlannedMeasured == PlannedSpec => []HandoffIsMeasured
BY HandoffFromInv, PlannedInductive, PlannedSpace, PTL

=============================================================================
