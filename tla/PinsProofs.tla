----------------------------- MODULE PinsProofs -----------------------------
(***************************************************************************)
(* Proofs about the pins and the console.                                  *)
(*                                                                         *)
(* Pins, for any number of pads and any calls: a function that was routed  *)
(* to a pad is on no other, an input is tied at its level, and a drive     *)
(* mode is set as it was asked for.                                        *)
(*                                                                         *)
(* Console, for lines and argument lists of any length: the screen shows   *)
(* the line that will run, and a command takes its arguments from its own  *)
(* part of the line.                                                       *)
(***************************************************************************)
EXTENDS Pins, Console, FiniteSetTheorems, SequenceTheorems, WellFoundedInduction, TLAPS

-----------------------------------------------------------------------------
(***************************************************************************)
(* The inductive invariant                                                 *)
(***************************************************************************)

\* fpioa_set_function has taken the function from the pads that it passed.
Routed ==
    /\ \A p \in Pads : routed[p] # FUNC_RESV0
    /\ pins_pc = "steal" =>
           /\ number \in Pads /\ index \in Pads /\ function # FUNC_RESV0
           /\ \A q \in Pads : q < index /\ q # number => io[q].ch_sel # function
    /\ pins_pc = "give" =>
           /\ number \in Pads
           /\ function = FUNC_RESV0 \/ \A q \in Pads : q # number => io[q].ch_sel # function

\* When fpioa_init comes to the enables of a word, its values are those of the table.
TiedFirst ==
    /\ pins_pc \in {"tie_val", "tie_en"} => index \in Words
    /\ pins_pc = "tie_en" =>
           \A f \in Functions : WordOf(f) = index => (f \in tie_val <=> f \in Tied1("tie_val"))

\* gpiohs_set_drive_mode has the pad of its GPIO, and sets one bit after it cleared the other.
Driven ==
    /\ pins_pc \in {"pull", "off", "on"} => number \in Pads /\ pin \in Gpios
    /\ pins_pc = "pull" => io[number].ch_sel = FUNC_GPIOHS0 + pin
    /\ pins_pc = "on" => pin \notin (IF mode = "OUTPUT" THEN input_en ELSE output_en)

IInv == PinsTypeOK /\ Routed /\ RoutedAlone /\ TiedFirst /\ Driven /\ DriveAsAsked

-----------------------------------------------------------------------------
(***************************************************************************)
(* The table                                                               *)
(***************************************************************************)

Fields == {"ds", "oe_en", "oe_inv", "do_sel", "do_inv", "pu", "pd", "sl", "ie_en", "ie_inv",
           "di_inv", "st", "tie_en", "tie_val"}
Entry == [Fields -> 0 .. 15]

LEMMA OffIsEntry == DOMAIN Off = Fields /\ Off \in Entry
<1>1. DOMAIN Off = Fields
  BY DEF Off, Fields
<1>2. \A x \in Fields : Off[x] = 0
  BY DEF Off, Fields
<1>3. Off = [x \in Fields |-> Off[x]]
  BY <1>1 DEF Off
<1>4. QED
  BY <1>1, <1>2, <1>3 DEF Entry

\* The kinds of entries.
LEMMA Kinds ==
    /\ In \in Entry /\ Out \in Entry /\ InOut \in Entry
    /\ Lane \in Entry /\ Tied \in Entry /\ OpenDrain \in Entry
    /\ [OpenDrain EXCEPT !.oe_inv = 1] \in Entry
    /\ [In EXCEPT !.pu = 1] \in Entry
    /\ [InOut EXCEPT !.pu = 1, !.sl = 1] \in Entry
<1>1. \A e \in Entry : \A x \in Fields : \A v \in 0 .. 15 : [e EXCEPT ![x] = v] \in Entry
  BY DEF Entry
<1>2. {"ds", "oe_en", "oe_inv", "pu", "sl", "ie_en", "ie_inv", "st", "tie_en", "tie_val"}
          \subseteq Fields
  BY DEF Fields
<1>3. 0 \in 0 .. 15 /\ 1 \in 0 .. 15 /\ 15 \in 0 .. 15
  OBVIOUS
<1>4. In \in Entry
  BY <1>1, <1>2, <1>3, OffIsEntry DEF In
<1>5. Out \in Entry
  BY <1>1, <1>2, <1>3, OffIsEntry DEF Out
<1>6. InOut \in Entry
  BY <1>1, <1>2, <1>3, <1>4 DEF InOut
<1>7. Lane \in Entry
  BY <1>1, <1>2, <1>3, <1>6 DEF Lane
<1>8. Tied \in Entry
  BY <1>1, <1>2, <1>3, <1>4 DEF Tied
<1>9. OpenDrain \in Entry
  BY <1>1, <1>2, <1>3, <1>4 DEF OpenDrain
<1>10. [OpenDrain EXCEPT !.oe_inv = 1] \in Entry
  BY <1>1, <1>2, <1>3, <1>9
<1>11. [In EXCEPT !.pu = 1] \in Entry /\ [InOut EXCEPT !.pu = 1, !.sl = 1] \in Entry
  BY <1>1, <1>2, <1>3, <1>4, <1>6
<1>12. QED
  BY <1>4, <1>5, <1>6, <1>7, <1>8, <1>9, <1>10, <1>11

\* Parts of the table with n entries.
Part(n) == {s \in Seq(Entry) : Len(s) = n}

LEMMA TimesIsPart ==
    ASSUME NEW e \in Entry, NEW n \in Nat
    PROVE  Times(n, e) \in Part(n)
  BY DEF Times, Part

LEMMA LiteralIsPart ==
    /\ \A a, b \in Entry : <<a, b>> \in Part(2)
    /\ \A a, b, c \in Entry : <<a, b, c>> \in Part(3)
    /\ \A a, b, c, d \in Entry : <<a, b, c, d>> \in Part(4)
    /\ \A a, b, c, d, e, f \in Entry : <<a, b, c, d, e, f>> \in Part(6)
  BY DEF Part

LEMMA ConcatIsPart ==
    \A m, n \in Nat : \A s, u : s \in Part(m) /\ u \in Part(n) => s \o u \in Part(m + n)
<1> SUFFICES ASSUME NEW m \in Nat, NEW n \in Nat, NEW s \in Part(m), NEW u \in Part(n)
             PROVE  s \o u \in Part(m + n)
  OBVIOUS
<1>1. QED
  BY ConcatProperties DEF Part

LEMMA ShortSums ==
    /\ \A s \in Part(4), u \in Part(2) : s \o u \in Part(6)
    /\ \A s \in Part(4), u \in Part(4) : s \o u \in Part(8)
    /\ \A s \in Part(3), u \in Part(3) : s \o u \in Part(6)
    /\ \A s \in Part(3), u \in Part(2) : s \o u \in Part(5)
<1>1. 4 + 2 = 6 /\ 4 + 4 = 8 /\ 3 + 3 = 6 /\ 3 + 2 = 5
  OBVIOUS
<1>2. QED
  BY <1>1, ConcatIsPart

LEMMA TableIsPart == function_config \in Part(FUNC_MAX)
<1> DEFINE t1 == Jtag \o Spi0Data \o Spi0Control \o UarthsAndClocks \o Gpiohs0To7
               \o Gpiohs8To15 \o Gpiohs16To23
<1>1. t1 \in Part(48)
  <2>1. /\ Jtag \in Part(4) /\ Spi0Data \in Part(8) /\ Spi0Control \in Part(6)
        /\ UarthsAndClocks \in Part(6) /\ Gpiohs0To7 \in Part(8) /\ Gpiohs8To15 \in Part(8)
        /\ Gpiohs16To23 \in Part(8)
    BY Kinds, OffIsEntry, TimesIsPart, ShortSums, LiteralIsPart
    DEF Jtag, Spi0Data, Spi0Control, UarthsAndClocks, Gpiohs0To7, Gpiohs8To15, Gpiohs16To23
  <2>2. QED
    BY <2>1, ConcatIsPart
<1> HIDE DEF t1
<1> DEFINE t2 == t1 \o Gpiohs24To31 \o Gpio \o Uarts \o Spi1Data \o Spi1Control \o SpiSlave
               \o I2s0Clocks
<1>2. t2 \in Part(90)
  <2>1. /\ Gpiohs24To31 \in Part(8) /\ Gpio \in Part(8) /\ Uarts \in Part(6)
        /\ Spi1Data \in Part(8) /\ Spi1Control \in Part(6) /\ SpiSlave \in Part(3)
        /\ I2s0Clocks \in Part(3)
    BY Kinds, OffIsEntry, TimesIsPart, ShortSums, LiteralIsPart
    DEF Gpiohs24To31, Gpio, Uarts, Spi1Data, Spi1Control, SpiSlave, I2s0Clocks
  <2>2. QED
    BY <1>1, <2>1, ConcatIsPart
<1> HIDE DEF t2
<1> DEFINE t3 == t2 \o I2s0Data \o I2s1Clocks \o I2s1Data \o I2s2Clocks \o I2s2Data
               \o Reserved \o I2c
<1>3. t3 \in Part(132)
  <2>1. /\ I2s0Data \in Part(8) /\ I2s1Clocks \in Part(3) /\ I2s1Data \in Part(8)
        /\ I2s2Clocks \in Part(3) /\ I2s2Data \in Part(8) /\ Reserved \in Part(6)
        /\ I2c \in Part(6)
    BY Kinds, OffIsEntry, TimesIsPart, ShortSums, LiteralIsPart
    DEF I2s0Data, I2s1Clocks, I2s1Data, I2s2Clocks, I2s2Data, Reserved, I2c
  <2>2. QED
    BY <1>2, <2>1, ConcatIsPart
<1> HIDE DEF t3
<1> DEFINE t4 == t3 \o CmosControl \o CmosData \o Sccb \o Uart1Inputs \o Uart1Outputs
               \o Uart2Inputs \o Uart2Outputs
<1>4. t4 \in Part(176)
  <2>1. /\ CmosControl \in Part(6) /\ CmosData \in Part(8) /\ Sccb \in Part(2)
        /\ Uart1Inputs \in Part(5) /\ Uart1Outputs \in Part(9) /\ Uart2Inputs \in Part(5)
        /\ Uart2Outputs \in Part(9)
    BY Kinds, OffIsEntry, TimesIsPart, ShortSums, LiteralIsPart
    DEF CmosControl, CmosData, Sccb, Uart1Inputs, Uart1Outputs, Uart2Inputs, Uart2Outputs
  <2>2. QED
    BY <1>3, <2>1, ConcatIsPart
<1> HIDE DEF t4
<1> DEFINE t5 == t4 \o Uart3Inputs \o Uart3Outputs \o Timer0 \o Timer1 \o Timer2
               \o ClocksAndInternal \o InternalMixed
<1>5. t5 \in Part(217)
  <2>1. /\ Uart3Inputs \in Part(5) /\ Uart3Outputs \in Part(9) /\ Timer0 \in Part(4)
        /\ Timer1 \in Part(4) /\ Timer2 \in Part(4) /\ ClocksAndInternal \in Part(7)
        /\ InternalMixed \in Part(8)
    BY Kinds, OffIsEntry, TimesIsPart, ShortSums, LiteralIsPart
    DEF Uart3Inputs, Uart3Outputs, Timer0, Timer1, Timer2, ClocksAndInternal, InternalMixed
  <2>2. QED
    BY <1>4, <2>1, ConcatIsPart
<1> HIDE DEF t5
<1> DEFINE t6 == t5 \o InternalPulled \o InternalLast \o Debug0To7 \o Debug8To15
               \o Debug16To23 \o Debug24To31
<1>6. t6 \in Part(256)
  <2>1. /\ InternalPulled \in Part(2) /\ InternalLast \in Part(5) /\ Debug0To7 \in Part(8)
        /\ Debug8To15 \in Part(8) /\ Debug16To23 \in Part(8) /\ Debug24To31 \in Part(8)
    BY Kinds, OffIsEntry, TimesIsPart, ShortSums, LiteralIsPart
    DEF InternalPulled, InternalLast, Debug0To7, Debug8To15, Debug16To23, Debug24To31
  <2>2. QED
    BY <1>5, <2>1, ConcatIsPart
<1> HIDE DEF t6
<1>7. function_config = t6
  BY DEF function_config, t1, t2, t3, t4, t5, t6
<1>8. QED
  BY <1>6, <1>7 DEF FUNC_MAX

LEMMA EveryFunctionHasAnEntry ==
    ASSUME NEW f \in Functions
    PROVE  function_config[f + 1] \in Entry
<1>1. \A s \in Part(256) : \A n \in 1 .. 256 : s[n] \in Entry
  <2> SUFFICES ASSUME NEW s \in Part(256), NEW n \in 1 .. 256
               PROVE  s[n] \in Entry
    OBVIOUS
  <2>1. s \in Seq(Entry) /\ n \in 1 .. Len(s)
    BY DEF Part
  <2>2. QED
    BY <2>1, ElementOfSeq
<1>2. PICK n \in 1 .. 256 : n = f + 1
  BY DEF Functions, FUNC_MAX
<1>3. function_config[n] \in Entry
  BY <1>1, TableIsPart DEF FUNC_MAX
<1>4. QED
  BY <1>2, <1>3

-----------------------------------------------------------------------------
(***************************************************************************)
(* Pads                                                                    *)
(***************************************************************************)

Pad == [ch_sel : Functions, pad : [PadFields -> 0 .. 15]]

LEMMA PadFieldsAre == PadFields \subseteq Fields /\ "pu" \in PadFields /\ "pd" \in PadFields /\ "ds" \in PadFields
  BY OffIsEntry DEF PadFields, Fields

LEMMA Functions256 == Functions = 0 .. 255 /\ FUNC_RESV0 \in Functions /\ Words = 0 .. 7
  BY DEF Functions, FUNC_MAX, FUNC_RESV0, Words

LEMMA ConfigIsPad ==
    ASSUME NEW f \in Functions
    PROVE  Config(f) \in Pad /\ Config(f).ch_sel = f
<1>1. function_config[f + 1] \in Entry
  BY EveryFunctionHasAnEntry
<1>2. PadOf(f) \in [PadFields -> 0 .. 15]
  BY <1>1, PadFieldsAre DEF PadOf, Entry
<1>3. QED
  BY <1>2 DEF Config, Pad

\* What fpioa_set_io_pull and fpioa_set_io_driving make of a pad.
Pulled(p, pull) == [io[p] EXCEPT !.pad.pu = PullOf(pull).pu, !.pad.pd = PullOf(pull).pd]
DrivenBy(p, driving) == [io[p] EXCEPT !.pad.ds = driving]

LEMMA PulledIsPad ==
    ASSUME io \in [Pads -> Pad], NEW p \in Pads, NEW pull \in Pulls
    PROVE  /\ Pulled(p, pull) \in Pad
           /\ Pulled(p, pull).ch_sel = io[p].ch_sel
           /\ Pulled(p, pull).pad.pu = PullOf(pull).pu
           /\ Pulled(p, pull).pad.pd = PullOf(pull).pd
<1>1. PullOf(pull).pu \in 0 .. 15 /\ PullOf(pull).pd \in 0 .. 15
  BY DEF PullOf
<1>2. io[p] \in Pad /\ io[p].pad \in [PadFields -> 0 .. 15]
  BY DEF Pad
<1> DEFINE u == PullOf(pull).pu
           d == PullOf(pull).pd
           new == [io[p].pad EXCEPT !["pu"] = u, !["pd"] = d]
<1> HIDE DEF u, d
<1>3. /\ new \in [PadFields -> 0 .. 15]
      /\ new["pu"] = u /\ new["pd"] = d
  BY <1>1, <1>2, PadFieldsAre DEF u, d
<1>4. Pulled(p, pull) = [io[p] EXCEPT !.pad = new]
  BY <1>2 DEF Pulled, Pad, u, d
<1> HIDE DEF new
<1>5. QED
  BY <1>2, <1>3, <1>4 DEF Pad, u, d

LEMMA DrivenIsPad ==
    ASSUME io \in [Pads -> Pad], NEW p \in Pads, NEW v \in 0 .. 15
    PROVE  /\ DrivenBy(p, v) \in Pad
           /\ DrivenBy(p, v).ch_sel = io[p].ch_sel
  BY PadFieldsAre DEF DrivenBy, Pad

\* A set of numbers has a least one: that every number has fewer than itself below it is a
\* theorem of the library on the order of the natural numbers.
LEMMA Least ==
    ASSUME NEW T \in SUBSET Nat, T # {}
    PROVE  \E x \in T : \A y \in T : x <= y
<1> DEFINE R == OpToRel(<, Nat)
<1>1. IsWellFoundedOn(R, Nat)
  BY NatLessThanWellFounded
<1>2. ASSUME NEW x \in Nat, NEW y \in Nat, x < y
      PROVE  <<x, y>> \in R
  BY <1>2 DEF OpToRel
<1> HIDE DEF R
<1>3. PICK x \in T : \A y \in T : ~ (<<y, x>> \in R)
  BY <1>1, WFMin
<1>4. ASSUME NEW y \in T PROVE x <= y
  <2>1. ~(y < x)
    BY <1>2, <1>3
  <2>2. x \in Nat /\ y \in Nat
    OBVIOUS
  <2>3. QED
    BY <2>1, <2>2
<1>5. QED
  BY <1>4

LEMMA GetIoFinds ==
    ASSUME NEW f
    PROVE  \/ GetIoByFunction(f) = None
           \/ GetIoByFunction(f) \in Pads /\ io[GetIoByFunction(f)].ch_sel = f
<1> DEFINE T == {p \in Pads : io[p].ch_sel = f}
           G(p) == io[p].ch_sel = f /\ \A q \in 0 .. p - 1 : io[q].ch_sel # f
<1>1. CASE T = {}
  BY <1>1 DEF GetIoByFunction
<1>2. CASE T # {}
  <2>1. FPIOA_NUM_IO \in Nat /\ Pads \subseteq Nat
    BY PinsAssumption DEF Pads
  <2>2. PICK x \in T : \A y \in T : x <= y
    BY <1>2, <2>1, Least
  <2>3. \A q \in 0 .. x - 1 : q \in Pads /\ ~(x <= q)
    BY <2>1 DEF Pads
  <2>4. x \in Pads /\ G(x)
    BY <2>2, <2>3
  <2>5. GetIoByFunction(f) = CHOOSE p \in Pads : G(p)
    BY <2>4 DEF GetIoByFunction
  <2> HIDE DEF G
  <2>6. (CHOOSE p \in Pads : G(p)) \in Pads /\ G(CHOOSE p \in Pads : G(p))
    BY <2>4
  <2>7. QED
    BY <2>5, <2>6 DEF G
<1>3. QED
  BY <1>1, <1>2

-----------------------------------------------------------------------------
(***************************************************************************)
(* The steps                                                               *)
(***************************************************************************)

\* The actions that set how a pad is pulled or driven leave every pad its function.
LEMMA PullsAndDrives ==
    ASSUME io \in [Pads -> Pad], NEW p \in Pads,
           NEW pad, io' = [io EXCEPT ![p] = pad], pad \in Pad, pad.ch_sel = io[p].ch_sel
    PROVE  /\ io' \in [Pads -> Pad]
           /\ \A q \in Pads : io'[q].ch_sel = io[q].ch_sel
  OBVIOUS

LEMMA SetIoPullSets ==
    ASSUME io \in [Pads -> Pad], NEW p \in Pads, NEW pull \in Pulls, SetIoPull(p, pull)
    PROVE  /\ io' \in [Pads -> Pad]
           /\ \A q \in Pads : io'[q].ch_sel = io[q].ch_sel
           /\ io'[p].pad.pu = PullOf(pull).pu
           /\ io'[p].pad.pd = PullOf(pull).pd
<1> DEFINE new == Pulled(p, pull)
<1>1. io' = [io EXCEPT ![p] = new]
  BY DEF SetIoPull, Pulled
<1>2. /\ new \in Pad /\ new.ch_sel = io[p].ch_sel
      /\ new.pad.pu = PullOf(pull).pu /\ new.pad.pd = PullOf(pull).pd
  BY PulledIsPad
<1> HIDE DEF new
<1>3. io'[p] = new
  BY <1>1
<1>4. QED
  BY <1>1, <1>2, <1>3, PullsAndDrives

LEMMA SetIoDrivingSets ==
    ASSUME io \in [Pads -> Pad], NEW p \in Pads, NEW v \in 0 .. 15, SetIoDriving(p, v)
    PROVE  /\ io' \in [Pads -> Pad]
           /\ \A q \in Pads : io'[q].ch_sel = io[q].ch_sel
<1> DEFINE new == DrivenBy(p, v)
<1>1. io' = [io EXCEPT ![p] = new]
  BY DEF SetIoDriving, DrivenBy
<1>2. new \in Pad /\ new.ch_sel = io[p].ch_sel
  BY DrivenIsPad
<1> HIDE DEF new
<1>3. QED
  BY <1>1, <1>2, PullsAndDrives

LEMMA SetFunctionRawSets ==
    ASSUME io \in [Pads -> Pad], NEW p \in Pads, NEW f \in Functions, SetFunctionRaw(p, f)
    PROVE  /\ io' \in [Pads -> Pad]
           /\ io'[p].ch_sel = f
           /\ \A q \in Pads : q # p => io'[q] = io[q]
  BY ConfigIsPad DEF SetFunctionRaw

LEMMA ModePullIsPull == mode \in Drive => ModePull \in Pulls
  BY DEF ModePull, Pulls, Drive

\* When no pad changes its function, and no pad is given one, the routes stay as they are.
LEMMA RoutesStay ==
    ASSUME IInv, routed' = routed, \A q \in Pads : io'[q].ch_sel = io[q].ch_sel
    PROVE  RoutedAlone'
  BY DEF IInv, RoutedAlone

\* A pad that takes a function without asking.
LEMMA RouteTaken ==
    ASSUME IInv, NEW p \in Pads, NEW f \in Functions,
           io'[p].ch_sel = f, \A q \in Pads : q # p => io'[q] = io[q],
           routed' = [Without(f) EXCEPT ![p] = None]
    PROVE  /\ routed' \in [Pads -> Functions \cup {None}]
           /\ \A q \in Pads : routed'[q] # FUNC_RESV0
           /\ RoutedAlone'
<1>1. routed \in [Pads -> Functions \cup {None}]
  BY DEF IInv, PinsTypeOK
<1>2. /\ routed' \in [Pads -> Functions \cup {None}]
      /\ \A q \in Pads : routed'[q] # None => q # p /\ routed'[q] = routed[q] /\ routed[q] # f
  BY <1>1 DEF Without
<1>3. \A q \in Pads : routed'[q] # FUNC_RESV0
  BY <1>2 DEF IInv, Routed, None, FUNC_RESV0
<1>4. RoutedAlone'
  BY <1>2 DEF IInv, RoutedAlone
<1>5. QED
  BY <1>2, <1>3, <1>4

LEMMA InitInv ==
    ASSUME PinsInit
    PROVE  IInv
<1>1. \A f \in Routes : Config(f) \in Pad
  BY ConfigIsPad, PinsAssumption
<1>2. io \in [Pads -> Pad]
  BY <1>1 DEF PinsInit
<1>3. PinsTypeOK
  BY <1>2, Functions256, PinsAssumption DEF PinsInit, PinsTypeOK, Pad, GPIOHS_MAX_PINNO, Drive, None
<1>4. Routed /\ RoutedAlone
  BY DEF PinsInit, Routed, RoutedAlone, None, FUNC_RESV0
<1>5. TiedFirst /\ Driven /\ DriveAsAsked
  BY DEF PinsInit, TiedFirst, Driven, DriveAsAsked
<1>6. QED
  BY <1>3, <1>4, <1>5 DEF IInv

LEMMA StealStep ==
    ASSUME IInv, Steal
    PROVE  IInv'
<1> USE DEF IInv
<1>1. /\ io \in [Pads -> Pad]
      /\ number \in Pads /\ index \in Pads /\ function \in Functions /\ function # FUNC_RESV0
      /\ FPIOA_NUM_IO \in Nat /\ Pads = 0 .. FPIOA_NUM_IO - 1
  BY PinsAssumption DEF PinsTypeOK, Pad, Routed, Steal, Pads
<1>2. /\ io' \in [Pads -> Pad]
      /\ \A q \in Pads : q # index => io'[q] = io[q] /\ routed'[q] = routed[q]
      /\ \/ /\ io[index].ch_sel = function /\ index # number
            /\ io'[index].ch_sel = FUNC_RESV0 /\ routed'[index] = None
         \/ /\ io[index].ch_sel # function \/ index = number
            /\ io'[index] = io[index] /\ routed'[index] = routed[index]
      /\ routed' \in [Pads -> Functions \cup {None}]
  <2>1. routed \in [Pads -> Functions \cup {None}]
    BY DEF PinsTypeOK
  <2>2. CASE Steals(index)
    <3>1. SetFunctionRaw(index, FUNC_RESV0) /\ routed' = [routed EXCEPT ![index] = None]
      BY <2>2 DEF Steal
    <3>2. /\ io' \in [Pads -> Pad] /\ io'[index].ch_sel = FUNC_RESV0
          /\ \A q \in Pads : q # index => io'[q] = io[q]
      BY <1>1, <3>1, SetFunctionRawSets, Functions256
    <3>3. QED
      BY <1>1, <2>1, <2>2, <3>1, <3>2 DEF Steals
  <2>3. CASE ~Steals(index)
    BY <1>1, <2>1, <2>3 DEF Steal, Steals
  <2>4. QED
    BY <2>2, <2>3
<1>3. /\ pins_pc = "steal" /\ index' = index + 1
      /\ pins_pc' = IF index + 1 = FPIOA_NUM_IO THEN "give" ELSE "steal"
      /\ UNCHANGED <<tie_en, tie_val, output_en, input_en, number, function, pin, mode, pins_calls>>
  BY DEF Steal, gpiohs
<1>4. PinsTypeOK'
  BY <1>1, <1>2, <1>3 DEF PinsTypeOK, Pad
<1>5. Routed'
  <2>1. \A q \in Pads : routed'[q] # FUNC_RESV0
    BY <1>1, <1>2 DEF Routed, None, FUNC_RESV0
  <2>2. \A q \in Pads : q < index + 1 /\ q # number => io'[q].ch_sel # function
    BY <1>1, <1>2, <1>3 DEF Routed
  <2>3. CASE index + 1 = FPIOA_NUM_IO
    BY <1>1, <1>3, <2>1, <2>2, <2>3 DEF Routed
  <2>4. CASE index + 1 # FPIOA_NUM_IO
    BY <1>1, <1>3, <2>1, <2>2, <2>4 DEF Routed
  <2>5. QED
    BY <2>3, <2>4
<1>6. RoutedAlone'
  <2> SUFFICES ASSUME NEW p \in Pads, routed'[p] # None, NEW q \in Pads
               PROVE  io'[q].ch_sel = routed'[p] <=> q = p
    BY DEF RoutedAlone
  <2>1. routed'[p] = routed[p] /\ io'[p] = io[p] /\ routed[p] # FUNC_RESV0
    BY <1>1, <1>2 DEF Routed
  <2>2. io[q].ch_sel = routed[p] <=> q = p
    BY <2>1 DEF RoutedAlone
  <2>3. QED
    BY <1>1, <1>2, <2>1, <2>2
<1>7. TiedFirst' /\ Driven' /\ DriveAsAsked'
  BY <1>3 DEF TiedFirst, Driven, DriveAsAsked
<1>8. QED
  BY <1>4, <1>5, <1>6, <1>7

LEMMA GiveStep ==
    ASSUME IInv, Give
    PROVE  IInv'
<1> USE DEF IInv
<1>1. /\ io \in [Pads -> Pad] /\ routed \in [Pads -> Functions \cup {None}]
      /\ number \in Pads /\ function \in Functions
  BY DEF PinsTypeOK, Pad, Routed, Give
<1>2. /\ io' \in [Pads -> Pad] /\ io'[number].ch_sel = function
      /\ \A q \in Pads : q # number => io'[q] = io[q] /\ routed'[q] = routed[q]
      /\ routed'[number] = IF function = FUNC_RESV0 THEN None ELSE function
      /\ routed' \in [Pads -> Functions \cup {None}]
  BY <1>1, SetFunctionRawSets DEF Give
<1>3. /\ pins_pc = "give" /\ pins_pc' = "idle"
      /\ UNCHANGED <<tie_en, tie_val, output_en, input_en, number, function, index, pin, mode,
                     pins_calls>>
  BY DEF Give, gpiohs, args
<1>4. PinsTypeOK'
  BY <1>2, <1>3 DEF PinsTypeOK, Pad
<1>5. Routed'
  BY <1>1, <1>2, <1>3 DEF Routed, None, FUNC_RESV0
<1>6. RoutedAlone'
  <2> SUFFICES ASSUME NEW p \in Pads, routed'[p] # None, NEW q \in Pads
               PROVE  io'[q].ch_sel = routed'[p] <=> q = p
    BY DEF RoutedAlone
  <2>1. CASE p = number
    BY <1>1, <1>2, <1>3, <2>1 DEF Routed
  <2>2. CASE p # number
    <3>1. routed'[p] = routed[p] /\ routed[p] # FUNC_RESV0
      BY <1>2, <2>2 DEF Routed
    <3>2. \A r \in Pads : io[r].ch_sel = routed[p] <=> r = p
      BY <3>1 DEF RoutedAlone
    <3>3. routed[p] # function
      BY <1>3, <2>2, <3>1, <3>2 DEF Routed
    <3>4. QED
      BY <1>1, <1>2, <2>2, <3>1, <3>2, <3>3
  <2>3. QED
    BY <2>1, <2>2
<1>7. TiedFirst' /\ Driven' /\ DriveAsAsked'
  BY <1>3 DEF TiedFirst, Driven, DriveAsAsked
<1>8. QED
  BY <1>4, <1>5, <1>6, <1>7

LEMMA TieWordStep ==
    ASSUME IInv, TieWord
    PROVE  IInv'
<1> USE DEF IInv
<1>1. /\ index \in 0 .. 7 /\ pins_pc \in {"tie_val", "tie_en"}
      /\ UNCHANGED <<io, routed, output_en, input_en, number, function, pin, mode, pins_calls>>
  BY Functions256 DEF TiedFirst, TieWord, gpiohs
<1>2. CASE pins_pc = "tie_val"
  <2>1. /\ tie_val' = WordSet(tie_val, index, Tied1("tie_val"))
        /\ UNCHANGED <<tie_en, index>> /\ pins_pc' = "tie_en"
    BY <1>2 DEF TieWord, TieStep
  <2>2. PinsTypeOK'
    BY <1>1, <2>1 DEF PinsTypeOK, WordSet, InWord, Tied1
  <2>3. Routed' /\ RoutedAlone'
    BY <1>1, <2>1 DEF Routed, RoutedAlone
  <2>4. TiedFirst'
    <3>1. \A f \in Functions : WordOf(f) = index =>
                                   (f \in tie_val' <=> f \in Tied1("tie_val"))
      BY <2>1 DEF WordSet, InWord, Tied1
    <3>2. QED
      BY <1>1, <2>1, <3>1, Functions256 DEF TiedFirst, Tied1
  <2>5. Driven' /\ DriveAsAsked'
    BY <1>1, <2>1 DEF Driven, DriveAsAsked
  <2>6. QED
    BY <2>2, <2>3, <2>4, <2>5
<1>3. CASE pins_pc = "tie_en"
  <2>1. /\ tie_en' = WordSet(tie_en, index, Tied1("tie_en"))
        /\ UNCHANGED tie_val /\ index' = index + 1
        /\ pins_pc' = (IF index + 1 \in Words THEN "tie_val" ELSE "idle")
    BY <1>3 DEF TieWord, TieStep
  <2>2. pins_pc' \in {"tie_val", "idle"} /\ (pins_pc' = "tie_val" => index' \in Words)
    BY <2>1
  <2>3. PinsTypeOK'
    BY <1>1, <2>1, <2>2 DEF PinsTypeOK, WordSet, InWord, Tied1
  <2>4. Routed' /\ RoutedAlone'
    BY <1>1, <2>2 DEF Routed, RoutedAlone
  <2>5. TiedFirst'
    BY <2>2 DEF TiedFirst
  <2>6. Driven' /\ DriveAsAsked'
    BY <1>1, <2>2 DEF Driven, DriveAsAsked
  <2>7. QED
    BY <2>3, <2>4, <2>5, <2>6
<1>4. QED
  BY <1>1, <1>2, <1>3

LEMMA DrivePullStep ==
    ASSUME IInv, DrivePull
    PROVE  IInv'
<1> USE DEF IInv
<1>1. /\ io \in [Pads -> Pad] /\ number \in Pads /\ mode \in Drive
      /\ io[number].ch_sel = FUNC_GPIOHS0 + pin
  BY DEF PinsTypeOK, Pad, Driven, DrivePull
<1>2. ModePull \in Pulls /\ SetIoPull(number, ModePull)
  BY <1>1, ModePullIsPull DEF DrivePull
<1>3. /\ io' \in [Pads -> Pad]
      /\ \A q \in Pads : io'[q].ch_sel = io[q].ch_sel
      /\ io'[number].pad.pu = PullOf(ModePull).pu
      /\ io'[number].pad.pd = PullOf(ModePull).pd
  BY <1>1, <1>2, SetIoPullSets
<1>4. /\ pins_pc = "pull" /\ pins_pc' = "off"
      /\ UNCHANGED <<tie_en, tie_val, output_en, input_en, number, function, index, pin, mode,
                     routed, pins_calls>>
  BY DEF DrivePull, gpiohs, args
<1>5. PinsTypeOK'
  BY <1>3, <1>4 DEF PinsTypeOK, Pad
<1>6. Routed' /\ RoutedAlone'
  BY <1>3, <1>4, RoutesStay DEF Routed
<1>7. TiedFirst' /\ Driven'
  BY <1>4 DEF TiedFirst, Driven
<1>8. DriveAsAsked'
  <2>1. (PullOf(ModePull))' = PullOf(ModePull)
    BY <1>4 DEF PullOf, ModePull
  <2>2. QED
    BY <1>1, <1>3, <1>4, <2>1 DEF DriveAsAsked
<1>9. QED
  BY <1>5, <1>6, <1>7, <1>8

LEMMA DriveBitStep ==
    ASSUME IInv, DriveBit
    PROVE  IInv'
<1> USE DEF IInv
<1>1. /\ pins_pc \in {"off", "on"} /\ pins_pc' = (IF pins_pc = "off" THEN "on" ELSE "idle")
      /\ UNCHANGED <<io, tie_en, tie_val, routed, number, function, index, pin, mode, pins_calls>>
      /\ pin \in Gpios
  BY DEF DriveBit, fpioa, args, Driven
<1>2. PinsTypeOK'
  BY <1>1 DEF PinsTypeOK, DriveBit, Switch
<1>3. Routed' /\ RoutedAlone' /\ TiedFirst'
  BY <1>1 DEF Routed, RoutedAlone, TiedFirst
<1>4. output_en' \cap input_en' = {}
  BY <1>1 DEF DriveBit, IsOutput, Switch, Driven, DriveAsAsked
<1>5. Driven'
  BY <1>1 DEF Driven, DriveBit, IsOutput, Switch
<1>6. DriveAsAsked'
  <2>1. (PullOf(ModePull))' = PullOf(ModePull)
    BY <1>1 DEF PullOf, ModePull
  <2>2. QED
    BY <1>1, <1>4, <2>1 DEF DriveAsAsked
<1>7. QED
  BY <1>2, <1>3, <1>5, <1>6

LEMMA SetDriveModeStep ==
    ASSUME IInv, NEW g \in Gpios, NEW m \in Drive, SetDriveMode(g, m)
    PROVE  IInv'
<1> USE DEF IInv
<1> DEFINE pad == GetIoByFunction(FUNC_GPIOHS0 + g)
<1>1. pad = None \/ (pad \in Pads /\ io[pad].ch_sel = FUNC_GPIOHS0 + g)
  BY GetIoFinds
<1>2. /\ pins_pc = "idle" /\ pins_pc' = (IF pad > 0 THEN "pull" ELSE "assert")
      /\ number' = pad /\ pin' = g /\ mode' = m /\ pins_calls' \in 0 .. MaxPinsCalls
      /\ UNCHANGED <<io, tie_en, tie_val, routed, output_en, input_en, function, index>>
  BY PinsAssumption DEF SetDriveMode, PinsCall, Accepted, fpioa, gpiohs, PinsTypeOK
<1>3. pad' = pad
  BY <1>2 DEF GetIoByFunction
<1>4. (GetIoByFunction(FUNC_GPIOHS0 + pin))' = pad
  BY <1>2 DEF GetIoByFunction
<1> HIDE DEF pad
<1>5. PinsTypeOK'
  BY <1>1, <1>2, PinsAssumption DEF PinsTypeOK, GPIOHS_MAX_PINNO
<1>6. Routed' /\ RoutedAlone' /\ TiedFirst'
  BY <1>2 DEF Routed, RoutedAlone, TiedFirst
<1>7. Driven'
  BY <1>1, <1>2 DEF Driven, None
<1>8. DriveAsAsked'
  <2>1. pins_pc' = "assert" => pad \in {None, 0}
    BY <1>1, <1>2, PinsAssumption DEF Pads
  <2>2. QED
    BY <1>2, <1>4, <2>1 DEF DriveAsAsked
<1>9. QED
  BY <1>5, <1>6, <1>7, <1>8

\* The calls that leave the pads, the ties and the GPIOs to the steps that follow.
LEMMA SetFunctionStep ==
    ASSUME IInv, NEW p \in Pads, NEW f \in Routes, SetFunction(p, f)
    PROVE  IInv'
<1> USE DEF IInv
<1>1. /\ pins_pc = "idle" /\ pins_pc' = (IF f = FUNC_RESV0 THEN "give" ELSE "steal")
      /\ number' = p /\ function' = f /\ index' = 0 /\ pins_calls' \in 0 .. MaxPinsCalls
      /\ UNCHANGED <<io, tie_en, tie_val, routed, output_en, input_en, pin, mode>>
  BY PinsAssumption DEF SetFunction, PinsCall, fpioa, gpiohs, PinsTypeOK
<1>2. f \in Functions /\ 0 \in Pads /\ Pads \subseteq Nat
  BY PinsAssumption DEF Pads
<1>3. PinsTypeOK'
  BY <1>1, <1>2 DEF PinsTypeOK
<1>4. Routed'
  BY <1>1, <1>2 DEF Routed
<1>5. RoutedAlone' /\ TiedFirst' /\ Driven' /\ DriveAsAsked'
  BY <1>1 DEF RoutedAlone, TiedFirst, Driven, DriveAsAsked
<1>6. QED
  BY <1>3, <1>4, <1>5

LEMMA TieInitStep ==
    ASSUME IInv, TieInit
    PROVE  IInv'
<1> USE DEF IInv
<1>1. /\ pins_pc = "idle" /\ pins_pc' = "tie_val" /\ index' = 0 /\ pins_calls' \in 0 .. MaxPinsCalls
      /\ UNCHANGED <<io, tie_en, tie_val, routed, output_en, input_en, number, function, pin,
                     mode>>
  BY PinsAssumption DEF TieInit, PinsCall, fpioa, gpiohs, PinsTypeOK
<1>2. PinsTypeOK'
  BY <1>1 DEF PinsTypeOK
<1>3. TiedFirst'
  BY <1>1, Functions256 DEF TiedFirst
<1>4. Routed' /\ RoutedAlone' /\ Driven' /\ DriveAsAsked'
  BY <1>1 DEF Routed, RoutedAlone, Driven, DriveAsAsked
<1>5. QED
  BY <1>2, <1>3, <1>4

\* The calls that are one step, and leave the thread as it was.
LEMMA OneStepCall ==
    ASSUME IInv, PinsCall("idle"), UNCHANGED <<gpiohs, args>>,
           io' \in [Pads -> Pad], routed' \in [Pads -> Functions \cup {None}],
           tie_en' \subseteq Functions, tie_val' \subseteq Functions,
           \A q \in Pads : routed'[q] # FUNC_RESV0, RoutedAlone'
    PROVE  IInv'
<1> USE DEF IInv
<1>1. /\ pins_pc = "idle" /\ pins_pc' = "idle" /\ pins_calls' \in 0 .. MaxPinsCalls
      /\ UNCHANGED <<output_en, input_en, number, function, index, pin, mode>>
  BY PinsAssumption DEF PinsCall, gpiohs, args, PinsTypeOK
<1>2. PinsTypeOK'
  BY <1>1 DEF PinsTypeOK, Pad
<1>3. Routed' /\ TiedFirst' /\ Driven' /\ DriveAsAsked'
  BY <1>1 DEF Routed, TiedFirst, Driven, DriveAsAsked
<1>4. QED
  BY <1>2, <1>3

LEMMA PadCallStep ==
    ASSUME IInv, NEW p \in Pads,
           \/ \E f \in Routes : CallSetFunctionRaw(p, f)
           \/ \E q \in Pads : SetIo(p, q)
           \/ \E pull \in Pulls : CallSetIoPull(p, pull)
           \/ SetIoDriving(p, 7)
    PROVE  IInv'
<1>1. /\ io \in [Pads -> Pad] /\ routed \in [Pads -> Functions \cup {None}]
      /\ tie_en \subseteq Functions /\ tie_val \subseteq Functions
      /\ \A q \in Pads : routed[q] # FUNC_RESV0
  BY DEF IInv, PinsTypeOK, Pad, Routed
<1>2. ASSUME NEW f \in Routes, CallSetFunctionRaw(p, f)
      PROVE  IInv'
  <2>1. /\ PinsCall("idle") /\ SetFunctionRaw(p, f)
        /\ routed' = [Without(f) EXCEPT ![p] = None]
        /\ UNCHANGED <<tie_en, tie_val, gpiohs, args>>
    BY <1>2 DEF CallSetFunctionRaw
  <2>2. f \in Functions
    BY PinsAssumption
  <2>3. /\ io' \in [Pads -> Pad] /\ io'[p].ch_sel = f
        /\ \A q \in Pads : q # p => io'[q] = io[q]
    BY <1>1, <2>1, <2>2, SetFunctionRawSets
  <2>4. /\ routed' \in [Pads -> Functions \cup {None}]
        /\ \A q \in Pads : routed'[q] # FUNC_RESV0
        /\ RoutedAlone'
    BY <2>1, <2>2, <2>3, RouteTaken
  <2>5. QED
    BY <1>1, <2>1, <2>3, <2>4, OneStepCall
<1>3. ASSUME NEW q \in Pads, SetIo(p, q)
      PROVE  IInv'
  <2> DEFINE f == io[q].ch_sel
  <2>1. /\ PinsCall("idle") /\ io' = [io EXCEPT ![p] = io[q]]
        /\ routed' = [Without(f) EXCEPT ![p] = None]
        /\ UNCHANGED <<tie_en, tie_val, gpiohs, args>>
    BY <1>3 DEF SetIo
  <2>2. /\ io' \in [Pads -> Pad] /\ io'[p].ch_sel = f /\ f \in Functions
        /\ \A r \in Pads : r # p => io'[r] = io[r]
    BY <1>1, <2>1 DEF Pad
  <2>3. PICK g \in Functions : g = f
    BY <2>2
  <2>4. /\ routed' \in [Pads -> Functions \cup {None}]
        /\ \A r \in Pads : routed'[r] # FUNC_RESV0
        /\ RoutedAlone'
    <3> HIDE DEF f
    <3>1. QED
      BY <2>1, <2>2, <2>3, RouteTaken
  <2>5. QED
    BY <1>1, <2>1, <2>2, <2>4, OneStepCall
<1>4. ASSUME NEW pull \in Pulls, CallSetIoPull(p, pull)
      PROVE  IInv'
  <2>1. /\ PinsCall("idle") /\ SetIoPull(p, pull)
        /\ UNCHANGED <<tie_en, tie_val, routed, gpiohs, args>>
    BY <1>4 DEF CallSetIoPull
  <2>2. io' \in [Pads -> Pad] /\ RoutedAlone'
    BY <1>1, <2>1, SetIoPullSets, RoutesStay
  <2>3. QED
    BY <1>1, <2>1, <2>2, OneStepCall
<1>5. CASE SetIoDriving(p, 7)
  <2>1. /\ PinsCall("idle") /\ UNCHANGED <<tie_en, tie_val, routed, gpiohs, args>>
    BY <1>5 DEF SetIoDriving
  <2>2. 7 \in 0 .. 15
    OBVIOUS
  <2>3. io' \in [Pads -> Pad] /\ RoutedAlone'
    BY <1>1, <1>5, <2>1, <2>2, SetIoDrivingSets, RoutesStay
  <2>4. QED
    BY <1>1, <2>1, <2>3, OneStepCall
<1>6. QED
  BY <1>2, <1>3, <1>4, <1>5

LEMMA TieCallStep ==
    ASSUME IInv, NEW f \in Inputs, NEW on \in BOOLEAN,
           SetTieEnable(f, on) \/ SetTieValue(f, on)
    PROVE  IInv'
<1>1. /\ PinsCall("idle") /\ UNCHANGED <<io, routed, gpiohs, args>>
      /\ tie_en' \subseteq Functions /\ tie_val' \subseteq Functions
  BY PinsAssumption DEF SetTieEnable, SetTieValue, Switch, IInv, PinsTypeOK
<1>2. RoutedAlone'
  BY <1>1, RoutesStay
<1>3. /\ io \in [Pads -> Pad] /\ routed \in [Pads -> Functions \cup {None}]
      /\ \A q \in Pads : routed[q] # FUNC_RESV0
  BY DEF IInv, PinsTypeOK, Pad, Routed
<1>4. QED
  BY <1>1, <1>2, <1>3, OneStepCall

LEMMA PinsStep ==
    ASSUME IInv, [PinsNext]_pins_vars
    PROVE  IInv'
<1>1. CASE Steal
  BY <1>1, StealStep
<1>2. CASE Give
  BY <1>2, GiveStep
<1>3. CASE TieInit
  BY <1>3, TieInitStep
<1>4. CASE TieWord
  BY <1>4, TieWordStep
<1>5. CASE DrivePull
  BY <1>5, DrivePullStep
<1>6. CASE DriveBit
  BY <1>6, DriveBitStep
<1>7. ASSUME NEW p \in Pads,
             \/ \E f \in Routes : CallSetFunctionRaw(p, f) \/ SetFunction(p, f)
             \/ \E q \in Pads : SetIo(p, q)
             \/ \E pull \in Pulls : CallSetIoPull(p, pull)
             \/ SetIoDriving(p, 7)
      PROVE  IInv'
  BY <1>7, PadCallStep, SetFunctionStep
<1>8. ASSUME NEW f \in Inputs, NEW on \in BOOLEAN, SetTieEnable(f, on) \/ SetTieValue(f, on)
      PROVE  IInv'
  BY <1>8, TieCallStep
<1>9. ASSUME NEW g \in Gpios, NEW m \in Drive, SetDriveMode(g, m)
      PROVE  IInv'
  BY <1>9, SetDriveModeStep
<1>10. CASE UNCHANGED pins_vars
  BY <1>10 DEF pins_vars, fpioa, gpiohs, args, IInv, PinsTypeOK, Routed, RoutedAlone,
               TiedFirst, Driven, DriveAsAsked, GetIoByFunction, ModePull
<1>11. QED
  BY <1>1, <1>2, <1>3, <1>4, <1>5, <1>6, <1>7, <1>8, <1>9, <1>10 DEF PinsNext

-----------------------------------------------------------------------------
(***************************************************************************)
(* Theorems                                                                *)
(***************************************************************************)

\* The inductive invariant holds, for any number of pads up to the 48 of the chip and any
\* sets of functions that the calls of fpioa.c and gpiohs.c ask for.
THEOREM PinsInvariance == PinsSpec => []IInv
<1>1. PinsInit => IInv
  BY InitInv
<1>2. IInv /\ [PinsNext]_pins_vars => IInv'
  BY PinsStep
<1>3. QED
  BY <1>1, <1>2, PTL DEF PinsSpec

\* Every register, argument and loop variable keeps its type: fpioa_set_function's loop
\* and the pad that gpiohs_set_drive_mode looked up stay within the pads.
THEOREM PinsTypes == PinsSpec => []PinsTypeOK
<1>1. IInv => PinsTypeOK
  BY DEF IInv
<1>2. QED
  BY <1>1, PinsInvariance, PTL

\* fpioa_set_function leaves its function on the pad that it was asked for and on no
\* other, whatever pads had it before and whatever calls follow.
THEOREM RoutesAreAlone == PinsSpec => []RoutedAlone
<1>1. IInv => RoutedAlone
  BY DEF IInv
<1>2. QED
  BY <1>1, PinsInvariance, PTL

\* gpiohs_set_drive_mode ends with the pull and the direction of the mode, on the pad of
\* the GPIO, and never has a GPIO drive and listen at once.
THEOREM ModesAreSet == PinsSpec => []DriveAsAsked
<1>1. IInv => DriveAsAsked
  BY DEF IInv
<1>2. QED
  BY <1>1, PinsInvariance, PTL

\* fpioa_init enables a tie only when its value is the one of the table.
THEOREM TiesAreSet == PinsSpec => TiedAsTable
<1> DEFINE Kept == pins_pc \in {"tie_val", "tie_en"} =>
                      \A f \in tie_en' \ tie_en : (f \in tie_val') = (f \in Tied1("tie_val"))
<1>1. IInv /\ [PinsNext]_pins_vars => [Kept]_pins_vars
  <2> SUFFICES ASSUME IInv, PinsNext, pins_pc \in {"tie_val", "tie_en"}, NEW f \in tie_en' \ tie_en
               PROVE  (f \in tie_val') = (f \in Tied1("tie_val"))
    OBVIOUS
  <2>1. TieWord
    BY DEF PinsNext, Steal, Give, TieInit, DrivePull, DriveBit, CallSetFunctionRaw, SetFunction,
           SetIo, CallSetIoPull, SetIoDriving, SetTieEnable, SetTieValue, SetDriveMode, PinsCall
  <2>2. CASE pins_pc = "tie_val"
    BY <2>1, <2>2 DEF TieWord, TieStep
  <2>3. CASE pins_pc = "tie_en"
    <3>1. f \in Tied1("tie_en") /\ WordOf(f) = index /\ tie_val' = tie_val
      BY <2>1, <2>3 DEF TieWord, TieStep, WordSet, InWord
    <3>2. f \in Functions
      BY <3>1 DEF Tied1
    <3>3. QED
      BY <2>3, <3>1, <3>2 DEF IInv, TiedFirst
  <2>4. QED
    BY <2>2, <2>3
<1>2. QED
  BY <1>1, PinsInvariance, PTL DEF PinsSpec, TiedAsTable

-----------------------------------------------------------------------------
(***************************************************************************)
(* The console: the inductive invariant                                    *)
(***************************************************************************)

\* What argv has of the command that is called: words of its own, and a null behind them if
\* there is room.
Parsed ==
    cli_pc \in {"process", "dead"} =>
        /\ argc > 0
        /\ \A i \in 0 .. argc - 1 : argv[i] \in first .. sep - 1
        /\ argc < MAXARGS => argv[argc] = Null

\* Whatever was called last got what was typed, or a null pointer.
Called ==
    /\ ran # NoCommand => (ran.typed <=> Null \notin ToSet(ran.args))
    /\ cli_pc = "dead" => argc <= Len(ran.args)

CliInv == ConsoleTypeOK /\ ScreenShowsLine /\ Parsed /\ Called

-----------------------------------------------------------------------------
(***************************************************************************)
(* The console: lemmas                                                     *)
(***************************************************************************)

LEMMA Greatest ==
    ASSUME NEW n \in Nat, NEW T \in SUBSET (0 .. n), T # {}
    PROVE  \E x \in T : \A y \in T : y <= x
  <1> DEFINE U == {n - x : x \in T}
  <1>1. U \in SUBSET Nat /\ U # {}
    <2>1. \A x \in 0 .. n : n - x \in Nat
      OBVIOUS
    <2> QED
      BY <2>1
  <1>2. PICK u \in U : \A v \in U : u <= v
    BY <1>1, Least
  <1>3. PICK x \in T : u = n - x
    BY <1>2
  <1>4. ASSUME NEW y \in T PROVE y <= x
    <2>1. n - x <= n - y
      BY <1>2, <1>3
    <2> QED
      BY <2>1
  <1> QED
    BY <1>4

LEMMA MinIs ==
    ASSUME NEW T \in SUBSET Nat, T # {}
    PROVE  Min(T) \in T /\ \A y \in T : Min(T) <= y
  BY Least DEF Min

\* A set of numbers has an element with any number of them below it that is less than all.
LEMMA NthExists ==
    ASSUME NEW m \in Nat, NEW S \in SUBSET (0 .. m), NEW n \in Nat, n < Cardinality(S)
    PROVE  \E i \in S : IsNth(n, i, S)
  <1> DEFINE Below(i) == {j \in S : j < i}
             T == {i \in S : Cardinality(Below(i)) >= n}
  <1>1. IsFiniteSet(S) /\ S \in SUBSET Nat
    <2>1. IsFiniteSet(0 .. m)
      BY FS_Interval
    <2>2. IsFiniteSet(S)
      BY <2>1, FS_Subset
    <2>3. 0 .. m \subseteq Nat
      OBVIOUS
    <2> QED
      BY <2>2, <2>3
  <1>2. ASSUME NEW U \in SUBSET S
        PROVE  IsFiniteSet(U) /\ Cardinality(U) \in Nat
    BY <1>1, FS_Subset, FS_CardinalityType
  <1>3. ASSUME NEW U \in SUBSET S, NEW x \in U, \A y \in U : y <= x,
               \A j \in S : j < x => j \in U
        PROVE  Cardinality(Below(x)) = Cardinality(U) - 1
    <2>0. \A i, j \in Nat : i <= j => (i < j <=> i # j)
      OBVIOUS
    <2>1. Below(x) = U \ {x}
      <3>1. ASSUME NEW j \in S PROVE j < x <=> j \in U \ {x}
        <4>1. j \in Nat /\ x \in Nat /\ ~(x < x)
          BY <1>1
        <4> QED
          BY <1>3, <2>0, <4>1
      <3> QED
        BY <3>1
    <2>2. Cardinality(U \ {x}) = Cardinality(U) - 1
      BY <1>2, FS_RemoveElement
    <2> QED
      BY <2>1, <2>2
  <1> HIDE DEF Below
  <1>4. T # {}
    <2>1. S # {}
      BY FS_EmptySet
    <2>2. PICK x \in S : \A y \in S : y <= x
      BY <2>1, Greatest
    <2>3. Cardinality(Below(x)) = Cardinality(S) - 1
      BY <1>3, <2>2
    <2>4. Cardinality(S) \in Nat
      BY <1>2
    <2> QED
      BY <2>3, <2>4
  <1>5. PICK x \in T : \A y \in T : x <= y
    BY <1>1, <1>4, Least
  <1>6. Below(x) \in SUBSET S /\ Cardinality(Below(x)) \in Nat /\ Cardinality(Below(x)) >= n
    BY <1>2, <1>5 DEF Below
  <1>7. Cardinality(Below(x)) = n
    <2> SUFFICES ASSUME Cardinality(Below(x)) > n PROVE FALSE
      BY <1>6
    <2>1. Below(x) # {}
      BY <1>6, FS_EmptySet
    <2>2. Below(x) \in SUBSET (0 .. m)
      BY <1>6
    <2>3. PICK y \in Below(x) : \A z \in Below(x) : z <= y
      BY <2>1, <2>2, Greatest
    <2>4. y \in S /\ y < x /\ \A j \in S : j < y => j \in Below(x)
      BY <1>1, <2>3 DEF Below
    <2>5. Cardinality(Below(y)) = Cardinality(Below(x)) - 1
      BY <1>3, <1>6, <2>3, <2>4
    <2>6. y \in T
      BY <1>6, <2>4, <2>5
    <2> QED
      BY <1>1, <1>5, <2>4, <2>6
  <1> QED
    BY <1>7 DEF IsNth, Below

LEMMA LenNat ==
    ASSUME NEW S, NEW s \in Seq(S)
    PROVE  Len(s) \in Nat /\ (s = <<>> <=> Len(s) = 0)
  BY EmptySeq, LenProperties

\* The words of a command lie within it.
LEMMA WordsAreInside ==
    ASSUME ConsoleTypeOK, NEW a \in 1 .. CBSIZE, NEW b \in a .. Len(cmdbuf) + 1
    PROVE  /\ Len(WordsIn(a, b)) \in 0 .. MAXARGS
           /\ \A k \in 1 .. Len(WordsIn(a, b)) : WordsIn(a, b)[k] \in a .. b - 1
  <1> USE ConsoleAssumption
  <1> DEFINE starts == WordStarts(a, b)
             total == Cardinality(starts)
             count == IF total < MAXARGS THEN total ELSE MAXARGS
  <1>1. cmdbuf \in Seq(Chars) /\ Len(cmdbuf) \in Nat /\ a \in Nat /\ b - 1 \in 0 .. Len(cmdbuf)
    BY LenNat DEF ConsoleTypeOK
  <1>2. Len(Token(a, b)) = b - 1
    <2>1. \A i \in 1 .. b - 1 : cmdbuf[i] \in Chars
      BY <1>1, ElementOfSeq
    <2>2. Len(SubSeq(cmdbuf, 1, b - 1)) = IF 1 <= b - 1 THEN b - 1 - 1 + 1 ELSE 0
      BY <1>1, <2>1, SubSeqProperties
    <2> QED
      BY <1>1, <2>2 DEF Token
  <1>3. starts \in SUBSET (a .. b - 1) /\ starts \in SUBSET (0 .. b - 1)
    <2>1. starts \in SUBSET (a .. Len(Token(a, b)))
      BY DEF WordStarts
    <2>2. a .. b - 1 \subseteq 0 .. b - 1
      OBVIOUS
    <2> QED
      BY <1>2, <2>1, <2>2
  <1>4. IsFiniteSet(starts) /\ total \in Nat
    <2>1. b - 1 \in Int /\ 0 \in Int
      OBVIOUS
    <2>2. IsFiniteSet(0 .. b - 1)
      BY <2>1, FS_Interval
    <2>3. IsFiniteSet(starts)
      BY <1>3, <2>2, FS_Subset
    <2> QED
      BY <2>3, FS_CardinalityType
  <1>5. count \in 0 .. MAXARGS /\ count <= total
    BY <1>4
  <1>6. WordsIn(a, b) = [k \in 1 .. count |-> CHOOSE i \in starts : IsNth(k - 1, i, starts)]
    BY DEF WordsIn
  <1> HIDE DEF starts
  <1>7. ASSUME NEW k \in 1 .. count
        PROVE  (CHOOSE i \in starts : IsNth(k - 1, i, starts)) \in a .. b - 1
    <2>1. k - 1 \in Nat /\ k - 1 < total
      BY <1>4, <1>5
    <2>2. \E i \in starts : IsNth(k - 1, i, starts)
      <3>1. b - 1 \in Nat
        BY <1>1
      <3> QED
        BY <1>3, <2>1, <3>1, NthExists
    <2> QED
      BY <1>3, <2>2
  <1> HIDE DEF count
  <1>8. WordsIn(a, b) \in [1 .. count -> a .. b - 1]
    BY <1>6, <1>7
  <1>9. WordsIn(a, b) \in Seq(a .. b - 1) /\ Len(WordsIn(a, b)) = count
    <2>1. WordsIn(a, b) \in Seq(a .. b - 1)
      BY <1>5, <1>8, SeqDef
    <2> QED
      BY <1>5, <1>8, <2>1, LenProperties
  <1> QED
    BY <1>5, <1>8, <1>9

\* What is on the screen.
Shown == Chars \cup {"=", ">", " "}

LEMMA PromptIs == Prompt \in Seq(Shown) /\ Len(Prompt) = 3
  BY DEF Prompt, Shown

LEMMA LineIs ==
    ASSUME NEW line \in Seq(Chars)
    PROVE  /\ Prompt \o line \in Seq(Shown)
           /\ Len(Prompt \o line) = 3 + Len(line)
           /\ \A i \in 1 .. 3 + Len(line) :
                 (Prompt \o line)[i] = IF i <= 3 THEN Prompt[i] ELSE line[i - 3]
  <1>1. Chars \subseteq Shown
    BY DEF Shown
  <1>2. line \in Seq(Shown)
    BY <1>1, SeqMonotonic
  <1>3. /\ Prompt \o line \in Seq(Shown)
        /\ Len(Prompt \o line) = Len(Prompt) + Len(line)
        /\ \A i \in 1 .. Len(Prompt) + Len(line) :
              (Prompt \o line)[i] = IF i <= Len(Prompt) THEN Prompt[i] ELSE line[i - Len(Prompt)]
    BY <1>2, PromptIs, ConcatProperties
  <1> QED
    BY <1>3, PromptIs

\* The start of a sequence.
LEMMA FirstOf ==
    ASSUME NEW S, NEW s \in Seq(S), NEW n \in 0 .. Len(s)
    PROVE  /\ SubSeq(s, 1, n) \in Seq(S) /\ Len(SubSeq(s, 1, n)) = n
           /\ \A i \in 1 .. n : SubSeq(s, 1, n)[i] = s[i]
  <1>1. Len(s) \in Nat /\ n \in Nat /\ n <= Len(s) /\ 1 \in Int /\ n \in Int
    BY LenNat
  <1>2. \A i \in 1 .. n : s[i] \in S
    BY <1>1, ElementOfSeq
  <1> DEFINE t == SubSeq(s, 1, n)
  <1>3. /\ t \in Seq(S)
        /\ Len(t) = IF 1 <= n THEN n - 1 + 1 ELSE 0
        /\ \A i \in 1 .. n - 1 + 1 : t[i] = s[1 + i - 1]
    BY <1>1, <1>2, SubSeqProperties
  <1> HIDE DEF t
  <1>4. t \in Seq(S) /\ Len(t) = n /\ \A i \in 1 .. n : t[i] = s[i]
    BY <1>1, <1>3
  <1> QED
    BY <1>4 DEF t

\* What is left on the screen is what is left of the line.
LEMMA ErasedLine ==
    ASSUME buffer \in Seq(Chars), screen = Prompt \o buffer, NEW k \in 0 .. Len(buffer)
    PROVE  LET line == SubSeq(buffer, 1, Len(buffer) - k)
           IN  /\ line \in Seq(Chars) /\ Len(line) = Len(buffer) - k
               /\ Erased(k) = Prompt \o line
  <1> DEFINE n == Len(buffer) - k
             line == SubSeq(buffer, 1, n)
  <1>1. Len(buffer) \in Nat /\ n \in 0 .. Len(buffer)
    BY LenNat
  <1> HIDE DEF n
  <1>2. /\ line \in Seq(Chars) /\ Len(line) = n
        /\ \A i \in 1 .. n : line[i] = buffer[i]
    BY <1>1, FirstOf
  <1> HIDE DEF line
  <1>3. /\ screen \in Seq(Shown) /\ Len(screen) = 3 + Len(buffer)
        /\ \A i \in 1 .. 3 + Len(buffer) :
              screen[i] = IF i <= 3 THEN Prompt[i] ELSE buffer[i - 3]
    BY LineIs
  <1>4. /\ Prompt \o line \in Seq(Shown) /\ Len(Prompt \o line) = 3 + n
        /\ \A i \in 1 .. 3 + n : (Prompt \o line)[i] = IF i <= 3 THEN Prompt[i] ELSE line[i - 3]
    BY <1>2, LineIs
  <1>5. Erased(k) = SubSeq(screen, 1, 3 + n)
    <2>1. Len(screen) - k = 3 + n
      BY <1>1, <1>3 DEF n
    <2> QED
      BY <2>1 DEF Erased
  <1>6. /\ SubSeq(screen, 1, 3 + n) \in Seq(Shown)
        /\ Len(SubSeq(screen, 1, 3 + n)) = 3 + n
        /\ \A i \in 1 .. 3 + n : SubSeq(screen, 1, 3 + n)[i] = screen[i]
    <2>1. 3 + n \in 0 .. Len(screen)
      BY <1>1, <1>3
    <2> QED
      BY <1>3, <2>1, FirstOf
  <1>7. ASSUME NEW i \in 1 .. 3 + n
        PROVE  SubSeq(screen, 1, 3 + n)[i] = (Prompt \o line)[i]
    <2>1. i \in 1 .. 3 + Len(buffer)
      BY <1>1
    <2>2. i > 3 => i - 3 \in 1 .. n
      BY <1>1
    <2>3. SubSeq(screen, 1, 3 + n)[i] = IF i <= 3 THEN Prompt[i] ELSE buffer[i - 3]
      BY <1>3, <1>6, <2>1
    <2>4. (Prompt \o line)[i] = IF i <= 3 THEN Prompt[i] ELSE line[i - 3]
      BY <1>4
    <2>5. ~(i <= 3) => i > 3
      BY <1>1
    <2> QED
      BY <1>2, <2>2, <2>3, <2>4, <2>5
  <1>8. SubSeq(screen, 1, 3 + n) = Prompt \o line
    BY <1>4, <1>6, <1>7, SeqEqual
  <1> QED
    BY <1>2, <1>5, <1>8 DEF n, line

\* A character goes to the end of both.
LEMMA TypedChar ==
    ASSUME NEW line \in Seq(Chars), NEW c \in Chars
    PROVE  /\ Append(line, c) \in Seq(Chars) /\ Len(Append(line, c)) = Len(line) + 1
           /\ Append(Prompt \o line, c) = Prompt \o Append(line, c)
  <1>1. /\ Append(line, c) \in Seq(Chars) /\ Len(Append(line, c)) = Len(line) + 1
        /\ Append(line, c) = line \o <<c>>
    BY AppendProperties, AppendIsConcat
  <1>2. Chars \subseteq Shown /\ c \in Shown
    BY DEF Shown
  <1>3. line \in Seq(Shown) /\ <<c>> \in Seq(Shown) /\ Prompt \in Seq(Shown)
    BY <1>2, SeqMonotonic, PromptIs
  <1>4. Append(Prompt \o line, c) = (Prompt \o line) \o <<c>>
    BY <1>2, LineIs, AppendIsConcat
  <1>5. (Prompt \o line) \o <<c>> = Prompt \o (line \o <<c>>)
    BY <1>3, ConcatAssociative
  <1> QED
    BY <1>1, <1>4, <1>5

-----------------------------------------------------------------------------
(***************************************************************************)
(* The console: the actions keep the invariant                             *)
(***************************************************************************)

LEMMA CliStart == ConsoleInit => CliInv
  <1> SUFFICES ASSUME ConsoleInit PROVE CliInv
    OBVIOUS
  <1> USE ConsoleAssumption
  <1>1. <<>> \in Seq(Chars) /\ Len(<<>>) = 0
    BY EmptySeq
  <1>2. Prompt \o <<>> = Prompt
    BY PromptIs, ConcatEmptySeq
  <1>3. 0 .. MAXARGS # {} /\ Stale \in Stale .. CBSIZE /\ 1 \in 1 .. CBSIZE
    BY DEF Stale
  <1>4. ConsoleTypeOK
    BY <1>1, <1>3, PromptIs DEF ConsoleInit, ConsoleTypeOK, NewArgv
  <1> QED
    BY <1>2, <1>4 DEF ConsoleInit, CliInv, ScreenShowsLine, Parsed, Called

\* What only edits the line keeps what runs.
LEMMA EditKeeps ==
    ASSUME CliInv, cli_pc = "read", UNCHANGED <<cli_pc, run, ran>>,
           buffer' \in Seq(Chars), Len(buffer') <= CBSIZE - 2, col' \in Nat, ScreenShowsLine'
    PROVE  CliInv'
  BY DEF CliInv, ConsoleTypeOK, Parsed, Called, run

LEMMA TypeCharKeeps ==
    ASSUME CliInv, NEW c \in Chars, TypeChar(c)
    PROVE  CliInv'
  <1> USE ConsoleAssumption
  <1>1. /\ buffer \in Seq(Chars) /\ Len(buffer) \in Nat /\ col \in Nat
        /\ screen = Prompt \o buffer /\ col = Len(screen)
    BY LenNat DEF CliInv, ConsoleTypeOK, ScreenShowsLine
  <1>2. /\ cli_pc = "read" /\ UNCHANGED <<cli_pc, run, ran>>
        /\ Len(buffer) < CBSIZE - 2
        /\ buffer' = Append(buffer, c) /\ screen' = Append(screen, c) /\ col' = col + 1
    BY DEF TypeChar
  <1>3. buffer' \in Seq(Chars) /\ Len(buffer') = Len(buffer) + 1 /\ screen' = Prompt \o buffer'
    BY <1>1, <1>2, TypedChar
  <1>4. Len(screen) = 3 + Len(buffer) /\ Len(screen') = 3 + Len(buffer')
    BY <1>1, <1>3, LineIs
  <1>5. col' = Len(screen') /\ col' \in Nat /\ Len(buffer') <= CBSIZE - 2
    BY <1>1, <1>2, <1>3, <1>4
  <1> QED
    BY <1>2, <1>3, <1>5, EditKeeps DEF ScreenShowsLine

LEMMA DeleteKeeps ==
    ASSUME CliInv, NEW k \in 0 .. Len(buffer), cli_pc = "read", DeleteChars(k),
           UNCHANGED <<cli_pc, run, ran>>
    PROVE  CliInv'
  <1> USE ConsoleAssumption
  <1>1. /\ buffer \in Seq(Chars) /\ Len(buffer) \in Nat /\ col \in Nat
        /\ screen = Prompt \o buffer /\ col = Len(screen) /\ Len(buffer) <= CBSIZE - 2
    BY LenNat DEF CliInv, ConsoleTypeOK, ScreenShowsLine
  <1>2. buffer' \in Seq(Chars) /\ Len(buffer') = Len(buffer) - k /\ screen' = Prompt \o buffer'
        /\ col' = col - k
    BY <1>1, ErasedLine DEF DeleteChars, DeleteCol
  <1>3. Len(screen) = 3 + Len(buffer) /\ Len(screen') = 3 + Len(buffer')
    BY <1>1, <1>2, LineIs
  <1>4. col' = Len(screen') /\ col' \in Nat /\ Len(buffer') <= CBSIZE - 2
    BY <1>1, <1>2, <1>3
  <1> QED
    BY <1>2, <1>4, EditKeeps DEF ScreenShowsLine

LEMMA BackspaceKeeps == CliInv /\ Backspace => CliInv'
  <1> SUFFICES ASSUME CliInv, Backspace PROVE CliInv'
    OBVIOUS
  <1>1. buffer \in Seq(Chars)
    BY DEF CliInv, ConsoleTypeOK
  <1>2. (IF buffer = <<>> THEN 0 ELSE 1) \in 0 .. Len(buffer)
    BY <1>1, LenNat
  <1> QED
    BY <1>2, DeleteKeeps DEF Backspace

LEMMA EraseWordKeeps == CliInv /\ EraseWord => CliInv'
  <1> SUFFICES ASSUME CliInv, EraseWord PROVE CliInv'
    OBVIOUS
  <1> DEFINE n == Len(buffer)
             T == {k \in 1 .. n : buffer[n - k + 1] = " " \/ k = n}
             erased == IF n = 0 THEN 0 ELSE Min(T)
  <1>1. n \in Nat
    BY LenNat DEF CliInv, ConsoleTypeOK
  <1>2. erased \in 0 .. n
    <2>1. CASE n = 0
      BY <2>1
    <2>2. CASE n # 0
      <3>1. T \in SUBSET (1 .. n) /\ n \in T
        <4>1. n \in 1 .. n
          BY <1>1, <2>2
        <4> QED
          BY <4>1
      <3>2. T \in SUBSET Nat /\ T # {}
        <4>1. 1 .. n \subseteq Nat
          BY <1>1
        <4> QED
          BY <3>1, <4>1
      <3>3. Min(T) \in 1 .. n
        BY <3>1, <3>2, MinIs
      <3>4. Min(T) \in 0 .. n
        <4>1. 1 .. n \subseteq 0 .. n
          BY <1>1
        <4> QED
          BY <3>3, <4>1
      <3>5. erased = Min(T)
        BY <2>2
      <3> QED
        BY <3>4, <3>5
    <2> QED
      BY <2>1, <2>2
  <1>3. cli_pc = "read" /\ DeleteChars(erased) /\ UNCHANGED <<cli_pc, run, ran>>
    BY DEF EraseWord
  <1> HIDE DEF erased
  <1> QED
    BY <1>2, <1>3, DeleteKeeps

LEMMA EraseLineKeeps == CliInv /\ EraseLine => CliInv'
  <1> SUFFICES ASSUME CliInv, EraseLine PROVE CliInv'
    OBVIOUS
  <1> USE ConsoleAssumption
  <1>1. /\ buffer \in Seq(Chars) /\ Len(buffer) \in Nat
        /\ screen = Prompt \o buffer /\ col = Len(screen)
    BY LenNat DEF CliInv, ConsoleTypeOK, ScreenShowsLine
  <1>2. col - Len(Prompt) = Len(buffer) /\ Len(buffer) \in 0 .. Len(buffer)
    BY <1>1, LineIs, PromptIs
  <1>3. /\ cli_pc = "read" /\ UNCHANGED <<cli_pc, run, ran>>
        /\ buffer' = <<>> /\ screen' = Erased(Len(buffer)) /\ col' = 3
    BY <1>2, PromptIs DEF EraseLine
  <1>4. screen' = Prompt \o SubSeq(buffer, 1, Len(buffer) - Len(buffer))
    BY <1>1, <1>2, <1>3, ErasedLine
  <1>5. SubSeq(buffer, 1, Len(buffer) - Len(buffer)) = <<>>
    <2>1. Len(buffer) - Len(buffer) = 0
      BY <1>1
    <2> QED
      BY <2>1, SubSeqEmpty
  <1>6. Prompt \o <<>> = Prompt /\ <<>> \in Seq(Chars) /\ Len(<<>>) = 0
    BY PromptIs, ConcatEmptySeq, EmptySeq
  <1>7. ScreenShowsLine' /\ buffer' \in Seq(Chars) /\ Len(buffer') <= CBSIZE - 2 /\ col' \in Nat
    <2>1. screen' = Prompt /\ screen' = Prompt \o buffer'
      BY <1>3, <1>4, <1>5, <1>6
    <2>2. col' = Len(screen') /\ col' \in Nat
      BY <1>3, <2>1, PromptIs
    <2>3. buffer' \in Seq(Chars) /\ Len(buffer') = 0
      BY <1>3, <1>6
    <2>4. 0 <= CBSIZE - 2
      OBVIOUS
    <2> QED
      BY <2>1, <2>2, <2>3, <2>4 DEF ScreenShowsLine
  <1> QED
    BY <1>3, <1>7, EditKeeps

LEMMA NewLineIs ==
    ASSUME NewLine
    PROVE  /\ ScreenShowsLine' /\ buffer' \in Seq(Chars) /\ Len(buffer') <= CBSIZE - 2
           /\ col' \in Nat
  <1>1. Prompt \o <<>> = Prompt /\ <<>> \in Seq(Chars) /\ Len(<<>>) = 0
    BY PromptIs, ConcatEmptySeq, EmptySeq
  <1> QED
    BY <1>1, PromptIs, ConsoleAssumption DEF NewLine, ScreenShowsLine

LEMMA InterruptKeeps == CliInv /\ Interrupt => CliInv'
  BY NewLineIs, EditKeeps DEF Interrupt

LEMMA EnterKeeps == CliInv /\ Enter => CliInv'
  <1> SUFFICES ASSUME CliInv, Enter PROVE CliInv'
    OBVIOUS
  <1>1. NewLine /\ cli_pc = "read" /\ ran' = ran
    BY DEF Enter
  <1>2. CASE UNCHANGED <<cli_pc, run>>
    BY <1>1, <1>2, NewLineIs, EditKeeps
  <1>3. CASE cli_pc' = "split" /\ cmdbuf' = buffer /\ UNCHANGED <<str, first, sep, argc, argv>>
    <2>1. Len(buffer) < CBSIZE
      BY LenNat, ConsoleAssumption DEF CliInv, ConsoleTypeOK
    <2> QED
      BY <1>1, <1>3, <2>1, NewLineIs DEF CliInv, ConsoleTypeOK, Parsed, Called
  <1> QED
    BY <1>2, <1>3 DEF Enter

LEMMA SplitKeeps == CliInv /\ Split => CliInv'
  <1> SUFFICES ASSUME CliInv, Split PROVE CliInv'
    OBVIOUS
  <1> USE ConsoleAssumption
  <1>1. /\ ConsoleTypeOK /\ Called /\ ScreenShowsLine
        /\ cmdbuf \in Seq(Chars) /\ Len(cmdbuf) \in Nat /\ Len(cmdbuf) < CBSIZE
        /\ str \in 1 .. CBSIZE /\ str <= Len(cmdbuf)
        /\ argv \in [0 .. MAXARGS -> Stale .. CBSIZE]
    BY LenNat DEF CliInv, ConsoleTypeOK, Split
  <1>2. /\ cli_pc = "split" /\ first' = str
        /\ UNCHANGED <<edit, cmdbuf, ran>>
        /\ str' = IF sep' <= Len(cmdbuf) THEN sep' + 1 ELSE sep'
    BY DEF Split
  <1>3. sep' \in str .. Len(cmdbuf) + 1
    <2>1. PICK below \in {"\\", "end"} : sep' = Min(Separators(below) \cup {Len(cmdbuf) + 1})
      BY DEF Split
    <2> DEFINE T == Separators(below) \cup {Len(cmdbuf) + 1}
    <2>2. T \in SUBSET (str .. Len(cmdbuf) + 1) /\ T # {}
      <3>1. Separators(below) \subseteq str + 1 .. Len(cmdbuf)
        BY DEF Separators
      <3>2. str + 1 .. Len(cmdbuf) \subseteq str .. Len(cmdbuf) + 1
        BY <1>1
      <3>3. Len(cmdbuf) + 1 \in str .. Len(cmdbuf) + 1
        BY <1>1
      <3> QED
        BY <3>1, <3>2, <3>3
    <2>3. str .. Len(cmdbuf) + 1 \subseteq Nat
      BY <1>1
    <2> HIDE DEF T
    <2>4. Min(T) \in T
      BY <2>2, <2>3, MinIs
    <2> QED
      BY <2>1, <2>2, <2>4 DEF T
  <1> DEFINE words == WordsIn(str, sep')
  <1>4. /\ argc' = Len(words)
        /\ argv' = [i \in 0 .. MAXARGS |-> IF i < argc' THEN words[i + 1]
                                          ELSE IF i = argc' /\ EndsWithNull(words, sep')
                                          THEN Null ELSE argv[i]]
        /\ cli_pc' = IF argc' = 0 THEN "split" ELSE "process"
    BY DEF Split
  <1>5. /\ argc' \in 0 .. MAXARGS
        /\ \A k \in 1 .. argc' : words[k] \in str .. sep' - 1
    <2>1. /\ Len(words) \in 0 .. MAXARGS
          /\ \A k \in 1 .. Len(words) : words[k] \in str .. sep' - 1
      BY <1>1, <1>3, WordsAreInside
    <2> QED
      BY <1>4, <2>1
  <1>6. argc' < MAXARGS => EndsWithNull(words, sep')
    <2>1. ASSUME argc' < MAXARGS PROVE ~(Len(words) = MAXARGS)
      <3> DEFINE n == Len(words)
      <3>1. n < MAXARGS /\ n \in 0 .. MAXARGS
        BY <1>4, <1>5, <2>1
      <3> HIDE DEF n
      <3>2. ~(n = MAXARGS)
        BY <3>1
      <3> QED
        BY <3>2 DEF n
    <2> QED
      BY <2>1, Zenon DEF EndsWithNull
  <1> HIDE DEF words
  <1> DEFINE n == argc'
             e == sep'
  <1>6a. /\ n \in 0 .. MAXARGS /\ \A i \in 0 .. n - 1 : i + 1 \in 1 .. n /\ i < n /\ i \in 0 .. MAXARGS
         /\ \A i \in 0 .. MAXARGS : i < n => i \in 0 .. n - 1
    <2>1. n \in 0 .. MAXARGS
      BY <1>5
    <2> HIDE DEF n
    <2> QED
      BY <2>1
  <1>6b. /\ str .. e - 1 \subseteq 1 .. CBSIZE /\ e \in 1 .. CBSIZE
         /\ (IF e <= Len(cmdbuf) THEN e + 1 ELSE e) \in 1 .. CBSIZE
    <2>1. e \in str .. Len(cmdbuf) + 1
      BY <1>3
    <2> HIDE DEF e
    <2> QED
      BY <1>1, <2>1
  <1>7. ASSUME NEW i \in 0 .. argc' - 1
        PROVE  argv'[i] = words[i + 1] /\ argv'[i] \in str .. sep' - 1
    <2>1. i + 1 \in 1 .. argc' /\ i < argc' /\ i \in 0 .. MAXARGS
      BY <1>6a
    <2> QED
      BY <1>4, <1>5, <2>1
  <1>8. argc' < MAXARGS => argv'[argc'] = Null
    BY <1>4, <1>5, <1>6
  <1>9. str .. sep' - 1 \subseteq 1 .. CBSIZE /\ sep' \in 1 .. CBSIZE /\ str' \in 1 .. CBSIZE
    BY <1>2, <1>6b
  <1>10. argv' \in [0 .. MAXARGS -> Stale .. CBSIZE]
    <2>1. 1 .. CBSIZE \subseteq Stale .. CBSIZE /\ Null \in Stale .. CBSIZE
      BY DEF Stale, Null
    <2>2. ASSUME NEW i \in 0 .. MAXARGS
          PROVE  argv'[i] \in Stale .. CBSIZE
      <3>1. i < argc' => i \in 0 .. argc' - 1
        BY <1>6a
      <3>3. ~(i < argc') => argv'[i] = Null \/ argv'[i] = argv[i]
        BY <1>4
      <3> QED
        BY <1>1, <1>7, <1>9, <2>1, <3>1, <3>3
    <2>3. argv' = [i \in 0 .. MAXARGS |-> argv'[i]]
      BY <1>4
    <2> QED
      BY <2>2, <2>3
  <1>11. ConsoleTypeOK'
    BY <1>1, <1>2, <1>4, <1>5, <1>9, <1>10 DEF ConsoleTypeOK, edit
  <1>12. ScreenShowsLine'
    BY <1>1, <1>2 DEF ScreenShowsLine, edit
  <1>13. Parsed'
    <2>1. cli_pc' # "dead" /\ (cli_pc' = "process" => argc' > 0)
      BY <1>4, <1>5
    <2> QED
      BY <1>2, <1>7, <1>8, <2>1 DEF Parsed
  <1>14. Called'
    BY <1>1, <1>2, <1>4 DEF Called
  <1> QED
    BY <1>11, <1>12, <1>13, <1>14 DEF CliInv

LEMMA LineDoneKeeps == CliInv /\ LineDone => CliInv'
  <1> SUFFICES ASSUME CliInv, LineDone PROVE CliInv'
    OBVIOUS
  <1> USE ConsoleAssumption
  <1>1. <<>> \in Seq(Chars) /\ Len(<<>>) = 0
    BY EmptySeq
  <1>2. 1 \in 1 .. CBSIZE /\ 0 \in 0 .. MAXARGS /\ Stale \in Stale .. CBSIZE
    BY DEF Stale
  <1>3. ConsoleTypeOK' /\ ScreenShowsLine'
    BY <1>1, <1>2 DEF LineDone, CliInv, ConsoleTypeOK, ScreenShowsLine, edit, NewArgv
  <1> QED
    BY <1>3 DEF LineDone, CliInv, Parsed, Called

LEMMA RefuseKeeps == CliInv /\ Refuse => CliInv'
  BY DEF CliInv, Refuse, ConsoleTypeOK, ScreenShowsLine, Parsed, Called, edit, run

\* No command reads so many arguments that it needs the null behind MAXARGS of them.
LEMMA FewAreRead == \A c \in CmdTable : c.reads \in 0 .. 3
  BY DEF CmdTable

LEMMA CmdCallKeeps == CliInv /\ CmdCall => CliInv'
  <1> SUFFICES ASSUME CliInv, CmdCall PROVE CliInv'
    OBVIOUS
  <1> USE ConsoleAssumption
  <1>1. PICK c \in FindCmd(WordAt(argv[0])) :
            LET handed == [i \in 1 .. c.reads |-> argv[i]]
            IN  /\ ran' = [name |-> c.name, args |-> handed,
                           typed |-> \A i \in 1 .. c.reads : handed[i] \in first .. sep - 1]
                /\ \/ cli_pc' = "split"
                   \/ Null \in ToSet(handed) /\ cli_pc' = "dead"
    BY DEF CmdCall
  <1>2. cli_pc = "process" /\ UNCHANGED <<edit, run>>
    BY DEF CmdCall
  <1>3. c \in CmdTable
    BY DEF FindCmd
  <1>4. c.reads \in 0 .. 3
    BY <1>3, FewAreRead
  <1> DEFINE handed == [i \in 1 .. c.reads |-> argv[i]]
  <1>5. /\ ConsoleTypeOK /\ ScreenShowsLine
        /\ first \in 1 .. CBSIZE /\ argc \in 1 .. MAXARGS
        /\ argv \in [0 .. MAXARGS -> Stale .. CBSIZE]
        /\ \A i \in 0 .. argc - 1 : argv[i] \in first .. sep - 1
        /\ argc < MAXARGS => argv[argc] = Null
    BY <1>2 DEF CliInv, ConsoleTypeOK, Parsed
  <1>6. /\ DOMAIN handed = 1 .. c.reads
        /\ \A i \in 1 .. c.reads : handed[i] = argv[i]
    OBVIOUS
  <1>7. handed \in Seq(Stale .. CBSIZE) /\ Len(handed) = c.reads
    <2>1. \A i \in 1 .. c.reads : i \in 0 .. MAXARGS
      BY <1>4
    <2>2. handed \in [1 .. c.reads -> Stale .. CBSIZE]
      BY <1>5, <2>1
    <2>3. c.reads \in Nat
      BY <1>4
    <2> HIDE DEF handed
    <2>4. handed \in Seq(Stale .. CBSIZE)
      BY <2>2, <2>3, SeqDef
    <2> QED
      BY <2>2, <2>3, <2>4, LenProperties
  <1>8. ran'.args = handed /\ (ran'.typed <=> \A i \in 1 .. c.reads : handed[i] \in first .. sep - 1)
    BY <1>1
  <1>9. cli_pc' = "split" \/ (Null \in ToSet(handed) /\ cli_pc' = "dead")
    BY <1>1
  <1> HIDE DEF handed
  <1>10. Null \in ToSet(handed) <=> \E i \in 1 .. c.reads : handed[i] = Null
    BY <1>6 DEF ToSet
  <1>11. Null \notin first .. sep - 1
    BY <1>5 DEF Null
  <1>12. CASE argc > c.reads
    <2>1. \A i \in 1 .. c.reads : handed[i] \in first .. sep - 1
      <3>1. \A i \in 1 .. c.reads : i \in 0 .. argc - 1
        BY <1>4, <1>5, <1>12
      <3> QED
        BY <1>5, <1>6, <3>1
    <2>2. Null \notin ToSet(handed)
      BY <1>10, <1>11, <2>1
    <2>3. ran'.typed <=> Null \notin ToSet(ran'.args)
      BY <1>8, <2>1, <2>2
    <2>4. cli_pc' = "split"
      BY <1>9, <2>2
    <2> QED
      BY <1>2, <1>5, <2>3, <2>4
         DEF CliInv, ConsoleTypeOK, ScreenShowsLine, Parsed, Called, edit, run
  <1>13. CASE ~(argc > c.reads)
    <2>1. argc \in 1 .. c.reads /\ argc < MAXARGS /\ argc <= Len(handed)
      BY <1>4, <1>5, <1>7, <1>13
    <2>2. handed[argc] = Null
      BY <1>5, <1>6, <2>1
    <2>3. Null \in ToSet(handed) /\ ~ \A i \in 1 .. c.reads : handed[i] \in first .. sep - 1
      BY <1>10, <1>11, <2>1, <2>2
    <2>4. ran'.typed <=> Null \notin ToSet(ran'.args)
      BY <1>8, <2>3
    <2>5. Called'
      BY <1>2, <1>8, <2>1, <2>4 DEF Called, run
    <2>6. Parsed'
      BY <1>2, <1>5 DEF Parsed, run
    <2>7. cli_pc' \in {"read", "split", "process", "dead"}
      BY <1>9
    <2>8. ConsoleTypeOK' /\ ScreenShowsLine'
      BY <1>2, <1>5, <2>7 DEF ConsoleTypeOK, ScreenShowsLine, edit, run
    <2> QED
      BY <2>5, <2>6, <2>8 DEF CliInv
  <1> QED
    BY <1>12, <1>13

-----------------------------------------------------------------------------
(***************************************************************************)
(* The console: the theorems                                               *)
(***************************************************************************)

\* The invariant holds always, for any line length, any number of words and any characters:
\* whatever is typed and however it is edited, cut and called.
THEOREM ConsoleInvariance == ConsoleSpec => []CliInv
  <1>1. ConsoleInit => CliInv
    BY CliStart
  <1>2. CliInv /\ [ConsoleNext]_cli_vars => CliInv'
    <2> SUFFICES ASSUME CliInv, [ConsoleNext]_cli_vars PROVE CliInv'
      OBVIOUS
    <2>1. ASSUME NEW c \in Chars, TypeChar(c) PROVE CliInv'
      BY <2>1, TypeCharKeeps
    <2>2. CASE Backspace
      BY <2>2, BackspaceKeeps
    <2>3. CASE EraseWord
      BY <2>3, EraseWordKeeps
    <2>4. CASE EraseLine
      BY <2>4, EraseLineKeeps
    <2>5. CASE Interrupt
      BY <2>5, InterruptKeeps
    <2>6. CASE Enter
      BY <2>6, EnterKeeps
    <2>7. CASE Split
      BY <2>7, SplitKeeps
    <2>8. CASE LineDone
      BY <2>8, LineDoneKeeps
    <2>9. CASE Refuse
      BY <2>9, RefuseKeeps
    <2>10. CASE CmdCall
      BY <2>10, CmdCallKeeps
    <2>11. CASE UNCHANGED cli_vars
      BY <2>11 DEF cli_vars, edit, run, CliInv, ConsoleTypeOK, ScreenShowsLine, Parsed, Called
    <2> QED
      BY <2>1, <2>2, <2>3, <2>4, <2>5, <2>6, <2>7, <2>8, <2>9, <2>10, <2>11 DEF ConsoleNext
  <1> QED
    BY <1>1, <1>2, PTL DEF ConsoleSpec

\* The line stays within the buffer of cli.c, and the words within argv.
THEOREM ConsoleTypes == ConsoleSpec => []ConsoleTypeOK
  <1>1. CliInv => ConsoleTypeOK
    BY DEF CliInv
  <1> QED
    BY <1>1, ConsoleInvariance, PTL

\* What cli_readline_into_buffer shows after the prompt is what it returns.
THEOREM ScreenIsTheLine == ConsoleSpec => []ScreenShowsLine
  <1>1. CliInv => ScreenShowsLine
    BY DEF CliInv
  <1> QED
    BY <1>1, ConsoleInvariance, PTL

\* cmd_process calls a command with words of its own part of the line; where they are too
\* few, it reads a null pointer.
THEOREM CommandsGetTheirOwn == ConsoleSpec => []RunsAsTyped
  <1>1. CliInv => RunsAsTyped
    BY DEF CliInv, Called, RunsAsTyped
  <1> QED
    BY <1>1, ConsoleInvariance, PTL
=============================================================================
