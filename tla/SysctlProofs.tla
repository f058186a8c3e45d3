---------------------------- MODULE SysctlProofs ----------------------------
(***************************************************************************)
(* Whatever the frequencies, devices and thresholds, and however many      *)
(* calls: what is on is fed; and a call that sets a frequency tells what   *)
(* it did, which is what was asked or nothing.                             *)
(***************************************************************************)
EXTENDS Sysctl, WellFoundedInduction, TLAPS

Steps == {"idle", "off", "set", "on", "lock", "select", "unpower"}

Types ==
    /\ pc \in Steps
    /\ call.plls \subseteq Plls
    /\ power \in [Plls -> BOOLEAN] /\ out \in [Plls -> BOOLEAN] /\ bypass \in [Plls -> BOOLEAN]
    /\ lock \in [Plls -> SUBSET {0, 1}]
    /\ aclk \in {0, 1}

\* Running(0): PLL0 has an input always.
Sound(p) == out[p] /\ (bypass[p] \/ (power[p] /\ lock[p] = {0, 1}))

\* While a call works on PLL0 the CPU is on the crystal, and before it goes back PLL0 is
\* locked and lets its clock out; what is about to be powered off is bypassed.
Underway ==
    /\ pc \notin {"idle", "unpower"} /\ 0 \in call.plls => aclk = 0
    /\ pc = "unpower" => \A p \in call.plls : bypass[p]
    /\ pc \in {"off", "set", "on"} => \E p \in Plls : call.plls = {p}
    /\ pc = "lock" => \A p \in call.plls : power[p]
    /\ pc = "select" /\ 0 \in call.plls => out[0] /\ power[0] /\ lock[0] = {0, 1}

CpuFed == aclk = 1 => Sound(0)
BusFed == \A d \in gates : BusOf(d) \subseteq gates

IInv == Types /\ Underway /\ CpuFed /\ BusFed

LEMMA ZeroFed == Fed(0) /\ (Running(0) <=> Sound(0))
  BY DEF Fed, Running, Sound

\* A bus hangs on no bus.
LEMMA BusOfBus == \A c, b : b \in BusOf(c) => BusOf(b) = {}
  BY DEF BusOf, Under, Buses

LEMMA InitIInv == Init => IInv
  <1> SUFFICES ASSUME Init PROVE IInv
    OBVIOUS
  <1>1. Types
    BY DEF Init, Types, Steps, NoCall, Plls
  <1>2. Underway /\ CpuFed /\ BusFed
    BY DEF Init, Underway, CpuFed, BusFed
  <1> QED
    BY <1>1, <1>2 DEF IInv

\* The start of a call that works on p.
LEMMA BeginKeeps ==
    ASSUME IInv, NEW op, NEW p \in Plls, NEW asked, NEW freq, Begin(op, p, asked, freq)
    PROVE  IInv'
  <1>1. Types'
    <2>1. pc' \in Steps /\ aclk' \in {0, 1}
      BY DEF Begin, IInv, Types, Steps
    <2>2. call'.plls = {p}
      BY DEF Begin
    <2> QED
      BY <2>1, <2>2 DEF Begin, IInv, Types, regs
  <1>2. Underway'
    <2>1. call'.plls = {p} /\ pc' \in {"idle", "off"}
      BY DEF Begin, Idle
    <2>2. pc' # "idle" /\ p = 0 => aclk' = 0
      BY DEF Begin, Idle
    <2> QED
      BY <2>1, <2>2 DEF Underway, Plls
  <1>3. CpuFed'
    BY DEF Begin, IInv, CpuFed, Sound, regs
  <1>4. BusFed'
    BY DEF Begin, IInv, BusFed, other
  <1> QED
    BY <1>1, <1>2, <1>3, <1>4 DEF IInv

\* The steps of a call.
LEMMA ContinueKeeps ==
    ASSUME IInv, Continue
    PROVE  IInv'
  <1> USE DEF IInv
  <1>1. CASE TurnOff
    <2> PICK p \in call.plls :
            /\ out' = [out EXCEPT ![p] = FALSE]
            /\ power' = [power EXCEPT ![p] = FALSE]
            /\ lock' = [lock EXCEPT ![p] = {}]
      BY <1>1 DEF TurnOff
    <2>1. p \in Plls
      BY DEF Types
    <2>2. Types'
      BY <1>1, <2>1 DEF TurnOff, Types, Steps
    <2>3. Underway'
      BY <1>1 DEF TurnOff, Underway
    <2>4. CpuFed'
      BY <1>1, <2>1 DEF TurnOff, Types, Underway, CpuFed, Sound, Plls
    <2>5. BusFed'
      BY <1>1 DEF TurnOff, BusFed, other
    <2> QED
      BY <2>2, <2>3, <2>4, <2>5
  <1>2. CASE SourceSetFreq
    <2>1. UNCHANGED <<call, power, out, bypass, lock, aclk>> /\ pc = "set" /\ pc' = "on"
      BY <1>2 DEF SourceSetFreq
    <2>2. Types' /\ Underway' /\ CpuFed'
      BY <2>1 DEF Types, Steps, Underway, CpuFed, Sound
    <2>3. BusFed'
      BY <1>2 DEF SourceSetFreq, BusFed, other
    <2> QED
      BY <2>2, <2>3
  <1>3. CASE TurnOn
    <2> PICK p \in call.plls :
            /\ power' = [power EXCEPT ![p] = TRUE]
            /\ lock' = [lock EXCEPT ![p] = {}]
      BY <1>3 DEF TurnOn
    <2>1. p \in Plls /\ call.plls = {p}
      BY <1>3 DEF TurnOn, Types, Underway
    <2>2. Types'
      BY <1>3, <2>1 DEF TurnOn, Types, Steps
    <2>3. Underway'
      <3>1. power'[p] = TRUE /\ call' = call /\ pc' = "lock" /\ aclk' = aclk /\ pc = "on"
        BY <1>3, <2>1 DEF TurnOn, Types
      <3> QED
        BY <2>1, <3>1 DEF Underway
    <2>4. CpuFed'
      BY <1>3, <2>1 DEF TurnOn, Types, Underway, CpuFed, Sound, Plls
    <2>5. BusFed'
      BY <1>3 DEF TurnOn, BusFed, other
    <2> QED
      BY <2>2, <2>3, <2>4, <2>5
  <1>4. CASE AwaitLock
    <2>1. /\ pc = "lock" /\ pc' = "select"
          /\ UNCHANGED <<call, power, bypass, lock, aclk, gates>>
          /\ out' = [p \in Plls |-> out[p] \/ p \in call.plls]
          /\ \A p \in call.plls : IsLock(p)
      BY <1>4 DEF AwaitLock, other
    <2>2. \A p \in Plls : (out[p] => out'[p]) /\ (p \in call.plls => out'[p])
      BY <2>1, Zenon
    <2>3. Types'
      BY <2>1 DEF Types, Steps
    <2>4. 0 \in Plls
      BY DEF Plls
    <2>5. Underway'
      BY <2>1, <2>2, <2>4 DEF Underway, IsLock
    <2>6. CpuFed'
      BY <2>1, <2>2, <2>4 DEF CpuFed, Sound
    <2>7. BusFed'
      BY <2>1 DEF BusFed
    <2> QED
      BY <2>3, <2>5, <2>6, <2>7
  <1>5. CASE Select
    <2>1. /\ pc = "select" /\ pc' = "idle"
          /\ UNCHANGED <<call, power, out, bypass, lock, gates>>
          /\ aclk' = IF 0 \in call.plls THEN 1 ELSE aclk
      BY <1>5 DEF Select, regs, other
    <2>2. Types' /\ Underway' /\ BusFed'
      BY <2>1 DEF Types, Steps, Underway, BusFed
    <2>3. CpuFed'
      BY <2>1 DEF Underway, CpuFed, Sound
    <2> QED
      BY <2>2, <2>3
  <1>6. CASE PowerOff
    <2> PICK p \in call.plls :
            /\ power' = [power EXCEPT ![p] = FALSE]
            /\ lock' = [lock EXCEPT ![p] = {}]
      BY <1>6 DEF PowerOff
    <2>1. p \in Plls /\ bypass[p] /\ pc' = "idle" /\ UNCHANGED <<call, out, bypass, aclk, gates>>
      BY <1>6 DEF PowerOff, Types, Underway, other
    <2>2. Types' /\ Underway' /\ BusFed'
      BY <2>1 DEF Types, Steps, Underway, BusFed
    <2>3. CpuFed'
      BY <2>1 DEF Types, CpuFed, Sound, Plls
    <2> QED
      BY <2>2, <2>3
  <1> QED
    BY <1>1, <1>2, <1>3, <1>4, <1>5, <1>6 DEF Continue

\* The bypass alone keeps a clock that runs.
LEMMA PllDisableKeeps ==
    ASSUME IInv, NEW p \in Plls, PllDisable(p)
    PROVE  IInv'
  <1>1. /\ pc' = "unpower" /\ call'.plls = {p} /\ bypass' = [bypass EXCEPT ![p] = TRUE]
        /\ UNCHANGED <<power, lock, out, aclk, gates>>
    BY DEF PllDisable, Disabling, other
  <1>2. Types'
    BY <1>1 DEF IInv, Types, Steps
  <1>3. Underway'
    BY <1>1 DEF IInv, Types, Underway
  <1>4. CpuFed' /\ BusFed'
    BY <1>1 DEF IInv, Types, CpuFed, Sound, BusFed, Plls
  <1> QED
    BY <1>2, <1>3, <1>4 DEF IInv

LEMMA FastEnableKeeps ==
    ASSUME IInv, FastEnable
    PROVE  IInv'
  <1>1. /\ pc' = "lock" /\ call'.plls = Plls /\ aclk = 0 /\ UNCHANGED <<aclk, out, gates>>
        /\ bypass' = [p \in Plls |-> FALSE] /\ power' = [p \in Plls |-> TRUE]
        /\ lock' = [p \in Plls |-> {}]
    BY DEF FastEnable, other
  <1>2. Types'
    BY <1>1 DEF IInv, Types, Steps
  <1>3. \A p \in Plls : power'[p]
    BY <1>1, Zenon
  <1>4. Underway'
    BY <1>1, <1>3 DEF Underway
  <1>5. CpuFed' /\ BusFed'
    BY <1>1 DEF IInv, CpuFed, BusFed
  <1> QED
    BY <1>2, <1>4, <1>5 DEF IInv

\* The calls that take no time leave pc at "idle": only the CPU's clock and the buses are
\* at stake.
LEMMA SimpleUnderway == ASSUME Simple PROVE Underway'
  BY DEF Simple, Idle, Underway

LEMMA SimpleTypes ==
    ASSUME Types, Simple
    PROVE  pc' \in Steps /\ call'.plls \subseteq Plls
  BY DEF Types, Simple, NoCall

LEMMA PllCallsKeep ==
    ASSUME IInv, NEW p \in Plls,
           PllEnable(p) \/ OutputEnable(p) \/ OutputDisable(p)
    PROVE  IInv'
  <1>1. Simple /\ UNCHANGED <<aclk, gates>>
    BY DEF PllEnable, OutputEnable, OutputDisable, other
  <1>2. Underway' /\ BusFed'
    BY <1>1, SimpleUnderway DEF IInv, BusFed
  <1>3. Types'
    BY <1>1, SimpleTypes DEF IInv, Types, PllEnable, OutputEnable, OutputDisable
  <1>4. CpuFed'
    <2>1. CASE PllEnable(p)
      BY <2>1 DEF IInv, Types, CpuFed, Sound, PllEnable, Plls
    <2>2. CASE OutputEnable(p)
      BY <2>2 DEF IInv, Types, CpuFed, Sound, OutputEnable, Plls
    <2>3. CASE OutputDisable(p)
      BY <2>3 DEF IInv, Types, CpuFed, Sound, OutputDisable, Plls
    <2> QED
      BY <2>1, <2>2, <2>3
  <1> QED
    BY <1>2, <1>3, <1>4 DEF IInv

LEMMA GatesKeep ==
    ASSUME IInv, NEW clock, ClockEnable(clock) \/ ClockDisable(clock)
    PROVE  IInv'
  <1>1. Simple /\ UNCHANGED <<power, out, bypass, lock, aclk>>
    BY DEF ClockEnable, ClockDisable, regs
  <1>2. Types' /\ Underway' /\ CpuFed'
    BY <1>1, SimpleTypes, SimpleUnderway DEF IInv, Types, CpuFed, Sound
  <1>3. BusFed'
    <2>1. CASE ClockEnable(clock)
      <3> SUFFICES ASSUME NEW d \in gates', NEW b \in BusOf(d) PROVE b \in gates'
        BY DEF BusFed
      <3>1. gates' = gates \cup BusOf(clock) \cup {clock}
        BY <2>1 DEF ClockEnable
      <3>2. CASE d \in gates
        BY <3>1, <3>2 DEF IInv, BusFed
      <3>3. CASE d \in BusOf(clock)
        BY <3>3, BusOfBus
      <3>4. CASE d = clock
        BY <3>1, <3>4
      <3> QED
        BY <3>1, <3>2, <3>3, <3>4
    <2>2. CASE ClockDisable(clock)
      BY <2>2 DEF ClockDisable, IInv, BusFed
    <2> QED
      BY <2>1, <2>2
  <1> QED
    BY <1>2, <1>3 DEF IInv

LEMMA ChoicesKeep ==
    ASSUME IInv, NEW value \in 0 .. 3, (value \in {0, 1} /\ SelectAclk(value)) \/ SelectPll2(value)
    PROVE  IInv'
  <1>1. Simple /\ UNCHANGED <<power, out, bypass, gates>>
    BY DEF SelectAclk, SelectPll2, regs, other
  <1>2. Underway' /\ BusFed'
    BY <1>1, SimpleUnderway DEF IInv, BusFed
  <1>3. Types'
    BY <1>1, SimpleTypes DEF IInv, Types, SelectAclk, SelectPll2
  <1>4. CpuFed'
    <2>1. CASE SelectAclk(value)
      BY <1>1, <2>1, ZeroFed DEF SelectAclk, CpuFed, Sound
    <2>2. CASE SelectPll2(value)
      BY <1>1, <2>2 DEF SelectPll2, IInv, Types, CpuFed, Sound, Plls
    <2> QED
      BY <2>1, <2>2
  <1> QED
    BY <1>2, <1>3, <1>4 DEF IInv

LEMMA SelectBypassKeeps ==
    ASSUME IInv, NEW p \in Plls, NEW value \in {0, 1}, SelectBypass(p, value)
    PROVE  IInv'
  <1>1. PICK on \in BOOLEAN : on = (value = 1)
    OBVIOUS
  <1>2. /\ Simple /\ UNCHANGED <<power, out, lock, aclk, gates>>
        /\ bypass' = [bypass EXCEPT ![p] = on]
    BY <1>1 DEF SelectBypass, other
  <1>3. p = 0 /\ aclk = 1 => on \/ (power[0] /\ lock[0] = {0, 1})
    BY <1>1 DEF SelectBypass
  <1>4. Types' /\ Underway' /\ BusFed'
    BY <1>2, SimpleTypes, SimpleUnderway DEF IInv, Types, BusFed
  <1>5. CpuFed'
    BY <1>2, <1>3 DEF IInv, Types, CpuFed, Sound, Plls
  <1> QED
    BY <1>4, <1>5 DEF IInv

LEMMA SetThresholdKeeps ==
    ASSUME IInv, NEW which, NEW value, SetThreshold(which, value)
    PROVE  IInv'
  <1>1. Simple /\ UNCHANGED <<power, out, bypass, lock, aclk, gates>>
    BY DEF SetThreshold, regs
  <1> QED
    BY <1>1, SimpleTypes, SimpleUnderway DEF IInv, Types, CpuFed, Sound, BusFed

LEMMA ResetSocKeeps ==
    ASSUME IInv, ResetSoc
    PROVE  IInv'
  <1>1. Types'
    BY SimpleTypes DEF ResetSoc, IInv, Types
  <1>2. Underway' /\ CpuFed' /\ BusFed'
    BY SimpleUnderway DEF ResetSoc, CpuFed, BusFed
  <1> QED
    BY <1>1, <1>2 DEF IInv

LEMMA RaiseLockKeeps ==
    ASSUME IInv, NEW p \in Plls, NEW bit \in {0, 1}, RaiseLock(p, bit)
    PROVE  IInv'
  <1>1. /\ lock' = [lock EXCEPT ![p] = @ \cup {bit}]
        /\ UNCHANGED <<pc, call, power, out, bypass, aclk, gates>>
    BY DEF RaiseLock, regs, other
  <1>2. Types'
    BY <1>1 DEF IInv, Types
  <1>3. lock[0] = {0, 1} => lock'[0] = {0, 1}
    BY <1>1 DEF IInv, Types, Plls
  <1>4. Underway' /\ CpuFed' /\ BusFed'
    BY <1>1, <1>3 DEF IInv, Underway, CpuFed, Sound, BusFed
  <1> QED
    BY <1>2, <1>4 DEF IInv

LEMMA NextIInv == IInv /\ [Next]_vars => IInv'
  <1> SUFFICES ASSUME IInv, [Next]_vars PROVE IInv'
    OBVIOUS
  <1>1. ASSUME NEW p \in Plls, NEW freq, PllSetFreq(p, freq) PROVE IInv'
    BY <1>1, BeginKeeps DEF PllSetFreq
  <1>2. ASSUME NEW freq, CpuSetFreq(freq) PROVE IInv'
    <2>1. 0 \in Plls
      BY DEF Plls
    <2> QED
      BY <1>2, <2>1, BeginKeeps DEF CpuSetFreq
  <1>3. CASE FastEnable
    BY <1>3, FastEnableKeeps
  <1>4. ASSUME NEW value \in {0, 1}, SelectAclk(value) PROVE IInv'
    <2>1. value \in 0 .. 3
      OBVIOUS
    <2> QED
      BY <1>4, <2>1, ChoicesKeep
  <1>5. CASE Call
    BY <1>1, <1>2, <1>3, <1>4, <1>5, PllCallsKeep, PllDisableKeeps, GatesKeep,
       SetThresholdKeeps, ChoicesKeep, SelectBypassKeeps, ResetSocKeeps DEF Call
  <1>6. CASE Continue
    BY <1>6, ContinueKeeps
  <1>7. CASE Hardware
    BY <1>7, RaiseLockKeeps DEF Hardware
  <1>8. CASE UNCHANGED vars
    BY <1>8 DEF vars, regs, other, IInv, Types, Underway, CpuFed, Sound, BusFed
  <1> QED
    BY <1>5, <1>6, <1>7, <1>8 DEF Next

\* The inductive invariant of the clocks.
THEOREM SysctlInvariance == Spec => []IInv
  <1> QED
    BY InitIInv, NextIInv, PTL DEF Spec

\* The CPU has a clock at every step of every call, and a device that is on has its bus:
\* sysctl_pll_set_freq, sysctl_pll_disable, sysctl_clock_enable and their callers.
THEOREM NothingEverStarves == Spec => []NothingStarves
  <1>1. IInv => NothingStarves
    BY ZeroFed DEF IInv, CpuFed, BusFed, NothingStarves
  <1> QED
    BY <1>1, SysctlInvariance, PTL


-----------------------------------------------------------------------------
(***************************************************************************)
(* The search for the dividers, for every input frequency and every        *)
(* frequency that is asked for.  Its loop is a function that is defined by *)
(* itself: that there is one, and that its values come from rounds, is     *)
(* shown with the least number for which it would not be so.               *)
(***************************************************************************)

\* A set of numbers has a least one.
LEMMA LeastNumber ==
    ASSUME NEW T \in SUBSET Nat, T # {}
    PROVE  \E x \in T : \A y \in T : x <= y
<1> DEFINE R == OpToRel(<, Nat)
<1>1. IsWellFoundedOn(R, Nat)
  BY NatLessThanWellFounded
<1>2. ASSUME NEW x \in Nat, NEW y \in Nat, x < y
      PROVE  <<x, y>> \in R
  BY <1>2 DEF OpToRel
<1> HIDE DEF R
<1>3. PICK x \in T : \A y \in T : ~ (<<y, x>> \in R)
  BY <1>1, WFMin
<1>4. ASSUME NEW y \in T PROVE x <= y
  <2>1. ~(y < x)
    BY <1>2, <1>3
  <2>2. x \in Nat /\ y \in Nat
    OBVIOUS
  <2>3. QED
    BY <2>1, <2>2
<1>5. QED
  BY <1>4

LEMMA MaxIs ==
    ASSUME NEW bound \in Nat, NEW S \in SUBSET (0 .. bound), S # {}
    PROVE  Max(S) \in S /\ \A y \in S : y <= Max(S)
<1> DEFINE T == {d \in 0 .. bound : bound - d \in S}
<1>1. T \in SUBSET Nat /\ T # {}
  <2>1. PICK y \in S : TRUE
    OBVIOUS
  <2>2. bound - y \in 0 .. bound /\ bound - (bound - y) = y
    OBVIOUS
  <2>3. QED
    BY <2>1, <2>2
<1>2. PICK d \in T : \A e \in T : d <= e
  BY <1>1, LeastNumber
<1>3. \A y \in S : bound - y \in T
  OBVIOUS
<1>4. bound - d \in S /\ \A y \in S : bound - d >= y
  BY <1>2, <1>3
<1>5. Max(S) \in S /\ \A y \in S : Max(S) >= y
  BY <1>4 DEF Max
<1>6. QED
  BY <1>5


\* A round of the loop, given what the earlier ones found; and all of them.
Round(in, fout, best, nf) ==
    LET before == {n \in Rounds(in, fout) : n < nf}
    IN  Keep(IF before = {} THEN NotFound ELSE best[Max(before)], Dividers(in, fout, nf))
Loop(in, fout, k, best) ==
    best = [nf \in {n \in Rounds(in, fout) : n < k} |-> Round(in, fout, best, nf)]
Best(in, fout) == CHOOSE best : best = [nf \in Rounds(in, fout) |-> Round(in, fout, best, nf)]

LEMMA SearchIsLoop ==
    ASSUME NEW in, NEW fout
    PROVE  LET last == IF Rounds(in, fout) = {} THEN NotFound
                       ELSE Best(in, fout)[Max(Rounds(in, fout))]
           IN  Search(in, fout) = IF Less(last.err, Tolerance) THEN last ELSE NotFound
  BY DEF Search, Best, Round

\* The frequencies that the search gets.
Fractions == {f \in Nat \X Nat : f[1] > 0 /\ f[2] > 0}

LEMMA RoundsAre ==
    ASSUME NEW in \in Fractions, NEW fout \in Nat
    PROVE  Rounds(in, fout) \in SUBSET (0 .. 63)
<1> DEFINE a == in[1]
           c == in[2]
<1>1. a \in Nat \ {0} /\ c \in Nat \ {0}
  BY DEF Fractions
<1>2. PICK x \in Nat : x = fout * c
  BY <1>1
<1>3. x \div a \in Nat
  BY <1>1
<1>4. Rounds(in, fout) \subseteq x \div a .. 63
  BY <1>2 DEF Rounds, NfMax
<1> HIDE DEF a, c
<1>5. QED
  BY <1>3, <1>4

LEMMA BeforeIs ==
    ASSUME NEW in \in Fractions, NEW fout \in Nat, NEW nf \in Nat,
           {n \in Rounds(in, fout) : n < nf} # {}
    PROVE  /\ Max({n \in Rounds(in, fout) : n < nf}) \in Rounds(in, fout)
           /\ Max({n \in Rounds(in, fout) : n < nf}) < nf
<1> DEFINE S == {n \in Rounds(in, fout) : n < nf}
<1>1. S \in SUBSET (0 .. 63)
  BY RoundsAre
<1>2. Max(S) \in S
  BY <1>1, MaxIs
<1>3. QED
  BY <1>2

\* The loop can be run.
LEMMA LoopRuns ==
    ASSUME NEW in \in Fractions, NEW fout \in Nat
    PROVE  \A k \in Nat : \E best : Loop(in, fout, k, best)
<1> DEFINE R == Rounds(in, fout)
           Runs(k) == \E best : Loop(in, fout, k, best)
           T == {k \in Nat : ~Runs(k)}
<1>1. R \in SUBSET (0 .. 63)
  BY RoundsAre
<1>2. Runs(0)
  <2> DEFINE none == [nf \in {} |-> NotFound]
  <2>1. {n \in R : n < 0} = {}
    BY <1>1
  <2>2. Loop(in, fout, 0, none)
    BY <2>1 DEF Loop
  <2>3. QED
    BY <2>2
<1>3. ASSUME NEW k \in Nat, Runs(k)
      PROVE  Runs(k + 1)
  <2>1. PICK b : Loop(in, fout, k, b)
    BY <1>3
  <2> DEFINE c == [nf \in {n \in R : n < k + 1} |-> Round(in, fout, b, nf)]
  <2>2. \A n \in R : n < k => b[n] = c[n]
    BY <1>1, <2>1 DEF Loop
  <2>3. ASSUME NEW nf \in R, nf < k + 1
        PROVE  Round(in, fout, b, nf) = Round(in, fout, c, nf)
    <3> DEFINE before == {n \in R : n < nf}
    <3>1. CASE before = {}
      BY <3>1 DEF Round
    <3>2. CASE before # {}
      <4>1. nf \in Nat /\ Max(before) \in R /\ Max(before) < nf
        BY <1>1, <3>2, BeforeIs
      <4>2. Max(before) < k
        BY <1>1, <2>3, <4>1
      <4>3. b[Max(before)] = c[Max(before)]
        BY <2>2, <4>1, <4>2
      <4> HIDE DEF c
      <4>4. QED
        BY <4>3 DEF Round
    <3>3. QED
      BY <3>1, <3>2
  <2>4. Loop(in, fout, k + 1, c)
    <3>1. \A nf \in {n \in R : n < k + 1} : Round(in, fout, b, nf) = Round(in, fout, c, nf)
      BY <2>3
    <3>2. c = [nf \in {n \in R : n < k + 1} |-> Round(in, fout, c, nf)]
      BY <3>1
    <3> HIDE DEF c
    <3>3. QED
      BY <3>2 DEF Loop
  <2>5. QED
    BY <2>4
<1> HIDE DEF Runs
<1>4. CASE T # {}
  <2>1. PICK x \in T : \A y \in T : x <= y
    BY <1>4, LeastNumber
  <2>2. x \in Nat /\ x # 0 /\ ~Runs(x)
    BY <1>2
  <2>3. x - 1 \in Nat /\ ~(x <= x - 1) /\ (x - 1) + 1 = x
    BY <2>2
  <2>4. Runs(x - 1)
    BY <2>1, <2>3
  <2>5. QED
    BY <1>3, <2>2, <2>3, <2>4
<1>5. CASE T = {}
  <2>1. \A k \in Nat : Runs(k)
    BY <1>5
  <2>2. QED
    BY <2>1 DEF Runs
<1>6. QED
  BY <1>4, <1>5

LEMMA BestIs ==
    ASSUME NEW in \in Fractions, NEW fout \in Nat, NEW nf \in Rounds(in, fout)
    PROVE  Best(in, fout)[nf] = Round(in, fout, Best(in, fout), nf)
<1>1. PICK b : Loop(in, fout, 64, b)
  BY LoopRuns
<1>2. {n \in Rounds(in, fout) : n < 64} = Rounds(in, fout)
  BY RoundsAre
<1>3. b = [n \in Rounds(in, fout) |-> Round(in, fout, b, n)]
  BY <1>1, <1>2 DEF Loop
<1>4. Best(in, fout) = [n \in Rounds(in, fout) |-> Round(in, fout, Best(in, fout), n)]
  BY <1>3 DEF Best
<1>5. QED
  BY <1>4

\* What the search gives is what one of its rounds made, or nothing.
Made(in, fout) == {NotFound} \cup {Dividers(in, fout, nf) : nf \in Rounds(in, fout)}

LEMMA BestIsMade ==
    ASSUME NEW in \in Fractions, NEW fout \in Nat
    PROVE  \A nf \in Rounds(in, fout) : Best(in, fout)[nf] \in Made(in, fout)
<1> DEFINE R == Rounds(in, fout)
           best == Best(in, fout)
           T == {nf \in R : best[nf] \notin Made(in, fout)}
<1>1. R \in SUBSET (0 .. 63)
  BY RoundsAre
<1>2. SUFFICES ASSUME T # {} PROVE FALSE
  OBVIOUS
<1>3. PICK x \in T : \A y \in T : x <= y
  <2>1. T \in SUBSET Nat
    BY <1>1
  <2>2. QED
    BY <1>2, <2>1, LeastNumber
<1>4. \A y \in R : y < x => best[y] \in Made(in, fout)
  BY <1>1, <1>3
<1> DEFINE before == {n \in R : n < x}
           last == IF before = {} THEN NotFound ELSE best[Max(before)]
<1>5. last \in Made(in, fout)
  <2>1. CASE before = {}
    BY <2>1 DEF Made
  <2>2. CASE before # {}
    <3>1. x \in Nat
      BY <1>1
    <3>2. Max(before) \in R /\ Max(before) < x
      BY <2>2, <3>1, BeforeIs
    <3>3. QED
      BY <1>4, <2>2, <3>2
  <2>3. QED
    BY <2>1, <2>2
<1>6. Dividers(in, fout, x) \in Made(in, fout)
  BY DEF Made
<1>7. best[x] = Keep(last, Dividers(in, fout, x))
  BY BestIs DEF Round
<1> HIDE DEF last, before, best
<1>8. best[x] \in {last, Dividers(in, fout, x)}
  BY <1>7 DEF Keep
<1>9. QED
  BY <1>5, <1>6, <1>8

LEMMA SearchIsMade ==
    ASSUME NEW in \in Fractions, NEW fout \in Nat
    PROVE  Search(in, fout) \in Made(in, fout)
<1> DEFINE R == Rounds(in, fout)
           last == IF R = {} THEN NotFound ELSE Best(in, fout)[Max(R)]
<1>1. NotFound \in Made(in, fout)
  BY DEF Made
<1>2. R \in SUBSET (0 .. 63)
  BY RoundsAre
<1>3. R # {} => Max(R) \in R
  BY <1>2, MaxIs
<1>4. last \in Made(in, fout)
  BY <1>1, <1>3, BestIsMade
<1>5. Search(in, fout) \in {last, NotFound}
  BY SearchIsLoop
<1> HIDE DEF last
<1>6. QED
  BY <1>1, <1>4, <1>5


-----------------------------------------------------------------------------
(***************************************************************************)
(* The dividers of a round: that a factor moves from nr to od, and that nf *)
(* and od are multiplied, leaves the error as it is.                       *)
(***************************************************************************)

\* Multiplication, for the prover.
LEMMA TimesAssoc == \A x, y, z \in Int : x * (y * z) = (x * y) * z
  OBVIOUS
LEMMA TimesSwap == \A x, y \in Int : x * y = y * x
  OBVIOUS
LEMMA TimesMonotone == \A x, y, k \in Int : k > 0 /\ x <= y => x * k <= y * k
  OBVIOUS

\* That a frequency f is as asked, without fractions.
Absolute(x) == IF x < 0 THEN -x ELSE x
LEMMA NearIs ==
    ASSUME NEW f \in Int \X Int, NEW freq \in Int
    PROVE  Near(f, freq) <=> 64 * Absolute(f[1] - freq * f[2]) <= freq * f[2]
  BY DEF Near, Less, Tolerance, Absolute

\* The error of a round does not change when both of its numbers are multiplied.
LEMMA ScaledNear ==
    ASSUME NEW m \in Int, NEW n \in Int, NEW k \in Nat \ {0}, 64 * Absolute(m - n) <= m
    PROVE  64 * Absolute(n * k - m * k) <= m * k
<1>1. n * k - m * k = (n - m) * k
  OBVIOUS
<1>2. PICK d \in Int : d = n - m
  OBVIOUS
<1>3. Absolute(d * k) = Absolute(d) * k
  <2>1. CASE d < 0
    <3>1. d * k < 0
      BY <2>1
    <3>2. QED
      BY <2>1, <3>1 DEF Absolute
  <2>2. CASE d >= 0
    <3>1. d * k >= 0
      BY <2>2
    <3>2. QED
      BY <2>2, <3>1 DEF Absolute
  <2>3. QED
    BY <2>1, <2>2
<1>4. Absolute(m - n) = Absolute(d) /\ Absolute(d) \in Int
  BY <1>2 DEF Absolute
<1>5. 64 * Absolute(d) <= m
  BY <1>4
<1>6. (64 * Absolute(d)) * k <= m * k
  BY <1>4, <1>5, TimesMonotone
<1>7. 64 * (Absolute(d) * k) <= m * k
  BY <1>4, <1>6, TimesAssoc
<1>8. QED
  BY <1>1, <1>2, <1>3, <1>7

\* In a round the error is small, and a factor of nr is moved at most.
LEMMA RoundIs ==
    ASSUME NEW in \in Fractions, NEW fout \in Nat \ {0}, NEW nf \in Rounds(in, fout)
    PROVE  \E nr \in Nat \ {0}, s \in {Dividers(in, fout, nf)} :
             /\ nf \in 1 .. 63
             /\ s.by \in Nat \ {0}
             /\ s.nf = nf * s.by /\ s.nr * s.od = nr * s.by
             /\ s.nr \in 1 .. NrMax /\ s.nf \in 1 .. NfMax /\ s.od \in 1 .. OdMax
             /\ 64 * Absolute(nr * fout * in[2] - nf * in[1]) <= nr * fout * in[2]
<1> DEFINE a == in[1]
           c == in[2]
           nr == Rint(nf * a, fout * c)
           s == Dividers(in, fout, nf)
           not == VcoMax \div fout
           top == Least(not, OdMax)
           S == {1} \cup {n \in 2 .. top : nr % n = 0}
           no == Max(S)
           nor == Least(top \div no, NfMax \div nf)
           noe == (VcoMin + fout - 1) \div fout
           raise == /\ no * nor < not \div 2 \/ no * nor < noe
                    /\ no * nor < NfMax \div nf
           more == Least(NfMax \div nf, top)
           err == <<Absolute(nr * fout * c - nf * a), nr * fout * c>>
<1>1. a \in Nat \ {0} /\ c \in Nat \ {0}
  BY DEF Fractions
<1>2. nf \in 0 .. 63
  BY RoundsAre
<1>3. fout * c \in Nat \ {0} /\ nf * a \in Nat
  BY <1>1, <1>2
<1>4. nr \in Nat
  <2>1. ASSUME NEW x \in Nat, NEW y \in Nat \ {0} PROVE Rint(x, y) \in Nat
    BY <2>1 DEF Rint
  <2> HIDE DEF a, c
  <2>2. QED
    BY <1>3, <2>1
<1>5. /\ nr >= 1 /\ fout <= VcoMax
      /\ ~Less(Tolerance, s.err)
      /\ Feasible(in, s)
  BY DEF Rounds
<1>6. s = IF raise
            THEN [nr |-> nr, nf |-> nf * more, od |-> more, err |-> err, by |-> more]
            ELSE [nr |-> nr \div no, nf |-> nf * nor, od |-> no * nor, err |-> err, by |-> nor]
  BY DEF Dividers, Absolute
<1>7. nf # 0
  <2>1. ASSUME NEW y \in Nat \ {0} PROVE Rint(0, y) = 0
    BY <2>1 DEF Rint
  <2>2. nf = 0 => nf * a = 0
    BY <1>1
  <2> HIDE DEF a, c
  <2>3. nf = 0 => nr = 0
    BY <1>3, <2>1, <2>2
  <2> HIDE DEF nr
  <2>4. QED
    BY <1>4, <1>5, <2>3
<1>8. s.nr \in 1 .. NrMax /\ s.nf \in 1 .. NfMax /\ s.od \in 1 .. OdMax
  BY <1>5 DEF Feasible
<1>9. s.err = err
  <2> HIDE DEF raise, err, no, nor, more, nr, s
  <2>1. QED
    BY <1>6
<1>10. 64 * Absolute(nr * fout * c - nf * a) <= nr * fout * c
  <2>1. PICK m \in Int : m = nr * fout * c
    BY <1>1, <1>4
  <2>2. PICK d \in Int : d = Absolute(nr * fout * c - nf * a)
    BY <1>1, <1>2, <1>4 DEF Absolute
  <2> HIDE DEF a, c, nr, s
  <2>3. ~Less(Tolerance, <<d, m>>)
    BY <1>5, <1>9, <2>1, <2>2
  <2>4. 64 * d <= m
    BY <2>1, <2>2, <2>3 DEF Less, Tolerance
  <2>5. QED
    BY <2>1, <2>2, <2>4
<1>11. not \in Nat /\ top \in 0 .. 16
  BY DEF Least, OdMax, VcoMax
<1>12. no \in 1 .. 16 /\ nr % no = 0
  <2>1. S \in SUBSET (0 .. 16) /\ S # {}
    BY <1>11
  <2> HIDE DEF nr, top
  <2>2. no \in S
    BY <2>1, MaxIs
  <2> HIDE DEF S, no
  <2>3. no = 1 \/ (no \in 2 .. top /\ nr % no = 0)
    BY <2>2 DEF S
  <2>4. QED
    BY <1>4, <1>11, <2>3
<1>13. nor \in Int /\ more \in Int
  <2> HIDE DEF no, top
  <2>1. top \div no \in Int /\ NfMax \div nf \in Int
    BY <1>2, <1>7, <1>11, <1>12 DEF NfMax
  <2>2. QED
    BY <1>11, <2>1 DEF Least
<1> HIDE DEF a, c, not, top, S, no, nor, noe, err, more, s, nr
<1>14. CASE raise
  <2>1. s.nr = nr /\ s.nf = nf * more /\ s.od = more /\ s.by = more
    BY <1>6, <1>14
  <2>2. more \in Nat \ {0}
    BY <1>8, <2>1
  <2>3. QED
    BY <1>2, <1>4, <1>5, <1>7, <1>8, <1>10, <2>1, <2>2 DEF s, c, a
<1>15. CASE ~raise
  <2>1. s.nr = nr \div no /\ s.nf = nf * nor /\ s.od = no * nor /\ s.by = nor
    BY <1>6, <1>15
  <2>2. nor \in Nat \ {0}
    <3>1. nf * nor >= 1
      BY <1>8, <2>1
    <3>2. nor <= 0 => nf * nor <= 0
      BY <1>2, <1>13
    <3>3. QED
      BY <1>2, <1>13, <3>1, <3>2
  <2>3. PICK q \in Int : q = nr \div no
    BY <1>4, <1>12
  <2>4. nr = no * q
    BY <1>4, <1>12, <2>3
  <2>5. s.nr * s.od = nr * nor
    <3>1. q * (no * nor) = (no * q) * nor
      BY <1>12, <1>13, TimesAssoc, TimesSwap
    <3>2. QED
      BY <2>1, <2>3, <2>4, <3>1
  <2>6. QED
    BY <1>2, <1>4, <1>5, <1>7, <1>8, <1>10, <2>1, <2>2, <2>5 DEF s, c, a
<1>16. QED
  BY <1>14, <1>15

\* The dividers of a round are as asked.
LEMMA DividersAreNear ==
    ASSUME NEW in \in Fractions, NEW fout \in Nat \ {0}, NEW nf \in Rounds(in, fout),
           NEW s, s = Dividers(in, fout, nf)
    PROVE  Near(Output(in, s), fout)
<1> DEFINE a == in[1]
           c == in[2]
           k == s.by
<1>1. a \in Nat \ {0} /\ c \in Nat \ {0}
  BY DEF Fractions
<1>2. PICK nr \in Nat \ {0} :
        /\ nf \in 1 .. 63
        /\ k \in Nat \ {0}
        /\ s.nf = nf * k /\ s.nr * s.od = nr * k
        /\ s.nr \in 1 .. NrMax /\ s.nf \in 1 .. NfMax /\ s.od \in 1 .. OdMax
        /\ 64 * Absolute(nr * fout * c - nf * a) <= nr * fout * c
  BY RoundIs
<1> DEFINE m == nr * fout * c
           n == nf * a
           f == Output(in, s)
<1>3. m \in Int /\ n \in Int
  BY <1>1, <1>2
<1>4. f[1] = n * k
  <2>1. a * (nf * k) = (nf * a) * k
    BY <1>1, <1>2, TimesAssoc, TimesSwap
  <2>2. f[1] = a * s.nf
    BY DEF Output
  <2>3. QED
    BY <1>2, <2>1, <2>2
<1>5. f[2] = (c * s.nr) * s.od
  BY DEF Output
<1> HIDE DEF a, c, k, f
<1>6. fout * f[2] = m * k
  <2>1. s.nr \in Int /\ s.od \in Int
    BY <1>2
  <2>2. f[2] = c * (nr * k)
    <3>1. c * (s.nr * s.od) = (c * s.nr) * s.od
      BY <1>1, <2>1, TimesAssoc
    <3>2. QED
      BY <1>2, <1>5, <3>1
  <2>3. c * (nr * k) = (nr * c) * k
    BY <1>1, <1>2, TimesAssoc, TimesSwap
  <2>4. fout * ((nr * c) * k) = (fout * (nr * c)) * k
    BY <1>1, <1>2, TimesAssoc
  <2>5. fout * (nr * c) = nr * fout * c
    BY <1>1, <1>2, TimesAssoc, TimesSwap
  <2>6. QED
    BY <2>2, <2>3, <2>4, <2>5
<1>7. 64 * Absolute(n * k - m * k) <= m * k
  <2> HIDE DEF m, n
  <2>1. 64 * Absolute(m - n) <= m
    BY <1>2 DEF m, n
  <2>2. QED
    BY <1>2, <1>3, <2>1, ScaledNear
<1>8. f \in Int \X Int
  <2>1. s.nr \in Int /\ s.od \in Int /\ s.nf \in Int
    BY <1>2
  <2>2. f = <<a * s.nf, c * s.nr * s.od>>
    BY DEF f, Output, a, c
  <2>3. QED
    BY <1>1, <2>1, <2>2
<1>9. Near(f, fout)
  BY <1>4, <1>6, <1>7, <1>8, NearIs
<1>10. QED
  BY <1>9 DEF f

\* sysctl_pll_source_set_freq: what the search finds are dividers that fit the registers,
\* with the VCO and the reference in their ranges, and an output that is as asked.
THEOREM SearchFinds ==
    ASSUME NEW in \in Fractions, NEW fout \in Nat \ {0},
           Search(in, fout).od # 0
    PROVE  LET s == Search(in, fout)
               new == [nr |-> s.nr, nf |-> s.nf, od |-> s.od]
           IN  /\ new \in Dividers3
               /\ Feasible(in, new)
               /\ Near(Output(in, new), fout)
               /\ Output(in, new) \in Fractions
<1> DEFINE s == Search(in, fout)
           new == [nr |-> s.nr, nf |-> s.nf, od |-> s.od]
<1>1. PICK nf \in Rounds(in, fout) : s = Dividers(in, fout, nf)
  <2>1. s \in Made(in, fout)
    BY SearchIsMade
  <2>2. s # NotFound
    BY DEF NotFound
  <2>3. QED
    BY <2>1, <2>2 DEF Made
<1>2. Feasible(in, s)
  BY <1>1 DEF Rounds
<1>3. Near(Output(in, s), fout)
  BY <1>1, DividersAreNear
<1>4. new.nr = s.nr /\ new.nf = s.nf /\ new.od = s.od
  OBVIOUS
<1>5. s.nr \in 1 .. NrMax /\ s.nf \in 1 .. NfMax /\ s.od \in 1 .. OdMax
  BY <1>2 DEF Feasible
<1>6. new \in Dividers3
  BY <1>5 DEF Dividers3
<1> HIDE DEF new, s
<1>7. Feasible(in, new)
  BY <1>2, <1>4 DEF Feasible, Vco
<1>8. Output(in, new) = Output(in, s)
  BY <1>4 DEF Output
<1>9. Output(in, new) \in Fractions
  BY <1>4, <1>5 DEF Output, Fractions, NrMax, NfMax, OdMax
<1>10. QED
  BY <1>3, <1>6, <1>7, <1>8, <1>9 DEF new, s


-----------------------------------------------------------------------------
(***************************************************************************)
(* A call that sets a frequency                                            *)
(***************************************************************************)

\* The result of a call on p, and what it did.
Told(p) ==
    IF result[1] = 0
      THEN settings[p] = call.before
      ELSE /\ result = PllGetFreq(p)
           /\ Feasible(PllInput(p), settings[p])
           /\ Near(result, Asked)

Frequency == call.op \in {"pll", "cpu"}

\* A call that sets a frequency works on one PLL, whose input has a frequency.
WorksOn(p) ==
    /\ call.plls = {p}
    /\ call.freq \in Nat \ {0}
    /\ p = 2 => ckin < 3
    /\ call.op = "cpu" => p = 0
    /\ pc \in {"off", "set"} => settings[p] = call.before
    /\ pc \in {"on", "lock", "select"} => Told(p)

Working ==
    /\ pc \in {"off", "set", "on"} => Frequency
    /\ pc = "unpower" => ~Frequency
    /\ pc # "idle" /\ Frequency => \E p \in Plls : WorksOn(p)

ThresholdsAre == DOMAIN th = Thresholds \cup {"ACLK"}

FreqInv == TypeOK /\ ThresholdsAre /\ Working /\ SetAsAsked

-----------------------------------------------------------------------------

LEMMA WidthIs == \A which : Width(which) \in Nat \ {0}
  BY DEF Width

LEMMA BusOfIsBus == \A clock : BusOf(clock) \subseteq Buses
  BY DEF BusOf

LEMMA FieldIs ==
    ASSUME NEW which, NEW value \in Nat
    PROVE  Field(which, value) \in 0 .. Width(which) - 1
<1>1. PICK w \in Nat \ {0} : w = Width(which)
  BY WidthIs
<1>2. value % w \in 0 .. w - 1
  BY <1>1
<1>3. QED
  BY <1>1, <1>2 DEF Field

LEMMA ResetTypes ==
    ASSUME SysctlAssumption
    PROVE  /\ [p \in Plls |-> ResetDividers] \in [Plls -> Dividers3]
           /\ \A which \in DOMAIN NoThresholds : NoThresholds[which] \in 0 .. Width(which) - 1
           /\ DOMAIN NoThresholds = Thresholds \cup {"ACLK"}
<1>1. [p \in Plls |-> ResetDividers] \in [Plls -> Dividers3]
  BY SysctlAssumption
<1>2. \A which : 0 \in 0 .. Width(which) - 1
  BY WidthIs
<1>3. QED
  BY <1>1, <1>2 DEF NoThresholds

LEMMA FreqInit == Init => FreqInv
<1> SUFFICES ASSUME Init PROVE FreqInv
  OBVIOUS
<1>1. TypeOK
  BY SysctlAssumption, ResetTypes DEF Init, TypeOK
<1>2. ThresholdsAre
  BY SysctlAssumption, ResetTypes DEF Init, ThresholdsAre
<1>3. Working /\ SetAsAsked
  BY DEF Init, Working, SetAsAsked, Frequency, NoCall
<1>4. QED
  BY <1>1, <1>2, <1>3 DEF FreqInv

\* Calls that set no frequency.
LEMMA SimpleStep ==
    ASSUME FreqInv,
           \/ \E p \in Plls : PllEnable(p) \/ OutputEnable(p) \/ OutputDisable(p)
           \/ \E p \in Plls, value \in {0, 1} : SelectBypass(p, value)
           \/ \E clock \in Devices \cup Buses : ClockEnable(clock) \/ ClockDisable(clock)
           \/ \E which \in Thresholds \cup {"ACLK"}, value \in Values : SetThreshold(which, value)
           \/ \E value \in {0, 1} : SelectAclk(value)
           \/ \E value \in 0 .. 3 : SelectPll2(value)
           \/ ResetSoc
    PROVE  FreqInv'
<1> USE SysctlAssumption DEF FreqInv
<1>1. Simple
  BY DEF PllEnable, OutputEnable, OutputDisable, ClockEnable, ClockDisable,
         SetThreshold, SelectAclk, SelectBypass, SelectPll2, ResetSoc
<1>2. pc' = "idle" /\ call' = NoCall /\ calls' \in 0 .. MaxCalls
  BY <1>1 DEF Simple, Idle, TypeOK
<1>3. Working' /\ SetAsAsked'
  BY <1>2 DEF Working, SetAsAsked, Frequency, NoCall
<1>4. TypeOK' /\ ThresholdsAre'
  <2> USE <1>2
  <2>1. ASSUME NEW p \in Plls,
               \/ PllEnable(p) \/ OutputEnable(p) \/ OutputDisable(p)
               \/ \E value \in {0, 1} : SelectBypass(p, value)
        PROVE  TypeOK' /\ ThresholdsAre'
    <3>1. /\ UNCHANGED <<settings, ckin, aclk, gates, th>>
          /\ \/ UNCHANGED power \/ \E on \in BOOLEAN : power' = [power EXCEPT ![p] = on]
          /\ \/ UNCHANGED bypass \/ \E on \in BOOLEAN : bypass' = [bypass EXCEPT ![p] = on]
          /\ \/ UNCHANGED out \/ \E on \in BOOLEAN : out' = [out EXCEPT ![p] = on]
          /\ \/ UNCHANGED lock \/ lock' = [lock EXCEPT ![p] = {}]
      BY <2>1 DEF PllEnable, OutputEnable, OutputDisable, SelectBypass, other
    <3>2. QED
      BY <3>1 DEF TypeOK, ThresholdsAre
  <2>2. ASSUME NEW clock \in Devices \cup Buses, ClockEnable(clock) \/ ClockDisable(clock)
        PROVE  TypeOK' /\ ThresholdsAre'
    BY <2>2, BusOfIsBus DEF ClockEnable, ClockDisable, TypeOK, ThresholdsAre, regs
  <2>3. ASSUME NEW which \in Thresholds \cup {"ACLK"}, NEW value \in Values,
               SetThreshold(which, value)
        PROVE  TypeOK' /\ ThresholdsAre'
    <3>1. \A w \in DOMAIN th' : th'[w] \in 0 .. Width(w) - 1
      BY <2>3, FieldIs DEF SetThreshold, TypeOK
    <3>2. DOMAIN th' = DOMAIN th
      BY <2>3 DEF SetThreshold
    <3>3. QED
      BY <2>3, <3>1, <3>2 DEF SetThreshold, TypeOK, ThresholdsAre, regs
  <2>4. ASSUME NEW value \in {0, 1}, SelectAclk(value)
        PROVE  TypeOK' /\ ThresholdsAre'
    BY <2>4 DEF SelectAclk, TypeOK, ThresholdsAre, regs, other
  <2>5. ASSUME NEW value \in 0 .. 3, SelectPll2(value)
        PROVE  TypeOK' /\ ThresholdsAre'
    BY <2>5 DEF SelectPll2, TypeOK, ThresholdsAre, other
  <2>6. CASE ResetSoc
    BY <2>6, ResetTypes DEF ResetSoc, TypeOK, ThresholdsAre
  <2>7. QED
    BY <2>1, <2>2, <2>3, <2>4, <2>5, <2>6
<1>5. QED
  BY <1>3, <1>4

\* Neither step of sysctl_pll_disable sets a frequency.
LEMMA DisableStep ==
    ASSUME FreqInv, (\E p \in Plls : PllDisable(p)) \/ PowerOff
    PROVE  FreqInv'
<1> USE SysctlAssumption DEF FreqInv
<1>1. CASE \E p \in Plls : PllDisable(p)
  <2>1. PICK p \in Plls : PllDisable(p)
    BY <1>1
  <2>2. TypeOK' /\ ThresholdsAre'
    BY <2>1 DEF PllDisable, Disabling, Idle, TypeOK, ThresholdsAre, other
  <2>3. Working' /\ SetAsAsked'
    BY <2>1 DEF PllDisable, Disabling, Working, SetAsAsked, Frequency
  <2>4. QED
    BY <2>2, <2>3
<1>2. CASE PowerOff
  <2>1. /\ pc = "unpower" /\ pc' = "idle"
        /\ UNCHANGED <<call, result, settings, out, bypass, ckin, aclk, gates, th, calls>>
    BY <1>2 DEF PowerOff, other
  <2>2. power' \in [Plls -> BOOLEAN] /\ lock' \in [Plls -> SUBSET {0, 1}]
    BY <1>2 DEF PowerOff, TypeOK
  <2>3. TypeOK' /\ ThresholdsAre'
    BY <2>1, <2>2 DEF TypeOK, ThresholdsAre
  <2>4. ~Frequency'
    BY <2>1 DEF Working, Frequency
  <2>5. Working' /\ SetAsAsked'
    BY <2>1, <2>4 DEF Working, SetAsAsked, Frequency
  <2>6. QED
    BY <2>3, <2>5
<1>3. QED
  BY <1>1, <1>2

LEMMA FastEnableStep ==
    ASSUME FreqInv, FastEnable
    PROVE  FreqInv'
<1> USE SysctlAssumption DEF FreqInv, FastEnable
<1>1. call'.op = "fast" /\ pc' = "lock" /\ pc = "idle"
  BY DEF Idle
<1>2. settings' \in [Plls -> Dividers3]
  BY DEF Dividers3, NrMax, NfMax, OdMax
<1>3. TypeOK'
  BY <1>1, <1>2 DEF TypeOK, Idle, other
<1>4. ThresholdsAre'
  BY DEF ThresholdsAre, other
<1>5. Working' /\ SetAsAsked'
  BY <1>1 DEF Working, SetAsAsked, Frequency
<1>6. QED
  BY <1>3, <1>4, <1>5

-----------------------------------------------------------------------------
\* The steps of a call.

\* What a PLL is fed with has a frequency, or is off.
LEMMA InputIs ==
    ASSUME FreqInv, NEW p \in Plls, p = 2 => ckin < 3
    PROVE  PllInput(p) \in Fractions
<1>1. In0 \in Fractions
  BY DEF In0, Fractions
<1>2. ASSUME p = 2, ckin \in {1, 2} PROVE PllInput(p) \in Fractions
  <2>1. settings[ckin - 1] \in Dividers3
    BY <1>2 DEF FreqInv, TypeOK, Plls
  <2>2. Output(In0, settings[ckin - 1]) \in Fractions
    BY <2>1 DEF Output, In0, Fractions, Dividers3, NrMax, NfMax, OdMax
  <2>3. QED
    BY <1>2, <2>2 DEF PllInput
<1>3. QED
  BY <1>1, <1>2 DEF PllInput, FreqInv, TypeOK, Plls

\* It does not depend on its own settings.
LEMMA InputKept ==
    ASSUME NEW p \in Plls, p = 2 => ckin < 3, FreqInv, UNCHANGED ckin,
           NEW new, settings' = [settings EXCEPT ![p] = new]
    PROVE  PllInput(p)' = PllInput(p)
<1>1. p = 2 /\ ckin \in {1, 2} => settings'[ckin - 1] = settings[ckin - 1]
  BY DEF FreqInv, TypeOK, Plls
<1>2. ckin \in 0 .. 3
  BY DEF FreqInv, TypeOK
<1>3. QED
  BY <1>1, <1>2 DEF PllInput, Plls

LEMMA AskedIs ==
    ASSUME FreqInv, Frequency, call.freq \in Nat \ {0}
    PROVE  Asked \in Nat \ {0}
<1>1. th["ACLK"] \in Nat
  BY DEF FreqInv, TypeOK, ThresholdsAre, Width
<1>2. PICK t \in Nat, f \in Nat \ {0} : t = th["ACLK"] /\ f = call.freq
  BY <1>1
<1>3. (t + 1) * 2 * f \in Nat \ {0}
  OBVIOUS
<1>4. QED
  BY <1>2, <1>3 DEF Asked

LEMMA SourceSetFreqStep ==
    ASSUME FreqInv, SourceSetFreq
    PROVE  FreqInv'
<1> USE SysctlAssumption DEF FreqInv
<1>1. /\ pc = "set" /\ pc' = "on"
      /\ UNCHANGED <<call, power, out, bypass, ckin, lock, aclk, gates, th, calls>>
  BY DEF SourceSetFreq, other
<1>2. Frequency
  BY <1>1 DEF Working
<1>3. PICK p \in Plls : WorksOn(p)
  BY <1>1, <1>2 DEF Working
<1> DEFINE in == PllInput(p)
           s == IF in[1] = 0 THEN NotFound ELSE Search(in, Asked)
           new == [nr |-> s.nr, nf |-> s.nf, od |-> s.od]
<1>4. IF s.od = 0
        THEN result' = <<0, 1>> /\ UNCHANGED settings
        ELSE settings' = [settings EXCEPT ![p] = new] /\ result' = Output(in, new)
  BY <1>3 DEF SourceSetFreq, WorksOn
<1>5. in \in Fractions /\ in[1] # 0
  <2>1. in \in Fractions
    BY <1>3, InputIs DEF WorksOn
  <2>2. QED
    BY <2>1 DEF Fractions
<1>6. Asked \in Nat \ {0}
  BY <1>2, <1>3, AskedIs DEF WorksOn
<1>7. CASE s.od = 0
  <2>1. UNCHANGED settings /\ result'[1] = 0
    BY <1>4, <1>7
  <2>2. TypeOK' /\ ThresholdsAre'
    BY <1>1, <2>1 DEF TypeOK, ThresholdsAre
  <2>3. WorksOn(p)'
    BY <1>1, <1>3, <2>1 DEF WorksOn, Told
  <2>4. Working' /\ SetAsAsked'
    BY <1>1, <1>2, <2>3 DEF Working, Frequency, SetAsAsked
  <2>5. QED
    BY <2>2, <2>4
<1>8. CASE s.od # 0
  <2>1. settings' = [settings EXCEPT ![p] = new] /\ result' = Output(in, new)
    BY <1>4, <1>8
  <2>2. /\ new \in Dividers3 /\ Feasible(in, new)
        /\ Near(Output(in, new), Asked) /\ Output(in, new) \in Fractions
    BY <1>5, <1>6, <1>8, SearchFinds
  <2>3. in' = in
    BY <1>1, <1>3, <2>1, InputKept DEF WorksOn
  <2> HIDE DEF new, s, in
  <2>4. settings'[p] = new /\ settings' \in [Plls -> Dividers3]
    BY <2>1, <2>2 DEF TypeOK
  <2>5. TypeOK' /\ ThresholdsAre'
    BY <1>1, <2>4 DEF TypeOK, ThresholdsAre
  <2>6. result'[1] # 0
    BY <2>1, <2>2 DEF Fractions
  <2>7. PllInput(p)' = in
    BY <2>3 DEF in
  <2>8. result' = PllGetFreq(p)'
    BY <2>1, <2>4, <2>7 DEF PllGetFreq
  <2>9. Asked' = Asked
    BY <1>1 DEF Asked
  <2>10. Near(result, Asked)'
    BY <2>1, <2>2, <2>9 DEF Near
  <2>11. Feasible(PllInput(p), settings[p])'
    BY <2>2, <2>4, <2>7 DEF Feasible
  <2>12. WorksOn(p)'
    BY <1>1, <1>3, <2>6, <2>8, <2>10, <2>11 DEF WorksOn, Told
  <2>13. Working' /\ SetAsAsked'
    BY <1>1, <1>2, <2>12 DEF Working, Frequency, SetAsAsked
  <2>14. QED
    BY <2>5, <2>13
<1>9. QED
  BY <1>7, <1>8

LEMMA BeginStep ==
    ASSUME FreqInv, NEW p \in Plls, NEW freq \in Freqs,
           PllSetFreq(p, freq) \/ (p = 0 /\ CpuSetFreq(freq))
    PROVE  FreqInv'
<1> USE SysctlAssumption DEF FreqInv
<1>1. PICK op \in {"pll", "cpu"}, given \in Nat :
        /\ Begin(op, p, freq, given)
        /\ given = 0 <=> freq = 0
        /\ op = "cpu" => p = 0
  <2>1. CASE PllSetFreq(p, freq)
    BY <2>1 DEF PllSetFreq
  <2>2. CASE p = 0 /\ CpuSetFreq(freq)
    <3>1. th["ACLK"] \in Nat
      BY DEF TypeOK, ThresholdsAre, Width
    <3>2. PICK t \in Nat : t = th["ACLK"]
      BY <3>1
    <3>3. (t + 1) * 2 * freq \in Nat /\ ((t + 1) * 2 * freq = 0 <=> freq = 0)
      OBVIOUS
    <3>4. QED
      BY <2>2, <3>2, <3>3 DEF CpuSetFreq
  <2>3. QED
    BY <2>1, <2>2
<1>2. /\ pc = "idle" /\ Fed(p) /\ calls' \in 0 .. MaxCalls
      /\ call' = [op |-> op, plls |-> {p}, freq |-> freq, before |-> settings[p]]
      /\ IF given = 0 THEN UNCHANGED <<pc, aclk>>
                      ELSE pc' = "off" /\ aclk' = IF p = 0 THEN 0 ELSE aclk
      /\ UNCHANGED <<settings, power, out, bypass, ckin, lock, gates, th>>
  BY <1>1 DEF Begin, Idle, TypeOK, regs, other
<1>3. TypeOK' /\ ThresholdsAre'
  BY <1>2 DEF TypeOK, ThresholdsAre
<1>4. CASE freq = 0
  <2>1. pc' = "idle" /\ call'.freq = 0
    BY <1>1, <1>2, <1>4
  <2>2. Working' /\ SetAsAsked'
    BY <2>1 DEF Working, SetAsAsked
  <2>3. QED
    BY <1>3, <2>2
<1>5. CASE freq # 0
  <2>1. pc' = "off" /\ call'.op = op /\ call'.plls = {p} /\ call'.freq = freq
        /\ call'.before = settings[p]
    BY <1>1, <1>2, <1>5
  <2>2. p = 2 => ckin < 3
    BY <1>2 DEF Fed, TypeOK
  <2>3. WorksOn(p)'
    BY <1>1, <1>2, <1>5, <2>1, <2>2 DEF WorksOn
  <2>4. Working' /\ SetAsAsked'
    BY <2>1, <2>3 DEF Working, Frequency, SetAsAsked
  <2>5. QED
    BY <1>3, <2>4
<1>6. QED
  BY <1>4, <1>5

\* What a call has done stays done until the next call.
LEMMA ToldKept ==
    ASSUME NEW p, Told(p), UNCHANGED <<call, result, settings, ckin, th>>
    PROVE  Told(p)'
<1>1. PllInput(p)' = PllInput(p) /\ PllGetFreq(p)' = PllGetFreq(p) /\ Asked' = Asked
  BY DEF PllInput, PllGetFreq, Asked
<1>2. QED
  BY <1>1 DEF Told, Feasible, Near

LEMMA StepsKeepWorking ==
    ASSUME FreqInv, UNCHANGED <<call, result, settings, ckin, th>>,
           \/ pc = "off" /\ pc' = "set"
           \/ pc = "on" /\ pc' = "lock"
           \/ pc = "lock" /\ pc' = "select"
           \/ pc' = pc
    PROVE  Working'
<1>1. pc' \in {"off", "set", "on"} => Frequency'
  BY DEF FreqInv, Working, Frequency
<1>2. ASSUME pc' # "idle", Frequency'
      PROVE  \E p \in Plls : WorksOn(p)'
  <2>1. PICK p \in Plls : WorksOn(p)
    BY <1>2 DEF FreqInv, Working, Frequency
  <2>2. pc' \in {"on", "lock", "select"} => Told(p)'
    BY <2>1, ToldKept DEF WorksOn
  <2>3. WorksOn(p)'
    BY <2>1, <2>2 DEF WorksOn
  <2>4. QED
    BY <2>3
<1>3. pc' = "unpower" => ~Frequency'
  BY DEF FreqInv, Working, Frequency
<1>4. QED
  BY <1>1, <1>2, <1>3 DEF Working, Frequency

LEMMA PowerStep ==
    ASSUME FreqInv, TurnOff \/ TurnOn \/ AwaitLock
    PROVE  FreqInv'
<1> USE DEF FreqInv
<1>1. UNCHANGED <<call, result, settings, ckin, th, bypass, aclk, gates, calls>>
  BY DEF TurnOff, TurnOn, AwaitLock, other
<1>2. \/ pc = "off" /\ pc' = "set"
      \/ pc = "on" /\ pc' = "lock"
      \/ pc = "lock" /\ pc' = "select"
  BY DEF TurnOff, TurnOn, AwaitLock
<1>3. Working' /\ SetAsAsked'
  BY <1>1, <1>2, StepsKeepWorking DEF SetAsAsked
<1>4. /\ power' \in [Plls -> BOOLEAN] /\ out' \in [Plls -> BOOLEAN]
      /\ lock' \in [Plls -> SUBSET {0, 1}]
  <2>1. CASE TurnOff
    BY <2>1 DEF TurnOff, TypeOK
  <2>2. CASE TurnOn
    BY <2>2 DEF TurnOn, TypeOK
  <2>3. CASE AwaitLock
    BY <2>3 DEF AwaitLock, TypeOK
  <2>4. QED
    BY <2>1, <2>2, <2>3
<1>5. TypeOK' /\ ThresholdsAre'
  BY <1>1, <1>2, <1>4 DEF TypeOK, ThresholdsAre
<1>6. QED
  BY <1>3, <1>5

\* (sel + 1) * 2 and 2 << sel are the same for the first two values of aclk_divider_sel.
LEMMA CpuIsNear ==
    ASSUME NEW f \in Fractions, NEW t \in {0, 1}, NEW freq \in Nat,
           Near(f, (t + 1) * 2 * freq)
    PROVE  Near(Divide(f, 2 * 2^t), freq)
<1>1. PICK k \in {2, 4} : k = (t + 1) * 2 /\ k = 2 * 2^t
  <2>1. CASE t = 0
    BY <2>1
  <2>2. CASE t = 1
    BY <2>2
  <2>3. QED
    BY <2>1, <2>2
<1>2. f[1] \in Nat /\ f[2] \in Nat
  BY DEF Fractions
<1>3. (k * freq) * f[2] = freq * (f[2] * k)
  BY <1>2
<1>4. f \in Int \X Int /\ <<f[1], f[2] * k>> \in Int \X Int
  BY <1>2 DEF Fractions
<1>5. Near(f, k * freq)
  BY <1>1
<1>6. 64 * Absolute(f[1] - (k * freq) * f[2]) <= (k * freq) * f[2]
  BY <1>4, <1>5, NearIs
<1>7. Near(<<f[1], f[2] * k>>, freq)
  BY <1>3, <1>4, <1>6, NearIs
<1>8. QED
  BY <1>1, <1>7 DEF Divide

LEMMA SelectStep ==
    ASSUME FreqInv, Select
    PROVE  FreqInv'
<1> USE SysctlAssumption DEF FreqInv
<1>1. /\ pc = "select" /\ pc' = "idle"
      /\ UNCHANGED <<call, result, settings, power, out, bypass, ckin, lock, gates, th, calls>>
      /\ aclk' = IF 0 \in call.plls THEN 1 ELSE aclk
  BY DEF Select, regs, other
<1>2. TypeOK' /\ ThresholdsAre'
  BY <1>1 DEF TypeOK, ThresholdsAre
<1>3. Working'
  BY <1>1 DEF Working
<1>4. ASSUME Frequency
      PROVE  SetAsAsked'
  <2>1. PICK p \in Plls : WorksOn(p)
    BY <1>1, <1>4 DEF Working
  <2>2. Told(p)'
    BY <1>1, <2>1, ToldKept DEF WorksOn
  <2>3. CASE result'[1] = 0
    BY <1>1, <2>1, <2>2, <2>3 DEF SetAsAsked, WorksOn, Told
  <2>4. CASE result'[1] # 0
    <3>1. result' = PllGetFreq(p)' /\ Feasible(PllInput(p), settings[p])' /\ Near(result, Asked)'
      BY <2>2, <2>4 DEF Told
    <3>2. Equals(result, PllGetFreq(p))'
      BY <3>1 DEF Equals
    <3>3. ~BehindBypass(p)' => Equals(result, PllClock(p))' /\ Feasible(InputClock(p), settings[p])'
      <4>1. ckin' \in 0 .. 3
        BY <1>2 DEF TypeOK
      <4>2. ~BehindBypass(p)' => InputClock(p)' = PllInput(p)' /\ ~bypass'[p]
        BY <4>1 DEF BehindBypass, InputClock, PllInput, Passed, Plls
      <4>3. ~BehindBypass(p)' => PllClock(p)' = PllGetFreq(p)'
        BY <4>2 DEF PllClock, PllGetFreq, Passed
      <4>4. QED
        BY <3>1, <3>2, <4>2, <4>3 DEF Feasible
    <3>4. ASSUME call'.op = "cpu"
          PROVE  /\ Equals(CpuClock, CpuDivided(IF bypass[0] THEN In0 ELSE result))'
                 /\ ~bypass'[0] /\ th'["ACLK"] <= 1 => Near(CpuClock, call.freq)'
      <4>1. p = 0 /\ aclk' = 1
        BY <1>1, <2>1, <3>4 DEF WorksOn
      <4>2. /\ PllGetFreq(0)' = Output(In0, settings'[0])
            /\ CpuClock' = CpuDivided(IF bypass[0] THEN In0 ELSE PllGetFreq(0))'
        BY <4>1 DEF PllGetFreq, PllInput, CpuClock, PllClock, InputClock, Passed, CpuDivided
      <4>3. CpuClock' = CpuDivided(IF bypass[0] THEN In0 ELSE result)'
        BY <3>1, <4>1, <4>2 DEF CpuDivided
      <4>4. Equals(CpuClock, CpuDivided(IF bypass[0] THEN In0 ELSE result))'
        BY <4>3 DEF Equals
      <4>5. ASSUME ~bypass'[0], th'["ACLK"] <= 1
            PROVE  Near(CpuClock, call.freq)'
        <5>1. PllGetFreq(0)' \in Fractions
          <6>1. settings'[0] \in Dividers3
            BY <1>2 DEF TypeOK, Plls
          <6>2. Output(In0, settings'[0]) \in Fractions
            BY <6>1 DEF Output, In0, Fractions, Dividers3, NrMax, NfMax, OdMax
          <6>3. QED
            BY <4>2, <6>2
        <5>2. PICK t \in {0, 1} : t = th'["ACLK"]
          BY <1>2, <4>5 DEF TypeOK, ThresholdsAre, Width
        <5>3. PICK freq \in Nat : freq = call'.freq
          BY <1>1, <2>1 DEF WorksOn
        <5>4. Near(PllGetFreq(0)', (t + 1) * 2 * freq)
          BY <3>1, <3>4, <4>1, <5>2, <5>3 DEF Asked, Near
        <5>5. Near(Divide(PllGetFreq(0)', 2 * 2^t), freq)
          BY <5>1, <5>4, CpuIsNear
        <5>6. CpuClock' = Divide(PllGetFreq(0)', 2 * 2^t)
          BY <4>2, <4>5, <5>2 DEF CpuDivided
        <5>7. QED
          BY <5>3, <5>5, <5>6 DEF Near
      <4>6. QED
        BY <4>4, <4>5
    <3>5. QED
      BY <1>1, <2>1, <2>4, <3>1, <3>2, <3>3, <3>4 DEF SetAsAsked, WorksOn
  <2>5. QED
    BY <2>3, <2>4
<1>5. ASSUME ~Frequency
      PROVE  SetAsAsked'
  BY <1>1, <1>5 DEF SetAsAsked, Frequency
<1>6. QED
  BY <1>2, <1>3, <1>4, <1>5

LEMMA StutterStep ==
    ASSUME FreqInv, Hardware \/ UNCHANGED vars
    PROVE  FreqInv'
<1> USE DEF FreqInv
<1>1. UNCHANGED <<pc, call, result, settings, power, out, bypass, ckin, aclk, gates, th, calls>>
  BY DEF Hardware, RaiseLock, vars, regs, other
<1>2. lock' \in [Plls -> SUBSET {0, 1}]
  BY DEF Hardware, RaiseLock, vars, TypeOK
<1>3. TypeOK' /\ ThresholdsAre'
  BY <1>1, <1>2 DEF TypeOK, ThresholdsAre
<1>4. Working'
  BY <1>1, StepsKeepWorking
<1>5. SetAsAsked'
  <2>1. /\ CpuClock' = CpuClock /\ Asked' = Asked
        /\ \A f : CpuDivided(f)' = CpuDivided(f)
        /\ \A p : /\ PllGetFreq(p)' = PllGetFreq(p) /\ PllClock(p)' = PllClock(p)
                  /\ InputClock(p)' = InputClock(p) /\ BehindBypass(p)' = BehindBypass(p)
    BY <1>1 DEF PllGetFreq, PllInput, Asked, BehindBypass, PllClock, InputClock, Passed,
                CpuClock, CpuDivided
  <2>2. QED
    BY <1>1, <2>1 DEF SetAsAsked, Feasible, Near
<1>6. QED
  BY <1>3, <1>4, <1>5

\* What a call is about to tell is true at each of its steps, whatever was called before.
THEOREM FreqInvariance == Spec => []FreqInv
<1>1. Init => FreqInv
  BY FreqInit
<1>2. FreqInv /\ [Next]_vars => FreqInv'
  <2> SUFFICES ASSUME FreqInv, [Next]_vars PROVE FreqInv'
    OBVIOUS
  <2>1. 0 \in Plls
    BY DEF Plls
  <2>2. CASE Call
    BY <2>1, <2>2, BeginStep, FastEnableStep, SimpleStep, DisableStep DEF Call
  <2>3. CASE Continue
    BY <2>3, PowerStep, SourceSetFreqStep, SelectStep, DisableStep DEF Continue
  <2>4. CASE Hardware \/ UNCHANGED vars
    BY <2>4, StutterStep
  <2>5. QED
    BY <2>2, <2>3, <2>4 DEF Next
<1>3. QED
  BY <1>1, <1>2, PTL DEF Spec

\* The registers fit their fields: the dividers that sysctl_pll_source_set_freq writes, and
\* every threshold.
THEOREM SysctlTypes == Spec => []TypeOK
<1>1. FreqInv => TypeOK
  BY DEF FreqInv
<1>2. QED
  BY <1>1, FreqInvariance, PTL

\* sysctl_pll_set_freq and sysctl_cpu_set_freq return 0 and leave the dividers alone, or
\* return what was asked but for 1 in 64: the frequency that the PLL puts out unless a bypass
\* was left on, and not the CPU's, which is that one, or the crystal's, divided.
THEOREM FrequencyIsAsAsked == Spec => []SetAsAsked
<1>1. FreqInv => SetAsAsked
  BY DEF FreqInv
<1>2. QED
  BY <1>1, FreqInvariance, PTL

=============================================================================
