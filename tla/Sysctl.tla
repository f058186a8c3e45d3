------------------------------- MODULE Sysctl -------------------------------
(***************************************************************************)
(* The clocks of the chip under drivers/sysctl.c: three PLLs, the choice   *)
(* of the CPU's source, and the gates of buses and devices.  One thread    *)
(* makes the calls; a call that waits for a PLL to lock takes several      *)
(* steps, with the hardware between them.                                  *)
(*                                                                         *)
(* External: a PLL that is powered and fed raises its two lock bits one    *)
(* after the other, in either order, and loses them when it is powered off *)
(* or reset.  The slips that sysctl_pll_clear_slip clears are left out,    *)
(* and so is that PLL2 loses its lock when its input stops: nothing looks. *)
(***************************************************************************)
EXTENDS PllSettings

CONSTANTS
    Freqs,          \* frequencies to ask for, in MHz
    Devices,        \* device clocks that the thread switches
    Thresholds,     \* thresholds that it sets
    Values,         \* the values that it sets them to
    ResetDividers,  \* what a reset leaves in the PLLs (external)
    MaxCalls        \* bound: calls of the thread

Plls == 0 .. 2
Buses == {"APB0", "APB1", "APB2"}

\* sysctl_clock_bus_en: the bus of a device.
Under ==
    ({"APB0"} \X {"SPI2", "FPIOA", "TIMER0", "TIMER1", "TIMER2", "SHA"})
    \cup ({"APB1"} \X {"AES", "OTP"})
    \cup ({"APB2"} \X {"SPI0", "SPI1"})
BusOf(clock) == {bus \in Buses : <<bus, clock>> \in Under}

\* The number of values that a threshold's field holds.
Width(which) ==
    CASE which = "ACLK" -> 4
      [] which \in Buses -> 8
      [] which \in {"SRAM0", "SRAM1", "ROM"} -> 16
      [] OTHER -> 256

Dividers3 == [nr : 1 .. NrMax, nf : 1 .. NfMax, od : 1 .. OdMax]

\* In (aclk_divider_sel + 1) * 2 * freq the code computes hertz in 32 bits: asking the
\* CPU for more than 536 MHz may overflow, and is left out.
ASSUME SysctlAssumption ==
    /\ Freqs \subseteq 0 .. 536
    /\ \A d \in Devices : BusOf(d) # {} \/ d = "SPI3"
    /\ Values \subseteq Nat
    /\ ResetDividers \in Dividers3
    /\ MaxCalls \in Nat

VARIABLES
    pc,             \* "idle", or the step of the call that is next
    call,           \* the last call that set a frequency
    result,         \* what it returned, a fraction
    settings,       \* clkr, clkf, clkod of each PLL, plus one
    power, out, bypass, lock,   \* pll_pwrd, pll_out_en, pll_bypass, pll_lock of each
    ckin,           \* pll_ckin_sel2
    aclk,           \* aclk_sel: 1 if the CPU runs from PLL0
    gates,          \* the bus and device clocks that are on
    th,             \* the thresholds
    calls           \* bound: calls so far

regs == <<settings, power, out, bypass, ckin>>
other == <<gates, th>>
vars == <<pc, call, result, regs, lock, aclk, other, calls>>

-----------------------------------------------------------------------------
(* Frequencies, as the code tells them.                                    *)

In0 == <<26, 1>>

\* sysctl_pll_get_freq: it does not look at pll_bypass.
PllInput(p) ==
    IF p < 2 \/ ckin = 0 THEN In0
    ELSE IF ckin < 3 THEN Output(In0, settings[ckin - 1])
    ELSE <<0, 1>>
PllGetFreq(p) == Output(PllInput(p), settings[p])

Divide(f, n) == <<f[1], f[2] * n>>

\* The CPU runs at its source's frequency, or PLL0's divided by 2 << aclk_divider_sel, as
\* sysctl_clock_get_freq has it.
CpuDivided(f) == Divide(f, 2 * 2^th["ACLK"])

-----------------------------------------------------------------------------
(* The hardware.                                                           *)

\* PLL p has an input; PLL p puts out a clock.
Fed(p) ==
    p = 2 /\ ckin # 0 =>
        /\ ckin < 3
        /\ out[ckin - 1]
        /\ bypass[ckin - 1] \/ (power[ckin - 1] /\ lock[ckin - 1] = {0, 1})
Running(p) == out[p] /\ Fed(p) /\ (bypass[p] \/ (power[p] /\ lock[p] = {0, 1}))

\* The frequencies that there are: a PLL that is bypassed passes its input on.
Passed(p, in) == IF bypass[p] THEN in ELSE Output(in, settings[p])
InputClock(p) ==
    IF p < 2 \/ ckin = 0 THEN In0
    ELSE IF ckin < 3 THEN Passed(ckin - 1, In0)
    ELSE <<0, 1>>
PllClock(p) == Passed(p, InputClock(p))
CpuClock == IF aclk = 0 THEN In0 ELSE CpuDivided(PllClock(0))

RaiseLock(p, bit) ==
    /\ power[p] /\ Fed(p) /\ bit \notin lock[p]
    /\ lock' = [lock EXCEPT ![p] = @ \cup {bit}]
    /\ UNCHANGED <<pc, call, result, regs, aclk, other, calls>>

\* sysctl_pll_is_lock: both bits of PLL0, but only the lower of the others.
IsLock(p) == IF p = 0 THEN lock[p] = {0, 1} ELSE 0 \in lock[p]

-----------------------------------------------------------------------------
(* sysctl_pll_set_freq, sysctl_cpu_set_freq, sysctl_pll_fast_enable_pll.   *)

NoCall == [op |-> "none", plls |-> {}, freq |-> 0, before |-> <<>>]

Idle == pc = "idle" /\ calls < MaxCalls

\* The start of sysctl_pll_set_freq, up to step 1.  A program does not set PLL2 while
\* its input is off: it would wait for ever.
Begin(op, p, asked, freq) ==
    /\ Idle /\ Fed(p)
    /\ call' = [op |-> op, plls |-> {p}, freq |-> asked, before |-> settings[p]]
    /\ calls' = calls + 1
    /\ IF freq = 0
         THEN result' = <<0, 1>> /\ UNCHANGED <<pc, aclk>>
         ELSE /\ pc' = "off"
              /\ aclk' = IF p = 0 THEN 0 ELSE aclk
              /\ UNCHANGED result
    /\ UNCHANGED <<regs, lock, other>>

PllSetFreq(p, freq) == Begin("pll", p, freq, freq)
CpuSetFreq(freq) == Begin("cpu", 0, freq, (th["ACLK"] + 1) * 2 * freq)

\* What step 4 looks for.
AskedUndivided == call.freq             \* mutant: the CPU's divider is forgotten
Asked == IF call.op = "cpu" THEN (th["ACLK"] + 1) * 2 * call.freq ELSE call.freq

\* Steps 2 and 3.
TurnOff ==
    /\ pc = "off" /\ pc' = "set"
    /\ \E p \in call.plls :
         /\ out' = [out EXCEPT ![p] = FALSE]
         /\ power' = [power EXCEPT ![p] = FALSE]
         /\ lock' = [lock EXCEPT ![p] = {}]
    /\ UNCHANGED <<call, result, settings, bypass, ckin, aclk, other, calls>>

\* Step 4, sysctl_pll_source_set_freq.  The registers stay if nothing fits.
SourceSetFreq ==
    /\ pc = "set" /\ pc' = "on"
    /\ \E p \in call.plls :
         \E in \in {PllInput(p)}, freq \in {Asked} :
         \E s \in {IF in[1] = 0 THEN NotFound ELSE Search(in, freq)} :
           LET new == [nr |-> s.nr, nf |-> s.nf, od |-> s.od]
           IN IF s.od = 0
                THEN result' = <<0, 1>> /\ UNCHANGED settings
                ELSE settings' = [settings EXCEPT ![p] = new] /\ result' = Output(in, new)
    /\ UNCHANGED <<call, power, out, bypass, ckin, lock, aclk, other, calls>>

\* Steps 5 and 6.
TurnOn ==
    /\ pc = "on" /\ pc' = "lock"
    /\ \E p \in call.plls :
         /\ power' = [power EXCEPT ![p] = TRUE]
         /\ lock' = [lock EXCEPT ![p] = {}]
    /\ UNCHANGED <<call, result, settings, out, bypass, ckin, aclk, other, calls>>

\* Steps 7 and 8; or the loops of sysctl_pll_fast_enable_pll and its gates.
AwaitLock ==
    /\ pc = "lock" /\ \A p \in call.plls : IsLock(p)
    /\ pc' = "select"
    /\ out' = [p \in Plls |-> out[p] \/ p \in call.plls]
    /\ UNCHANGED <<call, result, settings, power, bypass, ckin, lock, aclk, other, calls>>

\* Step 9.
Select ==
    /\ pc = "select" /\ pc' = "idle"
    /\ aclk' = IF 0 \in call.plls THEN 1 ELSE aclk
    /\ UNCHANGED <<call, result, regs, lock, other, calls>>

\* sysctl_pll_fast_enable_pll.  It resets PLL0 even if the CPU runs from it, and waits
\* for PLL2 before it lets PLL0 and PLL1 out: a program calls it on the crystal.
FastEnable ==
    /\ Idle /\ aclk = 0 /\ ckin = 0
    /\ pc' = "lock" /\ calls' = calls + 1
    /\ call' = [op |-> "fast", plls |-> Plls, freq |-> 0, before |-> <<>>]
    /\ settings' = [p \in Plls |-> IF p = 0 THEN [nr |-> 1, nf |-> 61, od |-> 2]
                                            ELSE [nr |-> 1, nf |-> 60, od |-> 4]]
    /\ bypass' = [p \in Plls |-> FALSE]
    /\ power' = [p \in Plls |-> TRUE]
    /\ lock' = [p \in Plls |-> {}]
    /\ result' = <<0, 1>>
    /\ UNCHANGED <<out, ckin, aclk, other>>

\* sysctl_pll_disable: bypassed, then powered off, which the CPU may see in between.
Disabling(p) ==
    /\ Idle
    /\ pc' = "unpower" /\ calls' = calls + 1
    /\ call' = [op |-> "disable", plls |-> {p}, freq |-> 0, before |-> <<>>]
    /\ UNCHANGED <<result, settings, out, ckin, aclk, other>>
PllDisableUnpowered(p) ==               \* mutant: powered off first
    /\ Disabling(p)
    /\ power' = [power EXCEPT ![p] = FALSE] /\ lock' = [lock EXCEPT ![p] = {}]
    /\ UNCHANGED bypass
PllDisable(p) ==
    /\ Disabling(p)
    /\ bypass' = [bypass EXCEPT ![p] = TRUE]
    /\ UNCHANGED <<power, lock>>
PowerOff ==
    /\ pc = "unpower" /\ pc' = "idle"
    /\ \E p \in call.plls :
         /\ power' = [power EXCEPT ![p] = FALSE]
         /\ lock' = [lock EXCEPT ![p] = {}]
    /\ UNCHANGED <<call, result, settings, out, bypass, ckin, aclk, other, calls>>

-----------------------------------------------------------------------------
(* The calls that take no time.                                            *)

Simple == Idle /\ calls' = calls + 1 /\ call' = NoCall /\ UNCHANGED <<pc, result>>

\* sysctl_pll_enable: not under the feet of the CPU.
PllEnable(p) ==
    /\ Simple
    /\ p = 0 => aclk = 0
    /\ bypass' = [bypass EXCEPT ![p] = FALSE]
    /\ power' = [power EXCEPT ![p] = TRUE]
    /\ lock' = [lock EXCEPT ![p] = {}]
    /\ UNCHANGED <<settings, out, ckin, aclk, other>>

\* sysctl_clock_enable and sysctl_clock_disable of a bus or a device.  Only enabling
\* touches the bus of a device; "The APB clock should carefully disable": a program
\* does not stop a bus under a device that is on.
ClockEnable(clock) ==
    /\ Simple
    /\ gates' = gates \cup BusOf(clock) \cup {clock}
    /\ UNCHANGED <<regs, lock, aclk, th>>
ClockDisable(clock) ==
    /\ Simple
    /\ \A d \in gates : clock \notin BusOf(d)
    /\ gates' = gates \ {clock}
    /\ UNCHANGED <<regs, lock, aclk, th>>

\* The same calls for the output of a PLL.
OutputEnable(p) ==
    /\ Simple
    /\ out' = [out EXCEPT ![p] = TRUE]
    /\ UNCHANGED <<settings, power, bypass, ckin, lock, aclk, other>>
OutputDisable(p) ==
    /\ Simple
    /\ p = 0 => aclk = 0
    /\ out' = [out EXCEPT ![p] = FALSE]
    /\ UNCHANGED <<settings, power, bypass, ckin, lock, aclk, other>>

\* sysctl_clock_set_threshold: cut to the width of the field.
Field(which, value) == value % Width(which)
SetThreshold(which, value) ==
    /\ Simple
    /\ th' = [th EXCEPT ![which] = Field(which, value)]
    /\ UNCHANGED <<regs, lock, aclk, gates>>

\* sysctl_clock_set_clock_select, for the CPU, for the bypass of a PLL, which a program
\* does not take from the CPU's unless that is locked, and for the input of PLL2.
SelectAclk(value) ==
    /\ Simple
    /\ value = 1 => Running(0)
    /\ aclk' = value
    /\ UNCHANGED <<regs, lock, other>>
SelectBypass(p, value) ==
    /\ Simple
    /\ p = 0 /\ aclk = 1 /\ value = 0 => power[0] /\ lock[0] = {0, 1}
    /\ bypass' = [bypass EXCEPT ![p] = value = 1]
    /\ UNCHANGED <<settings, power, out, ckin, lock, aclk, other>>
SelectPll2(value) ==
    /\ Simple
    /\ ckin' = value
    /\ lock' = [lock EXCEPT ![2] = {}]
    /\ UNCHANGED <<settings, power, out, bypass, aclk, other>>

-----------------------------------------------------------------------------
(* The specification.                                                      *)

\* After a reset: the CPU on the crystal, the PLLs off.
NoThresholds == [which \in Thresholds \cup {"ACLK"} |-> 0]

Init ==
    /\ pc = "idle" /\ call = NoCall /\ result = <<0, 1>>
    /\ settings = [p \in Plls |-> ResetDividers]
    /\ power = [p \in Plls |-> FALSE] /\ out = [p \in Plls |-> FALSE]
    /\ bypass = [p \in Plls |-> FALSE] /\ lock = [p \in Plls |-> {}]
    /\ ckin = 0 /\ aclk = 0
    /\ gates = {} /\ th = NoThresholds
    /\ calls = 0

\* sysctl_reset(SYSCTL_RESET_SOC), from do_reset: all of it starts again.
ResetSoc ==
    /\ Simple
    /\ settings' = [p \in Plls |-> ResetDividers]
    /\ power' = [p \in Plls |-> FALSE] /\ out' = [p \in Plls |-> FALSE]
    /\ bypass' = [p \in Plls |-> FALSE] /\ lock' = [p \in Plls |-> {}]
    /\ ckin' = 0 /\ aclk' = 0
    /\ gates' = {} /\ th' = NoThresholds

Call ==
    \/ \E p \in Plls, freq \in Freqs : PllSetFreq(p, freq)
    \/ \E freq \in Freqs : CpuSetFreq(freq)
    \/ FastEnable
    \/ \E p \in Plls : PllEnable(p) \/ PllDisable(p) \/ OutputEnable(p) \/ OutputDisable(p)
    \/ \E clock \in Devices \cup Buses : ClockEnable(clock) \/ ClockDisable(clock)
    \/ \E which \in Thresholds \cup {"ACLK"}, value \in Values : SetThreshold(which, value)
    \/ \E value \in {0, 1} : SelectAclk(value) \/ \E p \in Plls : SelectBypass(p, value)
    \/ \E value \in 0 .. 3 : SelectPll2(value)
    \/ ResetSoc

Continue == TurnOff \/ SourceSetFreq \/ TurnOn \/ AwaitLock \/ Select \/ PowerOff

Hardware == \E p \in Plls, bit \in {0, 1} : RaiseLock(p, bit)

Next == Call \/ Continue \/ Hardware

Spec == Init /\ [][Next]_vars

-----------------------------------------------------------------------------
(* Properties.                                                             *)

\* What is in the registers fits their fields; a threshold above all.
TypeOK ==
    /\ pc \in {"idle", "off", "set", "on", "lock", "select", "unpower"}
    /\ settings \in [Plls -> Dividers3]
    /\ power \in [Plls -> BOOLEAN] /\ out \in [Plls -> BOOLEAN] /\ bypass \in [Plls -> BOOLEAN]
    /\ lock \in [Plls -> SUBSET {0, 1}]
    /\ ckin \in 0 .. 3 /\ aclk \in {0, 1}
    /\ gates \subseteq Devices \cup Buses
    /\ \A which \in DOMAIN th : th[which] \in 0 .. Width(which) - 1
    /\ calls \in 0 .. MaxCalls

\* What is on is fed, in the middle of a call too: the CPU always has a clock that runs
\* (which is why sysctl_pll_set_freq takes nine steps, and sysctl_pll_disable bypasses
\* first), and no device has its gate open on a bus that stands still.
NothingStarves ==
    /\ aclk = 1 => Running(0)
    /\ \A d \in gates : BusOf(d) \subseteq gates

Near(f, freq) ==
    LET diff == f[1] - freq * f[2]
    IN ~Less(<<Tolerance[1] * freq, Tolerance[2]>>,
             <<IF diff < 0 THEN -diff ELSE diff, f[2]>>)

\* PLL p is bypassed, or the one that feeds it.
BehindBypass(p) == bypass[p] \/ (p = 2 /\ ckin \in {1, 2} /\ bypass[ckin - 1])

\* sysctl_pll_set_freq returns 0, and the dividers are as they were; or what was asked but
\* for 1 in 64, as sysctl_pll_get_freq tells it too; and the PLL puts that out, with a VCO
\* in its range, unless a bypass is on, which the call does not lift and neither of the two
\* looks at.  sysctl_cpu_set_freq returns the same, PLL0's frequency,
\* and not "the actual frequency of CPU after set" (sysctl.h:980): the CPU, which is on
\* PLL0 again, has it divided by 2 << sel.  That is what was asked of it but for 1 in 64
\* with the first two values of sel, where the factor (sel + 1) * 2 is the same; and if
\* PLL0 was left bypassed, whatever is returned, it has the crystal's frequency divided.
SetAsAsked ==
    pc = "idle" /\ call.op \in {"pll", "cpu"} /\ call.freq # 0 =>
        \A p \in call.plls :
            IF result[1] = 0
              THEN settings[p] = call.before
              ELSE /\ Near(result, Asked) /\ Equals(result, PllGetFreq(p))
                   /\ ~BehindBypass(p) => /\ Equals(result, PllClock(p))
                                          /\ Feasible(InputClock(p), settings[p])
                   /\ call.op = "cpu" =>
                        /\ Equals(CpuClock, CpuDivided(IF bypass[0] THEN In0 ELSE result))
                        /\ ~bypass[0] /\ th["ACLK"] <= 1 => Near(CpuClock, call.freq)

=============================================================================
