---------------------------- MODULE PllSettings ----------------------------
(***************************************************************************)
(* The search of sysctl_pll_source_set_freq (drivers/sysctl.c) for the     *)
(* dividers of a PLL:  out = in / nr * nf / od,  with in / nr and          *)
(* in / nr * nf (the VCO) in the range that the PLL can do.                *)
(*                                                                         *)
(* Frequencies are in MHz; one that a PLL puts out is a fraction <<n, d>>. *)
(* The code computes with doubles; here fractions are exact.  That leaves  *)
(* out the code's 1e-6 and 1e-16, which only make up for rounding.         *)
(***************************************************************************)
EXTENDS Integers, FiniteSets, FiniteSetsExt

VcoMin == 350
VcoMax == 1750
RefMax == 1750
RefMin == <<136719, 10000>>     \* ref_min, 13.6719 MHz
NrMax == 16
NfMax == 64
OdMax == 16

\* terr: an error of this much is too much.
Tolerance == <<1, 64>>

Less(x, y) == x[1] * y[2] < y[1] * x[2]
Equals(x, y) == x[1] * y[2] = y[1] * x[2]
Least(a, b) == IF a <= b THEN a ELSE b

\* rint(a / b)
Rint(a, b) ==
    LET q == a \div b
        twice == 2 * (a % b)
    IN IF twice < b \/ (twice = b /\ q % 2 = 0) THEN q ELSE q + 1

\* What dividers s make of the frequency in.
Output(in, s) == <<in[1] * s.nf, in[2] * s.nr * s.od>>
Vco(in, s) == <<in[1] * s.nf, in[2] * s.nr>>

\* The ranges that the search keeps to.
Feasible(in, s) ==
    /\ s.nr \in 1 .. NrMax /\ s.nf \in 1 .. NfMax /\ s.od \in 1 .. OdMax
    /\ ~Less(Vco(in, s), <<VcoMin, 1>>) /\ ~Less(<<VcoMax, 1>>, Vco(in, s))
    /\ ~Less(<<in[1], in[2] * s.nr>>, RefMin)

\* Nothing found yet: x_no is 0.
NotFound == [nr |-> 0, nf |-> 0, od |-> 0, err |-> Tolerance, by |-> 1]

\* The dividers that a round of the loop makes of nf / nr, where nr is rint(nf / val):
\* the largest divisor of nr moves from nr to od; then nf and od are multiplied by the
\* same number, to bring the VCO up.
Dividers(in, fout, nf) ==
    LET nr == Rint(nf * in[1], fout * in[2])
        diff == nr * fout * in[2] - nf * in[1]
        err == <<IF diff < 0 THEN -diff ELSE diff, nr * fout * in[2]>>
        not == VcoMax \div fout
        top == Least(not, OdMax)
        no == Max({1} \cup {n \in 2 .. top : nr % n = 0})
        nor == Least(top \div no, NfMax \div nf)
        noe == (VcoMin + fout - 1) \div fout
        raise == /\ no * nor < not \div 2 \/ no * nor < noe
                 /\ no * nor < NfMax \div nf
        more == Least(NfMax \div nf, top)
    IN IF raise
         THEN [nr |-> nr, nf |-> nf * more, od |-> more, err |-> err, by |-> more]
         ELSE [nr |-> nr \div no, nf |-> nf * nor, od |-> no * nor, err |-> err, by |-> nor]

\* The rounds that no "continue" ends, whatever was found before.  With fout above VcoMax
\* the code takes a remainder by 0, which on this core is nr: not 0, so the round ends.
Rounds(in, fout) ==
    {nf \in (fout * in[2]) \div in[1] .. NfMax - 1 :
        LET nr == Rint(nf * in[1], fout * in[2])
        IN /\ nr >= 1
           /\ in[1] <= RefMax * nr * in[2]
           /\ fout <= VcoMax
           /\ ~Less(Tolerance, Dividers(in, fout, nf).err)
           /\ Feasible(in, Dividers(in, fout, nf))}

\* What the loop keeps of a round.
Keep(best, s) ==
    LET found == best.od # 0
    IN IF /\ ~Less(best.err, s.err)
          /\ found => s.by = 1
          /\ Less(s.err, best.err) \/ s.od > best.od
          /\ found => s.nr <= best.nr
         THEN s ELSE best

\* The whole loop and the look at its result.
Search(in, fout) ==
    LET rounds == Rounds(in, fout)
        best[nf \in rounds] ==
            LET before == {n \in rounds : n < nf}
            IN Keep(IF before = {} THEN NotFound ELSE best[Max(before)],
                    Dividers(in, fout, nf))
        last == IF rounds = {} THEN NotFound ELSE best[Max(rounds)]
    IN IF Less(last.err, Tolerance) THEN last ELSE NotFound

=============================================================================
