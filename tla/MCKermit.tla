------------------------------ MODULE MCKermit ------------------------------
(***************************************************************************)
(* A small transfer for Kermit: S with more parameters than the receiver   *)
(* keeps, two D packets with an extended header, escapes (one of the quote *)
(* itself) and plain bytes, and B.                                         *)
(***************************************************************************)
EXTENDS Kermit, FiniteSets

MCType    == <<"S", "D", "D", "B">>
MCSize    == <<21, 3, 3, 0>>
MCQuote   == <<{}, {1, 2}, {2}, {}>>
MCEscaped == <<{}, {2}, {3}, {}>>

FromZero(s) == [i \in Packets |-> s[i + 1]]
TransferType    == FromZero(MCType)
TransferSize    == FromZero(MCSize)
TransferQuote   == FromZero(MCQuote)
TransferEscaped == FromZero(MCEscaped)

\* Bytes before place j of packet i, counted.
BytesBefore(i, j) ==
    LET places == {<<k, m>> \in Packets \X (1 .. 21) : m <= MCSize[k + 1]}
    IN  Cardinality({p \in places :
            /\ p[1] < i \/ (p[1] = i /\ p[2] < j)
            /\ MCType[p[1] + 1] = "D"
            /\ ~(p[2] \in MCQuote[p[1] + 1] /\ p[2] \notin MCEscaped[p[1] + 1])})
TransferOffset ==
    [i \in Packets |-> [j \in 1 .. MCSize[i + 1] + 1 |-> BytesBefore(i, j)]]

\* Modulo 2 for 64: the numbers wrap around within the transfer.
TransferSeqOf == [i \in Packets |-> i % 2]
=============================================================================
