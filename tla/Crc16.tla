------------------------------- MODULE Crc16 -------------------------------
(***************************************************************************)
(* cli/crc16.c: the CRC-16 that the console tells of a download, byte by   *)
(* byte with a table that the first call makes.                            *)
(*                                                                         *)
(* A word is the set of its bits that are 1, bit 0 the lowest.             *)
(***************************************************************************)
EXTENDS Integers

CONSTANTS
    CrcBytes,       \* bound: the bytes that occur
    MaxCrcBytes     \* bound: length of the data

ByteWord == SUBSET (0 .. 7)

ASSUME CrcAssumption == CrcBytes \subseteq ByteWord /\ MaxCrcBytes \in Nat

VARIABLES
    crc_pc,         \* "idle", or "sum" in the loop of crc_16
    crc_tab16,      \* the table; <<>> stands for the zeros before it is made
    crc_tab16_init, \* it is made
    crc,            \* the register of crc_16
    crc_left,       \* bytes that it has not taken
    crc_bits        \* history: the register that takes the same bytes bit by bit

crc_vars == <<crc_pc, crc_tab16, crc_tab16_init, crc, crc_left, crc_bits>>

Xor(a, b) == (a \ b) \cup (b \ a)
ShiftedRight(a, n) == {i - n : i \in {j \in a : j >= n}}
LowByte(a) == a \cap (0 .. 7)

CRC_POLY_16 == {0, 13, 15}                         \* 0xA001
CRC_START_16 == {}

CrcInit ==
    /\ crc_pc = "idle"
    /\ crc_tab16 = <<>>
    /\ crc_tab16_init = FALSE
    /\ crc = {}
    /\ crc_left = 0
    /\ crc_bits = {}

-----------------------------------------------------------------------------

\* The lowest bit of a byte into a register, which is what a round of the inner loop of
\* init_crc16_tab does, and eight of them.
Shifted(register, odd) ==
    IF odd THEN Xor(ShiftedRight(register, 1), CRC_POLY_16) ELSE ShiftedRight(register, 1)
OneBit(s) == [crc |-> Shifted(s.crc, 0 \in Xor(s.crc, s.c)), c |-> ShiftedRight(s.c, 1)]
EightBits(register, byte) ==
    OneBit(OneBit(OneBit(OneBit(OneBit(OneBit(OneBit(OneBit([crc |-> register, c |-> byte])))))))).crc

\* crc_16 is called with a number of bytes, or with NULL, for which it takes none.
Crc16(n) ==
    /\ crc_pc = "idle"
    /\ crc_pc' = "sum"
    /\ IF crc_tab16_init THEN UNCHANGED crc_tab16
       ELSE crc_tab16' = [i \in ByteWord |-> EightBits({}, i)]
    /\ crc_tab16_init' = TRUE
    /\ crc' = CRC_START_16
    /\ crc_left' = n
    /\ crc_bits' = CRC_START_16

\* It takes a byte.
IndexOfByte(register, byte) == byte                \* mutant: the register is left out
Index(register, byte) == LowByte(Xor(register, byte))
Crc16Byte(byte) ==
    /\ crc_pc = "sum"
    /\ crc_left > 0
    /\ crc' = Xor(ShiftedRight(crc, 8), crc_tab16[Index(crc, byte)])
    /\ crc_left' = crc_left - 1
    /\ crc_bits' = EightBits(crc_bits, byte)
    /\ UNCHANGED <<crc_pc, crc_tab16, crc_tab16_init>>

Crc16Returns ==
    /\ crc_pc = "sum"
    /\ crc_left = 0
    /\ crc_pc' = "idle"
    /\ UNCHANGED <<crc_tab16, crc_tab16_init, crc, crc_left, crc_bits>>

CrcNext ==
    \/ \E n \in 0 .. MaxCrcBytes : Crc16(n)
    \/ \E byte \in CrcBytes : Crc16Byte(byte)
    \/ Crc16Returns

CrcSpec == CrcInit /\ [][CrcNext]_crc_vars

-----------------------------------------------------------------------------

\* After any bytes the table gave what the shift register of the polynomial gives.
CrcRight == crc = crc_bits
=============================================================================
