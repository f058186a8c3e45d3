------------------------------- MODULE Sha256 -------------------------------
(***************************************************************************)
(* drivers/sha256.c: a message goes to the accelerator in pieces, through  *)
(* a buffer of one block, and sha256_final pads it.                        *)
(*                                                                         *)
(* External: the accelerator is done with as many blocks as it was told at *)
(* the start; what comes later does not count.  It drains its input by     *)
(* itself, so that the wait for room before each word ends.                *)
(*                                                                         *)
(* A byte of the message is its index; the bytes that are added are not    *)
(* positive: the first one of the padding, zeros, the stray one that the   *)
(* table of the padding holds, and the eight of the length.                *)
(***************************************************************************)
EXTENDS Integers, Sequences

CONSTANTS
    MessageSizes,   \* bound: lengths of the messages
    PieceSizes      \* bound: lengths of their pieces

ASSUME ShaAssumption == MessageSizes \subseteq Nat /\ PieceSizes \subseteq Nat

VARIABLES
    sha_pc,         \* "none" before the first message; "open" when the caller may give a
                    \* piece; the data of the sha256_update that runs: "message", "padding"
                    \* or "length"; "wait" for the digest; "done"
    input_size,     \* the length that sha256_init was told
    sha_data_num,   \* accelerator: the blocks it was told
    totalLength,    \* sc->totalLength, in bytes
    sha_buffer,     \* sc->buffer, up to sc->bufferLength
    data, len,      \* sha256_update: what it has read of its data, and what is left
    lengthPad,      \* of sha256_final
    sha_in,         \* accelerator: the bytes it got
    digested        \* accelerator: the bytes that the digest is of

sha_vars == <<sha_pc, input_size, sha_data_num, totalLength, sha_buffer, data, len, lengthPad,
              sha_in, digested>>

BLOCK == 64
Zero == 0
First80 == -128
Stray == -2

\* The table padding, and the bytes of a length, the highest first.
PaddingByte(k) == IF k = 1 THEN First80 ELSE IF k = 63 THEN Stray ELSE Zero
LengthByte(n, k) == -1000 - 8 * n - k

ShaInit ==
    /\ sha_pc = "none"
    /\ input_size = 0 /\ sha_data_num = 0 /\ totalLength = 0
    /\ sha_buffer = <<>> /\ data = 0 /\ len = 0 /\ lengthPad = 0
    /\ sha_in = <<>> /\ digested = <<>>

-----------------------------------------------------------------------------

\* sha256_init.
BlocksUp(n) == (n + 63) \div BLOCK                 \* mutant: not one more for the padding
BlockCount(n) == (n + 64) \div BLOCK
Sha256Init(n) ==
    /\ sha_pc \in {"none", "done"}
    /\ sha_pc' = "open"
    /\ input_size' = n
    /\ sha_data_num' = BlockCount(n)
    /\ totalLength' = 0 /\ sha_buffer' = <<>>
    /\ sha_in' = <<>> /\ digested' = <<>>          \* sysctl_reset
    /\ data' = 0 /\ len' = 0 /\ lengthPad' = 0

\* sha256_update for the next piece of the message.
Sha256Update(n) ==
    /\ sha_pc = "open"
    /\ totalLength + n <= input_size
    /\ sha_pc' = "message"
    /\ data' = totalLength
    /\ len' = n
    /\ UNCHANGED <<input_size, sha_data_num, totalLength, sha_buffer, lengthPad, sha_in, digested>>

DataByte(k) ==
    CASE sha_pc = "message" -> k
      [] sha_pc = "padding" -> PaddingByte(k)
      [] sha_pc = "length"  -> LengthByte(lengthPad, k)

\* A round of its loop: the buffer is filled, and goes to the accelerator if it is full.
BytesToCopy == IF len > BLOCK - Len(sha_buffer) THEN BLOCK - Len(sha_buffer) ELSE len
UpdateRound ==
    LET bytes == sha_buffer \o [k \in 1 .. BytesToCopy |-> DataByte(data + k)]
    IN  /\ sha_pc \in {"message", "padding", "length"}
        /\ len > 0
        /\ totalLength' = totalLength + BytesToCopy
        /\ data' = data + BytesToCopy
        /\ len' = len - BytesToCopy
        /\ IF Len(bytes) = BLOCK THEN sha_in' = sha_in \o bytes /\ sha_buffer' = <<>>
           ELSE sha_buffer' = bytes /\ UNCHANGED sha_in
        /\ UNCHANGED <<sha_pc, input_size, sha_data_num, lengthPad, digested>>

\* It returns: to the caller, or to sha256_final, which goes on with the length.
UpdateReturns ==
    /\ len = 0
    /\ \/ sha_pc = "message" /\ sha_pc' = "open" /\ UNCHANGED <<data, len>>
       \/ sha_pc = "padding" /\ sha_pc' = "length" /\ data' = 0 /\ len' = 8
       \/ sha_pc = "length" /\ sha_pc' = "wait" /\ UNCHANGED <<data, len>>
    /\ UNCHANGED <<input_size, sha_data_num, totalLength, sha_buffer, lengthPad, sha_in, digested>>

\* sha256_final, when all of the message was given.
BytesToPad == IF 120 - Len(sha_buffer) > 64 THEN 56 - Len(sha_buffer) ELSE 120 - Len(sha_buffer)
Sha256Final ==
    /\ sha_pc = "open"
    /\ totalLength = input_size
    /\ sha_pc' = "padding"
    /\ data' = 0
    /\ len' = BytesToPad
    /\ lengthPad' = totalLength
    /\ UNCHANGED <<input_size, sha_data_num, totalLength, sha_buffer, sha_in, digested>>

\* The accelerator has a digest after the blocks that it was told, the end of the wait.
Sha256Digest ==
    /\ sha_pc = "wait"
    /\ Len(sha_in) >= BLOCK * sha_data_num
    /\ sha_pc' = "done"
    /\ digested' = SubSeq(sha_in, 1, BLOCK * sha_data_num)
    /\ UNCHANGED <<input_size, sha_data_num, totalLength, sha_buffer, data, len, lengthPad, sha_in>>

ShaNext ==
    \/ \E n \in MessageSizes : Sha256Init(n)
    \/ \E n \in PieceSizes : Sha256Update(n)
    \/ UpdateRound \/ UpdateReturns
    \/ Sha256Final \/ Sha256Digest

ShaSpec == ShaInit /\ [][ShaNext]_sha_vars

-----------------------------------------------------------------------------

\* What FIPS 180 hashes: the message, 0x80, zeros up to 8 bytes before the end of a
\* block, and the length.
PaddedLength(n) == BLOCK * ((n + 8) \div BLOCK + 1)
Padded(n) ==
    [k \in 1 .. PaddedLength(n) |->
        IF k <= n THEN k
        ELSE IF k = n + 1 THEN First80
        ELSE IF k <= PaddedLength(n) - 8 THEN Zero
        ELSE LengthByte(n, k - (PaddedLength(n) - 8))]

\* The digest comes, and it is that of the message, however it is cut, if the padding has
\* room in the last block of the message.  If it needs a block of its own, it is not: the
\* accelerator was told one block too few, and for two of these lengths a stray byte of the
\* table is in the padding.  (utils/genimg.py fills images up to lengths that are not hit.)
DigestRight ==
    /\ sha_pc = "wait" => Len(sha_in) >= BLOCK * sha_data_num
    /\ sha_pc = "done" => (digested = Padded(input_size) <=> input_size % BLOCK < 56)
=============================================================================
