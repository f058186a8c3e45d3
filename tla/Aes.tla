-------------------------------- MODULE Aes --------------------------------
(***************************************************************************)
(* drivers/aes.c: text goes through the AES engine word by word, in chunks *)
(* that are all written before the first word is read back.  main.c        *)
(* deciphers the image in calls of one block each.                         *)
(*                                                                         *)
(* External: the engine has room for the words of a block and for a number *)
(* of words that were not read yet.  It works on whole blocks; in GCM the  *)
(* last one may be short, which it knows from gb_pc_end_adr.               *)
(*                                                                         *)
(* A byte of the text, or of its cipher, is its index, and a byte that is  *)
(* filled up is 0.  Keys, vectors and tags are left out, and so are the    *)
(* additional data of GCM, which the engine only takes.                    *)
(***************************************************************************)
EXTENDS Integers, Sequences

CONSTANTS
    Sizes,          \* bound: lengths of texts
    OutRoom         \* words that the engine holds until they are read

ChunkSize == 80
ASSUME AesAssumption ==
    /\ Sizes \subseteq Nat
    /\ OutRoom \in Nat /\ 4 * OutRoom >= ChunkSize

VARIABLES
    aes_pc,         \* "idle", "chunk", "write" or "read"
    cipher_mod,     \* "CBC" (or ECB, the same for the driver) or "GCM"
    size,           \* the length of the whole text
    piece,          \* the length of each call of aes_process
    rest,           \* what the calls to come will get
    data_size,      \* what the current call has left
    chunk,          \* the length of the chunk in work
    base,           \* where it starts in the text
    words,          \* the words to write
    gb_pc_end_adr,  \* what the engine was told
    given,          \* the words that it got
    worked,         \* how many it has worked on
    taken,          \* how many were read
    stored          \* the buffer for the output, in bytes

engine == <<gb_pc_end_adr, given, worked, taken>>
aes_vars == <<aes_pc, cipher_mod, size, piece, rest, data_size, chunk, base, words,
              engine, stored>>

-----------------------------------------------------------------------------

Lesser(a, b) == IF a < b THEN a ELSE b
Up(n, unit) == ((n + unit - 1) \div unit) * unit

\* The bytes from first to last, in words, the last one filled up.
Word(k, first, last) == [b \in 1 .. 4 |-> LET i == first + 4 * (k - 1) + b - 1
                                          IN  IF i <= last THEN i ELSE 0]
Text(first, n) == [k \in 1 .. Up(n, 4) \div 4 |-> Word(k, first, first + n - 1)]
ZeroWord == [b \in 1 .. 4 |-> 0]

AesTypeOK ==
    /\ aes_pc \in {"idle", "chunk", "write", "read"}
    /\ cipher_mod \in {"CBC", "GCM"}
    /\ {size, piece, rest, data_size, chunk, base, gb_pc_end_adr, worked, taken} \subseteq Nat
    /\ words \in Seq([1 .. 4 -> Nat]) /\ given \in Seq([1 .. 4 -> Nat])
    /\ taken <= worked /\ worked <= Len(given) /\ worked - taken <= OutRoom
    /\ stored \in Seq(Nat)

AesBegin ==
    /\ aes_pc = "idle"
    /\ cipher_mod = "CBC"
    /\ size = 0 /\ piece = 0 /\ rest = 0 /\ data_size = 0 /\ chunk = 0 /\ base = 0
    /\ words = <<>>
    /\ gb_pc_end_adr = 0 /\ given = <<>> /\ worked = 0 /\ taken = 0
    /\ stored = <<>>

-----------------------------------------------------------------------------
(***************************************************************************)
(* The engine                                                              *)
(***************************************************************************)

data_in_flag == Len(given) - worked < 4
data_out_flag == worked > taken

Block ==
    IF Len(given) - worked = 4 THEN 4
    ELSE IF cipher_mod = "GCM" /\ 4 * Len(given) >= gb_pc_end_adr THEN Len(given) - worked
    ELSE 0
CanWork == Block > 0 /\ worked + Block - taken <= OutRoom

Work ==
    /\ CanWork
    /\ worked' = worked + Block
    /\ UNCHANGED <<aes_pc, cipher_mod, size, piece, rest, data_size, chunk, base, words,
                   gb_pc_end_adr, given, taken, stored>>

-----------------------------------------------------------------------------
(***************************************************************************)
(* The driver                                                              *)
(***************************************************************************)

\* aes_init, for a text that goes through in one call or in calls of one block.
EndAdr(m, n) == IF m = "CBC" THEN Up(n, 16) ELSE n

AesInit(m, n, p) ==
    /\ aes_pc = "idle"
    /\ p = n \/ (p = 16 /\ n > 0 /\ n % 16 = 0)
    /\ cipher_mod' = m
    /\ size' = n
    /\ gb_pc_end_adr' = EndAdr(m, n)
    /\ piece' = p
    /\ data_size' = p
    /\ rest' = n - p
    /\ base' = 0
    /\ given' = <<>> /\ worked' = 0 /\ taken' = 0
    /\ stored' = <<>>
    /\ aes_pc' = "chunk"
    /\ UNCHANGED <<chunk, words>>

\* The words of aes_process_less_80_bytes, filled up to whole blocks but in GCM.
PaddingWords(n) == (Up(n, 16) - n) \div 4
WordsOf(first, n) ==
    Text(first, n)
    \o [k \in 1 .. IF cipher_mod = "CBC" THEN PaddingWords(n) ELSE 0 |-> ZeroWord]

\* The next chunk of aes_process, its next call, or its end.
NextChunkAll(left) == left                         \* mutant: no chunks
NextChunk(left) == Lesser(left, ChunkSize)

CutChunk ==
    /\ aes_pc = "chunk"
    /\ data_size > 0
    /\ chunk' = NextChunk(data_size)
    /\ words' = WordsOf(base + 1, chunk')
    /\ data_size' = data_size - chunk'
    /\ aes_pc' = "write"
    /\ UNCHANGED <<cipher_mod, size, piece, rest, base, engine, stored>>

NextCall ==
    /\ aes_pc = "chunk"
    /\ data_size = 0
    /\ rest > 0
    /\ data_size' = piece
    /\ rest' = rest - piece
    /\ UNCHANGED <<aes_pc, cipher_mod, size, piece, chunk, base, words, engine, stored>>

Done == aes_pc = "chunk" /\ data_size = 0 /\ rest = 0
AesReturn ==
    /\ Done
    /\ aes_pc' = "idle"
    /\ UNCHANGED <<cipher_mod, size, piece, rest, data_size, chunk, base, words,
                   engine, stored>>

WriteText ==
    /\ aes_pc = "write"
    /\ words # <<>>
    /\ data_in_flag
    /\ given' = Append(given, Head(words))
    /\ words' = Tail(words)
    /\ aes_pc' = IF words' = <<>> THEN "read" ELSE "write"
    /\ UNCHANGED <<cipher_mod, size, piece, rest, data_size, chunk, base,
                   gb_pc_end_adr, worked, taken, stored>>

\* The bytes of the chunk's output that are stored: of the last word of GCM only those
\* that the text has.
OutSize(n) == IF cipher_mod = "CBC" THEN Up(n, 16) ELSE n

ReadOut ==
    /\ aes_pc = "read"
    /\ data_out_flag
    /\ LET at == Len(stored) - base
           n == Lesser(4, OutSize(chunk) - at)
       IN /\ stored' = stored \o [b \in 1 .. n |-> 4 * taken + b]
          /\ IF at + n = OutSize(chunk)
             THEN aes_pc' = "chunk" /\ base' = base + chunk
             ELSE UNCHANGED <<aes_pc, base>>
    /\ taken' = taken + 1
    /\ UNCHANGED <<cipher_mod, size, piece, rest, data_size, chunk, words,
                   gb_pc_end_adr, given, worked>>

AesNext ==
    \/ Work \/ CutChunk \/ NextCall \/ AesReturn \/ WriteText \/ ReadOut
    \/ \E m \in {"CBC", "GCM"}, n \in Sizes : \E p \in {n, 16} : AesInit(m, n, p)

AesSpec == AesBegin /\ [][AesNext]_aes_vars

-----------------------------------------------------------------------------
(***************************************************************************)
(* Properties                                                              *)
(***************************************************************************)

\* The engine gets the text in order and, but for GCM, filled up with zeros to whole
\* blocks, as many bytes as it was told; its output is stored whole, and beyond the text
\* only up to the end of its last block.  The core never waits for words that cannot come,
\* nor to write what the engine cannot take.
Deciphered ==
    /\ Done => /\ given = WordsOf(1, size)
               /\ stored = [i \in 1 .. OutSize(size) |-> i]
               /\ gb_pc_end_adr = OutSize(size)
    /\ aes_pc = "write" => data_in_flag \/ CanWork
    /\ aes_pc = "read" => data_out_flag \/ CanWork
=============================================================================
