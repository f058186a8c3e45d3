------------------------------- MODULE Kermit -------------------------------
(***************************************************************************)
(* The Kermit receiver of the console, src/cli/load.c: k_recv reads a      *)
(* packet character by character, writes its data to memory at once, and   *)
(* rolls back to a checkpoint when the packet turns out to be bad or to be *)
(* a repetition.  The sender, on the host, repeats a packet until it is    *)
(* acknowledged.                                                           *)
(*                                                                         *)
(* A packet is its number; a character of its data is known by its place   *)
(* in the packet.  The line may damage a character (turn it into another,  *)
(* into a control character, or swallow it) and lose answers.  The         *)
(* checksum is taken as ideal: it fails if and only if some character of   *)
(* the packet was damaged, which is what the variable clean says.          *)
(***************************************************************************)
EXTENDS Integers, Sequences

CONSTANTS
    NumPackets,     \* packets of the transfer, numbered from 0
    Type,           \* Type[i]: the type of packet i
    Size,           \* Size[i]: the number of its data characters
    Long,           \* the packets with an extended header
    Quote,          \* Quote[i]: the places of i that hold the quote character
    Escaped,        \* Escaped[i]: the places of i that such a quote escapes
    Offset,         \* Offset[i][j]: the bytes of the file before place j of i
    SeqOf,          \* SeqOf[i]: the sequence number of packet i (i modulo 64)
    SeqNumbers,     \* the sequence numbers there are
    HeaderNoise,    \* the characters before the type that the line may damage
    Patient,        \* the sender never repeats while an answer is on its way
    MaxNoise,       \* bound: damaged characters and lost answers
    MaxAnswers,     \* bound: answers on their way
    Overrun         \* bound: bytes of junk written behind the end of the file

Packets == 0 .. NumPackets - 1
Types == {"S", "F", "D", "Z", "B"}

\* Place j of packet i is a quote that escapes the place behind it.
Escapes(i, j) == j \in Quote[i] /\ j \notin Escaped[i]

\* Place j of packet i is a byte of the file.
Stores(i, j) == Type[i] = "D" /\ ~Escapes(i, j)

\* The bytes of the file in packets 0 .. i - 1.
Sent(i) == IF i < NumPackets THEN Offset[i][1]
           ELSE Offset[NumPackets - 1][Size[NumPackets - 1] + 1]
FileSize == Sent(NumPackets)

\* The transfer starts with an S packet, which announces the quote character, and
\* ends with a B packet; Escaped and Offset are what the packets make them.
ASSUME TransferAssumption ==
    /\ NumPackets \in Nat \ {0, 1}
    /\ Type \in [Packets -> Types]
    /\ \A i \in Packets : /\ Type[i] = "S" <=> i = 0
                          /\ Type[i] = "B" <=> i = NumPackets - 1
    /\ Size \in [Packets -> Nat]
    /\ Size[0] >= 6
    /\ Long \subseteq Packets
    /\ \A i \in Packets :
        /\ Escaped[i] \subseteq 2 .. Size[i]
        /\ \A j \in 1 .. Size[i] : j + 1 \in Escaped[i] <=> Escapes(i, j)
        /\ Offset[i] \in [1 .. Size[i] + 1 -> Nat]
        /\ \A j \in 1 .. Size[i] :
              Offset[i][j + 1] = Offset[i][j] + (IF Stores(i, j) THEN 1 ELSE 0)
        /\ Offset[i][1] = IF i = 0 THEN 0 ELSE Offset[i - 1][Size[i - 1] + 1]
        /\ \A j \in 1 .. Size[i] + 1 : Offset[i][j] <= FileSize

ASSUME LineAssumption ==
    /\ SeqNumbers \subseteq Nat
    /\ SeqOf \in [Packets -> SeqNumbers]
    /\ \A i \in Packets : i > 0 => SeqOf[i] # SeqOf[i - 1]
    /\ HeaderNoise \subseteq {"length", "seq"}
    /\ Patient \in BOOLEAN
    /\ MaxNoise \in Nat
    /\ MaxAnswers \in Nat \ {0}
    /\ Overrun \in Nat

VARIABLES
    sn,         \* the packet the sender is at
    line,       \* the packet on the line, or Idle
    answers,    \* the answers on their way to the sender
    noise,      \* history: damages so far
    pc,         \* the character that k_recv reads next
    clean,      \* no character since START was damaged
    place,      \* the place in the data that is read next
    k_state,    \* the type of the packet
    n, last_n,  \* its sequence number, and the one of the checkpoint
    escape, escape_saved,   \* k_data_escape
    addr, addr_saved,       \* os_data_addr, from the start of the file
    mem,        \* mem[o]: the byte at offset o
    send_ptr,   \* characters kept in send_parms
    his_quote   \* "default" or "announced"

data == <<escape, escape_saved, addr, addr_saved, mem>>
sender == <<sn, answers>>
vars == <<sn, line, answers, noise, pc, clean, place, k_state, n, last_n,
          data, send_ptr, his_quote>>

-----------------------------------------------------------------------------

Idle == NumPackets
Junk == <<>>
Ack(m)  == [type |-> "Y", n |-> m]
Nack(m) == [type |-> "N", n |-> m]

\* A byte in memory: a character, and whether ktrans translated it.
Byte == {Junk} \cup (Packets \X (Nat \ {0}) \X BOOLEAN)

SEND_DATA_SIZE == 20
Late == {"type", "long", "data", "check", "end"}

TypeOK ==
    /\ sn \in 0 .. NumPackets
    /\ line \in Packets \cup {Idle}
    /\ answers \in Seq([type : {"Y", "N"}, n : Nat])
    /\ noise \in 0 .. MaxNoise
    /\ pc \in Late \cup {"start", "length", "seq", "starved", "done", "aborted"}
    /\ clean \in BOOLEAN
    /\ place \in Nat \ {0}
    /\ k_state \in Types
    /\ n \in Nat
    /\ last_n \in Nat \cup {-1}
    /\ escape \in BOOLEAN
    /\ escape_saved \in BOOLEAN
    /\ addr \in Nat
    /\ addr_saved \in Nat
    /\ mem \in [0 .. FileSize + Overrun - 1 -> Byte]
    /\ send_ptr \in 0 .. SEND_DATA_SIZE - 1
    /\ his_quote \in {"default", "announced"}

Init ==
    /\ sn = 0
    /\ line = Idle
    /\ answers = <<>>
    /\ noise = 0
    /\ pc = "start"
    /\ clean = FALSE
    /\ place = 1
    /\ k_state = "Z"
    /\ n = 0
    /\ last_n = -1
    /\ escape = FALSE
    /\ escape_saved = FALSE
    /\ addr = 0
    /\ addr_saved = 0
    /\ mem = [o \in 0 .. FileSize + Overrun - 1 |-> Junk]
    /\ send_ptr = 0
    /\ his_quote = "default"

-----------------------------------------------------------------------------
(***************************************************************************)
(* The sender and the line                                                 *)
(***************************************************************************)

Damage == noise < MaxNoise /\ noise' = noise + 1

\* The sender sends the packet it is at: for the first time, after a NACK or
\* because it waited too long for an answer.
Send ==
    /\ sn < NumPackets
    /\ line = Idle
    /\ IF Patient THEN answers = <<>> ELSE Len(answers) < MaxAnswers
    /\ line' = sn
    /\ UNCHANGED <<sender, noise, pc, clean, place, k_state, n, last_n, data,
                   send_ptr, his_quote>>

\* It goes on when its packet is acknowledged.
TakeAnswer ==
    /\ answers # <<>>
    /\ answers' = Tail(answers)
    /\ sn' = IF sn < NumPackets /\ Head(answers) = Ack(SeqOf[sn]) THEN sn + 1 ELSE sn
    /\ UNCHANGED <<line, noise, pc, clean, place, k_state, n, last_n, data,
                   send_ptr, his_quote>>

LoseAnswer ==
    /\ answers # <<>>
    /\ Damage
    /\ answers' = Tail(answers)
    /\ UNCHANGED <<sn, line, pc, clean, place, k_state, n, last_n, data,
                   send_ptr, his_quote>>

-----------------------------------------------------------------------------
(***************************************************************************)
(* The receiver                                                            *)
(***************************************************************************)

\* The characters of a damaged packet that follow the damage may be anything.
Spoil == IF clean THEN Damage ELSE UNCHANGED noise

\* k_data_save and k_data_restore.
KDataSave == /\ escape_saved' = escape
             /\ addr_saved' = addr
             /\ UNCHANGED <<escape, addr>>
KDataKeepEscape == /\ addr' = addr_saved             \* mutant: k_data_escape is kept
                   /\ UNCHANGED <<escape, escape_saved, addr_saved>>
KDataRestore == /\ escape' = escape_saved
                /\ addr' = addr_saved
                /\ UNCHANGED <<escape_saved, addr_saved>>

\* packet_error: roll back and send a NACK.  What is left of the packet is skipped
\* in the search for the next START.
PacketError ==
    /\ KDataRestore
    /\ answers' = Append(answers, Nack(n))
    /\ line' = Idle
    /\ pc' = "start"
    /\ UNCHANGED <<sn, clean, place, k_state, n, last_n, mem, send_ptr, his_quote>>

\* The search for START, which the line may damage: the packet is not noticed.
ReadStart ==
    /\ pc = "start"
    /\ line # Idle
    /\ \/ /\ pc' = "length"
          /\ clean' = TRUE
          /\ send_ptr' = 0
          /\ UNCHANGED <<line, noise>>
       \/ Damage /\ line' = Idle /\ UNCHANGED <<pc, clean, send_ptr>>
    /\ UNCHANGED <<sender, place, k_state, n, last_n, data, his_quote>>

\* ^C while the receiver searches for START.
Abort ==
    /\ pc = "start"
    /\ pc' = "aborted"
    /\ UNCHANGED <<sender, line, noise, clean, place, k_state, n, last_n, data,
                   send_ptr, his_quote>>

ReadLength ==
    /\ pc = "length"
    /\ \/ UNCHANGED <<clean, noise>>
       \/ Damage /\ clean' = FALSE
    /\ pc' = "seq"
    /\ UNCHANGED <<sender, line, place, k_state, n, last_n, data, send_ptr, his_quote>>

\* A control character for the length or the sequence number.
HeaderError ==
    /\ pc \in HeaderNoise
    /\ Damage
    /\ PacketError

\* Mutant: every packet is taken for a new one.
SeqNumberAlwaysNew(m) ==
    /\ n' = m
    /\ last_n' = m
    /\ KDataSave
    /\ UNCHANGED mem

\* The sequence number m tells a repetition from a new packet.
SeqNumber(m) ==
    /\ n' = m
    /\ IF m = last_n
       THEN KDataRestore /\ UNCHANGED <<last_n, mem>>
       ELSE KDataSave /\ last_n' = m /\ UNCHANGED mem

ReadSeq ==
    /\ pc = "seq"
    /\ \/ SeqNumber(SeqOf[line]) /\ UNCHANGED <<clean, noise>>
       \/ /\ "seq" \in HeaderNoise
          /\ Damage
          /\ clean' = FALSE
          /\ \E m \in SeqNumbers : SeqNumber(m)
    /\ pc' = "type"
    /\ UNCHANGED <<sender, line, place, k_state, send_ptr, his_quote>>

\* What follows the header, if the data goes on at place j.
DataOrCheck(j) == IF j <= Size[line] THEN "data" ELSE "check"

ReadType ==
    /\ pc = "type"
    /\ \/ /\ clean
          /\ k_state' = Type[line]
          /\ pc' = IF line \in Long THEN "long" ELSE DataOrCheck(1)
          /\ UNCHANGED <<clean, noise>>
       \/ /\ Spoil
          /\ clean' = FALSE
          /\ k_state' \in Types
          /\ pc' \in {"long", "data", "check"}
    /\ place' = 1
    /\ UNCHANGED <<sender, line, n, last_n, data, send_ptr, his_quote>>

\* The extended length, and the checksum of the header.
ReadExtendedLength ==
    /\ pc = "long"
    /\ clean
    /\ pc' = DataOrCheck(1)
    /\ UNCHANGED <<sender, line, noise, clean, place, k_state, n, last_n, data,
                   send_ptr, his_quote>>

\* k_data_char: a quote is remembered, anything else is stored as byte b.
KDataChar(quote, b) ==
    /\ IF ~escape /\ quote
       THEN escape' = TRUE /\ UNCHANGED <<addr, mem>>
       ELSE /\ escape' = FALSE
            /\ mem' = [mem EXCEPT ![addr] = b]
            /\ addr' = addr + 1
    /\ UNCHANGED <<escape_saved, addr_saved>>

\* The next place in send_parms: the pointer is backed off if that was the last.
NextParmLate == IF send_ptr + 1 > SEND_DATA_SIZE      \* mutant: > for >=
                THEN send_ptr ELSE send_ptr + 1
NextParm == IF send_ptr + 1 >= SEND_DATA_SIZE THEN send_ptr ELSE send_ptr + 1

\* A data character: stored, kept in send_parms or ignored.
TakeChar(quote, b) ==
    /\ IF k_state = "D" THEN KDataChar(quote, b) ELSE UNCHANGED data
    /\ send_ptr' = IF k_state = "S" THEN NextParm ELSE send_ptr

ReadData ==
    /\ pc = "data"
    /\ line # Idle
    /\ \/ /\ clean
          /\ TakeChar(place \in Quote[line] /\ his_quote = "announced",
                      <<line, place, escape>>)
          /\ place' = place + 1
          /\ pc' = DataOrCheck(place + 1)
          /\ UNCHANGED <<clean, noise>>
       \/ /\ Spoil
          /\ clean' = FALSE
          /\ addr < FileSize + Overrun
          /\ \E quote \in BOOLEAN : TakeChar(quote, Junk)
          /\ pc' \in {"data", "check"}
          /\ UNCHANGED place
    /\ UNCHANGED <<sender, line, k_state, n, last_n, his_quote>>

ReadCheck ==
    /\ pc = "check"
    /\ clean
    /\ pc' = "end"
    /\ UNCHANGED <<sender, line, noise, clean, place, k_state, n, last_n, data,
                   send_ptr, his_quote>>

\* handle_send_packet looks at the parameters that fit its buffer; the sixth is the
\* quote character.
ParmsSeen == IF send_ptr = SEND_DATA_SIZE - 1 THEN send_ptr - 1 ELSE send_ptr
HandleSendPacketNoQuote == his_quote' = "default"    \* mutant: I'll use '#'
HandleSendPacket == his_quote' = IF ParmsSeen >= 6 THEN "announced" ELSE "default"

\* The number that send_ack acknowledges.
AckNext == n + 1                                  \* mutant: the one expected next
Acknowledged == n

\* END_CHAR: the packet is complete and acknowledged.
ReadEnd ==
    /\ pc = "end"
    /\ clean
    /\ IF k_state = "S" THEN HandleSendPacket ELSE UNCHANGED his_quote
    /\ answers' = Append(answers, Ack(Acknowledged))
    /\ line' = Idle
    /\ pc' = IF k_state = "B" THEN "done" ELSE "start"
    /\ UNCHANGED <<sn, noise, clean, place, k_state, n, last_n, data, send_ptr>>

\* A control character, or a checksum or an END_CHAR that is not the right one; or
\* characters are missing, and the next START is read in place of one of them.
LateError ==
    /\ pc \in Late
    /\ line # Idle
    /\ Spoil
    /\ \/ PacketError
       \/ /\ pc' = "starved"
          /\ line' = Idle
          /\ UNCHANGED <<sender, clean, place, k_state, n, last_n, data,
                         send_ptr, his_quote>>

StartTooEarly ==
    /\ pc = "starved"
    /\ line # Idle
    /\ PacketError
    /\ UNCHANGED noise

-----------------------------------------------------------------------------

Receiver == ReadStart \/ ReadLength \/ HeaderError \/ ReadSeq \/ ReadType
            \/ ReadExtendedLength \/ ReadData \/ ReadCheck \/ ReadEnd \/ LateError
            \/ StartTooEarly

Next == Send \/ TakeAnswer \/ LoseAnswer \/ Receiver \/ Abort

Spec == Init /\ [][Next]_vars /\ WF_vars(Receiver) /\ WF_vars(Send) /\ WF_vars(TakeAnswer)

-----------------------------------------------------------------------------
(***************************************************************************)
(* Properties                                                              *)
(***************************************************************************)

\* The byte at offset o is the one that the file has there, translated if it was
\* escaped.
RightByte(o) ==
    \E i \in Packets : \E j \in 1 .. Size[i] :
        Stores(i, j) /\ Offset[i][j] = o /\ mem[o] = <<i, j, j \in Escaped[i]>>

\* What was acknowledged stays: the bytes of the packets that the sender has got an
\* acknowledgement for are in memory, whatever is damaged and repeated after that.
AcknowledgedKept == \A o \in 0 .. Sent(sn) - 1 : RightByte(o)

\* When k_recv returns, the file is in memory and the size it returns is right.
Delivered ==
    pc = "done" => addr = FileSize /\ \A o \in 0 .. FileSize - 1 : RightByte(o)

\* A packet that fails leaves no trace: whenever the receiver looks for the next
\* packet, it is at a packet boundary, with no escape pending.
RolledBack == pc = "start" => ~escape /\ \E i \in 0 .. NumPackets : addr = Sent(i)

\* Once the line stops failing, the transfer ends.
TransferEnds == <>(pc \in {"done", "aborted"})

-----------------------------------------------------------------------------
(***************************************************************************)
(* The invariant that the proofs are built on, for a patient sender and a  *)
(* line that leaves the length and the sequence number alone               *)
(***************************************************************************)

\* The sender's packet is complete in memory and was acknowledged.
Accepted ==
    /\ sn < NumPackets
    /\ pc \in {"start", "done", "aborted"}
    /\ last_n = SeqOf[sn]
    /\ addr = Sent(sn + 1)
    /\ ~escape
    /\ his_quote = "announced"
    /\ \A o \in 0 .. Sent(sn + 1) - 1 : RightByte(o)

\* One packet at a time, and one answer, that the sender waits for.
InTurn ==
    /\ line \in {sn, Idle}
    /\ pc \in {"length", "seq"} \cup Late => line # Idle
    /\ line # Idle => answers = <<>>
    /\ answers # <<>> =>
        /\ pc \in {"start", "done", "aborted"}
        /\ \/ answers = <<Nack(n)>>
           \/ Accepted /\ answers = <<Ack(SeqOf[sn])>>

\* The checkpoint is the start of the sender's packet, or it is still to be made.
ToBegin ==
    /\ pc \in {"start", "length", "seq", "done", "aborted"}
    /\ last_n = IF sn = 0 THEN -1 ELSE SeqOf[sn - 1]
    /\ addr = Sent(sn)
    /\ ~escape

Begun ==
    /\ sn < NumPackets
    /\ last_n = SeqOf[sn]
    /\ addr_saved = Sent(sn)
    /\ ~escape_saved
    /\ pc \in {"start", "length", "seq"} => addr \in {Sent(sn), Sent(sn + 1)} /\ ~escape
    /\ pc \in Late \cup {"starved"} => n = last_n /\ addr >= Sent(sn)

\* Up to its first damage, a packet is where it belongs.
Following ==
    /\ pc \in {"length", "seq", "type"} => send_ptr = 0
    /\ pc = "type" => addr = Sent(sn) /\ ~escape
    /\ pc \in Late \ {"type"} /\ clean =>
        /\ k_state = Type[sn]
        /\ place = 1 \/ pc # "long"
        /\ IF pc \in {"long", "data"} THEN place <= Size[sn] \/ pc = "long"
           ELSE place = Size[sn] + 1
        /\ addr = Offset[sn][place]
        /\ escape <=> Type[sn] = "D" /\ place \in Escaped[sn]
        /\ \A o \in 0 .. addr - 1 : RightByte(o)
        /\ Type[sn] = "S" =>
               send_ptr = IF place < SEND_DATA_SIZE THEN place - 1 ELSE SEND_DATA_SIZE - 1

IInv ==
    /\ TypeOK
    /\ InTurn
    /\ ToBegin \/ Begun
    /\ Following
    /\ sn > 0 => his_quote = "announced"
    /\ AcknowledgedKept
    /\ Delivered
=============================================================================
