---------------------------- MODULE KermitProofs ----------------------------
(***************************************************************************)
(* Proofs about the console's download.                                    *)
(*                                                                         *)
(* Kermit, for any transfer and any number of damages: with a patient      *)
(* sender, and a line that spares the length and the sequence number, what *)
(* was acknowledged stays and the file is delivered.                       *)
(*                                                                         *)
(* Crc16, for data of any length: the table gives what the polynomial      *)
(* gives.                                                                  *)
(***************************************************************************)
EXTENDS Kermit, Crc16, TLAPS

\* The conditions under which the receiver works.
Benign == Patient /\ HeaderNoise = {}

-----------------------------------------------------------------------------
(***************************************************************************)
(* The transfer                                                            *)
(***************************************************************************)

\* Where packets begin and end in the file.
LEMMA SentFacts ==
  ASSUME NEW i \in Packets
  PROVE  /\ Type[i] \in Types
         /\ Size[i] \in Nat
         /\ Sent(i) \in Nat
         /\ Sent(i) = Offset[i][1]
         /\ Sent(i + 1) \in Nat
         /\ Sent(i + 1) = Offset[i][Size[i] + 1]
         /\ Sent(0) = 0
         /\ SeqOf[i] \in Nat
         /\ i > 0 => i - 1 \in Packets /\ SeqOf[i - 1] \in Nat /\ SeqOf[i] # SeqOf[i - 1]
<1>1. NumPackets \in Nat /\ 0 \in Packets /\ Size \in [Packets -> Nat]
  BY TransferAssumption DEF Packets
<1>2. \A k \in Packets : Offset[k] \in [1 .. Size[k] + 1 -> Nat] /\ Size[k] \in Nat
  BY <1>1, TransferAssumption
<1>3. Sent(i) = Offset[i][1] /\ Sent(0) = 0
  BY <1>1, TransferAssumption DEF Sent, Packets
<1>4. Sent(i + 1) = Offset[i][Size[i] + 1]
  <2>1. CASE i + 1 < NumPackets
    <3>1. i + 1 \in Packets /\ i \in Nat
      BY <1>1, <2>1 DEF Packets
    <3>2. Offset[i + 1][1] = Offset[(i + 1) - 1][Size[(i + 1) - 1] + 1]
      <4>1. i + 1 # 0
        BY <3>1
      <4>2. \A j \in Packets : Offset[j][1] = IF j = 0 THEN 0 ELSE Offset[j - 1][Size[j - 1] + 1]
        BY TransferAssumption
      <4> QED
        BY <3>1, <4>1, <4>2
    <3> QED
      BY <2>1, <3>1, <3>2 DEF Sent
  <2>2. CASE ~(i + 1 < NumPackets)
    <3>1. i = NumPackets - 1
      BY <1>1, <2>2 DEF Packets
    <3> QED
      BY <2>2, <3>1 DEF Sent
  <2> QED
    BY <2>1, <2>2
<1>5. Sent(i) \in Nat /\ Sent(i + 1) \in Nat
  BY <1>2, <1>3, <1>4
<1>6. /\ SeqOf[i] \in Nat
      /\ i > 0 => i - 1 \in Packets /\ SeqOf[i - 1] \in Nat /\ SeqOf[i] # SeqOf[i - 1]
  <2>1. \A k \in Packets : SeqOf[k] \in Nat
    BY LineAssumption
  <2>2. i > 0 => i - 1 \in Packets
    BY <1>1 DEF Packets
  <2> QED
    BY <2>1, <2>2, LineAssumption
<1> QED
  BY <1>2, <1>3, <1>4, <1>5, <1>6, TransferAssumption

\* How the offset moves over a place of a packet.
LEMMA PlaceFacts ==
  ASSUME NEW i \in Packets, NEW j \in 1 .. Size[i]
  PROVE  /\ Offset[i][j] \in Nat
         /\ Offset[i][j + 1] = Offset[i][j] + (IF Stores(i, j) THEN 1 ELSE 0)
         /\ Stores(i, j) => Offset[i][j] < FileSize
         /\ j + 1 \in Escaped[i] <=> Escapes(i, j)
         /\ FileSize \in Nat
<1>1. Size[i] \in Nat /\ j \in 1 .. Size[i] + 1 /\ j + 1 \in 1 .. Size[i] + 1
  BY TransferAssumption
<1>2. Offset[i][j] \in Nat /\ Offset[i][j + 1] \in Nat
  BY <1>1, TransferAssumption
<1>3. Offset[i][j + 1] = Offset[i][j] + (IF Stores(i, j) THEN 1 ELSE 0)
  BY TransferAssumption
<1>4. FileSize \in Nat
  <2>1. NumPackets - 1 \in Packets /\ (NumPackets - 1) + 1 = NumPackets
    BY TransferAssumption DEF Packets
  <2> QED
    BY <2>1, SentFacts DEF FileSize
<1>5. Offset[i][j + 1] <= FileSize
  BY <1>1, TransferAssumption
<1> QED
  BY <1>1, <1>2, <1>3, <1>4, <1>5, TransferAssumption

\* Nothing is escaped at the start of a packet or behind its end.
LEMMA EndsUnescaped ==
  ASSUME NEW i \in Packets
  PROVE  1 \notin Escaped[i] /\ Size[i] + 1 \notin Escaped[i]
  BY TransferAssumption

LEMMA NumPacketsNat == NumPackets \in Nat /\ 0 \in Packets /\ FileSize \in Nat
<1>1. NumPackets \in Nat /\ NumPackets - 1 \in Packets /\ (NumPackets - 1) + 1 = NumPackets /\ 0 \in Packets
  BY TransferAssumption DEF Packets
<1> QED
  BY <1>1, SentFacts DEF FileSize

-----------------------------------------------------------------------------

LEMMA InitIInv == Init => IInv
<1> SUFFICES ASSUME Init PROVE IInv
  OBVIOUS
<1>1. NumPackets \in Nat /\ 0 \in Packets /\ FileSize \in Nat /\ Sent(0) = 0
  BY NumPacketsNat, SentFacts
<1>2. TypeOK
  <2>1. answers \in Seq([type : {"Y", "N"}, n : Nat])
    BY DEF Init
  <2>2. mem \in [0 .. FileSize + Overrun - 1 -> Byte]
    BY DEF Init, Byte
  <2>3. escape \in BOOLEAN /\ escape_saved \in BOOLEAN /\ clean \in BOOLEAN
    BY Zenon DEF Init
  <2> QED
    BY <1>1, <2>1, <2>2, <2>3, LineAssumption
       DEF Init, TypeOK, Idle, Types, SEND_DATA_SIZE, Late
<1>3. InTurn /\ ToBegin /\ Following
  BY <1>1 DEF Init, InTurn, ToBegin, Following, Late
<1>4. AcknowledgedKept /\ Delivered
  BY <1>1 DEF Init, AcknowledgedKept, Delivered
<1> QED
  BY <1>1, <1>2, <1>3, <1>4 DEF Init, IInv

\* Bytes that are not written stay right.
LEMMA BytesStay ==
  ASSUME NEW o, mem'[o] = mem[o]
  PROVE  RightByte(o)' <=> RightByte(o)
  BY DEF RightByte

\* The sender's packet is one of the transfer while it is on the line.
LEMMA LineFacts ==
  ASSUME IInv, line # Idle
  PROVE  line = sn /\ sn \in Packets /\ answers = <<>> /\ line \in Packets
  BY NumPacketsNat DEF IInv, TypeOK, InTurn, Idle, Packets

-----------------------------------------------------------------------------
(***************************************************************************)
(* The sender and the line                                                 *)
(***************************************************************************)

LEMMA SendIInv == IInv /\ Benign /\ Send => IInv'
<1> SUFFICES ASSUME IInv, Benign, Send PROVE IInv'
  OBVIOUS
<1> USE DEF Send, Benign, data, sender
<1>1. sn \in Packets /\ line' = sn /\ answers = <<>>
  BY NumPacketsNat DEF IInv, TypeOK, Packets
<1>2. TypeOK'
  BY <1>1 DEF IInv, TypeOK
<1>3. InTurn'
  BY <1>1 DEF IInv, InTurn, Accepted, Idle
<1>4. (ToBegin \/ Begun)' /\ Following'
  BY BytesStay DEF IInv, ToBegin, Begun, Following, RightByte
<1>5. AcknowledgedKept' /\ Delivered'
  BY BytesStay DEF IInv, AcknowledgedKept, Delivered
<1> QED
  BY <1>2, <1>3, <1>4, <1>5 DEF IInv

LEMMA TakeAnswerIInv == IInv /\ Benign /\ TakeAnswer => IInv'
<1> SUFFICES ASSUME IInv, Benign, TakeAnswer PROVE IInv'
  OBVIOUS
<1> USE DEF TakeAnswer, Benign, data
<1>1. /\ line = Idle /\ answers' = <<>>
      /\ pc \in {"start", "done", "aborted"}
  BY DEF IInv, InTurn
<1>2. CASE sn < NumPackets /\ Head(answers) = Ack(SeqOf[sn])
  <2>1. Accepted /\ sn' = sn + 1 /\ sn \in Packets
    BY <1>2, NumPacketsNat DEF IInv, InTurn, Ack, Nack, Accepted, TypeOK, Packets
  <2>2. sn' \in 1 .. NumPackets /\ sn' - 1 = sn /\ sn' \in 0 .. NumPackets
    BY <2>1, NumPacketsNat DEF Packets
  <2>3. TypeOK'
    BY <1>1, <2>2 DEF IInv, TypeOK
  <2>4. InTurn'
    BY <1>1 DEF IInv, InTurn, Late
  <2>5. ToBegin'
    <3>1. last_n' = SeqOf[sn' - 1] /\ sn' # 0
      BY <2>1, <2>2 DEF Accepted
    <3>2. addr' = Sent(sn') /\ pc' \in {"start", "done", "aborted"} /\ ~escape'
      BY <2>1, <1>1 DEF Accepted
    <3> QED
      BY <3>1, <3>2 DEF ToBegin
  <2>6. Following'
    BY <1>1 DEF Following, Late
  <2>7. AcknowledgedKept'
    BY <2>1, BytesStay DEF AcknowledgedKept, Accepted, Sent
  <2>8. Delivered' /\ his_quote' = "announced"
    BY <2>1, BytesStay DEF IInv, Delivered, Accepted
  <2> QED
    BY <2>3, <2>4, <2>5, <2>6, <2>7, <2>8 DEF IInv
<1>3. CASE ~(sn < NumPackets /\ Head(answers) = Ack(SeqOf[sn]))
  <2>1. sn' = sn
    BY <1>3
  <2>2. TypeOK'
    BY <1>1, <2>1 DEF IInv, TypeOK
  <2>3. InTurn'
    BY <1>1, <2>1 DEF IInv, InTurn, Late
  <2>4. (ToBegin \/ Begun)' /\ Following'
    BY <1>1, <2>1 DEF IInv, ToBegin, Begun, Following, Late, Sent
  <2>5. AcknowledgedKept' /\ Delivered'
    BY <2>1, BytesStay DEF IInv, AcknowledgedKept, Delivered, Sent
  <2> QED
    BY <2>1, <2>2, <2>3, <2>4, <2>5 DEF IInv
<1> QED
  BY <1>2, <1>3

LEMMA LoseAnswerIInv == IInv /\ Benign /\ LoseAnswer => IInv'
<1> SUFFICES ASSUME IInv, Benign, LoseAnswer PROVE IInv'
  OBVIOUS
<1> USE DEF LoseAnswer, Damage, Benign, data
<1>1. /\ line = Idle /\ answers' = <<>>
      /\ pc \in {"start", "done", "aborted"}
  BY DEF IInv, InTurn
<1>2. TypeOK'
  BY <1>1, LineAssumption DEF IInv, TypeOK
<1>3. InTurn'
  BY <1>1 DEF IInv, InTurn, Late
<1>4. (ToBegin \/ Begun)' /\ Following'
  BY <1>1 DEF IInv, ToBegin, Begun, Following, Late
<1>5. AcknowledgedKept' /\ Delivered'
  BY BytesStay DEF IInv, AcknowledgedKept, Delivered
<1> QED
  BY <1>2, <1>3, <1>4, <1>5 DEF IInv

LEMMA AbortIInv == IInv /\ Benign /\ Abort => IInv'
<1> SUFFICES ASSUME IInv, Benign, Abort PROVE IInv'
  OBVIOUS
<1> USE DEF Abort, Benign, data, sender
<1>1. TypeOK'
  BY DEF IInv, TypeOK
<1>2. InTurn'
  BY BytesStay DEF IInv, InTurn, Late, Accepted
<1>3. (ToBegin \/ Begun)' /\ Following'
  BY DEF IInv, ToBegin, Begun, Following, Late
<1>4. AcknowledgedKept' /\ Delivered'
  BY BytesStay DEF IInv, AcknowledgedKept, Delivered
<1> QED
  BY <1>1, <1>2, <1>3, <1>4 DEF IInv

-----------------------------------------------------------------------------
(***************************************************************************)
(* The receiver up to the type                                             *)
(***************************************************************************)

LEMMA ReadStartIInv == IInv /\ Benign /\ ReadStart => IInv'
<1> SUFFICES ASSUME IInv, Benign, ReadStart PROVE IInv'
  OBVIOUS
<1> USE DEF ReadStart, Damage, Benign, data, sender
<1>1. line = sn /\ sn \in Packets /\ answers = <<>>
  BY LineFacts
<1>2. TypeOK'
  <2>1. clean' \in BOOLEAN
    BY Zenon DEF IInv, TypeOK
  <2>2. send_ptr' \in 0 .. SEND_DATA_SIZE - 1
    <3>1. send_ptr' = 0 \/ send_ptr' = send_ptr
      BY Zenon
    <3> QED
      BY <3>1 DEF IInv, TypeOK, SEND_DATA_SIZE
  <2>3. noise' \in 0 .. MaxNoise
    BY LineAssumption DEF IInv, TypeOK
  <2>4. line' \in Packets \cup {Idle} /\ pc' \in Late \cup {"start", "length"}
    BY DEF IInv, TypeOK
  <2> QED
    BY <2>1, <2>2, <2>3, <2>4 DEF IInv, TypeOK
<1>3. InTurn'
  BY <1>1 DEF IInv, InTurn, Late
<1>4. (ToBegin \/ Begun)' /\ Following'
  BY DEF IInv, ToBegin, Begun, Following, Late
<1>5. AcknowledgedKept' /\ Delivered'
  BY BytesStay DEF IInv, AcknowledgedKept, Delivered
<1> QED
  BY <1>2, <1>3, <1>4, <1>5 DEF IInv

LEMMA ReadLengthIInv == IInv /\ Benign /\ ReadLength => IInv'
<1> SUFFICES ASSUME IInv, Benign, ReadLength PROVE IInv'
  OBVIOUS
<1> USE DEF ReadLength, Damage, Benign, data, sender
<1>1. TypeOK'
  <2>1. clean' \in BOOLEAN
    BY Zenon DEF IInv, TypeOK
  <2>2. noise' \in 0 .. MaxNoise
    BY LineAssumption DEF IInv, TypeOK
  <2> QED
    BY <2>1, <2>2 DEF IInv, TypeOK
<1>2. InTurn'
  BY DEF IInv, InTurn, Late
<1>3. (ToBegin \/ Begun)' /\ Following'
  BY DEF IInv, ToBegin, Begun, Following, Late
<1>4. AcknowledgedKept' /\ Delivered'
  BY BytesStay DEF IInv, AcknowledgedKept, Delivered
<1> QED
  BY <1>1, <1>2, <1>3, <1>4 DEF IInv

\* A packet that repeats the last one is rolled back to, a new one checkpointed:
\* either way the receiver is where the sender's packet starts.
LEMMA ReadSeqIInv == IInv /\ Benign /\ ReadSeq => IInv'
<1> SUFFICES ASSUME IInv, Benign, ReadSeq PROVE IInv'
  OBVIOUS
<1> USE DEF ReadSeq, Damage, Benign, data, sender
<1>1. line = sn /\ sn \in Packets /\ answers = <<>>
  BY LineFacts DEF IInv, InTurn
<1>2. SeqNumber(SeqOf[sn]) /\ UNCHANGED <<clean, noise>>
  BY <1>1
<1>3. SeqOf[sn] \in Nat /\ Sent(sn) \in Nat /\ SeqOf[sn] # -1
  BY <1>1, SentFacts
<1>4. /\ n' = SeqOf[sn] /\ last_n' = SeqOf[sn]
      /\ addr' = Sent(sn) /\ addr_saved' = Sent(sn)
      /\ ~escape' /\ ~escape_saved'
      /\ mem' = mem
  <2>1. CASE last_n = SeqOf[sn]
    <3>1. Begun
      <4>1. last_n # IF sn = 0 THEN -1 ELSE SeqOf[sn - 1]
        <5>1. sn > 0 => SeqOf[sn] # SeqOf[sn - 1]
          BY <1>1, SentFacts
        <5>2. sn = 0 \/ sn > 0
          BY <1>1, NumPacketsNat DEF Packets
        <5> QED
          BY <1>3, <2>1, <5>1, <5>2
      <4> QED
        BY <4>1 DEF IInv, ToBegin
    <3> QED
      BY <1>2, <2>1, <3>1 DEF SeqNumber, KDataRestore, Begun
  <2>2. CASE last_n # SeqOf[sn]
    <3>1. ToBegin
      BY <2>2 DEF IInv, Begun
    <3> QED
      BY <1>2, <2>2, <3>1 DEF SeqNumber, KDataSave, ToBegin
  <2> QED
    BY <2>1, <2>2
<1>5. TypeOK'
  <2>1. escape' \in BOOLEAN /\ escape_saved' \in BOOLEAN
    BY <1>2 DEF SeqNumber, KDataSave, KDataRestore, IInv, TypeOK
  <2>2. clean' \in BOOLEAN /\ noise' \in 0 .. MaxNoise
    BY <1>2 DEF IInv, TypeOK
  <2> QED
    BY <1>3, <1>4, <2>1, <2>2 DEF IInv, TypeOK, Late
<1>6. InTurn'
  BY <1>1 DEF IInv, InTurn, Late
<1>7. Begun'
  BY <1>1, <1>3, <1>4, NumPacketsNat DEF Begun, Late, Packets
<1>8. Following'
  BY <1>4 DEF IInv, Following, Late
<1>9. AcknowledgedKept' /\ Delivered'
  BY <1>4, BytesStay DEF IInv, AcknowledgedKept, Delivered
<1> QED
  BY <1>5, <1>6, <1>7, <1>8, <1>9 DEF IInv

LEMMA ReadTypeIInv == IInv /\ Benign /\ ReadType => IInv'
<1> SUFFICES ASSUME IInv, Benign, ReadType PROVE IInv'
  OBVIOUS
<1> USE DEF ReadType, Benign, data, sender
<1>1. line = sn /\ sn \in Packets /\ answers = <<>>
  BY LineFacts DEF IInv, InTurn, Late
<1>2. Size[sn] \in Nat /\ Type[sn] \in Types /\ Sent(sn) = Offset[sn][1] /\ Sent(sn) \in Nat
  BY <1>1, SentFacts
<1>3. pc' \in {"long", "data", "check"}
  BY DEF DataOrCheck
<1>4. Begun /\ addr = Sent(sn) /\ ~escape /\ send_ptr = 0
  BY DEF IInv, ToBegin, Following, Late
<1>5. TypeOK'
  <2>1. clean' \in BOOLEAN
    BY Zenon DEF IInv, TypeOK
  <2>2. noise' \in 0 .. MaxNoise
    BY LineAssumption DEF IInv, TypeOK, Spoil, Damage
  <2>3. k_state' \in Types
    BY <1>1, <1>2
  <2> QED
    BY <1>3, <2>1, <2>2, <2>3 DEF IInv, TypeOK, Late
<1>6. InTurn'
  BY <1>1, <1>3 DEF IInv, InTurn, Late
<1>7. Begun'
  BY <1>3, <1>4 DEF IInv, TypeOK, Begun, Late
<1>8. Following'
  <2>1. ASSUME clean'
        PROVE  /\ k_state' = Type[sn]
               /\ pc' = "data" => 1 <= Size[sn]
               /\ pc' = "check" => Size[sn] + 1 = 1
    BY <1>1, <1>2, <2>1 DEF DataOrCheck
  <2>2. \A o \in 0 .. addr - 1 : RightByte(o)'
    BY <1>4, BytesStay DEF IInv, AcknowledgedKept
  <2>3. 1 \notin Escaped[sn]
    BY <1>1, EndsUnescaped
  <2> QED
    BY <1>2, <1>3, <1>4, <2>1, <2>2, <2>3 DEF Following, Late, SEND_DATA_SIZE
<1>9. AcknowledgedKept' /\ Delivered'
  BY <1>3, BytesStay DEF IInv, AcknowledgedKept, Delivered
<1> QED
  BY <1>5, <1>6, <1>7, <1>8, <1>9 DEF IInv

-----------------------------------------------------------------------------
(***************************************************************************)
(* The receiver from the extended length to the end of the packet          *)
(***************************************************************************)

\* What is known while the receiver is behind the sequence number.
LEMMA LateFacts ==
  ASSUME IInv, pc \in Late
  PROVE  /\ line = sn /\ sn \in Packets /\ answers = <<>>
         /\ Begun /\ n = last_n /\ addr >= Sent(sn)
         /\ Size[sn] \in Nat /\ Sent(sn) \in Nat /\ Sent(sn + 1) \in Nat
<1>1. line = sn /\ sn \in Packets /\ answers = <<>>
  BY LineFacts DEF IInv, InTurn
<1>2. Begun
  BY DEF IInv, ToBegin, Late
<1> QED
  BY <1>1, <1>2, SentFacts DEF Begun

LEMMA ReadExtendedLengthIInv == IInv /\ Benign /\ ReadExtendedLength => IInv'
<1> SUFFICES ASSUME IInv, Benign, ReadExtendedLength PROVE IInv'
  OBVIOUS
<1> USE DEF ReadExtendedLength, Benign, data, sender
<1>1. pc \in Late /\ pc' \in {"data", "check"}
  BY DEF Late, DataOrCheck
<1>2. line = sn /\ sn \in Packets /\ Begun /\ Size[sn] \in Nat
  BY <1>1, LateFacts
<1>3. TypeOK' /\ InTurn' /\ Begun'
  BY <1>1, <1>2 DEF IInv, TypeOK, InTurn, Late, Begun
<1>4. Following'
  <2>1. place = 1 /\ place \in Nat
    BY DEF IInv, Following, Late
  <2>2. (pc' = "data" => place <= Size[sn]) /\ (pc' = "check" => place = Size[sn] + 1)
    BY <1>2, <2>1 DEF DataOrCheck
  <2>3. \A o \in 0 .. addr - 1 : RightByte(o) <=> RightByte(o)'
    BY BytesStay
  <2> QED
    BY <1>1, <2>2, <2>3 DEF IInv, Following, Late
<1>5. AcknowledgedKept' /\ Delivered'
  BY <1>1, BytesStay DEF IInv, AcknowledgedKept, Delivered
<1> QED
  BY <1>3, <1>4, <1>5 DEF IInv

LEMMA ReadCheckIInv == IInv /\ Benign /\ ReadCheck => IInv'
<1> SUFFICES ASSUME IInv, Benign, ReadCheck PROVE IInv'
  OBVIOUS
<1> USE DEF ReadCheck, Benign, data, sender
<1>1. pc \in Late
  BY DEF Late
<1>2. line = sn /\ sn \in Packets /\ Begun
  BY <1>1, LateFacts
<1>3. TypeOK' /\ InTurn' /\ Begun'
  BY <1>1, <1>2 DEF IInv, TypeOK, InTurn, Late, Begun
<1>4. Following'
  BY BytesStay DEF IInv, Following, Late
<1>5. AcknowledgedKept' /\ Delivered'
  BY <1>1, BytesStay DEF IInv, AcknowledgedKept, Delivered
<1> QED
  BY <1>3, <1>4, <1>5 DEF IInv

\* A data character of an undamaged packet goes where it belongs.
LEMMA TakeCleanChar ==
  ASSUME IInv, pc = "data", clean,
         TakeChar(place \in Quote[sn] /\ his_quote = "announced", <<sn, place, escape>>),
         UNCHANGED <<sn, his_quote>>
  PROVE  /\ place \in 1 .. Size[sn] /\ k_state = Type[sn]
         /\ addr' = Offset[sn][place + 1] /\ addr' \in Nat /\ addr' >= Sent(sn)
         /\ escape' \in BOOLEAN
         /\ escape' <=> Type[sn] = "D" /\ place + 1 \in Escaped[sn]
         /\ UNCHANGED <<escape_saved, addr_saved>>
         /\ mem' \in [0 .. FileSize + Overrun - 1 -> Byte]
         /\ \A o \in 0 .. addr' - 1 : RightByte(o)'
<1>1. /\ sn \in Packets /\ Size[sn] \in Nat /\ Sent(sn) \in Nat /\ addr >= Sent(sn)
  BY LateFacts DEF Late
<1>2. /\ place \in 1 .. Size[sn] /\ k_state = Type[sn]
      /\ addr = Offset[sn][place] /\ addr \in Nat
      /\ escape <=> Type[sn] = "D" /\ place \in Escaped[sn]
      /\ \A o \in 0 .. addr - 1 : RightByte(o)
      /\ escape \in BOOLEAN
  BY <1>1 DEF IInv, TypeOK, Following, Late
<1>3. mem \in [0 .. FileSize + Overrun - 1 -> Byte]
  BY DEF IInv, TypeOK
<1>4. CASE Type[sn] # "D"
  <2>1. UNCHANGED data
    BY <1>2, <1>4 DEF TakeChar
  <2>2. Offset[sn][place + 1] = addr
    BY <1>1, <1>2, <1>4, PlaceFacts DEF Stores
  <2>3. ~escape' /\ addr' = addr /\ mem' = mem
    BY <1>2, <1>4, <2>1 DEF data
  <2>4. \A o : RightByte(o) <=> RightByte(o)'
    BY <2>3, BytesStay
  <2> QED
    BY <1>1, <1>2, <1>3, <1>4, <2>1, <2>2, <2>3, <2>4 DEF data
<1>5. CASE Type[sn] = "D"
  <2>1. his_quote = "announced"
    BY <1>1, <1>5, TransferAssumption, NumPacketsNat DEF IInv, Packets
  <2>2. KDataChar(place \in Quote[sn], <<sn, place, escape>>)
    BY <1>2, <1>5, <2>1 DEF TakeChar
  <2>3. ~escape /\ place \in Quote[sn] <=> Escapes(sn, place)
    BY <1>2, <1>5 DEF Escapes
  <2>4. CASE Escapes(sn, place)
    <3>1. escape' = TRUE /\ UNCHANGED <<addr, mem, escape_saved, addr_saved>>
      BY <2>2, <2>3, <2>4 DEF KDataChar
    <3>2. Offset[sn][place + 1] = addr /\ place + 1 \in Escaped[sn]
      BY <1>1, <1>2, <2>4, PlaceFacts DEF Stores
    <3>3. \A o : RightByte(o) <=> RightByte(o)'
      BY <3>1, BytesStay
    <3> QED
      BY <1>1, <1>2, <1>3, <1>5, <3>1, <3>2, <3>3
  <2>5. CASE ~Escapes(sn, place)
    <3>1. /\ escape' = FALSE /\ UNCHANGED <<escape_saved, addr_saved>>
          /\ mem' = [mem EXCEPT ![addr] = <<sn, place, escape>>]
          /\ addr' = addr + 1
      BY <2>2, <2>3, <2>5 DEF KDataChar
    <3>2. Stores(sn, place)
      BY <1>5, <2>5 DEF Stores
    <3>3. /\ Offset[sn][place + 1] = addr + 1 /\ place + 1 \notin Escaped[sn]
          /\ addr \in 0 .. FileSize + Overrun - 1
      BY <1>1, <1>2, <2>5, <3>2, PlaceFacts, LineAssumption
    <3>10. place \in Nat \ {0}
      BY <1>1, <1>2
    <3>4. <<sn, place, escape>> \in Byte
      BY <1>1, <1>2, <3>10, Zenon DEF Byte
    <3>5. mem' \in [0 .. FileSize + Overrun - 1 -> Byte]
      BY <1>3, <3>1, <3>4
    <3>6. mem'[addr] = <<sn, place, escape>>
      BY <1>3, <3>1, <3>3
    <3>7. escape = (place \in Escaped[sn])
      BY <1>2, <1>5
    <3>8. \A o : o = addr => RightByte(o)'
      <4> SUFFICES ASSUME NEW o, o = addr
                   PROVE  \E i \in Packets : \E j \in 1 .. Size[i] :
                            /\ Stores(i, j) /\ Offset[i][j] = o
                            /\ mem'[o] = <<i, j, j \in Escaped[i]>>
        BY DEF RightByte
      <4> QED
        BY <1>1, <1>2, <3>2, <3>6, <3>7, Zenon
    <3>9. \A o \in 0 .. addr - 1 : RightByte(o)'
      BY <1>2, <1>3, <3>1, BytesStay
    <3>11. \A o \in 0 .. addr' - 1 : RightByte(o)'
      <4>1. \A o \in 0 .. addr' - 1 : o = addr \/ o \in 0 .. addr - 1
        BY <1>2, <3>1
      <4> QED
        BY <3>8, <3>9, <4>1, Zenon
    <3>12. addr' = Offset[sn][place + 1] /\ addr' \in Nat /\ addr' >= Sent(sn)
      BY <1>1, <1>2, <3>1, <3>3
    <3> QED
      BY <1>2, <3>1, <3>3, <3>5, <3>11, <3>12, Zenon
  <2> QED
    BY <2>4, <2>5
<1> QED
  BY <1>4, <1>5

\* One of a damaged packet does no harm to what was there when the packet began.
LEMMA TakeJunk ==
  ASSUME IInv, pc = "data", NEW quote \in BOOLEAN, TakeChar(quote, Junk)
  PROVE  /\ addr' \in Nat /\ addr' >= Sent(sn)
         /\ escape' \in BOOLEAN
         /\ UNCHANGED <<escape_saved, addr_saved>>
         /\ mem' \in [0 .. FileSize + Overrun - 1 -> Byte]
         /\ \A o \in 0 .. Sent(sn) - 1 : mem'[o] = mem[o]
<1>1. sn \in Packets /\ Sent(sn) \in Nat /\ addr >= Sent(sn)
  BY LateFacts DEF Late
<1>2. addr \in Nat /\ mem \in [0 .. FileSize + Overrun - 1 -> Byte] /\ escape \in BOOLEAN
  BY DEF IInv, TypeOK
<1>3. CASE UNCHANGED data
  BY <1>1, <1>2, <1>3 DEF data
<1>4. CASE KDataChar(quote, Junk)
  <2>1. CASE escape' = TRUE /\ UNCHANGED <<addr, mem>>
    BY <1>1, <1>2, <1>4, <2>1 DEF KDataChar
  <2>2. CASE escape' = FALSE /\ mem' = [mem EXCEPT ![addr] = Junk] /\ addr' = addr + 1
    <3>1. mem' \in [0 .. FileSize + Overrun - 1 -> Byte]
      BY <1>2, <2>2 DEF Byte
    <3>2. UNCHANGED <<escape_saved, addr_saved>>
      BY <1>4 DEF KDataChar
    <3>3. \A o \in 0 .. Sent(sn) - 1 : mem'[o] = mem[o]
      BY <1>1, <1>2, <2>2
    <3>4. addr' \in Nat /\ addr' >= Sent(sn)
      BY <1>1, <1>2, <2>2
    <3> QED
      BY <2>2, <3>1, <3>2, <3>3, <3>4, Zenon
  <2> QED
    BY <1>4, <2>1, <2>2 DEF KDataChar
<1> QED
  BY <1>3, <1>4 DEF TakeChar

LEMMA ReadDataIInv == IInv /\ Benign /\ ReadData => IInv'
<1> SUFFICES ASSUME IInv, Benign, ReadData PROVE IInv'
  OBVIOUS
<1> USE DEF Benign, sender
<1>1. /\ pc = "data" /\ pc \in Late
      /\ UNCHANGED <<sn, answers, line, k_state, n, last_n, his_quote>>
  BY DEF ReadData, Late
<1>2. line = sn /\ sn \in Packets /\ Begun /\ Size[sn] \in Nat /\ Sent(sn) \in Nat
  BY <1>1, LateFacts
<1>3. send_ptr' \in 0 .. SEND_DATA_SIZE - 1
  <2>1. send_ptr' = send_ptr \/ send_ptr' = NextParm
    BY DEF ReadData, TakeChar
  <2>2. send_ptr \in 0 .. 19
    BY DEF IInv, TypeOK, SEND_DATA_SIZE
  <2> QED
    BY ONLY <2>1, <2>2 DEF NextParm, SEND_DATA_SIZE
<1>4. CASE /\ clean
           /\ TakeChar(place \in Quote[line] /\ his_quote = "announced",
                       <<line, place, escape>>)
           /\ place' = place + 1
           /\ pc' = DataOrCheck(place + 1)
           /\ UNCHANGED <<clean, noise>>
  <2>1. /\ place \in 1 .. Size[sn] /\ k_state = Type[sn]
        /\ addr' = Offset[sn][place + 1] /\ addr' \in Nat /\ addr' >= Sent(sn)
        /\ escape' \in BOOLEAN
        /\ escape' <=> Type[sn] = "D" /\ place + 1 \in Escaped[sn]
        /\ UNCHANGED <<escape_saved, addr_saved>>
        /\ mem' \in [0 .. FileSize + Overrun - 1 -> Byte]
        /\ \A o \in 0 .. addr' - 1 : RightByte(o)'
    BY <1>1, <1>2, <1>4, TakeCleanChar
  <2>2. /\ pc' \in {"data", "check"}
        /\ pc' = "data" => place + 1 <= Size[sn]
        /\ pc' = "check" => place + 1 = Size[sn] + 1
    BY <1>2, <1>4, <2>1 DEF DataOrCheck
  <2>3. TypeOK'
    <3>1. clean' \in BOOLEAN /\ noise' \in 0 .. MaxNoise
      BY <1>4 DEF IInv, TypeOK
    <3>2. place' \in Nat \ {0}
      BY <1>4, <2>1
    <3>3. escape_saved' \in BOOLEAN /\ addr_saved' \in Nat
      BY <2>1 DEF IInv, TypeOK
    <3> QED
      BY <1>1, <1>3, <2>1, <2>2, <3>1, <3>2, <3>3 DEF IInv, TypeOK, Late
  <2>4. InTurn' /\ Begun'
    BY <1>1, <1>2, <2>1, <2>2 DEF IInv, InTurn, Begun, Late
  <2>5. Following'
    <3>1. Type[sn] = "S" =>
             send_ptr' = IF place + 1 < SEND_DATA_SIZE THEN place ELSE SEND_DATA_SIZE - 1
      <4>1. Type[sn] = "S" =>
               send_ptr = IF place < SEND_DATA_SIZE THEN place - 1 ELSE SEND_DATA_SIZE - 1
        BY <1>1, <1>4 DEF IInv, Following, Late
      <4>2. Type[sn] = "S" => send_ptr' = NextParm
        BY <1>4, <2>1 DEF TakeChar
      <4> QED
        BY <2>1, <4>1, <4>2 DEF NextParm, SEND_DATA_SIZE
    <3>2. (place + 1) - 1 = place
      BY <2>1
    <3> QED
      BY <1>1, <1>2, <1>4, <2>1, <2>2, <3>1, <3>2 DEF Following, Late
  <2>6. AcknowledgedKept' /\ Delivered'
    BY <1>1, <1>2, <2>1, <2>2 DEF AcknowledgedKept, Delivered
  <2> QED
    BY <1>1, <2>3, <2>4, <2>5, <2>6 DEF IInv
<1>5. CASE /\ Spoil
           /\ clean' = FALSE
           /\ addr < FileSize + Overrun
           /\ \E quote \in BOOLEAN : TakeChar(quote, Junk)
           /\ pc' \in {"data", "check"}
           /\ UNCHANGED place
  <2>1. /\ addr' \in Nat /\ addr' >= Sent(sn)
        /\ escape' \in BOOLEAN
        /\ UNCHANGED <<escape_saved, addr_saved>>
        /\ mem' \in [0 .. FileSize + Overrun - 1 -> Byte]
        /\ \A o \in 0 .. Sent(sn) - 1 : mem'[o] = mem[o]
    BY <1>1, <1>5, TakeJunk
  <2>2. TypeOK'
    <3>1. noise' \in 0 .. MaxNoise
      BY <1>5, LineAssumption DEF IInv, TypeOK, Spoil, Damage
    <3>2. escape_saved' \in BOOLEAN /\ addr_saved' \in Nat /\ place' \in Nat \ {0}
      BY <1>5, <2>1 DEF IInv, TypeOK
    <3> QED
      BY <1>1, <1>3, <1>5, <2>1, <3>1, <3>2 DEF IInv, TypeOK, Late
  <2>3. InTurn' /\ Begun'
    BY <1>1, <1>2, <1>5, <2>1 DEF IInv, InTurn, Begun, Late
  <2>4. Following'
    BY <1>5 DEF Following, Late
  <2>5. AcknowledgedKept' /\ Delivered'
    BY <1>1, <1>5, <2>1, BytesStay DEF IInv, AcknowledgedKept, Delivered
  <2> QED
    BY <1>1, <2>2, <2>3, <2>4, <2>5 DEF IInv
<1> QED
  BY <1>4, <1>5 DEF ReadData


\* No character of the header is taken for a control character.
LEMMA HeaderErrorIInv == IInv /\ Benign /\ HeaderError => IInv'
  BY DEF Benign, HeaderError

\* The end of an undamaged packet: the sender's packet is in memory, is acknowledged,
\* and, if it is the S packet, its quote character is taken over.
LEMMA ReadEndIInv == IInv /\ Benign /\ ReadEnd => IInv'
<1> SUFFICES ASSUME IInv, Benign, ReadEnd PROVE IInv'
  OBVIOUS
<1> USE DEF Benign, data, sender
<1>1. pc \in Late /\ pc = "end" /\ clean
  BY DEF ReadEnd, Late
<1>2. /\ line = sn /\ sn \in Packets /\ answers = <<>> /\ Begun /\ n = last_n
      /\ Size[sn] \in Nat /\ Sent(sn) \in Nat /\ Sent(sn + 1) \in Nat
  BY <1>1, LateFacts
<1>3. /\ UNCHANGED <<sn, clean, noise, place, k_state, n, last_n, escape, escape_saved,
                     addr, addr_saved, mem, send_ptr>>
      /\ line' = Idle /\ answers' = <<Ack(n)>>
      /\ pc' = IF k_state = "B" THEN "done" ELSE "start"
      /\ k_state # "S" => his_quote' = his_quote
      /\ k_state = "S" => HandleSendPacket
  BY <1>2 DEF ReadEnd, Acknowledged
<1>4. /\ k_state = Type[sn] /\ place = Size[sn] + 1 /\ addr = Offset[sn][place]
      /\ escape <=> Type[sn] = "D" /\ place \in Escaped[sn]
      /\ \A o \in 0 .. addr - 1 : RightByte(o)
      /\ Type[sn] = "S" =>
           send_ptr = IF place < SEND_DATA_SIZE THEN place - 1 ELSE SEND_DATA_SIZE - 1
  BY <1>1 DEF IInv, Following, Late
<1>5. addr = Sent(sn + 1) /\ ~escape
  BY <1>2, <1>4, SentFacts, EndsUnescaped
<1>6. his_quote' = "announced"
  <2>1. CASE Type[sn] = "S"
    <3>1. Size[sn] >= 6
      BY <1>2, <2>1, TransferAssumption
    <3>2. send_ptr \in Nat /\ send_ptr >= 6
      BY <1>2, <1>4, <2>1, <3>1 DEF SEND_DATA_SIZE
    <3>3. ParmsSeen >= 6
      BY <3>2 DEF ParmsSeen, SEND_DATA_SIZE
    <3> QED
      BY <1>3, <1>4, <2>1, <3>3 DEF HandleSendPacket
  <2>2. CASE Type[sn] # "S"
    <3>1. sn > 0
      BY <1>2, <2>2, TransferAssumption, NumPacketsNat DEF Packets
    <3> QED
      BY <1>3, <1>4, <2>2, <3>1 DEF IInv
  <2> QED
    BY <2>1, <2>2
<1>7. TypeOK'
  <2>1. answers' \in Seq([type : {"Y", "N"}, n : Nat])
    BY <1>3 DEF IInv, TypeOK, Ack
  <2> QED
    BY <1>3, <1>6, <2>1 DEF IInv, TypeOK, Late
<1>8. Accepted'
  <2>1. sn < NumPackets /\ last_n = SeqOf[sn] /\ last_n' = last_n
    BY <1>2, <1>3 DEF Begun
  <2>2. \A o \in 0 .. Sent(sn + 1) - 1 : RightByte(o)'
    BY <1>3, <1>4, <1>5, BytesStay
  <2> QED
    BY <1>3, <1>5, <1>6, <2>1, <2>2 DEF Accepted, Sent
<1>9. InTurn'
  <2>1. answers' = <<Ack(SeqOf[sn'])>>
    BY <1>2, <1>3 DEF Begun
  <2>2. pc' \in {"start", "done"} /\ line' = Idle
    BY <1>3
  <2> QED
    BY <1>8, <2>1, <2>2 DEF InTurn, Late
<1>10. Begun' /\ Following'
  <2>1. pc' \in {"start", "done"}
    BY <1>3
  <2> QED
    BY <1>2, <1>3, <1>5, <2>1 DEF Begun, Following, Late, Sent
<1>11. AcknowledgedKept'
  BY <1>3, BytesStay DEF IInv, AcknowledgedKept, Sent
<1>12. Delivered'
  <2>1. SUFFICES ASSUME pc' = "done"
                 PROVE  addr' = FileSize /\ \A o \in 0 .. FileSize - 1 : RightByte(o)'
    BY DEF Delivered
  <2>2. sn = NumPackets - 1 /\ sn + 1 = NumPackets
    BY <1>2, <1>3, <1>4, <2>1, TransferAssumption, NumPacketsNat DEF Packets
  <2> QED
    BY <1>3, <1>4, <1>5, <2>2, BytesStay DEF FileSize
<1> QED
  BY <1>3, <1>6, <1>7, <1>9, <1>10, <1>11, <1>12 DEF IInv

-----------------------------------------------------------------------------
(***************************************************************************)
(* Errors                                                                  *)
(***************************************************************************)

\* The receiver goes back to the start of the sender's packet and says so.
LEMMA PacketErrorIInv ==
  ASSUME IInv, Begun, sn \in Packets, answers = <<>>, PacketError,
         noise' \in 0 .. MaxNoise, pc \in Late \cup {"starved"}
  PROVE  IInv'
<1> USE DEF PacketError
<1>1. /\ escape' = escape_saved /\ addr' = addr_saved
      /\ UNCHANGED <<escape_saved, addr_saved>>
      /\ answers' = <<Nack(n)>> /\ line' = Idle /\ pc' = "start"
      /\ UNCHANGED <<sn, clean, place, k_state, n, last_n, mem, send_ptr, his_quote>>
  BY DEF KDataRestore
<1>2. TypeOK'
  <2>1. answers' \in Seq([type : {"Y", "N"}, n : Nat])
    BY <1>1 DEF IInv, TypeOK, Nack
  <2>2. escape' \in BOOLEAN /\ escape_saved' \in BOOLEAN /\ clean' \in BOOLEAN
    BY <1>1, Zenon DEF IInv, TypeOK
  <2> QED
    BY <1>1, <2>1, <2>2 DEF IInv, TypeOK
<1>3. InTurn'
  BY <1>1 DEF InTurn, Late
<1>4. Begun' /\ Following'
  BY <1>1 DEF Begun, Following, Late, Sent
<1>5. AcknowledgedKept' /\ Delivered'
  BY <1>1, BytesStay DEF IInv, AcknowledgedKept, Delivered, Sent
<1> QED
  BY <1>1, <1>2, <1>3, <1>4, <1>5 DEF IInv

LEMMA LateErrorIInv == IInv /\ Benign /\ LateError => IInv'
<1> SUFFICES ASSUME IInv, Benign, LateError PROVE IInv'
  OBVIOUS
<1>1. /\ line = sn /\ sn \in Packets /\ answers = <<>> /\ Begun /\ pc \in Late
      /\ n = last_n /\ addr >= Sent(sn)
  BY LateFacts DEF LateError
<1>2. noise' \in 0 .. MaxNoise
  BY LineAssumption DEF LateError, Spoil, Damage, IInv, TypeOK
<1>3. CASE PacketError
  BY <1>1, <1>2, <1>3, PacketErrorIInv
<1>4. CASE /\ pc' = "starved"
           /\ line' = Idle
           /\ UNCHANGED <<sender, clean, place, k_state, n, last_n, data,
                          send_ptr, his_quote>>
  <2> USE DEF sender, data
  <2>1. TypeOK'
    BY <1>2, <1>4 DEF IInv, TypeOK
  <2>2. InTurn' /\ Following'
    BY <1>1, <1>4 DEF IInv, InTurn, Following, Late
  <2>3. Begun'
    BY <1>1, <1>4 DEF Begun, Late, Sent
  <2>4. AcknowledgedKept' /\ Delivered'
    BY <1>4, BytesStay DEF IInv, AcknowledgedKept, Delivered, Sent
  <2> QED
    BY <1>4, <2>1, <2>2, <2>3, <2>4 DEF IInv
<1> QED
  BY <1>3, <1>4 DEF LateError

LEMMA StartTooEarlyIInv == IInv /\ Benign /\ StartTooEarly => IInv'
<1> SUFFICES ASSUME IInv, Benign, StartTooEarly PROVE IInv'
  OBVIOUS
<1>1. sn \in Packets /\ answers = <<>>
  BY LineFacts DEF StartTooEarly
<1>2. Begun /\ pc = "starved"
  BY DEF IInv, ToBegin, StartTooEarly
<1> QED
  BY <1>1, <1>2, PacketErrorIInv DEF StartTooEarly, IInv, TypeOK

LEMMA StutterIInv == IInv /\ UNCHANGED vars => IInv'
<1> SUFFICES ASSUME IInv, UNCHANGED vars PROVE IInv'
  OBVIOUS
<1> USE DEF vars, data
<1>1. TypeOK' /\ InTurn' /\ (ToBegin \/ Begun)' /\ Following'
  BY BytesStay DEF IInv, TypeOK, InTurn, Accepted, ToBegin, Begun, Following
<1>2. AcknowledgedKept' /\ Delivered'
  BY BytesStay DEF IInv, AcknowledgedKept, Delivered
<1> QED
  BY <1>1, <1>2 DEF IInv

LEMMA NextIInv == IInv /\ Benign /\ [Next]_vars => IInv'
<1> SUFFICES ASSUME IInv, Benign, [Next]_vars PROVE IInv'
  OBVIOUS
<1>1. CASE Send \/ TakeAnswer \/ LoseAnswer \/ Abort
  BY <1>1, SendIInv, TakeAnswerIInv, LoseAnswerIInv, AbortIInv
<1>2. CASE Receiver
  BY <1>2, ReadStartIInv, ReadLengthIInv, HeaderErrorIInv, ReadSeqIInv, ReadTypeIInv,
     ReadExtendedLengthIInv, ReadDataIInv, ReadCheckIInv, ReadEndIInv, LateErrorIInv,
     StartTooEarlyIInv DEF Receiver
<1>3. CASE UNCHANGED vars
  BY <1>3, StutterIInv
<1> QED
  BY <1>1, <1>2, <1>3 DEF Next

-----------------------------------------------------------------------------
(***************************************************************************)
(* Theorems                                                                *)
(***************************************************************************)

\* The invariant holds in every transfer over a line that spares the header, with a
\* sender that waits for its answers (k_recv with any packets, in any lengths).
THEOREM KermitInvariance == Benign => (Spec => []IInv)
<1> SUFFICES ASSUME Benign PROVE Spec => []IInv
  OBVIOUS
<1>1. Init => IInv
  BY InitIInv
<1>2. IInv /\ [Next]_vars => IInv'
  BY NextIInv
<1> QED
  BY <1>1, <1>2, PTL DEF Spec

\* Every variable keeps its type; send_parms is never written past its end, and
\* memory only where the Overrun bound lets it be.
THEOREM KermitTypeOK == Benign => (Spec => []TypeOK)
<1> SUFFICES ASSUME Benign PROVE Spec => []TypeOK
  OBVIOUS
<1>1. IInv => TypeOK
  BY DEF IInv
<1> QED
  BY <1>1, KermitInvariance, PTL

\* What was acknowledged stays in memory, at its place in the file, through any
\* damage, repetition and rollback that follows.
THEOREM AcknowledgedSafe == Benign => (Spec => []AcknowledgedKept)
<1> SUFFICES ASSUME Benign PROVE Spec => []AcknowledgedKept
  OBVIOUS
<1>1. IInv => AcknowledgedKept
  BY DEF IInv
<1> QED
  BY <1>1, KermitInvariance, PTL

\* When k_recv returns, the whole file is in memory and its size is right.
THEOREM FileDelivered == Benign => (Spec => []Delivered)
<1> SUFFICES ASSUME Benign PROVE Spec => []Delivered
  OBVIOUS
<1>1. IInv => Delivered
  BY DEF IInv
<1> QED
  BY <1>1, KermitInvariance, PTL

\* Whenever the receiver looks for a packet, it is at the boundary of two, with no
\* escape pending: a bad packet leaves no trace.
THEOREM BadPacketsUndone == Benign => (Spec => []RolledBack)
<1> SUFFICES ASSUME Benign PROVE Spec => []RolledBack
  OBVIOUS
<1>1. IInv => RolledBack
  <2> SUFFICES ASSUME IInv, pc = "start"
               PROVE  ~escape /\ \E i \in 0 .. NumPackets : addr = Sent(i)
    BY DEF RolledBack
  <2>1. sn \in 0 .. NumPackets
    BY DEF IInv, TypeOK
  <2>2. CASE ToBegin
    BY <2>1, <2>2 DEF ToBegin
  <2>3. CASE Begun
    <3>1. sn + 1 \in 0 .. NumPackets
      BY <2>1, <2>3, NumPacketsNat DEF Begun
    <3> QED
      BY <2>1, <2>3, <3>1 DEF Begun
  <2> QED
    BY <2>2, <2>3 DEF IInv
<1> QED
  BY <1>1, KermitInvariance, PTL

-----------------------------------------------------------------------------
(***************************************************************************)
(* The CRC-16: exclusive or and shift of words as sets of bits             *)
(***************************************************************************)

\* A bit of an exclusive or is in one of the two.
LEMMA XorBits == \A a, b, k : k \in Xor(a, b) <=> (k \in a <=> k \notin b)
  BY DEF Xor

\* Bit k of a word that was shifted by d was bit k + d.
LEMMA ShiftBits ==
    \A a \in SUBSET Nat, d \in Nat :
        /\ ShiftedRight(a, d) \in SUBSET Nat
        /\ \A k \in Nat : k \in ShiftedRight(a, d) <=> k + d \in a
  <1> SUFFICES ASSUME NEW a \in SUBSET Nat, NEW d \in Nat
               PROVE  /\ ShiftedRight(a, d) \in SUBSET Nat
                      /\ \A k \in Nat : k \in ShiftedRight(a, d) <=> k + d \in a
    OBVIOUS
  <1>1. \A k : k \in ShiftedRight(a, d) <=> \E j \in a : j >= d /\ k = j - d
    BY DEF ShiftedRight
  <1>2. ASSUME NEW k \in Nat PROVE k \in ShiftedRight(a, d) <=> k + d \in a
    <2>1. ASSUME k + d \in a PROVE k \in ShiftedRight(a, d)
      <3>1. k + d >= d /\ k = (k + d) - d
        OBVIOUS
      <3> QED
        BY <1>1, <2>1, <3>1
    <2>2. ASSUME k \in ShiftedRight(a, d) PROVE k + d \in a
      <3>1. PICK j \in a : j >= d /\ k = j - d
        BY <1>1, <2>2
      <3>2. j = k + d
        BY <3>1
      <3> QED
        BY <3>1, <3>2
    <2> QED
      BY <2>1, <2>2
  <1>3. ShiftedRight(a, d) \subseteq Nat
    <2> SUFFICES ASSUME NEW k \in ShiftedRight(a, d) PROVE k \in Nat
      OBVIOUS
    <2>1. PICK j \in a : j >= d /\ k = j - d
      BY <1>1
    <2>2. j \in Nat
      OBVIOUS
    <2> QED
      BY <2>1, <2>2
  <1> QED
    BY <1>2, <1>3

\* The exclusive or of words is one.
LEMMA XorType == \A a, b \in SUBSET Nat : Xor(a, b) \in SUBSET Nat
  BY DEF Xor

\* Shifts add up.
LEMMA ShiftTwice ==
    \A a \in SUBSET Nat, d \in Nat : ShiftedRight(ShiftedRight(a, d), 1) = ShiftedRight(a, d + 1)
  <1> SUFFICES ASSUME NEW a \in SUBSET Nat, NEW d \in Nat
               PROVE  ShiftedRight(ShiftedRight(a, d), 1) = ShiftedRight(a, d + 1)
    OBVIOUS
  <1>3. ShiftedRight(a, d) \in SUBSET Nat /\ 1 \in Nat /\ d + 1 \in Nat
    BY ShiftBits
  <1>1. /\ ShiftedRight(ShiftedRight(a, d), 1) \in SUBSET Nat
        /\ ShiftedRight(a, d + 1) \in SUBSET Nat
    BY <1>3, ShiftBits
  <1>2. ASSUME NEW k \in Nat
        PROVE  k \in ShiftedRight(ShiftedRight(a, d), 1) <=> k \in ShiftedRight(a, d + 1)
    <2>1. k \in ShiftedRight(ShiftedRight(a, d), 1) <=> k + 1 \in ShiftedRight(a, d)
      BY <1>3, ShiftBits
    <2>2. k + 1 \in ShiftedRight(a, d) <=> (k + 1) + d \in a
      <3>1. k + 1 \in Nat
        OBVIOUS
      <3> QED
        BY <3>1, ShiftBits
    <2>3. k \in ShiftedRight(a, d + 1) <=> k + (d + 1) \in a
      BY <1>3, ShiftBits
    <2>4. (k + 1) + d = k + (d + 1)
      OBVIOUS
    <2> QED
      BY <2>1, <2>2, <2>3, <2>4
  <1> QED
    BY <1>1, <1>2

\* A shift goes into an exclusive or.
LEMMA ShiftXor ==
    \A a, b \in SUBSET Nat, d \in Nat :
        ShiftedRight(Xor(a, b), d) = Xor(ShiftedRight(a, d), ShiftedRight(b, d))
  <1> SUFFICES ASSUME NEW a \in SUBSET Nat, NEW b \in SUBSET Nat, NEW d \in Nat
               PROVE  ShiftedRight(Xor(a, b), d) = Xor(ShiftedRight(a, d), ShiftedRight(b, d))
    OBVIOUS
  <1>1. /\ ShiftedRight(Xor(a, b), d) \in SUBSET Nat
        /\ Xor(ShiftedRight(a, d), ShiftedRight(b, d)) \in SUBSET Nat
    BY XorType, ShiftBits
  <1>2. ASSUME NEW k \in Nat
        PROVE  k \in ShiftedRight(Xor(a, b), d) <=> k \in Xor(ShiftedRight(a, d), ShiftedRight(b, d))
    <2>1. k \in ShiftedRight(Xor(a, b), d) <=> k + d \in Xor(a, b)
      BY XorType, ShiftBits
    <2>2. /\ k \in ShiftedRight(a, d) <=> k + d \in a
          /\ k \in ShiftedRight(b, d) <=> k + d \in b
      BY ShiftBits
    <2> QED
      BY <2>1, <2>2, XorBits
  <1> QED
    BY <1>1, <1>2

\* The order of two exclusive ors does not matter.
LEMMA XorAssoc == \A a, b, c : Xor(Xor(a, b), c) = Xor(a, Xor(b, c))
  BY DEF Xor

\* A shift by nothing.
LEMMA NoShift == \A a \in SUBSET Nat : ShiftedRight(a, 0) = a
  <1> SUFFICES ASSUME NEW a \in SUBSET Nat PROVE ShiftedRight(a, 0) = a
    OBVIOUS
  <1>1. ShiftedRight(a, 0) \in SUBSET Nat
    BY ShiftBits
  <1>2. ASSUME NEW k \in Nat PROVE k \in ShiftedRight(a, 0) <=> k \in a
    <2>1. k \in ShiftedRight(a, 0) <=> k + 0 \in a
      BY ShiftBits
    <2> QED
      BY <2>1
  <1> QED
    BY <1>1, <1>2

\* What a round of the inner loop leaves in its two variables.
LEMMA BitFields ==
    \A s : /\ OneBit(s).crc = Shifted(s.crc, 0 \in Xor(s.crc, s.c))
          /\ OneBit(s).c = ShiftedRight(s.c, 1)
  BY DEF OneBit

-----------------------------------------------------------------------------

\* s has come d bits into a byte that was shifted into the register r, and t as many into the
\* byte i that was shifted into an empty one.
Apart(s, t, r, byte, i, d) ==
    /\ s.crc = Xor(ShiftedRight(r, d), t.crc)
    /\ s.c = ShiftedRight(byte, d)
    /\ t.c = ShiftedRight(i, d)
    /\ t.crc \in SUBSET Nat

\* One more bit: both have the same one to decide by, since the table is entered with the
\* exclusive or of the byte and the low byte of the register.
LEMMA BitApart ==
    ASSUME NEW s, NEW t, NEW r \in SUBSET Nat, NEW byte \in ByteWord, NEW d \in 0 .. 7,
           Apart(s, t, r, byte, Index(r, byte), d)
    PROVE  Apart(OneBit(s), OneBit(t), r, byte, Index(r, byte), d + 1)
  <1> DEFINE i == Index(r, byte)
  <1>1. byte \in SUBSET Nat /\ i \in SUBSET Nat
    BY XorType DEF ByteWord, Index, LowByte
  <1>2. d \in i <=> d \in Xor(r, byte)
    BY DEF Index, LowByte
  <1>3. \A a \in SUBSET Nat : 0 \in ShiftedRight(a, d) <=> d \in a
    <2> SUFFICES ASSUME NEW a \in SUBSET Nat PROVE 0 \in ShiftedRight(a, d) <=> d \in a
      OBVIOUS
    <2>1. 0 \in Nat /\ d \in Nat /\ 0 + d = d
      OBVIOUS
    <2>2. 0 \in ShiftedRight(a, d) <=> 0 + d \in a
      BY <2>1, ShiftBits
    <2> QED
      BY <2>1, <2>2
  <1>0. /\ s.crc = Xor(ShiftedRight(r, d), t.crc) /\ s.c = ShiftedRight(byte, d)
        /\ t.c = ShiftedRight(i, d) /\ t.crc \in SUBSET Nat
        /\ d \in Nat /\ 1 \in Nat
    BY DEF Apart
  <1> HIDE DEF i
  <1>4. 0 \in Xor(s.crc, s.c) <=> 0 \in Xor(t.crc, t.c)
    BY <1>0, <1>1, <1>2, <1>3, XorBits
  <1>5. ShiftedRight(s.crc, 1) = Xor(ShiftedRight(r, d + 1), ShiftedRight(t.crc, 1))
    <2>1. ShiftedRight(r, d) \in SUBSET Nat
      BY <1>0, ShiftBits
    <2>2. ShiftedRight(s.crc, 1) = Xor(ShiftedRight(ShiftedRight(r, d), 1), ShiftedRight(t.crc, 1))
      BY <1>0, <2>1, ShiftXor
    <2> QED
      BY <1>0, <2>2, ShiftTwice
  <1>6. OneBit(s).crc = Xor(ShiftedRight(r, d + 1), OneBit(t).crc)
    <2>1. CASE 0 \in Xor(t.crc, t.c)
      <3>1. /\ OneBit(s).crc = Xor(ShiftedRight(s.crc, 1), CRC_POLY_16)
            /\ OneBit(t).crc = Xor(ShiftedRight(t.crc, 1), CRC_POLY_16)
        BY <1>4, <2>1, BitFields DEF Shifted
      <3> QED
        BY <1>5, <3>1, XorAssoc
    <2>2. CASE 0 \notin Xor(t.crc, t.c)
      BY <1>4, <1>5, <2>2, BitFields DEF Shifted
    <2> QED
      BY <2>1, <2>2
  <1>7. /\ OneBit(s).c = ShiftedRight(byte, d + 1)
        /\ OneBit(t).c = ShiftedRight(i, d + 1)
    <2>1. OneBit(s).c = ShiftedRight(s.c, 1) /\ OneBit(t).c = ShiftedRight(t.c, 1)
      BY BitFields
    <2> QED
      BY <1>0, <1>1, <2>1, ShiftTwice
  <1>8. OneBit(t).crc \in SUBSET Nat
    <2>1. ShiftedRight(t.crc, 1) \in SUBSET Nat
      BY <1>0, ShiftBits
    <2>2. CRC_POLY_16 \in SUBSET Nat
      BY DEF CRC_POLY_16
    <2>3. OneBit(t).crc \in {Xor(ShiftedRight(t.crc, 1), CRC_POLY_16), ShiftedRight(t.crc, 1)}
      BY BitFields DEF Shifted
    <2> QED
      BY <2>1, <2>2, <2>3, XorType
  <1> QED
    BY <1>6, <1>7, <1>8 DEF Apart, i

\* A byte that goes into any register is the entry of the table at its Index, over the rest
\* of the register.
LEMMA ByteApart ==
    ASSUME NEW r \in SUBSET Nat, NEW byte \in ByteWord
    PROVE  /\ EightBits(r, byte) = Xor(ShiftedRight(r, 8), EightBits({}, Index(r, byte)))
           /\ EightBits({}, Index(r, byte)) \in SUBSET Nat
  <1> DEFINE i == Index(r, byte)
             s0 == [crc |-> r, c |-> byte]
             t0 == [crc |-> {}, c |-> i]
  <1>0. Apart(s0, t0, r, byte, i, 0)
    <2>1. byte \in SUBSET Nat /\ i \in SUBSET Nat
      BY XorType DEF ByteWord, Index, LowByte
    <2>2. Xor(r, {}) = r
      BY DEF Xor
    <2> QED
      BY <2>1, <2>2, NoShift DEF Apart
  <1> DEFINE s1 == OneBit(s0)  t1 == OneBit(t0)
             s2 == OneBit(s1)  t2 == OneBit(t1)
             s3 == OneBit(s2)  t3 == OneBit(t2)
             s4 == OneBit(s3)  t4 == OneBit(t3)
             s5 == OneBit(s4)  t5 == OneBit(t4)
             s6 == OneBit(s5)  t6 == OneBit(t5)
             s7 == OneBit(s6)  t7 == OneBit(t6)
             s8 == OneBit(s7)  t8 == OneBit(t7)
  <1>9. s8.crc = EightBits(r, byte) /\ t8.crc = EightBits({}, i)
    BY DEF EightBits
  <1> HIDE DEF s0, t0, s1, t1, s2, t2, s3, t3, s4, t4, s5, t5, s6, t6, s7, t7, s8, t8, i
  <1>1. Apart(s1, t1, r, byte, i, 0 + 1)
    BY <1>0, BitApart DEF s1, t1, i
  <1>2. Apart(s2, t2, r, byte, i, 1 + 1)
    BY <1>1, BitApart DEF s2, t2, i
  <1>3. Apart(s3, t3, r, byte, i, 2 + 1)
    BY <1>2, BitApart DEF s3, t3, i
  <1>4. Apart(s4, t4, r, byte, i, 3 + 1)
    BY <1>3, BitApart DEF s4, t4, i
  <1>5. Apart(s5, t5, r, byte, i, 4 + 1)
    BY <1>4, BitApart DEF s5, t5, i
  <1>6. Apart(s6, t6, r, byte, i, 5 + 1)
    BY <1>5, BitApart DEF s6, t6, i
  <1>7. Apart(s7, t7, r, byte, i, 6 + 1)
    BY <1>6, BitApart DEF s7, t7, i
  <1>8. Apart(s8, t8, r, byte, i, 7 + 1)
    BY <1>7, BitApart DEF s8, t8, i
  <1> QED
    BY <1>8, <1>9 DEF Apart, i

-----------------------------------------------------------------------------

\* The two registers are the same, and the table holds, for every byte, what that byte gives
\* in an empty one.
CrcInv ==
    /\ crc_bits \in SUBSET Nat
    /\ crc = crc_bits
    /\ crc_pc \in {"idle", "sum"}
    /\ crc_pc = "sum" => crc_tab16_init
    /\ crc_tab16_init \in BOOLEAN
    /\ crc_tab16_init => crc_tab16 = [i \in ByteWord |-> EightBits({}, i)]
    /\ crc_left \in 0 .. MaxCrcBytes

\* The table has the entry.
LEMMA IndexIsByte ==
    ASSUME NEW r, NEW byte
    PROVE  Index(r, byte) \in ByteWord
  BY DEF Index, LowByte, ByteWord

\* The steps of crc_16 keep the invariant.
LEMMA CallsKeep == CrcInv /\ CrcNext => CrcInv'
  <1> SUFFICES ASSUME CrcInv, CrcNext PROVE CrcInv'
    OBVIOUS
  <1>1. ASSUME NEW d \in 0 .. MaxCrcBytes, Crc16(d) PROVE CrcInv'
    BY <1>1 DEF CrcInv, Crc16, CRC_START_16
  <1>2. ASSUME NEW byte \in CrcBytes, Crc16Byte(byte) PROVE CrcInv'
    <2>1. byte \in ByteWord
      BY CrcAssumption
    <2>2. crc_tab16[Index(crc, byte)] = EightBits({}, Index(crc, byte))
      BY <1>2, IndexIsByte DEF CrcInv, Crc16Byte
    <2>3. crc' = crc_bits' /\ crc_bits' \in SUBSET Nat
      <3>1. crc' = Xor(ShiftedRight(crc, 8), EightBits({}, Index(crc, byte)))
        BY <1>2, <2>2 DEF Crc16Byte
      <3>2. crc_bits' = EightBits(crc, byte) /\ crc \in SUBSET Nat
        BY <1>2 DEF Crc16Byte, CrcInv
      <3> QED
        <4>1. ShiftedRight(crc, 8) \in SUBSET Nat
          BY <3>2, ShiftBits
        <4>2. /\ EightBits(crc, byte) = Xor(ShiftedRight(crc, 8), EightBits({}, Index(crc, byte)))
              /\ EightBits({}, Index(crc, byte)) \in SUBSET Nat
          BY <2>1, <3>2, ByteApart
        <4> QED
          BY <3>1, <3>2, <4>1, <4>2, XorType
    <2>4. crc_left' \in 0 .. MaxCrcBytes
      BY <1>2, CrcAssumption DEF CrcInv, Crc16Byte
    <2> QED
      BY <1>2, <2>3, <2>4 DEF CrcInv, Crc16Byte
  <1>3. CASE Crc16Returns
    BY <1>3 DEF CrcInv, Crc16Returns
  <1> QED
    BY <1>1, <1>2, <1>3 DEF CrcNext

\* The invariant of crc_16.
THEOREM CrcInvariance == CrcSpec => []CrcInv
  <1>1. CrcInit => CrcInv
    <2>1. 0 \in 0 .. MaxCrcBytes /\ {} \in SUBSET Nat
      BY CrcAssumption
    <2> QED
      BY <2>1 DEF CrcInit, CrcInv
  <1>2. CrcInv /\ [CrcNext]_crc_vars => CrcInv'
    <2>1. CrcInv /\ UNCHANGED crc_vars => CrcInv'
      BY DEF CrcInv, crc_vars
    <2> QED
      BY <2>1, CallsKeep
  <1> QED
    BY <1>1, <1>2, PTL DEF CrcSpec

\* After any bytes the table gave what the shift register of the polynomial gives.
THEOREM TableGivesThePolynomial == CrcSpec => []CrcRight
  <1>1. CrcInv => CrcRight
    BY DEF CrcInv, CrcRight
  <1> QED
    BY <1>1, CrcInvariance, PTL
=============================================================================
