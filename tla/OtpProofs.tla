----------------------------- MODULE OtpProofs -----------------------------
(***************************************************************************)
(* Proofs about three of the drivers.                                      *)
(*                                                                         *)
(* Otp, for any requests and any calls: no bit is programmed that no call  *)
(* asked for, and OTP_OK means that all of the call's ones are.            *)
(*                                                                         *)
(* Aes, for texts of any length, and an engine with room for a chunk: the  *)
(* whole text goes through in order and is stored, and the core never      *)
(* waits for what cannot come.                                             *)
(*                                                                         *)
(* Sha256, for messages of any length in any pieces: which of them get     *)
(* their digest.                                                           *)
(***************************************************************************)
EXTENDS Otp, Aes, Sha256, WellFoundedInduction, SequenceTheorems, TLAPS

-----------------------------------------------------------------------------
(***************************************************************************)
(* The inductive invariant                                                 *)
(***************************************************************************)

\* The ones of the call are among its bits, and were asked for; a write of data or of a
\* control byte stays in its area, whatever it was called with; a bit in bypass mode has an attempt left.
Aimed ==
    /\ ones \subseteq Bits(addr, length)
    /\ ones \subseteq asked
    /\ call \in DOMAIN AreaEnd /\ pc # "idle" => addr + length <= 8 * AreaEnd[call]
    /\ pc = "soft" => count > 0

\* Until a repair has timed out, one runs or is over exactly while the call waits for it.
\* One that ends without pro_wrong leaves no weak cell.
Repairs ==
    ~late =>
        /\ IF pc \in {"bisr_write", "bisr_read"}
           THEN (repairing /\ ~bisr_finish) \/ (~repairing /\ bisr_finish)
           ELSE ~repairing /\ ~bisr_finish
        /\ pc = "bisr_write" /\ bisr_finish /\ ~pro_wrong => weak = {}

\* otp_blank_check repairs before it writes, its control area still closed.
Before == call = "blank_check" /\ ~data_blk_ctrl

\* How far the ones of the call have come.
Through ==
    ~late =>
        /\ pc = "blank" => Before
        /\ pc = "write" => \A b \in ones : b < addr + at => b \in cells \cup weak
        /\ pc = "soft" => \A b \in ones : b < addr + at => b \in cells
        /\ pc = "bisr_write" /\ ~Before => ones \subseteq cells \cup weak
        /\ pc = "bisr_read" /\ ~Before => ones \subseteq cells
        /\ pc = "refresh" => ones \subseteq cells

IInv == TypeOK /\ Aimed /\ Repairs /\ Through /\ OnlyAsked /\ OkMeansWritten

-----------------------------------------------------------------------------
(***************************************************************************)
(* Lemmas                                                                  *)
(***************************************************************************)

\* A set of numbers has a least one: that every number has fewer than itself below it is a
\* theorem of the library on the order of the natural numbers.
LEMMA Least ==
    ASSUME NEW T \in SUBSET Nat, T # {}
    PROVE  \E x \in T : \A y \in T : x <= y
<1> DEFINE R == OpToRel(<, Nat)
<1>1. IsWellFoundedOn(R, Nat)
  BY NatLessThanWellFounded
<1>2. ASSUME NEW x \in Nat, NEW y \in Nat, x < y
      PROVE  <<x, y>> \in R
  BY <1>2 DEF OpToRel
<1> HIDE DEF R
<1>3. PICK x \in T : \A y \in T : ~ (<<y, x>> \in R)
  BY <1>1, WFMin
<1>4. ASSUME NEW y \in T PROVE x <= y
  <2>1. ~(y < x)
    BY <1>2, <1>3
  <2>2. x \in Nat /\ y \in Nat
    OBVIOUS
  <2>3. QED
    BY <2>1, <2>2
<1>5. QED
  BY <1>4

\* otp_write_byte passes over zeros only, and never over the last bit.
LEMMA NextIsSent ==
    ASSUME at \in Nat, length \in Nat, at < length
    PROVE  /\ NextSent \in at .. length - 1
           /\ \A j \in at .. NextSent - 1 : addr + j \notin ones
<1> DEFINE T == {i \in at .. length - 1 : Sent(i)}
           G(i) == Sent(i) /\ \A j \in at .. i - 1 : ~Sent(j)
<1>1. length - 1 \in T /\ T \subseteq Nat
  BY DEF Sent
<1>2. PICK x \in T : \A y \in T : x <= y
  BY <1>1, Least
<1>3. x \in at .. length - 1 /\ Sent(x)
  OBVIOUS
<1>4. \A j \in at .. x - 1 : j \in at .. length - 1 /\ ~(x <= j)
  BY <1>3
<1>5. G(x)
  BY <1>2, <1>3, <1>4
<1>6. NextSent = CHOOSE i \in at .. length - 1 : G(i)
  BY DEF NextSent
<1> HIDE DEF G
<1>7. NextSent \in at .. length - 1 /\ G(NextSent)
  BY <1>3, <1>5, <1>6
<1>8. QED
  BY <1>7 DEF G, Sent

LEMMA NoneThrough ==
    \A a, n \in Nat : \A b \in Bits(a, n) : ~(b < a + 0)
  BY DEF Bits

LEMMA AllThrough ==
    \A a, n \in Nat : \A b \in Bits(a, n) : b < a + n
  BY DEF Bits

LEMMA AllBefore ==
    \A a, n, end \in Nat : a + n <= end => \A i \in 0 .. n - 1 : a + i < end
  OBVIOUS

\* The bits of a call are where its address says.
LEMMA WriteByteSets ==
    ASSUME NEW b \in Nat, NEW n \in Nat, NEW set, WriteByte(b, n, set)
    PROVE  /\ addr' = 8 * b /\ addr' \in Nat /\ length' = 8 * n /\ length' \in Nat
           /\ at' = 0 /\ at' \in 0 .. length'
           /\ ones' \subseteq Bits(addr', length') /\ ones' \subseteq Nat
           /\ ones' = {8 * b + i : i \in set \cap Bits(0, 8 * n)}
<1>1. addr' = 8 * b /\ length' = 8 * n /\ at' = 0
      /\ ones' = {8 * b + i : i \in set \cap Bits(0, 8 * n)}
  BY DEF WriteByte
<1>2. 8 * b \in Nat /\ 8 * n \in Nat
  OBVIOUS
<1>3. \A i \in Bits(0, 8 * n) : 8 * b + i \in Bits(8 * b, 8 * n) /\ 8 * b + i \in Nat
  BY <1>2 DEF Bits
<1>4. QED
  BY <1>1, <1>2, <1>3

LEMMA Areas ==
    /\ DOMAIN AreaEnd = {"write_data", "protect_set", "disable_set"}
    /\ AreaEnd["write_data"] = OTP_BISR_DATA_ADDR
    /\ AreaEnd["protect_set"] = OTP_BLOCK_CTL_ADDR + 16
    /\ AreaEnd["disable_set"] = OTP_WIRED_REG_ADDR + 16
    /\ \A name \in DOMAIN AreaEnd : 8 * AreaEnd[name] \in Nat
  BY DEF AreaEnd, OTP_BISR_DATA_ADDR, OTP_BLOCK_CTL_ADDR, OTP_WIRED_REG_ADDR, OTP_AES_KEY_ADDR

\* The byte of a block or of a function gets its pair of bits.
LEMMA ProtectSets ==
    ASSUME NEW start \in Nat, NEW x \in 0 .. 63, Protect(start, x), asked \subseteq Nat
    PROVE  /\ data_blk_ctrl' = TRUE
           /\ addr' + length' <= 8 * (start + 16)
           /\ addr' \in Nat /\ length' \in Nat /\ at' = 0 /\ at' \in 0 .. length'
           /\ ones' \subseteq Bits(addr', length') /\ ones' \subseteq Nat
           /\ asked \subseteq asked' /\ ones' \subseteq asked' /\ asked' \subseteq Nat
<1>1. start + x \div 4 \in Nat /\ WriteByte(start + x \div 4, 1, Pair(x))
      /\ data_blk_ctrl' = TRUE /\ asked' = asked \cup PairAt(start, x)
  BY DEF Protect
<1>2. PICK b \in Nat : b = start + x \div 4
  BY <1>1
<1>3. PICK m \in 0 .. 3 : m = x % 4
  OBVIOUS
<1>4. /\ WriteByte(b, 1, Pair(x))
      /\ Pair(x) = {2 * m + i : i \in {0, 1}}
      /\ PairAt(start, x) = {8 * b + 2 * m + i : i \in {0, 1}}
  BY <1>1, <1>2, <1>3 DEF Pair, PairAt
<1>5. /\ addr' \in Nat /\ length' \in Nat /\ at' = 0 /\ at' \in 0 .. length'
      /\ ones' \subseteq Bits(addr', length') /\ ones' \subseteq Nat
      /\ ones' = {8 * b + i : i \in Pair(x) \cap Bits(0, 8 * 1)}
  BY <1>4, WriteByteSets
<1>6. ones' \subseteq PairAt(start, x) /\ PairAt(start, x) \subseteq Nat
  BY <1>4, <1>5
<1>7. addr' + length' <= 8 * (start + 16)
  <2>1. addr' = 8 * b /\ length' = 8
    BY <1>4 DEF WriteByte
  <2>2. b + 1 <= start + 16
    BY <1>2
  <2>3. QED
    BY <2>1, <2>2
<1>8. QED
  BY <1>1, <1>5, <1>6, <1>7

\* The end of a call.  No caller makes OTP_OK of an error.
LEMMA EndIs ==
    ASSUME NEW status \in Status, End(status)
    PROVE  /\ pc' = "idle" /\ data_blk_ctrl' = FALSE /\ result' \in Status
           /\ result' = "OK" => status = "OK"
  BY DEF End, Renamed, Status

LEMMA Booleans ==
    TypeOK => /\ data_blk_ctrl \in BOOLEAN /\ repairing \in BOOLEAN /\ bisr_finish \in BOOLEAN
              /\ pro_wrong \in BOOLEAN /\ late \in BOOLEAN
  BY DEF TypeOK

LEMMA OtpInit ==
    ASSUME Init
    PROVE  IInv
<1>1. TypeOK
  <2>1. {data_blk_ctrl, repairing, bisr_finish, pro_wrong, late} \subseteq BOOLEAN
    BY DEF Init
  <2>2. Tries \in Nat /\ MaxCalls \in Nat
    BY OtpAssumption
  <2>3. QED
    BY <2>1, <2>2 DEF Init, TypeOK, Status
<1>2. Aimed /\ OnlyAsked
  BY DEF Init, Aimed, OnlyAsked
<1>3. Repairs /\ Through /\ OkMeansWritten
  BY DEF Init, Repairs, Through, OkMeansWritten
<1>4. QED
  BY <1>1, <1>2, <1>3 DEF IInv

\* A call that starts to write has asked for its ones.
LEMMA StartStep ==
    ASSUME IInv, pc = "idle", pc' \in {"write", "soft"},
           call' \in {"write_data", "key_write", "protect_set", "disable_set", "soft_write"},
           call' \in DOMAIN AreaEnd => addr' + length' <= 8 * AreaEnd[call'],
           addr' \in Nat, length' \in Nat, at' = 0,
           ones' \subseteq Bits(addr', length'), ones' \subseteq Nat,
           ones' \subseteq asked', asked \subseteq asked', asked' \subseteq Nat,
           count' \in 0 .. Tries, pc' = "soft" => count' > 0,
           data_blk_ctrl' \in BOOLEAN, calls' \in 0 .. MaxCalls,
           UNCHANGED <<result, memory, bisr, reg_flag, late>>
    PROVE  IInv'
<1> USE DEF IInv
<1>1. UNCHANGED <<result, cells, weak, repairing, bisr_finish, pro_wrong, reg_flag, late>>
  BY DEF memory, bisr
<1>2. TypeOK'
  BY <1>1 DEF TypeOK
<1>3. Aimed'
  BY DEF Aimed
<1>4. Repairs'
  BY <1>1 DEF Repairs
<1>5. Through'
  <2>1. \A b \in ones' : ~(b < addr' + at')
    BY NoneThrough
  <2>2. QED
    BY <1>1, <2>1 DEF Through
<1>6. OnlyAsked'
  <2>1. cells' \cup weak' \subseteq asked'
    BY <1>1 DEF OnlyAsked
  <2>2. call' \in DOMAIN AreaEnd => \A i \in 0 .. length' - 1 : addr' + i < 8 * AreaEnd[call']
    BY Areas, AllBefore
  <2>3. QED
    BY <2>1, <2>2 DEF OnlyAsked
<1>7. OkMeansWritten'
  BY DEF OkMeansWritten
<1>8. QED
  BY <1>2, <1>3, <1>4, <1>5, <1>6, <1>7

\* A call that ends.
LEMMA EndStep ==
    ASSUME IInv, NEW status \in Status, End(status),
           UNCHANGED <<args, at, count, asked, calls>>,
           reg_flag' \subseteq Funcs \cup {BLANK_TEST_DISABLE},
           cells' \subseteq asked, weak' \subseteq asked,
           {repairing', bisr_finish', pro_wrong', late'} \subseteq BOOLEAN,
           ~late' => ~repairing' /\ ~bisr_finish',
           status = "OK" /\ ~late' => ones \subseteq cells'
    PROVE  IInv'
<1> USE DEF IInv
<1>1. UNCHANGED <<call, addr, length, ones, at, count, asked, calls>>
  BY DEF args
<1>2. /\ pc' = "idle" /\ data_blk_ctrl' = FALSE /\ result' \in Status
      /\ result' = "OK" => status = "OK"
  BY EndIs
<1>3. TypeOK'
  BY <1>1, <1>2 DEF TypeOK
<1>4. Aimed' /\ Repairs' /\ Through'
  BY <1>1, <1>2 DEF Aimed, Repairs, Through
<1>5. OnlyAsked' /\ OkMeansWritten'
  BY <1>1, <1>2 DEF OnlyAsked, OkMeansWritten
<1>6. QED
  BY <1>3, <1>4, <1>5

LEMMA RefuseStep ==
    ASSUME IInv, NEW name \in {"write_data", "blank_check", "protect_set", "disable_set"},
           NEW status \in {"ADDRESS", "WIRED_REG_SET", "PARAM"}, Refuse(name, status)
    PROVE  IInv'
<1> USE DEF IInv
<1>1. /\ pc = "idle" /\ pc' = "idle" /\ call' = name /\ result' = status
      /\ calls' \in 0 .. MaxCalls
      /\ UNCHANGED <<addr, length, ones, at, count, cells, weak, data_blk_ctrl, repairing,
                     bisr_finish, pro_wrong, reg_flag, asked, late>>
  BY OtpAssumption DEF Refuse, Call, memory, bisr, TypeOK
<1>2. TypeOK'
  BY <1>1 DEF TypeOK, Status
<1>3. Aimed' /\ Repairs' /\ Through'
  BY <1>1 DEF Aimed, Repairs, Through, Before
<1>4. OnlyAsked' /\ OkMeansWritten'
  BY <1>1 DEF OnlyAsked, OkMeansWritten
<1>5. QED
  BY <1>2, <1>3, <1>4

LEMMA CallCounts ==
    ASSUME IInv, NEW name, NEW step, Call(name, step)
    PROVE  pc = "idle" /\ calls' \in 0 .. MaxCalls /\ call' = name /\ pc' = step
  BY OtpAssumption DEF Call, IInv, TypeOK

\* otp_write_data cuts off what is beyond the data area.
LEMMA WriteDataStep ==
    ASSUME IInv, NEW r \in Requests, WriteData(r)
    PROVE  IInv'
<1>1. r[1] \in Nat /\ r[2] \in Nat /\ r[3] \subseteq 0 .. 8 * r[2] - 1
  BY OtpAssumption
<1>2. CASE r[1] >= OTP_BISR_DATA_ADDR
  BY <1>2, RefuseStep DEF WriteData
<1>3. CASE ~(r[1] >= OTP_BISR_DATA_ADDR)
  <2>1. /\ Call("write_data", "write")
        /\ WriteByte(r[1], Clamp(r[1], r[2]), r[3])
        /\ asked' = asked \cup {8 * r[1] + i : i \in r[3]}
        /\ UNCHANGED <<count, result, memory, data_blk_ctrl, bisr, reg_flag, late>>
    BY <1>3 DEF WriteData
  <2>2. PICK b \in Nat : b = r[1] /\ b < OTP_BISR_DATA_ADDR
    BY <1>1, <1>3 DEF OTP_BISR_DATA_ADDR
  <2>3. PICK n \in Nat : n = Clamp(r[1], r[2]) /\ b + n <= OTP_BISR_DATA_ADDR
    BY <1>1, <2>2 DEF Clamp, OTP_BISR_DATA_ADDR
  <2>4. /\ addr' = 8 * b /\ addr' \in Nat /\ length' = 8 * n /\ length' \in Nat
        /\ at' = 0
        /\ ones' \subseteq Bits(addr', length') /\ ones' \subseteq Nat
        /\ ones' = {8 * b + i : i \in r[3] \cap Bits(0, 8 * n)}
    BY <2>1, <2>2, <2>3, WriteByteSets
  <2>5. addr' + length' <= 8 * OTP_BISR_DATA_ADDR
    BY <2>3, <2>4 DEF OTP_BISR_DATA_ADDR
  <2>6. asked \subseteq asked' /\ ones' \subseteq asked'
    BY <2>1, <2>2, <2>4
  <2>7. asked' \subseteq Nat
    <3>1. asked \subseteq Nat /\ asked' = asked \cup {8 * b + i : i \in r[3]}
      BY <2>1, <2>2 DEF IInv, TypeOK
    <3>2. \A i \in r[3] : i \in Nat
      BY <1>1
    <3>3. \A i \in r[3] : 8 * b + i \in Nat
      BY <3>2
    <3>4. QED
      BY <3>1, <3>3
  <2>8. count' \in 0 .. Tries /\ data_blk_ctrl' \in BOOLEAN
    BY <2>1, Booleans DEF IInv, TypeOK
  <2>9. QED
    <3>1. call' \in DOMAIN AreaEnd => addr' + length' <= 8 * AreaEnd[call']
      BY <2>1, <2>5, CallCounts, Areas
    <3>2. QED
      BY <2>1, <2>4, <2>6, <2>7, <2>8, <3>1, CallCounts, StartStep
<1>4. QED
  BY <1>2, <1>3

LEMMA KeyWriteStep ==
    ASSUME IInv, NEW r \in Requests, KeyWrite(r)
    PROVE  IInv'
<1>1. /\ Call("key_write", "write")
      /\ WriteByte(OTP_AES_KEY_ADDR, 16, r[3])
      /\ asked' = asked \cup ones'
      /\ UNCHANGED <<count, result, memory, data_blk_ctrl, bisr, reg_flag, late>>
  BY DEF KeyWrite
<1>2. /\ addr' \in Nat /\ length' \in Nat /\ at' = 0
      /\ ones' \subseteq Bits(addr', length') /\ ones' \subseteq Nat
  <2>1. OTP_AES_KEY_ADDR \in Nat
    BY DEF OTP_AES_KEY_ADDR
  <2>2. QED
    BY <1>1, <2>1, WriteByteSets
<1>3. /\ asked \subseteq asked' /\ ones' \subseteq asked' /\ asked' \subseteq Nat
      /\ count' \in 0 .. Tries /\ data_blk_ctrl' \in BOOLEAN
  BY <1>1, <1>2, Booleans DEF IInv, TypeOK
<1>4. QED
  BY <1>1, <1>2, <1>3, Areas, CallCounts, StartStep

LEMMA SoftWriteStep ==
    ASSUME IInv, NEW r \in Requests, SoftWrite(r)
    PROVE  IInv'
<1>1. /\ Call("soft_write", "soft")
      /\ WriteByte(r[1], r[2], r[3])
      /\ count' = Tries
      /\ asked' = asked \cup ones'
      /\ UNCHANGED <<result, memory, data_blk_ctrl, bisr, reg_flag, late>>
  BY DEF SoftWrite
<1>2. /\ addr' \in Nat /\ length' \in Nat /\ at' = 0
      /\ ones' \subseteq Bits(addr', length') /\ ones' \subseteq Nat
  BY <1>1, WriteByteSets, OtpAssumption
<1>3. /\ asked \subseteq asked' /\ ones' \subseteq asked' /\ asked' \subseteq Nat
      /\ data_blk_ctrl' \in BOOLEAN
  BY <1>1, <1>2, Booleans DEF IInv, TypeOK
<1>4. count' \in 0 .. Tries /\ count' > 0
  BY <1>1, OtpAssumption
<1>5. QED
  BY <1>1, <1>2, <1>3, <1>4, Areas, CallCounts, StartStep

LEMMA ProtectStep ==
    ASSUME IInv, NEW x \in 0 .. 63, NEW name, NEW start \in Nat,
           \/ name = "protect_set" /\ start = OTP_BLOCK_CTL_ADDR
           \/ name = "disable_set" /\ start = OTP_WIRED_REG_ADDR,
           Call(name, "write"), Protect(start, x),
           UNCHANGED <<count, result, memory, bisr, reg_flag, late>>
    PROVE  IInv'
<1>1. asked \subseteq Nat /\ count' \in 0 .. Tries
  BY DEF IInv, TypeOK
<1>2. /\ data_blk_ctrl' \in BOOLEAN
      /\ addr' \in Nat /\ length' \in Nat /\ at' = 0 /\ addr' + length' <= 8 * (start + 16)
      /\ ones' \subseteq Bits(addr', length') /\ ones' \subseteq Nat
      /\ asked \subseteq asked' /\ ones' \subseteq asked' /\ asked' \subseteq Nat
  BY <1>1, ProtectSets
<1>3. /\ pc = "idle" /\ pc' = "write" /\ call' = name /\ calls' \in 0 .. MaxCalls
      /\ AreaEnd[call'] = start + 16
  BY CallCounts, Areas
<1>4. addr' + length' <= 8 * AreaEnd[call']
  BY <1>2, <1>3
<1>5. call' \in {"protect_set", "disable_set"} /\ call' # "write_data"
  BY <1>3
<1>6. QED
  BY <1>1, <1>2, <1>3, <1>4, <1>5, StartStep

\* A block or a function that there is not is refused.
LEMMA ProtectSteps ==
    ASSUME IInv,
           \/ \E block \in Blocks : DataBlockProtectSet(block)
           \/ \E func \in Funcs : FuncRegDisableSet(func)
    PROVE  IInv'
<1>1. ASSUME NEW block \in Blocks, DataBlockProtectSet(block)
      PROVE  IInv'
  <2>1. CASE block >= DATA_BLOCK_MAX
    BY <1>1, <2>1, RefuseStep DEF DataBlockProtectSet
  <2>2. CASE ~(block >= DATA_BLOCK_MAX)
    <3>1. block \in 0 .. 63 /\ OTP_BLOCK_CTL_ADDR \in Nat
      BY <2>2, OtpAssumption DEF DATA_BLOCK_MAX, OTP_BLOCK_CTL_ADDR
    <3>2. QED
      BY <1>1, <2>2, <3>1, ProtectStep DEF DataBlockProtectSet
  <2>3. QED
    BY <2>1, <2>2
<1>2. ASSUME NEW func \in Funcs, FuncRegDisableSet(func)
      PROVE  IInv'
  <2>1. CASE func >= FUNC_REG_MAX
    BY <1>2, <2>1, RefuseStep DEF FuncRegDisableSet
  <2>2. CASE ~(func >= FUNC_REG_MAX)
    <3>1. func \in 0 .. 63 /\ OTP_WIRED_REG_ADDR \in Nat
      BY <2>2, OtpAssumption DEF FUNC_REG_MAX, OTP_WIRED_REG_ADDR
    <3>2. QED
      BY <1>2, <2>2, <3>1, ProtectStep DEF FuncRegDisableSet
  <2>3. QED
    BY <2>1, <2>2
<1>3. QED
  BY <1>1, <1>2

LEMMA BlankCheckStep ==
    ASSUME IInv, BlankCheck
    PROVE  IInv'
<1> USE DEF IInv
<1>1. CASE BLANK_TEST_DISABLE \in reg_flag
  BY <1>1, RefuseStep DEF BlankCheck
<1>2. CASE BLANK_TEST_DISABLE \notin reg_flag
  <2>1. /\ pc = "idle" /\ pc' = "blank" /\ call' = "blank_check" /\ calls' \in 0 .. MaxCalls
        /\ UNCHANGED <<addr, length, ones, at, count, result, cells, weak, data_blk_ctrl,
                       repairing, bisr_finish, pro_wrong, reg_flag, asked, late>>
    BY <1>2, CallCounts DEF BlankCheck, memory, bisr
  <2>2. TypeOK'
    BY <2>1 DEF TypeOK
  <2>3. Aimed' /\ Repairs'
    BY <2>1, Areas DEF Aimed, Repairs
  <2>4. Through'
    BY <2>1 DEF Through, Before, OnlyAsked
  <2>5. OnlyAsked' /\ OkMeansWritten'
    BY <2>1, Areas DEF OnlyAsked, OkMeansWritten
  <2>6. QED
    BY <2>2, <2>3, <2>4, <2>5
<1>3. QED
  BY <1>1, <1>2

\* The bit that otp_write_byte comes to is programmed, or weak.
LEMMA WriteBitStep ==
    ASSUME IInv, WriteBit
    PROVE  IInv'
<1> USE DEF IInv
<1>1. /\ pc = "write" /\ pc' = "write" /\ at' = NextSent + 1
      /\ UNCHANGED <<call, addr, length, ones, count, result, data_blk_ctrl, repairing,
                     bisr_finish, pro_wrong, reg_flag, asked, late, calls>>
  BY DEF WriteBit, args, bisr
<1>2. /\ addr \in Nat /\ at \in Nat /\ length \in Nat /\ at < length
      /\ ones \subseteq Nat /\ ones \subseteq asked /\ asked \subseteq Nat
  BY DEF WriteBit, TypeOK, Aimed
<1>3. PICK n \in at .. length - 1 : n = NextSent /\ \A j \in at .. n - 1 : addr + j \notin ones
  BY <1>2, NextIsSent
<1>4. \/ cells' = cells \cup ({addr + n} \cap ones) /\ weak' = weak
      \/ weak' = weak \cup (({addr + n} \cap ones) \ cells) /\ cells' = cells
  BY <1>3 DEF WriteBit, Programmed, Data
<1>5. at' = n + 1 /\ at' \in 0 .. length
  BY <1>1, <1>2, <1>3
<1>6. cells' \cup weak' \subseteq asked
  BY <1>2, <1>4 DEF OnlyAsked
<1>7. TypeOK'
  BY <1>1, <1>2, <1>5, <1>6 DEF TypeOK
<1>8. Aimed' /\ Repairs'
  BY <1>1 DEF Aimed, Repairs
<1>9. Through'
  <2> SUFFICES ASSUME ~late, NEW b \in ones, b < addr + (n + 1)
               PROVE  b \in cells' \cup weak'
    BY <1>1, <1>5 DEF Through
  <2>1. CASE b < addr + at
    BY <1>1, <1>4, <2>1 DEF Through
  <2>2. CASE b = addr + n
    BY <1>4, <2>2
  <2>3. CASE ~(b < addr + at) /\ b # addr + n
    <3>1. b \in Nat /\ n \in Nat
      BY <1>2, <1>3
    <3>2. PICK j \in at .. n - 1 : b = addr + j
      <4>1. b - addr \in at .. n - 1 /\ b = addr + (b - addr)
        BY <1>2, <2>3, <3>1
      <4>2. QED
        BY <4>1
    <3>3. QED
      BY <1>3, <3>2
  <2>4. QED
    BY <2>1, <2>2, <2>3
<1>10. OnlyAsked' /\ OkMeansWritten'
  BY <1>1, <1>6 DEF OnlyAsked, OkMeansWritten
<1>11. QED
  BY <1>7, <1>8, <1>9, <1>10

\* No bit of another call is touched by a write that fails.
LEMMA WriteFailsStep ==
    ASSUME IInv, WriteFails
    PROVE  IInv'
<1> USE DEF IInv
<1>1. PICK status \in {"TIMEOUT", "ADDRESS", "WRITE"} : End(status)
  BY DEF WriteFails
<1>2. ones \subseteq asked /\ cells \cup weak \subseteq asked
  BY DEF Aimed, OnlyAsked
<1>3. cells' \subseteq asked /\ weak' \subseteq asked
  BY <1>2 DEF WriteFails, Programmed, NotProgrammed, Data, memory
<1>4. /\ pc = "write"
      /\ UNCHANGED <<args, at, count, repairing, bisr_finish, pro_wrong, reg_flag, asked, late,
                     calls>>
  BY DEF WriteFails, bisr
<1>5. /\ {repairing', bisr_finish', pro_wrong', late'} \subseteq BOOLEAN
      /\ ~late' => ~repairing' /\ ~bisr_finish'
  BY <1>4, Booleans DEF Repairs
<1>6. status \in Status /\ status # "OK" /\ reg_flag' \subseteq Funcs \cup {BLANK_TEST_DISABLE}
  BY <1>4 DEF Status, TypeOK
<1>7. QED
  BY <1>1, <1>3, <1>4, <1>5, <1>6, EndStep

LEMMA StartRepairStep ==
    ASSUME IInv, StartRepair
    PROVE  IInv'
<1> USE DEF IInv
<1>1. /\ pc = "write" /\ pc' = "bisr_write" /\ at = length /\ repairing' = TRUE
      /\ UNCHANGED <<call, addr, length, ones, at, count, result, cells, weak, data_blk_ctrl,
                     bisr_finish, pro_wrong, reg_flag, asked, late, calls>>
  BY DEF StartRepair, args, memory
<1>2. TypeOK'
  BY <1>1 DEF TypeOK
<1>3. Aimed' /\ Repairs'
  BY <1>1 DEF Aimed, Repairs
<1>4. Through'
  <2>1. \A b \in ones : b < addr + at
    BY <1>1, AllThrough DEF TypeOK, Aimed
  <2>2. QED
    BY <1>1, <2>1 DEF Through
<1>5. OnlyAsked' /\ OkMeansWritten'
  BY <1>1 DEF OnlyAsked, OkMeansWritten
<1>6. QED
  BY <1>2, <1>3, <1>4, <1>5

\* The repair may end at any time; a call that still waits sees it.
LEMMA RepairEndsStep ==
    ASSUME IInv, RepairEnds
    PROVE  IInv'
<1> USE DEF IInv
<1>1. /\ repairing /\ repairing' = FALSE /\ bisr_finish' = TRUE /\ pro_wrong' \in BOOLEAN
      /\ \/ cells' = cells \cup weak /\ weak' = {} /\ pro_wrong' = FALSE
         \/ weak # {} /\ pro_wrong' = TRUE /\ cells' = cells /\ weak' = weak
      /\ UNCHANGED <<pc, call, addr, length, ones, at, count, result, data_blk_ctrl, reg_flag,
                     asked, late, calls>>
  BY DEF RepairEnds, args, memory
<1>2. cells \subseteq cells' /\ cells \cup weak \subseteq cells' \cup weak' /\ cells' \cup weak' \subseteq cells \cup weak
  BY <1>1
<1>3. TypeOK'
  BY <1>1, <1>2 DEF TypeOK
<1>4. Aimed'
  BY <1>1 DEF Aimed
<1>5. Repairs'
  BY <1>1 DEF Repairs
<1>6. Through'
  BY <1>1, <1>2 DEF Through, Before
<1>7. OnlyAsked'
  BY <1>1, <1>2 DEF OnlyAsked
<1>8. OkMeansWritten'
  BY <1>1, <1>2 DEF OkMeansWritten
<1>9. QED
  BY <1>3, <1>4, <1>5, <1>6, <1>7, <1>8

LEMMA RepairTimeoutStep ==
    ASSUME IInv, RepairTimeout
    PROVE  IInv'
<1> USE DEF IInv
<1>1. /\ End("TIMEOUT") /\ late' = TRUE
      /\ UNCHANGED <<args, at, count, cells, weak, repairing, bisr_finish, pro_wrong, reg_flag,
                     asked, calls>>
  BY DEF RepairTimeout, memory, bisr
<1>2. cells' \subseteq asked /\ weak' \subseteq asked
  BY <1>1 DEF OnlyAsked
<1>3. {repairing', bisr_finish', pro_wrong', late'} \subseteq BOOLEAN
  BY <1>1, Booleans
<1>4. "TIMEOUT" \in Status /\ reg_flag' \subseteq Funcs \cup {BLANK_TEST_DISABLE}
  BY <1>1 DEF Status, TypeOK
<1>5. QED
  BY <1>1, <1>2, <1>3, <1>4, EndStep

\* The call goes on, or ends, when it sees the end of its repair.
LEMMA RepairSeenStep ==
    ASSUME IInv, RepairSeen
    PROVE  IInv'
<1> USE DEF IInv
<1>1. /\ pc \in {"bisr_write", "bisr_read"} /\ bisr_finish /\ bisr_finish' = FALSE
      /\ UNCHANGED <<count, cells, weak, pro_wrong, reg_flag, late, calls>>
  BY DEF RepairSeen, memory
<1>2. /\ cells \cup weak \subseteq asked /\ asked \subseteq Nat
      /\ ~late => ~repairing
  BY <1>1 DEF OnlyAsked, TypeOK, Repairs
<1>3. ASSUME NEW status \in {"BISR", "OK"}, End(status),
             UNCHANGED <<args, at, repairing, asked>>,
             status = "OK" => pc = "bisr_read" /\ call # "blank_check"
      PROVE  IInv'
  <2>1. /\ {repairing', bisr_finish', pro_wrong', late'} \subseteq BOOLEAN
        /\ ~late' => ~repairing' /\ ~bisr_finish'
    BY <1>1, <1>2, <1>3, Booleans
  <2>2. status = "OK" /\ ~late' => ones \subseteq cells'
    BY <1>1, <1>3 DEF Through, Before
  <2>3. /\ cells' \subseteq asked /\ weak' \subseteq asked
        /\ status \in Status /\ reg_flag' \subseteq Funcs \cup {BLANK_TEST_DISABLE}
    BY <1>1, <1>2 DEF Status, TypeOK
  <2>4. QED
    BY <1>1, <1>3, <2>1, <2>2, <2>3, EndStep
<1>4. CASE pc = "bisr_write" /\ pro_wrong
  BY <1>1, <1>3, <1>4 DEF RepairSeen, WrongSeen
<1>5. CASE pc = "bisr_write" /\ ~pro_wrong
  <2>1. /\ pc' = "bisr_read" /\ repairing' = TRUE
        /\ UNCHANGED <<call, addr, length, ones, at, result, data_blk_ctrl, asked>>
    BY <1>5 DEF RepairSeen, WrongSeen, args
  <2>2. TypeOK'
    BY <1>1, <2>1 DEF TypeOK
  <2>3. Aimed' /\ Repairs'
    BY <1>1, <1>5, <2>1 DEF Aimed, Repairs
  <2>4. Through'
    <3>1. ~late /\ ~Before => ones \subseteq cells
      BY <1>1, <1>5 DEF Through, Repairs
    <3>2. QED
      BY <1>1, <2>1, <3>1 DEF Through, Before
  <2>5. OnlyAsked' /\ OkMeansWritten'
    BY <1>1, <1>5, <2>1 DEF OnlyAsked, OkMeansWritten
  <2>6. QED
    BY <2>2, <2>3, <2>4, <2>5
<1>6. CASE pc = "bisr_read" /\ call = "blank_check" /\ ~data_blk_ctrl
  <2>1. /\ Protect(OTP_WIRED_REG_ADDR, BLANK_TEST_DISABLE) /\ pc' = "write"
        /\ UNCHANGED <<call, result, repairing>>
    BY <1>6 DEF RepairSeen
  <2>2. /\ data_blk_ctrl' = TRUE
        /\ addr' \in Nat /\ length' \in Nat /\ at' = 0 /\ at' \in 0 .. length'
        /\ ones' \subseteq Bits(addr', length') /\ ones' \subseteq Nat
        /\ asked \subseteq asked' /\ ones' \subseteq asked' /\ asked' \subseteq Nat
    <3>1. OTP_WIRED_REG_ADDR \in Nat /\ BLANK_TEST_DISABLE \in 0 .. 63
      BY DEF OTP_WIRED_REG_ADDR, BLANK_TEST_DISABLE
    <3>2. QED
      BY <1>2, <2>1, <3>1, ProtectSets
  <2>3. TypeOK'
    BY <1>1, <2>1, <2>2 DEF TypeOK
  <2>4. Aimed' /\ Repairs'
    BY <1>1, <1>2, <1>6, <2>1, <2>2, Areas DEF Aimed, Repairs
  <2>5. Through'
    <3>1. \A b \in Bits(addr', length') : ~(b < addr' + 0)
      BY <2>2, NoneThrough
    <3>2. QED
      BY <2>1, <2>2, <3>1 DEF Through
  <2>6. OnlyAsked' /\ OkMeansWritten'
    BY <1>1, <1>2, <1>6, <2>1, <2>2, Areas DEF OnlyAsked, OkMeansWritten
  <2>7. QED
    BY <2>3, <2>4, <2>5, <2>6
<1>7. CASE pc = "bisr_read" /\ call = "blank_check" /\ data_blk_ctrl
  <2>1. /\ pc' = "refresh" /\ data_blk_ctrl' = FALSE
        /\ UNCHANGED <<call, addr, length, ones, at, result, repairing, asked>>
    BY <1>7 DEF RepairSeen, args
  <2>2. TypeOK'
    BY <1>1, <2>1 DEF TypeOK
  <2>3. Aimed' /\ Repairs'
    BY <1>1, <1>2, <1>7, <2>1 DEF Aimed, Repairs
  <2>4. Through'
    BY <1>1, <1>7, <2>1 DEF Through, Before
  <2>5. OnlyAsked' /\ OkMeansWritten'
    BY <1>1, <1>7, <2>1 DEF OnlyAsked, OkMeansWritten
  <2>6. QED
    BY <2>2, <2>3, <2>4, <2>5
<1>8. CASE pc = "bisr_read" /\ call # "blank_check"
  BY <1>1, <1>3, <1>8 DEF RepairSeen
<1>9. QED
  BY <1>1, <1>4, <1>5, <1>6, <1>7, <1>8

LEMMA BlankStep ==
    ASSUME IInv, Blank
    PROVE  IInv'
<1> USE DEF IInv
<1>1. /\ pc = "blank"
      /\ UNCHANGED <<args, at, count, cells, weak, bisr_finish, pro_wrong, reg_flag, asked, late,
                     calls>>
  BY DEF Blank, memory
<1>2. ASSUME NEW status \in {"TIMEOUT", "BLANK"}, End(status), UNCHANGED repairing
      PROVE  IInv'
  <2>1. /\ {repairing', bisr_finish', pro_wrong', late'} \subseteq BOOLEAN
        /\ ~late' => ~repairing' /\ ~bisr_finish'
    BY <1>1, <1>2, Booleans DEF Repairs
  <2>2. /\ cells' \subseteq asked /\ weak' \subseteq asked /\ status # "OK"
        /\ status \in Status /\ reg_flag' \subseteq Funcs \cup {BLANK_TEST_DISABLE}
    BY <1>1 DEF Status, TypeOK, OnlyAsked
  <2>3. QED
    BY <1>1, <1>2, <2>1, <2>2, EndStep
<1>3. CASE repairing' = TRUE /\ pc' = "bisr_write" /\ UNCHANGED <<result, data_blk_ctrl>>
  <2>1. TypeOK'
    BY <1>1, <1>3 DEF TypeOK, args
  <2>2. Aimed' /\ Repairs'
    BY <1>1, <1>3 DEF Aimed, Repairs, args
  <2>3. OnlyAsked' /\ OkMeansWritten'
    BY <1>1, <1>3 DEF OnlyAsked, OkMeansWritten, args
  <2>4. Through'
    BY <1>1, <1>3 DEF Through, Before, args
  <2>5. QED
    BY <2>1, <2>2, <2>3, <2>4
<1>4. QED
  BY <1>2, <1>3 DEF Blank

LEMMA RefreshStep ==
    ASSUME IInv, Refresh
    PROVE  IInv'
<1> USE DEF IInv
<1>1. /\ pc = "refresh"
      /\ UNCHANGED <<args, at, count, cells, weak, repairing, bisr_finish, pro_wrong, asked, late,
                     calls>>
      /\ reg_flag' \subseteq Funcs \cup {BLANK_TEST_DISABLE}
  BY DEF Refresh, memory, bisr, TypeOK
<1>2. PICK status \in {"OK", "TIMEOUT", "ADDRESS"} : End(status)
  BY DEF Refresh
<1>3. /\ {repairing', bisr_finish', pro_wrong', late'} \subseteq BOOLEAN
      /\ ~late' => ~repairing' /\ ~bisr_finish'
      /\ ~late' => ones \subseteq cells'
  BY <1>1, Booleans DEF Repairs, Through
<1>4. cells' \subseteq asked /\ weak' \subseteq asked /\ status \in Status
  BY <1>1 DEF Status, OnlyAsked
<1>5. QED
  BY <1>1, <1>2, <1>3, <1>4, EndStep

\* In bypass mode every bit, also a 0, is looked at until it reads as it should.
LEMMA SoftBitStep ==
    ASSUME IInv, SoftBit
    PROVE  IInv'
<1> USE DEF IInv
<1> DEFINE bit == {addr + at} \cap ones
<1>1. /\ pc = "soft" /\ at < length
      /\ addr \in Nat /\ at \in Nat /\ length \in Nat /\ ones \subseteq Nat
      /\ ones \subseteq asked /\ cells \cup weak \subseteq asked /\ asked \subseteq Nat
      /\ Tries \in Nat /\ count \in 1 .. Tries
      /\ UNCHANGED <<call, addr, length, ones, weak, repairing, bisr_finish, pro_wrong, reg_flag,
                     asked, late, calls>>
  BY OtpAssumption DEF SoftBit, TypeOK, Aimed, OnlyAsked, args, bisr
<1>2. ASSUME cells' = cells \cup bit, pc' = "soft", at' = at + 1, count' = Tries,
             UNCHANGED <<result, data_blk_ctrl>>
      PROVE  IInv'
  <2>1. cells' \subseteq asked
    BY <1>1, <1>2
  <2>2. TypeOK'
    BY <1>1, <1>2, <2>1 DEF TypeOK
  <2>3. Aimed' /\ Repairs'
    BY <1>1, <1>2 DEF Aimed, Repairs
  <2>4. Through'
    <3> SUFFICES ASSUME ~late, NEW b \in ones, b < addr + (at + 1)
                 PROVE  b \in cells'
      BY <1>1, <1>2 DEF Through
    <3>1. b < addr + at \/ b = addr + at
      BY <1>1
    <3>2. QED
      BY <1>1, <1>2, <3>1 DEF Through
  <2>5. OnlyAsked' /\ OkMeansWritten'
    BY <1>1, <1>2, <2>1 DEF OnlyAsked, OkMeansWritten
  <2>6. QED
    BY <2>2, <2>3, <2>4, <2>5
<1>3. ASSUME End("WRITE"), UNCHANGED <<cells, at, count>>
      PROVE  IInv'
  <2>1. /\ {repairing', bisr_finish', pro_wrong', late'} \subseteq BOOLEAN
        /\ ~late' => ~repairing' /\ ~bisr_finish'
    BY <1>1, Booleans DEF Repairs
  <2>2. /\ cells' \subseteq asked /\ weak' \subseteq asked
        /\ "WRITE" \in Status /\ reg_flag' \subseteq Funcs \cup {BLANK_TEST_DISABLE}
    BY <1>1, <1>3 DEF Status, TypeOK
  <2>3. UNCHANGED <<args, at, count, asked, calls>>
    BY <1>1, <1>3 DEF args
  <2>4. QED
    BY <1>3, <2>1, <2>2, <2>3, EndStep
<1>4. ASSUME count # 1, count' = count - 1, UNCHANGED <<cells, pc, at, result, data_blk_ctrl>>
      PROVE  IInv'
  <2>1. count' \in 1 .. Tries
    BY <1>1, <1>4
  <2>2. TypeOK'
    BY <1>1, <1>4, <2>1 DEF TypeOK
  <2>3. Aimed' /\ Repairs'
    BY <1>1, <1>4, <2>1 DEF Aimed, Repairs
  <2>4. Through'
    BY <1>1, <1>4 DEF Through
  <2>5. OnlyAsked' /\ OkMeansWritten'
    BY <1>1, <1>4 DEF OnlyAsked, OkMeansWritten
  <2>6. QED
    BY <2>2, <2>3, <2>4, <2>5
<1>5. \/ cells' = cells \cup bit /\ BitTried(TRUE)
      \/ cells' = cells /\ BitTried(FALSE)
  BY DEF SoftBit
<1> HIDE DEF bit
<1>6. QED
  BY <1>1, <1>2, <1>3, <1>4, <1>5 DEF BitTried

LEMMA SoftEndStep ==
    ASSUME IInv, SoftEnd
    PROVE  IInv'
<1> USE DEF IInv
<1>1. /\ pc = "soft" /\ at = length /\ End("OK")
      /\ UNCHANGED <<args, at, count, cells, weak, repairing, bisr_finish, pro_wrong, reg_flag,
                     asked, late, calls>>
  BY DEF SoftEnd, memory, bisr
<1>2. ~late => ones \subseteq cells
  <2>1. \A b \in ones : b < addr + at
    BY <1>1, AllThrough DEF TypeOK, Aimed
  <2>2. QED
    BY <1>1, <2>1 DEF Through
<1>3. /\ {repairing', bisr_finish', pro_wrong', late'} \subseteq BOOLEAN
      /\ ~late' => ~repairing' /\ ~bisr_finish'
  BY <1>1, Booleans DEF Repairs
<1>4. /\ cells' \subseteq asked /\ weak' \subseteq asked
      /\ "OK" \in Status /\ reg_flag' \subseteq Funcs \cup {BLANK_TEST_DISABLE}
  BY <1>1 DEF Status, TypeOK, OnlyAsked
<1>5. QED
  BY <1>1, <1>2, <1>3, <1>4, EndStep

LEMMA OtpStep ==
    ASSUME IInv, [Next]_vars
    PROVE  IInv'
<1>1. CASE \E r \in Requests : WriteData(r) \/ KeyWrite(r) \/ SoftWrite(r)
  BY <1>1, WriteDataStep, KeyWriteStep, SoftWriteStep
<1>2. CASE \/ \E block \in Blocks : DataBlockProtectSet(block)
           \/ \E func \in Funcs : FuncRegDisableSet(func)
  BY <1>2, ProtectSteps
<1>3. CASE BlankCheck
  BY <1>3, BlankCheckStep
<1>4. CASE WriteBit
  BY <1>4, WriteBitStep
<1>5. CASE WriteFails
  BY <1>5, WriteFailsStep
<1>6. CASE StartRepair
  BY <1>6, StartRepairStep
<1>7. CASE RepairEnds
  BY <1>7, RepairEndsStep
<1>8. CASE RepairSeen
  BY <1>8, RepairSeenStep
<1>9. CASE RepairTimeout
  BY <1>9, RepairTimeoutStep
<1>10. CASE Blank
  BY <1>10, BlankStep
<1>11. CASE Refresh
  BY <1>11, RefreshStep
<1>12. CASE SoftBit
  BY <1>12, SoftBitStep
<1>13. CASE SoftEnd
  BY <1>13, SoftEndStep
<1>14. CASE UNCHANGED vars
  BY <1>14 DEF vars, args, memory, bisr, IInv, TypeOK, Aimed, Repairs, Through, Before, OnlyAsked,
               OkMeansWritten
<1>15. QED
  BY <1>1, <1>2, <1>3, <1>4, <1>5, <1>6, <1>7, <1>8, <1>9, <1>10, <1>11, <1>12, <1>13, <1>14
  DEF Next

-----------------------------------------------------------------------------
(***************************************************************************)
(* Theorems                                                                *)
(***************************************************************************)

\* The inductive invariant holds, for any requests, blocks and functions, and any number of
\* attempts in bypass mode.
THEOREM OtpInvariance == Spec => []IInv
<1>1. Init => IInv
  BY OtpInit
<1>2. IInv /\ [Next]_vars => IInv'
  BY OtpStep
<1>3. QED
  BY <1>1, <1>2, PTL DEF Spec

\* Everything keeps its type; otp_write_byte's loop ends within its bits, and the attempts
\* of the bypass mode do not go below 0.
THEOREM OtpTypes == Spec => []TypeOK
<1>1. IInv => TypeOK
  BY DEF IInv
<1>2. QED
  BY <1>1, OtpInvariance, PTL

\* No call programs a bit that it was not asked to, whatever times out or fails on the way:
\* otp_write_data stays in its area, and otp_data_block_protect_set and
\* otp_func_reg_disable_set close the control areas again.
THEOREM NothingElseIsProgrammed == Spec => []OnlyAsked
<1>1. IInv => OnlyAsked
  BY DEF IInv
<1>2. QED
  BY <1>1, OtpInvariance, PTL

\* A call returns OTP_OK only when all of its ones are programmed and repaired, unless a
\* repair timed out before.
THEOREM OkIsWritten == Spec => []OkMeansWritten
<1>1. IInv => OkMeansWritten
  BY DEF IInv
<1>2. QED
  BY <1>1, OtpInvariance, PTL

-----------------------------------------------------------------------------
(***************************************************************************)
(* The AES engine: the inductive invariant                                 *)
(***************************************************************************)

\* How far the text is through when the chunk in work is.
Reach == base + (IF aes_pc \in {"write", "read"} THEN chunk ELSE 0)

WordCount(n) == Up(OutSize(n), 4) \div 4

\* How the text is cut.
Cut ==
    /\ size = Reach + data_size + rest
    /\ base % 16 = 0 \/ base = size
    /\ Reach % 16 = 0 \/ Reach = size
    /\ rest > 0 => piece = 16 /\ rest % 16 = 0 /\ data_size % 16 = 0
    /\ aes_pc \in {"write", "read"} => chunk \in 1 .. ChunkSize

\* The words that the engine got and those that it still gets are those of the text.
InOrder ==
    /\ Len(given) + Len(words) = WordCount(Reach)
    /\ \A k \in 1 .. Len(given) : given[k] = Word(k, 1, size)
    /\ \A k \in 1 .. Len(words) : words[k] = Word(Len(given) + k, 1, size)

\* It is behind by no more than a block, of which only the last may be short.
Working ==
    /\ Len(given) - worked <= 4
    /\ worked % 4 = 0 \/ (worked = Len(given) /\ worked = WordCount(size))

\* What it gave back is stored.
Stored ==
    /\ \A i \in 1 .. Len(stored) : stored[i] = i
    /\ aes_pc = "chunk" => taken = Len(given) /\ Len(stored) = OutSize(base)
    /\ aes_pc = "write" => words # <<>> /\ 4 * taken = base /\ Len(stored) = base
    /\ aes_pc = "read" =>
          /\ base <= 4 * taken /\ 4 * taken < OutSize(Reach)
          /\ Len(stored) = 4 * taken

AesInv ==
    /\ AesTypeOK
    /\ aes_pc # "write" => words = <<>>
    /\ aes_pc # "idle" =>
          /\ gb_pc_end_adr = OutSize(size)
          /\ Cut /\ InOrder /\ Working /\ Stored

-----------------------------------------------------------------------------
(***************************************************************************)
(* The AES engine: lemmas                                                  *)
(***************************************************************************)

\* Rounding up to words, and to blocks.
LEMMA UpTo4 ==
    ASSUME NEW n \in Nat
    PROVE  /\ Up(n, 4) \in Nat /\ Up(n, 4) \div 4 \in Nat
           /\ 4 * (Up(n, 4) \div 4) = Up(n, 4)
           /\ n <= Up(n, 4) /\ Up(n, 4) < n + 4
  <1>1. PICK q \in Nat, r \in 0 .. 3 : n + 3 = 4 * q + r
    <2>1. /\ (n + 3) \div 4 \in Nat /\ (n + 3) % 4 \in 0 .. 3
          /\ n + 3 = 4 * ((n + 3) \div 4) + ((n + 3) % 4)
      OBVIOUS
    <2> QED
      BY <2>1
  <1>2. (n + 4 - 1) \div 4 = q
    BY <1>1
  <1>3. Up(n, 4) = q * 4
    BY <1>2 DEF Up
  <1>4. (q * 4) \div 4 = q
    OBVIOUS
  <1> QED
    BY <1>1, <1>3, <1>4

LEMMA UpTo16 ==
    ASSUME NEW n \in Nat
    PROVE  /\ Up(n, 16) \in Nat
           /\ Up(n, 16) % 16 = 0
           /\ n <= Up(n, 16) /\ Up(n, 16) < n + 16
           /\ Up(n, 4) <= Up(n, 16)
           /\ n % 16 = 0 => Up(n, 16) = n /\ Up(n, 4) = n
           /\ Up(n, 4) \div 4 + (Up(n, 16) - n) \div 4 = Up(n, 16) \div 4
           /\ 4 * (Up(n, 16) \div 4) = Up(n, 16)
           /\ Up(Up(n, 16), 4) = Up(n, 16)
  <1>1. PICK q \in Nat, r \in 0 .. 15 : n + 15 = 16 * q + r
    <2>1. /\ (n + 15) \div 16 \in Nat /\ (n + 15) % 16 \in 0 .. 15
          /\ n + 15 = 16 * ((n + 15) \div 16) + ((n + 15) % 16)
      OBVIOUS
    <2> QED
      BY <2>1
  <1>2. (n + 16 - 1) \div 16 = q
    BY <1>1
  <1>3. Up(n, 16) = q * 16
    BY <1>2 DEF Up
  <1>4. (q * 16) % 16 = 0 /\ (q * 16) \div 4 = 4 * q
    OBVIOUS
  <1>5. n <= 16 * q /\ 16 * q < n + 16
    BY <1>1
  <1>6. PICK p \in Nat : Up(n, 4) = 4 * p /\ Up(n, 4) \div 4 = p /\ n <= 4 * p /\ 4 * p < n + 4
    BY UpTo4
  <1>7. p <= 4 * q
    BY <1>5, <1>6
  <1>8. (16 * q - n) \div 4 = 4 * q - p
    BY <1>5, <1>6
  <1>9. n % 16 = 0 => 16 * q = n /\ 4 * p = n
    <2> SUFFICES ASSUME n % 16 = 0 PROVE 16 * q = n /\ 4 * p = n
      OBVIOUS
    <2>1. PICK m \in Nat : n = 16 * m
      OBVIOUS
    <2> QED
      BY <1>5, <1>6, <2>1
  <1>10. Up(16 * q, 4) = 16 * q
    <2>0. 16 * q \in Nat
      OBVIOUS
    <2>1. PICK s \in Nat : Up(16 * q, 4) = 4 * s /\ 16 * q <= 4 * s /\ 4 * s < 16 * q + 4
      BY <2>0, UpTo4
    <2> QED
      BY <2>1
  <1> QED
    BY <1>3, <1>4, <1>5, <1>6, <1>7, <1>8, <1>9, <1>10

\* Whole blocks are whole words.
LEMMA Multiple ==
    ASSUME NEW n \in Nat, n % 16 = 0
    PROVE  \E q \in Nat : n = 16 * q /\ n \div 4 = 4 * q
  <1>1. n = 16 * (n \div 16) /\ n \div 16 \in Nat
    OBVIOUS
  <1>2. (16 * (n \div 16)) \div 4 = 4 * (n \div 16)
    BY <1>1
  <1> QED
    BY <1>1, <1>2

\* What is stored of n bytes, and how many words they are.
LEMMA SizeOf ==
    ASSUME NEW n \in Nat
    PROVE  /\ OutSize(n) \in Nat /\ WordCount(n) \in Nat
           /\ n <= OutSize(n) /\ OutSize(n) < n + 16
           /\ OutSize(n) <= 4 * WordCount(n) /\ 4 * WordCount(n) < OutSize(n) + 4
           /\ n % 16 = 0 => OutSize(n) = n /\ 4 * WordCount(n) = n /\ WordCount(n) % 4 = 0
           /\ cipher_mod = "CBC" =>
                  OutSize(n) % 16 = 0 /\ 4 * WordCount(n) = OutSize(n) /\ WordCount(n) % 4 = 0
           /\ cipher_mod # "CBC" => OutSize(n) = n
  <1>1. CASE cipher_mod = "CBC"
    <2>1. OutSize(n) = Up(n, 16) /\ WordCount(n) = Up(n, 16) \div 4
      BY <1>1, UpTo16 DEF OutSize, WordCount
    <2>2. PICK q \in Nat : Up(n, 16) = 16 * q /\ Up(n, 16) \div 4 = 4 * q
      BY UpTo16, Multiple
    <2>3. OutSize(n) = 16 * q /\ WordCount(n) = 4 * q /\ n <= 16 * q /\ 16 * q < n + 16
          /\ (n % 16 = 0 => 16 * q = n)
      BY <2>1, <2>2, UpTo16
    <2>4. (4 * q) % 4 = 0 /\ (16 * q) % 16 = 0
      OBVIOUS
    <2> QED
      BY <1>1, <2>3, <2>4
  <1>2. CASE cipher_mod # "CBC"
    <2>1. OutSize(n) = n /\ WordCount(n) = Up(n, 4) \div 4
      BY <1>2 DEF OutSize, WordCount
    <2>2. n % 16 = 0 => Up(n, 4) = n
      BY UpTo16
    <2>3. ASSUME n % 16 = 0 PROVE (n \div 4) % 4 = 0
      <3>1. PICK q \in Nat : n \div 4 = 4 * q
        BY <2>3, Multiple
      <3> QED
        BY <3>1
    <2>4. /\ WordCount(n) \in Nat /\ 4 * WordCount(n) = Up(n, 4)
          /\ n <= Up(n, 4) /\ Up(n, 4) < n + 4 /\ Up(n, 4) \in Nat
      BY <2>1, UpTo4
    <2>5. n % 16 = 0 => WordCount(n) % 4 = 0
      <3> SUFFICES ASSUME n % 16 = 0 PROVE WordCount(n) % 4 = 0
        OBVIOUS
      <3> QED
        BY <2>1, <2>2, <2>3
    <2> QED
      BY <1>2, <2>1, <2>2, <2>4, <2>5
  <1> QED
    BY <1>1, <1>2

\* A text whose first part is whole blocks.
LEMMA SizeOfBoth ==
    ASSUME NEW b \in Nat, b % 16 = 0, NEW c \in Nat
    PROVE  /\ OutSize(b + c) = b + OutSize(c)
           /\ 4 * WordCount(b + c) = b + 4 * WordCount(c)
  <1>1. PICK m \in Nat : b = 16 * m
    BY Multiple
  <1>0. b + c \in Nat
    OBVIOUS
  <1>2. CASE cipher_mod = "CBC"
    <2>0. OutSize(c) \in Nat /\ OutSize(c) % 16 = 0 /\ OutSize(b + c) \in Nat
          /\ OutSize(b + c) % 16 = 0
      BY <1>0, <1>2, SizeOf
    <2>1. PICK p \in Nat : OutSize(c) = 16 * p
      BY <2>0, Multiple
    <2>2. PICK q \in Nat : OutSize(b + c) = 16 * q
      BY <2>0, Multiple
    <2>3. /\ c <= 16 * p /\ 16 * p < c + 16
          /\ b + c <= 16 * q /\ 16 * q < b + c + 16
      BY <1>0, <2>1, <2>2, SizeOf
    <2>4. q = m + p
      BY <1>1, <2>3
    <2>5. 4 * WordCount(c) = OutSize(c) /\ 4 * WordCount(b + c) = OutSize(b + c)
      BY <1>0, <1>2, SizeOf
    <2> QED
      BY <1>1, <2>1, <2>2, <2>4, <2>5
  <1>3. CASE cipher_mod # "CBC"
    <2>1. OutSize(b + c) = b + c /\ OutSize(c) = c
      BY <1>0, <1>3, SizeOf
    <2>2. PICK p \in Nat : WordCount(c) = p /\ c <= 4 * p /\ 4 * p < c + 4
      BY <2>1, SizeOf
    <2>3. PICK q \in Nat : WordCount(b + c) = q /\ b + c <= 4 * q /\ 4 * q < b + c + 4
      BY <1>0, <2>1, SizeOf
    <2>4. q = 4 * m + p
      BY <1>1, <2>2, <2>3
    <2> QED
      BY <1>1, <2>1, <2>2, <2>3, <2>4
  <1> QED
    BY <1>2, <1>3

Bytes4 == [1 .. 4 -> Nat]

\* A word, byte by byte.
LEMMA WordShape ==
    ASSUME NEW k \in Nat \ {0}, NEW f \in Nat \ {0}, NEW l \in Int
    PROVE  /\ Word(k, f, l) \in Bytes4
           /\ \A b \in 1 .. 4 :
                 Word(k, f, l)[b] = IF f + 4 * (k - 1) + b - 1 <= l
                                    THEN f + 4 * (k - 1) + b - 1 ELSE 0
  <1>1. \A b \in 1 .. 4 : f + 4 * (k - 1) + b - 1 \in Nat
    OBVIOUS
  <1> QED
    BY <1>1 DEF Word, Bytes4

\* The words of a chunk are words of the text.
LEMMA WordShift ==
    ASSUME NEW k \in Nat \ {0}, NEW b \in Nat, NEW j \in Nat, NEW e \in Nat, NEW n \in Nat,
           4 * j = b + 4 * k,
           e = n \/ (4 * j <= e /\ e <= n)
    PROVE  Word(k, b + 1, e) = Word(j, 1, n)
  <1>1. /\ j \in Nat \ {0} /\ k \in Nat \ {0} /\ b + 1 \in Nat \ {0} /\ 1 \in Nat \ {0}
        /\ e \in Int /\ n \in Int
    OBVIOUS
  <1>2. ASSUME NEW i \in 1 .. 4
        PROVE  Word(k, b + 1, e)[i] = Word(j, 1, n)[i]
    <2>1. (b + 1) + 4 * (k - 1) + i - 1 = 1 + 4 * (j - 1) + i - 1
      OBVIOUS
    <2>2. 1 + 4 * (j - 1) + i - 1 <= 4 * j
      OBVIOUS
    <2>3. \A c \in 1 .. 4 :
              Word(k, b + 1, e)[c] = IF (b + 1) + 4 * (k - 1) + c - 1 <= e
                                     THEN (b + 1) + 4 * (k - 1) + c - 1 ELSE 0
      BY <1>1, WordShape, Zenon
    <2>4. \A c \in 1 .. 4 :
              Word(j, 1, n)[c] = IF 1 + 4 * (j - 1) + c - 1 <= n
                                 THEN 1 + 4 * (j - 1) + c - 1 ELSE 0
      BY <1>1, WordShape, Zenon
    <2> QED
      BY <2>1, <2>2, <2>3, <2>4
  <1>3. Word(k, b + 1, e) \in Bytes4 /\ Word(j, 1, n) \in Bytes4
    BY <1>1, WordShape
  <1> QED
    BY <1>2, <1>3 DEF Bytes4

\* The words of n bytes, filled up, are those that Word gives at each place.
LEMMA WordsShape ==
    ASSUME NEW f \in Nat \ {0}, NEW n \in Nat
    PROVE  /\ WordsOf(f, n) \in Seq(Bytes4)
           /\ Len(WordsOf(f, n)) = WordCount(n)
           /\ \A k \in 1 .. WordCount(n) : WordsOf(f, n)[k] = Word(k, f, f + n - 1)
  <1> DEFINE t == Up(n, 4) \div 4
             p == IF cipher_mod = "CBC" THEN PaddingWords(n) ELSE 0
             zeros == [k \in 1 .. p |-> ZeroWord]
  <1>1. t \in Nat /\ 4 * t = Up(n, 4) /\ n <= 4 * t
    BY UpTo4
  <1>2. p \in Nat /\ t + p = WordCount(n)
    <2>1. CASE cipher_mod = "CBC"
      <3>1. /\ p = (Up(n, 16) - n) \div 4
            /\ WordCount(n) = Up(n, 16) \div 4
        BY <2>1, UpTo16 DEF PaddingWords, WordCount, OutSize
      <3>2. Up(n, 16) - n \in Nat
        BY UpTo16
      <3>3. (Up(n, 16) - n) \div 4 \in Nat
        BY <3>2
      <3> QED
        BY <3>1, <3>3, UpTo16
    <2>2. CASE cipher_mod # "CBC"
      BY <1>1, <2>2 DEF WordCount, OutSize
    <2> QED
      BY <2>1, <2>2
  <1>3. /\ Text(f, n) \in Seq(Bytes4)
        /\ Len(Text(f, n)) = t
        /\ \A k \in 1 .. t : Text(f, n)[k] = Word(k, f, f + n - 1)
    <2>0. f + n - 1 \in Int /\ \A k \in 1 .. t : k \in Nat \ {0}
      OBVIOUS
    <2>1. \A k \in 1 .. t : Word(k, f, f + n - 1) \in Bytes4
      BY <2>0, WordShape
    <2>2. Text(f, n) \in [1 .. t -> Bytes4]
      BY <2>1 DEF Text
    <2>3. Text(f, n) \in Seq(Bytes4)
      BY <1>1, <2>2, SeqDef
    <2>4. Len(Text(f, n)) = t
      BY <1>1, <2>2, <2>3, LenProperties
    <2> QED
      BY <2>3, <2>4 DEF Text
  <1>4. /\ zeros \in Seq(Bytes4)
        /\ Len(zeros) = p
        /\ \A k \in 1 .. p : zeros[k] = ZeroWord
    <2> HIDE DEF p
    <2>1. ZeroWord \in Bytes4
      BY DEF ZeroWord, Bytes4
    <2>2. zeros \in [1 .. p -> Bytes4]
      BY <2>1
    <2>3. zeros \in Seq(Bytes4)
      BY <1>2, <2>2, SeqDef
    <2>4. Len(zeros) = p
      BY <1>2, <2>2, <2>3, LenProperties
    <2> QED
      BY <2>3, <2>4
  <1>5. WordsOf(f, n) = Text(f, n) \o zeros
    BY DEF WordsOf
  <1> HIDE DEF zeros, p, t
  <1>6. /\ WordsOf(f, n) \in Seq(Bytes4)
        /\ Len(WordsOf(f, n)) = Len(Text(f, n)) + Len(zeros)
        /\ \A k \in 1 .. Len(Text(f, n)) + Len(zeros) :
              WordsOf(f, n)[k] = IF k <= Len(Text(f, n)) THEN Text(f, n)[k]
                                 ELSE zeros[k - Len(Text(f, n))]
    BY <1>3, <1>4, <1>5, ConcatProperties
  <1>7. ASSUME NEW k \in 1 .. WordCount(n)
        PROVE  WordsOf(f, n)[k] = Word(k, f, f + n - 1)
    <2>0. k \in 1 .. t + p
      BY <1>2
    <2>1. CASE k <= t
      <3>1. k \in 1 .. t
        BY <2>0, <2>1, <1>1
      <3>2. WordsOf(f, n)[k] = Text(f, n)[k]
        BY <1>3, <1>4, <1>6, <2>0, <2>1
      <3> QED
        BY <1>3, <3>1, <3>2
    <2>2. CASE ~(k <= t)
      <3>1. k - t \in 1 .. p
        BY <1>1, <1>2, <2>0, <2>2
      <3>2. WordsOf(f, n)[k] = zeros[k - t]
        BY <1>3, <1>4, <1>6, <2>0, <2>2
      <3>3. WordsOf(f, n)[k] = ZeroWord
        BY <1>4, <3>1, <3>2
      <3>4. \A b \in 1 .. 4 : ~(f + 4 * (k - 1) + b - 1 <= f + n - 1)
        BY <1>1, <2>0, <2>2
      <3>5. k \in Nat \ {0} /\ f + n - 1 \in Int
        BY <1>1, <1>2, <2>0
      <3>6. /\ Word(k, f, f + n - 1) \in Bytes4
            /\ \A b \in 1 .. 4 : Word(k, f, f + n - 1)[b] = 0
        BY <3>4, <3>5, WordShape
      <3>7. Word(k, f, f + n - 1) = ZeroWord
        BY <3>6 DEF ZeroWord, Bytes4
      <3> QED
        BY <3>3, <3>7
    <2> QED
      BY <2>1, <2>2
  <1> QED
    BY <1>2, <1>3, <1>4, <1>6, <1>7

LEMMA LenNat ==
    ASSUME NEW S, NEW s \in Seq(S)
    PROVE  Len(s) \in Nat /\ (s = <<>> <=> Len(s) = 0)
  BY EmptySeq, LenProperties

LEMMA AesTypes ==
    ASSUME AesTypeOK
    PROVE  /\ size \in Nat /\ piece \in Nat /\ rest \in Nat /\ data_size \in Nat
           /\ chunk \in Nat /\ base \in Nat /\ gb_pc_end_adr \in Nat
           /\ worked \in Nat /\ taken \in Nat
           /\ words \in Seq(Bytes4) /\ given \in Seq(Bytes4) /\ stored \in Seq(Nat)
           /\ Len(words) \in Nat /\ Len(given) \in Nat /\ Len(stored) \in Nat
           /\ Reach \in Nat
  BY LenNat DEF AesTypeOK, Bytes4, Reach

\* Sizes depend on the state only by the mode.
LEMMA SizesKept ==
    ASSUME UNCHANGED cipher_mod
    PROVE  /\ OutSize(size)' = OutSize(size') /\ OutSize(base)' = OutSize(base')
           /\ OutSize(Reach)' = OutSize(Reach')
           /\ WordCount(size)' = WordCount(size') /\ WordCount(Reach)' = WordCount(Reach')
  BY DEF OutSize, WordCount

\* There are no more words than the text has.
LEMMA WordsInText ==
    ASSUME AesTypeOK, Cut, InOrder
    PROVE  Reach <= size /\ WordCount(Reach) <= WordCount(size) /\ Len(given) <= WordCount(size)
  <1>1. /\ Reach \in Nat /\ size \in Nat /\ Reach <= size
        /\ Len(given) \in Nat /\ Len(words) \in Nat
    BY AesTypes DEF Cut
  <1>2. WordCount(Reach) <= WordCount(size)
    <2>1. CASE Reach = size
      BY <1>1, <2>1, SizeOf
    <2>2. CASE Reach # size
      <3>1. 4 * WordCount(Reach) = Reach
        BY <1>1, <2>2, SizeOf DEF Cut
      <3>2. /\ size <= OutSize(size) /\ OutSize(size) <= 4 * WordCount(size)
            /\ OutSize(size) \in Nat /\ WordCount(size) \in Nat /\ WordCount(Reach) \in Nat
        BY <1>1, SizeOf
      <3> QED
        BY <1>1, <3>1, <3>2
    <2> QED
      BY <2>1, <2>2
  <1>3. WordCount(Reach) \in Nat /\ WordCount(size) \in Nat
    BY <1>1, SizeOf
  <1> QED
    BY <1>1, <1>2, <1>3 DEF InOrder

-----------------------------------------------------------------------------
(***************************************************************************)
(* The AES engine: the actions keep the invariant                          *)
(***************************************************************************)

LEMMA AesStart == AesBegin => AesInv
  <1> SUFFICES ASSUME AesBegin PROVE AesInv
    OBVIOUS
  <1> USE AesAssumption
  <1>1. /\ <<>> \in Seq(Bytes4) /\ <<>> \in Seq(Nat) /\ Len(<<>>) = 0
    BY EmptySeq
  <1>2. AesTypeOK
    BY <1>1 DEF AesBegin, AesTypeOK, Bytes4
  <1> QED
    BY <1>2 DEF AesInv, AesBegin

LEMMA WorkKeeps == AesInv /\ Work => AesInv'
  <1> SUFFICES ASSUME AesInv, Work PROVE AesInv'
    OBVIOUS
  <1> USE AesAssumption
  <1>1. /\ AesTypeOK
        /\ worked \in Nat /\ taken \in Nat /\ Len(given) \in Nat
        /\ taken <= worked /\ worked <= Len(given)
    BY AesTypes DEF AesInv, AesTypeOK
  <1>2. /\ Block \in Nat /\ worked' = worked + Block
        /\ Block = 4 \/ Block = Len(given) - worked
        /\ Len(given) - worked = 4 => Block = 4
        /\ Block > 0 /\ worked + Block - taken <= OutRoom
        /\ worked + Block <= Len(given)
    BY <1>1 DEF Work, CanWork, Block
  <1>3. /\ UNCHANGED <<aes_pc, cipher_mod, size, piece, rest, data_size, chunk, base, words,
                       gb_pc_end_adr, given, taken, stored>>
    BY DEF Work
  <1>4. AesTypeOK'
    <2>1. worked' \in Nat /\ taken <= worked' /\ worked' <= Len(given) /\ worked' - taken <= OutRoom
      BY <1>1, <1>2
    <2> QED
      BY <1>1, <1>3, <2>1 DEF AesTypeOK
  <1>5. ASSUME aes_pc # "idle"
        PROVE  gb_pc_end_adr' = OutSize(size)' /\ Cut' /\ InOrder' /\ Working' /\ Stored'
    <2>1. gb_pc_end_adr = OutSize(size) /\ Cut /\ InOrder /\ Working /\ Stored
      BY <1>5 DEF AesInv
    <2>2. Reach' = Reach
      BY <1>3 DEF Reach
    <2>3. gb_pc_end_adr' = OutSize(size)' /\ Cut'
      BY <1>3, <2>1, <2>2, SizesKept DEF Cut
    <2>4. InOrder'
      BY <1>3, <2>1, <2>2, SizesKept DEF InOrder, Word
    <2>5. Stored'
      BY <1>3, <2>1, <2>2, SizesKept DEF Stored
    <2>6. Working'
      <3>1. CASE Len(given) - worked = 4
        <4>1. worked % 4 = 0
          BY <1>1, <2>1, <3>1 DEF Working
        <4>2. (worked + 4) % 4 = 0
          BY <1>1, <4>1
        <4>3. Len(given') - worked' <= 4 /\ worked' % 4 = 0
          BY <1>1, <1>2, <1>3, <3>1, <4>2
        <4> QED
          BY <4>3 DEF Working
      <3>2. CASE Len(given) - worked # 4
        <4>1. /\ cipher_mod # "CBC" /\ 4 * Len(given) >= gb_pc_end_adr
              /\ worked' = Len(given)
          BY <1>1, <1>2, <3>2 DEF Work, CanWork, Block
        <4>2. size \in Nat /\ gb_pc_end_adr = size /\ Len(given) <= WordCount(size)
          BY <1>1, <2>1, <4>1, AesTypes, SizeOf, WordsInText
        <4>3. WordCount(size) \in Nat /\ 4 * WordCount(size) < size + 4
          BY <4>1, <4>2, SizeOf
        <4>4. Len(given) = WordCount(size)
          BY <1>1, <4>1, <4>2, <4>3
        <4>5. Len(given') = WordCount(size') /\ Len(given') - worked' <= 4 /\ worked' = Len(given')
          BY <1>1, <1>3, <4>1, <4>4
        <4> QED
          BY <1>3, <4>5, SizesKept DEF Working
      <3> QED
        BY <3>1, <3>2
    <2> QED
      BY <2>3, <2>4, <2>5, <2>6
  <1> QED
    BY <1>3, <1>4, <1>5 DEF AesInv

LEMMA CutChunkKeeps == AesInv /\ CutChunk => AesInv'
  <1> SUFFICES ASSUME AesInv, CutChunk PROVE AesInv'
    OBVIOUS
  <1> USE AesAssumption
  <1>1. /\ AesTypeOK /\ Cut /\ InOrder /\ Working /\ Stored
        /\ gb_pc_end_adr = OutSize(size)
        /\ size \in Nat /\ rest \in Nat /\ data_size \in Nat /\ base \in Nat
        /\ given \in Seq(Bytes4) /\ Len(given) \in Nat /\ taken \in Nat
        /\ data_size > 0 /\ aes_pc = "chunk" /\ words = <<>>
    BY AesTypes DEF AesInv, CutChunk
  <1>2. /\ Reach = base /\ size = base + data_size + rest /\ base % 16 = 0
    BY <1>1 DEF Cut, Reach
  <1>3. /\ chunk' \in 1 .. ChunkSize /\ chunk' <= data_size
        /\ chunk' = 80 \/ chunk' = data_size
        /\ data_size' = data_size - chunk' /\ data_size' \in Nat
    BY <1>1 DEF CutChunk, NextChunk, Lesser, ChunkSize
  <1>4. /\ aes_pc' = "write" /\ words' = WordsOf(base + 1, chunk')
        /\ UNCHANGED <<cipher_mod, size, piece, rest, base, gb_pc_end_adr, given, worked,
                       taken, stored>>
    BY DEF CutChunk, engine
  <1>5. Reach' = base + chunk' /\ chunk' \in Nat /\ base + chunk' \in Nat /\ base + 1 \in Nat \ {0}
    <2>1. chunk' \in Nat
      BY <1>1, <1>3
    <2>2. Reach' = base' + chunk'
      BY <1>4 DEF Reach
    <2>3. base' = base /\ base \in Nat
      BY <1>1, <1>4
    <2>4. \A b, c \in Nat : b + c \in Nat /\ b + 1 \in Nat \ {0}
      OBVIOUS
    <2> QED
      BY <2>1, <2>2, <2>3, <2>4
  <1>6. /\ base + chunk' + data_size' + rest = size
        /\ (base + chunk') % 16 = 0 \/ base + chunk' = size
        /\ rest > 0 => data_size' % 16 = 0
        /\ (base + chunk') % 16 = 0 => chunk' % 16 = 0
    <2> DEFINE c == chunk'
    <2>0. c \in Nat /\ (c = 80 \/ c = data_size) /\ c <= data_size /\ data_size' = data_size - c
      BY <1>3, <1>5
    <2> HIDE DEF c
    <2>1. PICK m \in Nat : base = 16 * m
      BY <1>1, <1>2, Multiple
    <2>2. ASSUME rest > 0 PROVE c % 16 = 0 /\ data_size' % 16 = 0
      <3>1. PICK d \in Nat : data_size = 16 * d
        BY <1>1, <2>2, Multiple DEF Cut
      <3>2. CASE c = 80
        <4>1. data_size' = 16 * (d - 5)
          BY <2>0, <3>1, <3>2
        <4> QED
          BY <3>1, <3>2, <4>1
      <3>3. CASE c = data_size
        BY <2>0, <3>1, <3>3
      <3> QED
        BY <2>0, <3>2, <3>3
    <2>3. c % 16 = 0 => (base + c) % 16 = 0
      BY <2>0, <2>1
    <2>4. (base + c) % 16 = 0 => c % 16 = 0
      BY <2>0, <2>1
    <2>5. base + c + data_size' + rest = size
      BY <1>1, <1>2, <2>0
    <2>6. c = 80 => c % 16 = 0
      OBVIOUS
    <2>7. c = data_size /\ ~(rest > 0) => base + c = size
      BY <1>1, <1>2
    <2>8. /\ base + c + data_size' + rest = size
          /\ (base + c) % 16 = 0 \/ base + c = size
          /\ rest > 0 => data_size' % 16 = 0
          /\ (base + c) % 16 = 0 => c % 16 = 0
      BY <2>0, <2>2, <2>3, <2>4, <2>5, <2>6, <2>7
    <2> QED
      BY <2>8 DEF c
  <1>7. Cut'
    <2>1. base' % 16 = 0 /\ chunk' \in 1 .. ChunkSize
      BY <1>2, <1>3, <1>4
    <2> QED
      BY <1>1, <1>4, <1>5, <1>6, <2>1 DEF Cut
  <1>8. /\ words' \in Seq(Bytes4)
        /\ Len(words') = WordCount(chunk')
        /\ \A k \in 1 .. WordCount(chunk') :
              words'[k] = Word(k, base + 1, base + 1 + chunk' - 1)
    BY <1>4, <1>5, WordsShape
  <1>9. /\ 4 * Len(given) = base /\ OutSize(base) = base
        /\ WordCount(chunk') \in Nat /\ WordCount(chunk') > 0
        /\ 4 * WordCount(base + chunk') = base + 4 * WordCount(chunk')
        /\ WordCount(base + chunk') \in Nat
        /\ chunk' % 16 = 0 => 4 * WordCount(chunk') = chunk'
    <2>1. 4 * WordCount(base) = base /\ OutSize(base) = base
      BY <1>1, <1>2, SizeOf
    <2>2. Len(words) = 0 /\ WordCount(base) \in Nat
      BY <1>1, EmptySeq, SizeOf
    <2>3. Len(given) = WordCount(base)
      BY <1>1, <1>2, <2>2 DEF InOrder
    <2>4. /\ WordCount(chunk') \in Nat /\ WordCount(base + chunk') \in Nat
          /\ OutSize(chunk') \in Nat
          /\ chunk' <= OutSize(chunk') /\ OutSize(chunk') <= 4 * WordCount(chunk')
          /\ chunk' % 16 = 0 => 4 * WordCount(chunk') = chunk'
      BY <1>5, SizeOf
    <2>5. WordCount(chunk') > 0
      BY <1>3, <2>4 DEF ChunkSize
    <2> QED
      BY <1>1, <1>2, <1>5, <2>1, <2>3, <2>4, <2>5, SizeOfBoth
  <1>10. InOrder'
    <2>1. Len(given) + WordCount(chunk') = WordCount(base + chunk')
      BY <1>1, <1>9
    <2>2. ASSUME NEW k \in 1 .. WordCount(chunk')
          PROVE  words'[k] = Word(Len(given) + k, 1, size)
      <3>1. k \in Nat \ {0} /\ Len(given) + k \in Nat /\ 4 * (Len(given) + k) = base + 4 * k
        BY <1>1, <1>9
      <3>2. base + 1 + chunk' - 1 = base + chunk'
        BY <1>1, <1>5
      <3>3. base + chunk' = size \/ (4 * (Len(given) + k) <= base + chunk' /\ base + chunk' <= size)
        <4>1. CASE base + chunk' = size
          BY <4>1
        <4>2. CASE base + chunk' # size
          <5>1. 4 * WordCount(chunk') = chunk'
            BY <1>6, <1>9, <4>2
          <5>2. 4 * k <= chunk'
            BY <1>9, <5>1
          <5>3. base + chunk' <= size
            <6> DEFINE c == chunk'
                       d == data_size'
            <6>1. /\ c \in Nat /\ d \in Nat /\ base \in Nat /\ rest \in Nat /\ size \in Nat
                  /\ base + c + d + rest = size
              BY <1>1, <1>3, <1>5, <1>6
            <6> HIDE DEF c, d
            <6>2. base + c <= size
              BY <6>1
            <6> QED
              BY <6>2 DEF c
          <5>4. 4 * (Len(given) + k) <= base + chunk'
            BY <1>1, <1>5, <3>1, <5>2
          <5> QED
            BY <5>3, <5>4
        <4> QED
          BY <4>1, <4>2
      <3>4. Word(k, base + 1, base + chunk') = Word(Len(given) + k, 1, size)
        <4> DEFINE j == Len(given) + k
                   e == base + chunk'
        <4>1. /\ k \in Nat \ {0} /\ base \in Nat /\ j \in Nat /\ e \in Nat /\ size \in Nat
              /\ 4 * j = base + 4 * k /\ (e = size \/ (4 * j <= e /\ e <= size))
          BY <1>1, <1>5, <3>1, <3>3
        <4> HIDE DEF j, e
        <4>2. Word(k, base + 1, e) = Word(j, 1, size)
          BY <4>1, WordShift
        <4> QED
          BY <4>2 DEF j, e
      <3> QED
        BY <1>8, <3>2, <3>4
    <2>3. \A k \in 1 .. Len(given) : given[k] = Word(k, 1, size)
      BY <1>1 DEF InOrder
    <2>4. Len(given') + Len(words') = WordCount(Reach')
      BY <1>4, <1>5, <1>8, <2>1
    <2>5. \A k \in 1 .. Len(words') : words'[k] = Word(Len(given') + k, 1, size')
      BY <1>4, <1>8, <2>2
    <2> QED
      BY <1>4, <2>3, <2>4, <2>5, SizesKept DEF InOrder, Word
  <1>11. Working'
    BY <1>1, <1>4, SizesKept DEF Working
  <1>12. Stored'
    <2>1. words' # <<>>
      BY <1>8, <1>9, EmptySeq
    <2>2. 4 * taken = base /\ Len(stored) = base
      BY <1>1, <1>9 DEF Stored
    <2> QED
      BY <1>1, <1>4, <2>1, <2>2 DEF Stored
  <1>13. AesTypeOK'
    <2>1. chunk' \in Nat /\ words' \in Seq([1 .. 4 -> Nat])
      BY <1>5, <1>8 DEF Bytes4
    <2> QED
      BY <1>1, <1>3, <1>4, <2>1 DEF AesTypeOK
  <1>14. gb_pc_end_adr' = OutSize(size)'
    BY <1>1, <1>4, SizesKept
  <1> QED
    BY <1>4, <1>7, <1>10, <1>11, <1>12, <1>13, <1>14 DEF AesInv

LEMMA NextCallKeeps == AesInv /\ NextCall => AesInv'
  <1> SUFFICES ASSUME AesInv, NextCall PROVE AesInv'
    OBVIOUS
  <1> USE AesAssumption
  <1>1. /\ AesTypeOK /\ Cut /\ InOrder /\ Working /\ Stored
        /\ gb_pc_end_adr = OutSize(size) /\ words = <<>>
        /\ size \in Nat /\ rest \in Nat /\ data_size \in Nat /\ Reach \in Nat
        /\ data_size = 0 /\ rest > 0 /\ aes_pc = "chunk"
    BY AesTypes DEF AesInv, NextCall
  <1>2. /\ data_size' = piece /\ rest' = rest - piece
        /\ UNCHANGED <<aes_pc, cipher_mod, size, piece, chunk, base, words, gb_pc_end_adr,
                       given, worked, taken, stored>>
    BY DEF NextCall, engine
  <1>3. piece = 16 /\ rest % 16 = 0 /\ size = Reach + rest
    BY <1>1 DEF Cut
  <1>4. PICK m \in Nat : rest = 16 * m
    BY <1>1, <1>3, Multiple
  <1>5. rest' = 16 * (m - 1) /\ m - 1 \in Nat
    BY <1>1, <1>2, <1>3, <1>4
  <1>6. /\ rest' \in Nat /\ data_size' = 16 /\ data_size' \in Nat
        /\ rest' % 16 = 0 /\ data_size' % 16 = 0
        /\ size = Reach + data_size' + rest'
    BY <1>1, <1>2, <1>3, <1>4, <1>5
  <1>7. Reach' = Reach
    BY <1>2 DEF Reach
  <1>8. Cut'
    BY <1>1, <1>2, <1>3, <1>6, <1>7 DEF Cut
  <1>9. InOrder' /\ Working' /\ Stored' /\ gb_pc_end_adr' = OutSize(size)'
    <2>1. InOrder'
      BY <1>1, <1>2, <1>7, SizesKept DEF InOrder, Word
    <2> QED
      BY <1>1, <1>2, <1>7, <2>1, SizesKept DEF Working, Stored
  <1>10. AesTypeOK'
    BY <1>1, <1>2, <1>6 DEF AesTypeOK
  <1> QED
    BY <1>1, <1>2, <1>8, <1>9, <1>10 DEF AesInv

LEMMA AesReturnKeeps == AesInv /\ AesReturn => AesInv'
  <1> SUFFICES ASSUME AesInv, AesReturn PROVE AesInv'
    OBVIOUS
  <1> USE AesAssumption
  <1>1. /\ AesTypeOK /\ words = <<>> /\ aes_pc' = "idle"
        /\ UNCHANGED <<cipher_mod, size, piece, rest, data_size, chunk, base, words,
                       gb_pc_end_adr, given, worked, taken, stored>>
    BY DEF AesInv, AesReturn, Done, engine
  <1>2. AesTypeOK'
    BY <1>1 DEF AesTypeOK
  <1> QED
    BY <1>1, <1>2 DEF AesInv

LEMMA AesInitKeeps ==
    ASSUME AesInv, NEW m \in {"CBC", "GCM"}, NEW n \in Sizes, NEW p \in {n, 16},
           AesInit(m, n, p)
    PROVE  AesInv'
  <1> USE AesAssumption
  <1>1. /\ n \in Nat /\ p \in Nat /\ AesTypeOK /\ words = <<>>
        /\ p = n \/ (p = 16 /\ n > 0 /\ n % 16 = 0)
    BY DEF AesInv, AesInit
  <1>2. /\ cipher_mod' = m /\ size' = n /\ gb_pc_end_adr' = EndAdr(m, n) /\ piece' = p
        /\ data_size' = p /\ rest' = n - p /\ base' = 0
        /\ given' = <<>> /\ worked' = 0 /\ taken' = 0 /\ stored' = <<>> /\ aes_pc' = "chunk"
        /\ UNCHANGED <<chunk, words>>
    BY DEF AesInit
  <1>3. /\ <<>> \in Seq(Bytes4) /\ <<>> \in Seq(Nat) /\ Len(<<>>) = 0
    BY EmptySeq
  <1>4. rest' \in Nat /\ (rest' > 0 => p = 16 /\ rest' % 16 = 0)
    <2>1. CASE p = n
      BY <1>1, <1>2, <2>1
    <2>2. CASE p # n
      <3>1. PICK q \in Nat : n = 16 * q
        BY <1>1, <2>2, Multiple
      <3>2. n - 16 = 16 * (q - 1) /\ q - 1 \in Nat
        BY <1>1, <2>2, <3>1
      <3> QED
        BY <1>1, <1>2, <2>2, <3>2
    <2> QED
      BY <2>1, <2>2
  <1>5. EndAdr(m, n) \in Nat
    BY <1>1, UpTo16 DEF EndAdr
  <1>6. AesTypeOK'
    BY <1>1, <1>2, <1>3, <1>4, <1>5 DEF AesTypeOK, Bytes4
  <1>7. gb_pc_end_adr' = OutSize(size)'
    BY <1>2 DEF EndAdr, OutSize
  <1>8. Reach' = 0
    BY <1>2 DEF Reach
  <1>9. OutSize(0)' = 0 /\ WordCount(0)' = 0
    <2>1. Up(0, 16) = 0 /\ Up(0, 4) = 0
      BY DEF Up
    <2> QED
      BY <2>1 DEF OutSize, WordCount
  <1>10. OutSize(base)' = 0 /\ WordCount(Reach)' = 0
    <2>1. OutSize(base)' = OutSize(0)'
      BY <1>2 DEF OutSize
    <2>2. WordCount(Reach)' = WordCount(0)'
      BY <1>8 DEF OutSize, WordCount
    <2> QED
      BY <1>9, <2>1, <2>2
  <1>11. Cut'
    <2>1. n = 0 + p + (n - p) /\ 0 % 16 = 0 /\ 16 % 16 = 0
      BY <1>1
    <2>2. size' = Reach' + data_size' + rest' /\ base' % 16 = 0 /\ Reach' % 16 = 0
      BY <1>2, <1>8, <2>1
    <2>3. rest' > 0 => piece' = 16 /\ rest' % 16 = 0 /\ data_size' % 16 = 0
      BY <1>2, <1>4, <2>1
    <2> QED
      BY <1>2, <2>2, <2>3 DEF Cut
  <1>12. InOrder'
    <2>1. Len(given)' = 0 /\ Len(words)' = 0
      BY <1>1, <1>2, <1>3
    <2> QED
      BY <1>10, <2>1 DEF InOrder
  <1>13. Working' /\ Stored'
    <2>1. Len(given)' = 0 /\ Len(stored)' = 0 /\ 0 % 4 = 0
      BY <1>1, <1>2, <1>3
    <2> QED
      BY <1>2, <1>10, <2>1 DEF Working, Stored
  <1> QED
    BY <1>1, <1>2, <1>6, <1>7, <1>11, <1>12, <1>13 DEF AesInv

LEMMA WriteTextKeeps == AesInv /\ WriteText => AesInv'
  <1> SUFFICES ASSUME AesInv, WriteText PROVE AesInv'
    OBVIOUS
  <1> USE AesAssumption
  <1>1. /\ AesTypeOK /\ Cut /\ InOrder /\ Working /\ Stored
        /\ gb_pc_end_adr = OutSize(size)
        /\ size \in Nat /\ base \in Nat /\ chunk \in Nat /\ worked \in Nat /\ taken \in Nat
        /\ given \in Seq(Bytes4) /\ Len(given) \in Nat
        /\ words \in Seq(Bytes4) /\ Len(words) \in Nat
        /\ taken <= worked /\ worked <= Len(given) /\ worked - taken <= OutRoom
        /\ aes_pc = "write" /\ words # <<>> /\ Len(given) - worked < 4
    BY AesTypes DEF AesInv, AesTypeOK, WriteText, data_in_flag
  <1>2. /\ given' = Append(given, Head(words)) /\ words' = Tail(words)
        /\ aes_pc' = IF words' = <<>> THEN "read" ELSE "write"
        /\ UNCHANGED <<cipher_mod, size, piece, rest, data_size, chunk, base,
                       gb_pc_end_adr, worked, taken, stored>>
    BY DEF WriteText
  <1>3. /\ Head(words) \in Bytes4 /\ Head(words) = words[1] /\ Len(words) > 0
        /\ words' \in Seq(Bytes4) /\ Len(words') = Len(words) - 1
        /\ \A k \in 1 .. Len(words) - 1 : words'[k] = words[k + 1]
    BY <1>1, <1>2, EmptySeq, HeadTailProperties
  <1>4. /\ given' \in Seq(Bytes4) /\ Len(given') = Len(given) + 1
        /\ \A k \in 1 .. Len(given) : given'[k] = given[k]
        /\ given'[Len(given) + 1] = words[1]
    BY <1>1, <1>2, <1>3, AppendProperties
  <1>5. Reach' = Reach /\ Reach = base + chunk /\ Reach \in Nat
    <2>1. Reach = base + chunk /\ Reach' = base + chunk
      BY <1>1, <1>2 DEF Reach
    <2> QED
      BY <1>1, <2>1
  <1>6. Cut'
    BY <1>1, <1>2, <1>5 DEF Cut
  <1>7. InOrder'
    <2>1. Len(given') + Len(words') = WordCount(Reach)
      BY <1>1, <1>3, <1>4 DEF InOrder
    <2>2. ASSUME NEW k \in 1 .. Len(given) + 1
          PROVE  given'[k] = Word(k, 1, size)
      <3>1. CASE k \in 1 .. Len(given)
        BY <1>1, <1>4, <3>1 DEF InOrder
      <3>2. CASE k = Len(given) + 1
        <4>1. 1 \in 1 .. Len(words)
          BY <1>1, <1>3
        <4>2. words[1] = Word(Len(given) + 1, 1, size)
          BY <1>1, <4>1 DEF InOrder
        <4> QED
          BY <1>4, <3>2, <4>2
      <3> QED
        BY <1>1, <3>1, <3>2
    <2>3. ASSUME NEW k \in 1 .. Len(words')
          PROVE  words'[k] = Word(Len(given') + k, 1, size)
      <3>1. k + 1 \in 1 .. Len(words) /\ k \in 1 .. Len(words) - 1
            /\ Len(given) + (k + 1) = Len(given') + k
        BY <1>1, <1>3, <1>4
      <3>2. words[k + 1] = Word(Len(given) + (k + 1), 1, size)
        BY <1>1, <3>1 DEF InOrder
      <3> QED
        BY <1>3, <3>1, <3>2
    <2>4. size' = size /\ WordCount(Reach)' = WordCount(Reach)
      BY <1>2, <1>5, SizesKept
    <2> QED
      BY <1>4, <2>1, <2>2, <2>3, <2>4 DEF InOrder, Word
  <1>8. Working'
    <2>1. worked % 4 = 0
      <3>1. /\ WordCount(Reach) <= WordCount(size)
            /\ WordCount(Reach) \in Nat /\ WordCount(size) \in Nat
        BY <1>1, <1>5, WordsInText, SizeOf
      <3>2. Len(given) < WordCount(size)
        BY <1>1, <1>3, <3>1 DEF InOrder
      <3> QED
        BY <1>1, <3>1, <3>2 DEF Working
    <2> QED
      BY <1>1, <1>2, <1>4, <2>1 DEF Working
  <1>9. Stored'
    <2>1. 4 * taken = base /\ Len(stored) = base /\ \A i \in 1 .. Len(stored) : stored[i] = i
      BY <1>1 DEF Stored
    <2>2. base < OutSize(Reach)
      <3>1. chunk > 0
        BY <1>1 DEF Cut, ChunkSize
      <3>2. OutSize(Reach) \in Nat /\ Reach <= OutSize(Reach)
        BY <1>5, SizeOf
      <3> QED
        BY <1>1, <1>5, <3>1, <3>2
    <2>3. OutSize(Reach)' = OutSize(Reach)
      BY <1>2, <1>5, SizesKept
    <2>4. /\ aes_pc' = "read" \/ (aes_pc' = "write" /\ words' # <<>>)
          /\ aes_pc' # "chunk"
      BY <1>2
    <2>5. 4 * taken' = base' /\ Len(stored') = base' /\ \A i \in 1 .. Len(stored') : stored'[i] = i
      BY <1>2, <2>1
    <2>6. base' <= 4 * taken' /\ 4 * taken' < OutSize(Reach)'
      BY <1>1, <1>2, <2>2, <2>3, <2>5
    <2> QED
      BY <2>4, <2>5, <2>6 DEF Stored
  <1>10. AesTypeOK'
    <2>1. aes_pc' \in {"idle", "chunk", "write", "read"}
      BY <1>2
    <2>2. worked <= Len(given')
      BY <1>1, <1>4
    <2> QED
      BY <1>1, <1>2, <1>3, <1>4, <2>1, <2>2 DEF AesTypeOK, Bytes4
  <1>11. gb_pc_end_adr' = OutSize(size)' /\ (aes_pc' # "write" => words' = <<>>)
    BY <1>1, <1>2, SizesKept
  <1> QED
    BY <1>6, <1>7, <1>8, <1>9, <1>10, <1>11 DEF AesInv

LEMMA ReadOutKeeps == AesInv /\ ReadOut => AesInv'
  <1> SUFFICES ASSUME AesInv, ReadOut PROVE AesInv'
    OBVIOUS
  <1> USE AesAssumption
  <1> DEFINE o == OutSize(chunk)
             into == Len(stored) - base
             n == Lesser(4, o - into)
             more == [b \in 1 .. n |-> 4 * taken + b]
  <1>1. /\ AesTypeOK /\ Cut /\ InOrder /\ Working /\ Stored /\ words = <<>>
        /\ gb_pc_end_adr = OutSize(size)
        /\ size \in Nat /\ base \in Nat /\ chunk \in Nat /\ worked \in Nat /\ taken \in Nat
        /\ stored \in Seq(Nat) /\ Len(stored) \in Nat /\ Len(given) \in Nat
        /\ taken < worked /\ worked <= Len(given) /\ worked - taken <= OutRoom
        /\ aes_pc = "read"
    BY AesTypes DEF AesInv, AesTypeOK, ReadOut, data_out_flag
  <1>2. /\ stored' = stored \o more
        /\ \/ into + n = o /\ aes_pc' = "chunk" /\ base' = base + chunk
           \/ into + n # o /\ aes_pc' = "read" /\ base' = base
        /\ taken' = taken + 1
        /\ UNCHANGED <<cipher_mod, size, piece, rest, data_size, chunk, words,
                       gb_pc_end_adr, given, worked>>
    BY <1>1 DEF ReadOut
  <1>3. /\ Reach = base + chunk /\ Reach \in Nat /\ chunk > 0 /\ chunk <= 80
        /\ Reach <= size /\ base % 16 = 0
    <2>1. Reach = base + chunk /\ chunk > 0 /\ chunk <= 80
      BY <1>1 DEF Reach, Cut, ChunkSize
    <2>2. Reach \in Nat /\ Reach <= size
      BY <1>1, <2>1, WordsInText
    <2> QED
      BY <1>1, <2>1, <2>2 DEF Cut
  <1>4. o \in Nat /\ OutSize(Reach) = base + o
    BY <1>1, <1>3, SizeOf, SizeOfBoth
  <1>5. Len(stored) = 4 * taken /\ base <= 4 * taken /\ 4 * taken < base + o
    BY <1>1, <1>4 DEF Stored
  <1>6. /\ into \in Nat /\ n \in 1 .. 4 /\ into + n <= o
        /\ into + n # o => n = 4
    <2>1. into \in Nat /\ into < o
      BY <1>1, <1>4, <1>5
    <2> HIDE DEF o, into
    <2> QED
      BY <1>4, <2>1 DEF Lesser
  <1>7. Reach' = Reach
    <2>1. CASE into + n = o /\ aes_pc' = "chunk" /\ base' = base + chunk
      <3>1. Reach' = base' + 0 /\ base' \in Nat
        BY <1>3, <2>1 DEF Reach
      <3> QED
        BY <1>3, <2>1, <3>1
    <2>2. CASE into + n # o /\ aes_pc' = "read" /\ base' = base
      <3>1. Reach' = base' + chunk'
        BY <2>2 DEF Reach
      <3> QED
        BY <1>2, <1>3, <2>2, <3>1
    <2> QED
      BY <1>2, <2>1, <2>2
  <1> HIDE DEF n
  <1>8. /\ more \in Seq(Nat) /\ Len(more) = n
        /\ \A b \in 1 .. n : more[b] = 4 * taken + b
    <2>1. n \in Nat /\ \A b \in 1 .. n : 4 * taken + b \in Nat
      BY <1>1, <1>6
    <2>2. more \in [1 .. n -> Nat]
      BY <2>1
    <2>3. more \in Seq(Nat)
      BY <2>1, <2>2, SeqDef
    <2>4. Len(more) = n
      BY <2>1, <2>2, <2>3, LenProperties
    <2> QED
      BY <2>3, <2>4
  <1> HIDE DEF more
  <1>9. /\ stored' \in Seq(Nat) /\ Len(stored') = 4 * taken + n
        /\ \A i \in 1 .. 4 * taken + n : stored'[i] = i
    <2>1. /\ stored' \in Seq(Nat) /\ Len(stored') = Len(stored) + Len(more)
          /\ \A i \in 1 .. Len(stored) + Len(more) :
                stored'[i] = IF i <= Len(stored) THEN stored[i] ELSE more[i - Len(stored)]
      <3>1. /\ stored \o more \in Seq(Nat)
            /\ Len(stored \o more) = Len(stored) + Len(more)
            /\ \A i \in 1 .. Len(stored) + Len(more) :
                  (stored \o more)[i] = IF i <= Len(stored) THEN stored[i]
                                        ELSE more[i - Len(stored)]
        BY <1>1, <1>8, ConcatProperties
      <3> QED
        BY <1>2, <3>1, Zenon
    <2>2. ASSUME NEW i \in 1 .. 4 * taken + n
          PROVE  stored'[i] = i
      <3>1. CASE i <= 4 * taken
        <4>1. i \in 1 .. Len(stored)
          BY <1>1, <1>5, <3>1
        <4>2. stored'[i] = stored[i]
          BY <1>5, <1>8, <2>1, <3>1
        <4> QED
          BY <1>1, <4>1, <4>2 DEF Stored
      <3>2. CASE ~(i <= 4 * taken)
        <4>1. i - 4 * taken \in 1 .. n
          BY <1>1, <1>6, <3>2
        <4>2. stored'[i] = more[i - 4 * taken]
          BY <1>5, <1>8, <2>1, <3>2
        <4> QED
          BY <1>1, <1>8, <4>1, <4>2
      <3> QED
        BY <3>1, <3>2
    <2> QED
      BY <1>5, <1>8, <2>1, <2>2
  <1>10. into + n = o => Len(given) = taken + 1
    <2>1. /\ OutSize(Reach) <= 4 * WordCount(Reach) /\ 4 * WordCount(Reach) < OutSize(Reach) + 4
          /\ WordCount(Reach) \in Nat
      BY <1>3, SizeOf
    <2>2. Len(given) = WordCount(Reach)
      BY <1>1, EmptySeq, <2>1 DEF InOrder
    <2>3. ASSUME into + n = o PROVE Len(given) = taken + 1
      <3>1. OutSize(Reach) = 4 * taken + n
        BY <1>1, <1>4, <1>5, <1>6, <2>3
      <3> QED
        <4>1. Len(given) \in Nat /\ taken \in Nat /\ 4 * Len(given) < 4 * taken + n + 4
              /\ 4 * taken + n <= 4 * Len(given) /\ n \in 1 .. 4
          BY <1>1, <1>6, <2>1, <2>2, <3>1
        <4> QED
          BY <4>1
    <2> QED
      BY <2>3
  <1>11. into + n # o => 4 * (taken + 1) < OutSize(Reach) /\ Len(stored') = 4 * (taken + 1)
    BY <1>1, <1>4, <1>5, <1>6, <1>9
  <1>12. into + n = o => Len(stored') = OutSize(Reach)
    BY <1>1, <1>4, <1>5, <1>6, <1>9
  <1> HIDE DEF into, o
  <1>13. Stored'
    <2>1. CASE into + n = o
      <3>1. aes_pc' = "chunk" /\ base' = Reach /\ taken' = taken + 1
        BY <1>2, <1>3, <2>1
      <3>2. OutSize(base)' = OutSize(Reach)
        BY <1>2, <3>1, SizesKept
      <3> QED
        BY <1>2, <1>9, <1>10, <1>12, <2>1, <3>1, <3>2 DEF Stored
    <2>2. CASE into + n # o
      <3>1. aes_pc' = "read" /\ base' = base /\ taken' = taken + 1
        BY <1>2, <2>2
      <3>2. OutSize(Reach)' = OutSize(Reach)
        BY <1>2, <1>7, SizesKept
      <3>3. base' <= 4 * taken'
        BY <1>1, <1>5, <3>1
      <3> QED
        BY <1>9, <1>11, <2>2, <3>1, <3>2, <3>3 DEF Stored
    <2> QED
      BY <2>1, <2>2
  <1>14. Cut'
    <2>1. size' = Reach' + data_size' + rest' /\ (Reach' % 16 = 0 \/ Reach' = size')
      BY <1>1, <1>2, <1>7 DEF Cut
    <2>2. base' = base \/ base' = Reach
      BY <1>2, <1>3
    <2>3. base' % 16 = 0 \/ base' = size'
      BY <1>2, <1>3, <1>7, <2>1, <2>2
    <2> QED
      BY <1>1, <1>2, <2>1, <2>3 DEF Cut
  <1>15. InOrder' /\ Working' /\ gb_pc_end_adr' = OutSize(size)'
    <2>1. InOrder'
      BY <1>1, <1>2, <1>7, SizesKept DEF InOrder, Word
    <2> QED
      BY <1>1, <1>2, <2>1, SizesKept DEF Working
  <1>16. AesTypeOK'
    <2>1. /\ taken' \in Nat /\ taken' <= worked' /\ worked' - taken' <= OutRoom
          /\ base' \in Nat /\ worked' <= Len(given')
      BY <1>1, <1>2
    <2> QED
      BY <1>1, <1>2, <1>9, <2>1 DEF AesTypeOK
  <1> QED
    BY <1>1, <1>2, <1>13, <1>14, <1>15, <1>16 DEF AesInv

-----------------------------------------------------------------------------
(***************************************************************************)
(* The AES engine: the theorems                                            *)
(***************************************************************************)

\* The invariant holds always: aes_init, the chunks and calls of aes_process, and the
\* engine, in any order, keep it.
THEOREM AesInvariance == AesSpec => []AesInv
  <1>1. AesBegin => AesInv
    BY AesStart
  <1>2. AesInv /\ [AesNext]_aes_vars => AesInv'
    <2> SUFFICES ASSUME AesInv, [AesNext]_aes_vars PROVE AesInv'
      OBVIOUS
    <2>1. CASE Work
      BY <2>1, WorkKeeps
    <2>2. CASE CutChunk
      BY <2>2, CutChunkKeeps
    <2>3. CASE NextCall
      BY <2>3, NextCallKeeps
    <2>4. CASE AesReturn
      BY <2>4, AesReturnKeeps
    <2>5. CASE WriteText
      BY <2>5, WriteTextKeeps
    <2>6. CASE ReadOut
      BY <2>6, ReadOutKeeps
    <2>7. ASSUME NEW m \in {"CBC", "GCM"}, NEW n \in Sizes, NEW p \in {n, 16},
                 AesInit(m, n, p)
          PROVE  AesInv'
      BY <2>7, AesInitKeeps
    <2>8. CASE UNCHANGED aes_vars
      <3>1. /\ Reach' = Reach /\ OutSize(size)' = OutSize(size) /\ OutSize(base)' = OutSize(base)
            /\ OutSize(Reach)' = OutSize(Reach) /\ WordCount(size)' = WordCount(size)
            /\ WordCount(Reach)' = WordCount(Reach)
        BY <2>8, SizesKept DEF aes_vars, Reach
      <3>2. \A k : Word(k, 1, size)' = Word(k, 1, size)
        BY <2>8 DEF aes_vars, Word
      <3> QED
        BY <2>8, <3>1, <3>2 DEF aes_vars, engine, AesInv, AesTypeOK, Cut, InOrder, Working, Stored
    <2> QED
      BY <2>1, <2>2, <2>3, <2>4, <2>5, <2>6, <2>7, <2>8 DEF AesNext
  <1> QED
    BY <1>1, <1>2, PTL DEF AesSpec

\* Every count is a natural number, and the engine never holds more words than it has
\* room for.
THEOREM AesTypesHold == AesSpec => []AesTypeOK
  <1>1. AesInv => AesTypeOK
    BY DEF AesInv
  <1> QED
    BY <1>1, AesInvariance, PTL

\* aes_process puts the whole text through in order and stores the whole output, and its
\* loops wait only for flags that come.
THEOREM TextIsDeciphered == AesSpec => []Deciphered
  <1>1. AesInv => Deciphered
    <2> SUFFICES ASSUME AesInv PROVE Deciphered
      OBVIOUS
    <2> USE AesAssumption
    <2>1. /\ size \in Nat /\ base \in Nat /\ chunk \in Nat /\ worked \in Nat /\ taken \in Nat
          /\ rest \in Nat /\ data_size \in Nat /\ Reach \in Nat
          /\ given \in Seq(Bytes4) /\ Len(given) \in Nat
          /\ words \in Seq(Bytes4) /\ Len(words) \in Nat
          /\ stored \in Seq(Nat) /\ Len(stored) \in Nat
          /\ taken <= worked /\ worked <= Len(given) /\ worked - taken <= OutRoom
          /\ OutRoom \in Nat /\ OutRoom >= 20
          /\ AesTypeOK
      BY AesTypes DEF AesInv, AesTypeOK, ChunkSize
    <2>2. ASSUME Done
          PROVE  /\ given = WordsOf(1, size)
                 /\ stored = [i \in 1 .. OutSize(size) |-> i]
                 /\ gb_pc_end_adr = OutSize(size)
      <3>1. /\ Cut /\ InOrder /\ Stored /\ gb_pc_end_adr = OutSize(size) /\ words = <<>>
            /\ aes_pc = "chunk" /\ Reach = base /\ size = base
        BY <2>1, <2>2 DEF Done, AesInv, Cut, Reach
      <3>2. Len(given) = WordCount(size) /\ WordCount(size) \in Nat /\ OutSize(size) \in Nat
        BY <2>1, <3>1, EmptySeq, SizeOf DEF InOrder
      <3>3. /\ WordsOf(1, size) \in Seq(Bytes4) /\ Len(WordsOf(1, size)) = WordCount(size)
            /\ \A k \in 1 .. WordCount(size) : WordsOf(1, size)[k] = Word(k, 1, 1 + size - 1)
        <4>1. 1 \in Nat \ {0}
          OBVIOUS
        <4> QED
          BY <2>1, <4>1, WordsShape, Zenon
      <3>4. 1 + size - 1 = size
        BY <2>1
      <3>5. \A k \in 1 .. Len(given) : given[k] = WordsOf(1, size)[k]
        BY <3>1, <3>2, <3>3, <3>4 DEF InOrder
      <3>6. given = WordsOf(1, size)
        BY <2>1, <3>2, <3>3, <3>5, SeqEqual
      <3>7. stored = [i \in 1 .. OutSize(size) |-> i]
        <4>1. Len(stored) = OutSize(size) /\ \A i \in 1 .. OutSize(size) : stored[i] = i
          BY <3>1 DEF Stored
        <4>2. stored \in [1 .. OutSize(size) -> Nat]
          BY <2>1, <4>1, LenProperties
        <4> QED
          BY <4>1, <4>2
      <3> QED
        BY <3>1, <3>6, <3>7
    <2>3. ASSUME aes_pc = "write"
          PROVE  data_in_flag \/ CanWork
      <3>1. Cut /\ InOrder /\ Working /\ Stored
        BY <2>3 DEF AesInv
      <3>2. SUFFICES ASSUME ~data_in_flag PROVE CanWork
        OBVIOUS
      <3>3. Len(given) - worked = 4 /\ Block = 4
        BY <2>1, <3>1, <3>2 DEF Working, data_in_flag, Block
      <3>4. Len(words) > 0 /\ 4 * taken = base /\ chunk <= 80 /\ Reach = base + chunk /\ chunk > 0
        BY <2>1, <2>3, <3>1, EmptySeq DEF Stored, Cut, Reach, ChunkSize
      <3>5. base % 16 = 0
        BY <2>1, <3>1, <3>4, WordsInText DEF Cut
      <3>6. /\ 4 * WordCount(Reach) = base + 4 * WordCount(chunk)
            /\ WordCount(chunk) \in Nat /\ WordCount(Reach) \in Nat
        BY <2>1, <3>4, <3>5, SizeOf, SizeOfBoth
      <3>7. WordCount(chunk) <= 20
        <4>1. OutSize(chunk) <= 80
          <5>1. CASE cipher_mod = "CBC"
            <6>1. OutSize(chunk) % 16 = 0 /\ OutSize(chunk) < chunk + 16 /\ OutSize(chunk) \in Nat
              BY <2>1, <5>1, SizeOf
            <6>2. PICK q \in Nat : OutSize(chunk) = 16 * q
              BY <6>1, Multiple
            <6> QED
              BY <2>1, <3>4, <6>1, <6>2
          <5>2. CASE cipher_mod # "CBC"
            BY <2>1, <3>4, <5>2, SizeOf
          <5> QED
            BY <5>1, <5>2
        <4>2. 4 * WordCount(chunk) < OutSize(chunk) + 4 /\ OutSize(chunk) \in Nat
          BY <2>1, SizeOf
        <4> QED
          BY <3>6, <4>1, <4>2
      <3>8. Len(given) - taken < 20
        <4>1. Len(given) + Len(words) = WordCount(Reach)
          BY <3>1 DEF InOrder
        <4>2. /\ Len(given) \in Nat /\ Len(words) \in Nat /\ taken \in Nat /\ base \in Nat
              /\ 4 * (Len(given) + Len(words)) <= base + 80 /\ 4 * taken = base /\ Len(words) > 0
          BY <2>1, <3>4, <3>6, <3>7, <4>1
        <4> QED
          BY <4>2
      <3> QED
        BY <2>1, <3>3, <3>8 DEF CanWork
    <2>4. ASSUME aes_pc = "read"
          PROVE  data_out_flag \/ CanWork
      <3>1. Cut /\ InOrder /\ Working /\ Stored /\ words = <<>> /\ gb_pc_end_adr = OutSize(size)
        BY <2>4 DEF AesInv
      <3>2. SUFFICES ASSUME ~data_out_flag PROVE CanWork
        OBVIOUS
      <3>3. worked = taken
        BY <2>1, <3>2 DEF data_out_flag
      <3>4. /\ Len(given) = WordCount(Reach) /\ WordCount(Reach) \in Nat
            /\ OutSize(Reach) <= 4 * WordCount(Reach) /\ OutSize(Reach) \in Nat
            /\ 4 * taken < OutSize(Reach)
        BY <2>1, <2>4, <3>1, EmptySeq, SizeOf DEF InOrder, Stored
      <3>5. worked < Len(given)
        BY <2>1, <3>3, <3>4
      <3>6. worked % 4 = 0 /\ Len(given) - worked \in 1 .. 4
        BY <2>1, <3>1, <3>5 DEF Working
      <3>7. Len(given) - worked # 4 => cipher_mod # "CBC" /\ 4 * Len(given) >= gb_pc_end_adr
        <4> SUFFICES ASSUME Len(given) - worked # 4
                     PROVE  cipher_mod # "CBC" /\ 4 * Len(given) >= gb_pc_end_adr
          OBVIOUS
        <4>1. ~(WordCount(Reach) % 4 = 0)
          <5>1. PICK m \in Nat : worked = 4 * m
            BY <2>1, <3>6
          <5> DEFINE w == WordCount(Reach)
          <5>2. w \in Nat /\ w - 4 * m \in 1 .. 3
            BY <2>1, <3>4, <3>6, <5>1
          <5> HIDE DEF w
          <5>3. ~(w % 4 = 0)
            BY <5>2
          <5> QED
            BY <5>3 DEF w
        <4>2. cipher_mod # "CBC" /\ ~(Reach % 16 = 0)
          BY <2>1, <4>1, SizeOf
        <4>3. Reach = size
          BY <3>1, <4>2 DEF Cut
        <4> QED
          BY <3>1, <3>4, <4>2, <4>3
      <3>8. cipher_mod # "CBC" => cipher_mod = "GCM"
        BY <2>1 DEF AesTypeOK
      <3>9. Block \in 1 .. 4
        BY <3>6, <3>7, <3>8 DEF Block
      <3> QED
        BY <2>1, <3>3, <3>9 DEF CanWork
    <2> QED
      BY <2>2, <2>3, <2>4 DEF Deciphered
  <1> QED
    BY <1>1, AesInvariance, PTL

-----------------------------------------------------------------------------
(***************************************************************************)
(* The digest: the invariant                                               *)
(***************************************************************************)

\* The bytes of the padding for a message of n bytes, and the k-th byte that the accelerator
\* or the buffer gets.
PadLength(n) == IF n % BLOCK < 56 THEN 56 - (n % BLOCK) ELSE 120 - (n % BLOCK)
Stream(n, k) ==
    IF k <= n THEN k
    ELSE IF k <= n + PadLength(n) THEN PaddingByte(k - n)
    ELSE LengthByte(n, k - (n + PadLength(n)))

\* The types.
ShaTypes ==
    /\ input_size \in Nat /\ sha_data_num \in Nat /\ totalLength \in Nat
    /\ data \in Nat /\ len \in Nat /\ lengthPad \in Nat
    /\ sha_buffer \in Seq(Int) /\ sha_in \in Seq(Int)

\* Whole blocks have gone to the accelerator, the rest is in the buffer.
InBlocks ==
    /\ sha_data_num = BlockCount(input_size)
    /\ Len(sha_in) % BLOCK = 0
    /\ Len(sha_buffer) < BLOCK
    /\ Len(sha_in) + Len(sha_buffer) = totalLength
    /\ \A k \in 1 .. Len(sha_in) : sha_in[k] = Stream(input_size, k)
    /\ \A k \in 1 .. Len(sha_buffer) : sha_buffer[k] = Stream(input_size, Len(sha_in) + k)

\* How far the calls have come.
Given ==
    CASE sha_pc = "open"    -> totalLength <= input_size
      [] sha_pc = "message" -> data = totalLength /\ totalLength + len <= input_size
      [] sha_pc = "padding" -> /\ lengthPad = input_size
                               /\ totalLength = input_size + data
                               /\ data + len = PadLength(input_size)
      [] sha_pc = "length"  -> /\ lengthPad = input_size
                               /\ totalLength = input_size + PadLength(input_size) + data
                               /\ data + len = 8
      [] OTHER              -> totalLength = input_size + PadLength(input_size) + 8

\* What was told and what was read agree, and the digest is of the first blocks.
ShaInv ==
    /\ sha_pc \in {"none", "open", "message", "padding", "length", "wait", "done"}
    /\ ShaTypes
    /\ sha_pc # "none" => InBlocks /\ Given
    /\ sha_pc = "done" => digested = SubSeq(sha_in, 1, BLOCK * sha_data_num)

-----------------------------------------------------------------------------

\* The padding is 1 to 64 bytes long.
LEMMA PadLengthType == \A n \in Nat : PadLength(n) \in 1 .. 64
  <1> SUFFICES ASSUME NEW n \in Nat PROVE PadLength(n) \in 1 .. 64
    OBVIOUS
  <1>1. n % 64 \in 0 .. 63
    OBVIOUS
  <1> QED
    BY <1>1 DEF PadLength, BLOCK

\* So it has a length.
LEMMA PadLengthNat == \A n \in Nat : PadLength(n) \in Nat
  <1> SUFFICES ASSUME NEW n \in Nat PROVE PadLength(n) \in Nat
    OBVIOUS
  <1>1. PadLength(n) \in 1 .. 64
    BY PadLengthType
  <1> HIDE DEF PadLength
  <1> QED
    BY <1>1

\* The bytes of the model are integers.
LEMMA StreamType == \A n, k \in Nat : Stream(n, k) \in Int
  BY PadLengthType DEF Stream, PaddingByte, LengthByte, First80, Stray, Zero

\* The invariant holds before the first message.
LEMMA ShaStart == ShaInit => ShaInv
  <1> SUFFICES ASSUME ShaInit PROVE ShaInv
    OBVIOUS
  <1>1. <<>> \in Seq(Int)
    BY EmptySeq
  <1> QED
    BY <1>1 DEF ShaInit, ShaInv, ShaTypes

\* sha256_init keeps it,
LEMMA InitKeeps == ASSUME ShaInv, NEW n \in MessageSizes, Sha256Init(n) PROVE ShaInv'
  <1>1. n \in Nat /\ BlockCount(n) \in Nat
    BY ShaAssumption DEF BlockCount, BLOCK
  <1>2. <<>> \in Seq(Int) /\ Len(<<>>) = 0
    BY EmptySeq
  <1>3. ShaTypes'
    BY <1>1, <1>2 DEF Sha256Init, ShaTypes
  <1>4. /\ sha_in' = <<>> /\ sha_buffer' = <<>> /\ totalLength' = 0 /\ sha_pc' = "open"
        /\ input_size' = n /\ sha_data_num' = BlockCount(n)
    BY DEF Sha256Init
  <1>5. InBlocks'
    <2>1. Len(sha_in') = 0 /\ Len(sha_buffer') = 0
      BY <1>2, <1>4
    <2>2. 0 % 64 = 0
      OBVIOUS
    <2> QED
      BY <1>4, <2>1, <2>2 DEF InBlocks, BLOCK
  <1>6. Given'
    BY <1>1, <1>4 DEF Given
  <1> QED
    BY <1>3, <1>4, <1>5, <1>6 DEF ShaInv

\* a call of sha256_update,
LEMMA UpdateKeeps == ASSUME ShaInv, NEW n \in PieceSizes, Sha256Update(n) PROVE ShaInv'
  <1>1. n \in Nat
    BY ShaAssumption
  <1>2. /\ sha_pc = "open" /\ sha_pc' = "message" /\ data' = totalLength /\ len' = n
        /\ totalLength + n <= input_size
        /\ UNCHANGED <<input_size, sha_data_num, totalLength, sha_buffer, lengthPad, sha_in, digested>>
    BY DEF Sha256Update
  <1>3. ShaTypes /\ InBlocks
    BY <1>2 DEF ShaInv
  <1>4. ShaTypes' /\ InBlocks'
    BY <1>1, <1>2, <1>3 DEF ShaTypes, InBlocks
  <1>5. Given'
    BY <1>2 DEF Given
  <1> QED
    BY <1>2, <1>4, <1>5 DEF ShaInv

\* A round of sha256_update gives the next bytes of the stream.
LEMMA RoundGivesTheNext ==
    ASSUME ShaInv, UpdateRound
    PROVE  /\ BytesToCopy \in 1 .. len /\ BytesToCopy <= BLOCK - Len(sha_buffer)
           /\ \A j \in 1 .. BytesToCopy : DataByte(data + j) = Stream(input_size, totalLength + j)
  <1>1. /\ sha_pc \in {"message", "padding", "length"} /\ len > 0
        /\ ShaTypes /\ InBlocks /\ Given
    BY DEF ShaInv, UpdateRound
  <1>2. /\ len \in Nat /\ data \in Nat /\ totalLength \in Nat /\ input_size \in Nat
        /\ Len(sha_buffer) \in Nat /\ Len(sha_buffer) < 64
    BY <1>1, LenProperties DEF ShaTypes, InBlocks, BLOCK
  <1>3. BytesToCopy \in 1 .. len /\ BytesToCopy <= BLOCK - Len(sha_buffer)
    BY <1>1, <1>2 DEF BytesToCopy, BLOCK
  <1>4. PadLength(input_size) \in Nat
    BY <1>2, PadLengthNat
  <1>5. ASSUME NEW j \in 1 .. BytesToCopy
        PROVE  DataByte(data + j) = Stream(input_size, totalLength + j)
    <2>1. j \in 1 .. len
      BY <1>2, <1>3
    <2>2. CASE sha_pc = "message"
      <3>1. data = totalLength /\ totalLength + len <= input_size
        BY <1>1, <2>2 DEF Given
      <3>2. totalLength + j <= input_size
        BY <1>2, <2>1, <3>1
      <3> QED
        BY <2>2, <3>1, <3>2 DEF DataByte, Stream
    <2>3. CASE sha_pc = "padding"
      <3>1. totalLength = input_size + data /\ data + len = PadLength(input_size)
        BY <1>1, <2>3 DEF Given
      <3>2. /\ ~(totalLength + j <= input_size)
            /\ totalLength + j <= input_size + PadLength(input_size)
            /\ totalLength + j - input_size = data + j
        BY <1>2, <1>4, <2>1, <3>1
      <3> QED
        <4>1. DataByte(data + j) = PaddingByte(data + j)
          BY <2>3 DEF DataByte
        <4>2. Stream(input_size, totalLength + j) = PaddingByte(totalLength + j - input_size)
          BY <1>2, <1>4, <2>1, <3>2 DEF Stream
        <4> QED
          BY <3>2, <4>1, <4>2
    <2>4. CASE sha_pc = "length"
      <3>1. /\ totalLength = input_size + PadLength(input_size) + data /\ data + len = 8
            /\ lengthPad = input_size
        BY <1>1, <2>4 DEF Given
      <3>2. /\ ~(totalLength + j <= input_size)
            /\ ~(totalLength + j <= input_size + PadLength(input_size))
            /\ totalLength + j - (input_size + PadLength(input_size)) = data + j
        BY <1>2, <1>4, <2>1, <3>1
      <3> QED
        <4>1. DataByte(data + j) = LengthByte(input_size, data + j)
          BY <2>4, <3>1 DEF DataByte
        <4>2. Stream(input_size, totalLength + j)
              = LengthByte(input_size, totalLength + j - (input_size + PadLength(input_size)))
          BY <1>2, <1>4, <2>1, <3>2 DEF Stream
        <4> QED
          BY <3>2, <4>1, <4>2
    <2> QED
      BY <1>1, <2>2, <2>3, <2>4
  <1> QED
    BY <1>3, <1>5

\* so a round keeps the invariant, whether it fills a block or not.
LEMMA RoundKeeps == ShaInv /\ UpdateRound => ShaInv'
  <1> SUFFICES ASSUME ShaInv, UpdateRound PROVE ShaInv'
    OBVIOUS
  <1> DEFINE c == BytesToCopy
             more == [k \in 1 .. c |-> DataByte(data + k)]
             bytes == sha_buffer \o more
  <1>1. /\ sha_pc \in {"message", "padding", "length"} /\ len > 0
        /\ ShaTypes /\ InBlocks /\ Given
    BY DEF ShaInv, UpdateRound
  <1>2. /\ sha_pc' = sha_pc /\ totalLength' = totalLength + c /\ data' = data + c /\ len' = len - c
        /\ \/ Len(bytes) = BLOCK /\ sha_in' = sha_in \o bytes /\ sha_buffer' = <<>>
           \/ Len(bytes) # BLOCK /\ sha_buffer' = bytes /\ sha_in' = sha_in
        /\ UNCHANGED <<input_size, sha_data_num, lengthPad, digested>>
    BY DEF UpdateRound
  <1>3. /\ len \in Nat /\ data \in Nat /\ totalLength \in Nat /\ input_size \in Nat
        /\ sha_buffer \in Seq(Int) /\ sha_in \in Seq(Int)
        /\ sha_data_num \in Nat /\ lengthPad \in Nat
    BY <1>1 DEF ShaTypes
  <1>4. Len(sha_buffer) \in Nat /\ Len(sha_in) \in Nat
    BY <1>3, LenProperties
  <1>5. c \in Nat /\ c \in 1 .. len /\ c <= 64 - Len(sha_buffer)
    BY <1>3, RoundGivesTheNext DEF BLOCK
  <1>6. \A j \in 1 .. c : more[j] = Stream(input_size, totalLength + j)
    BY RoundGivesTheNext
  <1> HIDE DEF c
  <1>7. more \in Seq(Int) /\ Len(more) = c
    <2>1. \A j \in 1 .. c : more[j] \in Int
      <3> SUFFICES ASSUME NEW j \in 1 .. c PROVE more[j] \in Int
        OBVIOUS
      <3>1. totalLength + j \in Nat
        BY <1>3, <1>5
      <3>2. Stream(input_size, totalLength + j) \in Int
        BY <1>3, <3>1, StreamType
      <3> QED
        BY <1>6, <3>2
    <2>2. more \in [1 .. c -> Int]
      BY <2>1
    <2> QED
      BY <1>5, <2>2
  <1> HIDE DEF more
  <1>8. /\ bytes \in Seq(Int) /\ Len(bytes) = Len(sha_buffer) + c
        /\ \A i \in 1 .. Len(sha_buffer) + c :
               bytes[i] = IF i <= Len(sha_buffer) THEN sha_buffer[i] ELSE more[i - Len(sha_buffer)]
    BY <1>3, <1>7, ConcatProperties
  <1> HIDE DEF bytes
  <1>9. ASSUME NEW i \in 1 .. Len(sha_buffer) + c
        PROVE  bytes[i] = Stream(input_size, Len(sha_in) + i)
    <2>1. CASE i <= Len(sha_buffer)
      <3>1. i \in 1 .. Len(sha_buffer)
        BY <1>4, <1>5, <2>1
      <3>2. bytes[i] = sha_buffer[i]
        BY <1>8, <2>1
      <3> QED
        BY <1>1, <3>1, <3>2 DEF InBlocks
    <2>2. CASE ~(i <= Len(sha_buffer))
      <3>1. /\ i - Len(sha_buffer) \in 1 .. c
            /\ totalLength + (i - Len(sha_buffer)) = Len(sha_in) + i
        BY <1>1, <1>4, <1>5, <2>2 DEF InBlocks
      <3> QED
        BY <1>6, <1>8, <2>2, <3>1
    <2> QED
      BY <2>1, <2>2
  <1>10. ShaTypes' /\ InBlocks'
    <2>1. CASE Len(bytes) = BLOCK
      <3>1. sha_in' = sha_in \o bytes /\ sha_buffer' = <<>>
        BY <1>2, <2>1
      <3>2. /\ sha_in' \in Seq(Int) /\ Len(sha_in') = Len(sha_in) + Len(bytes)
            /\ \A i \in 1 .. Len(sha_in) + Len(bytes) :
                   sha_in'[i] = IF i <= Len(sha_in) THEN sha_in[i] ELSE bytes[i - Len(sha_in)]
        BY <1>3, <1>8, <3>1, ConcatProperties
      <3>3. sha_buffer' \in Seq(Int) /\ Len(sha_buffer') = 0
        BY <3>1, EmptySeq
      <3>4. ASSUME NEW i \in 1 .. Len(sha_in')
            PROVE  sha_in'[i] = Stream(input_size, i)
        <4>1. CASE i <= Len(sha_in)
          <5>1. i \in 1 .. Len(sha_in) /\ i \in 1 .. Len(sha_in) + Len(bytes)
            BY <1>4, <1>5, <1>8, <3>2, <4>1
          <5>2. sha_in'[i] = sha_in[i]
            BY <3>2, <4>1, <5>1
          <5> QED
            BY <1>1, <5>1, <5>2 DEF InBlocks
        <4>2. CASE ~(i <= Len(sha_in))
          <5>1. i - Len(sha_in) \in 1 .. Len(sha_buffer) + c /\ Len(sha_in) + (i - Len(sha_in)) = i
            BY <1>4, <1>5, <1>8, <3>2, <4>2
          <5> QED
            BY <1>4, <1>5, <1>8, <1>9, <3>2, <4>2, <5>1
        <4> QED
          BY <4>1, <4>2
      <3>5. Len(sha_in') % 64 = 0 /\ Len(sha_in') + 0 = totalLength + c
        <4>1. Len(sha_in') = Len(sha_in) + 64 /\ Len(sha_in) % 64 = 0 /\ Len(sha_buffer) + c = 64
              /\ Len(sha_in) + Len(sha_buffer) = totalLength
          BY <1>1, <1>8, <2>1, <3>2 DEF InBlocks, BLOCK
        <4>2. (Len(sha_in) + 64) % 64 = Len(sha_in) % 64
          BY <1>4
        <4> QED
          BY <1>3, <1>4, <1>5, <4>1, <4>2
      <3>6. ShaTypes'
        BY <1>2, <1>3, <1>5, <3>2, <3>3 DEF ShaTypes
      <3>7. InBlocks'
        BY <1>1, <1>2, <3>3, <3>4, <3>5 DEF InBlocks, BLOCK
      <3> QED
        BY <3>6, <3>7
    <2>2. CASE Len(bytes) # BLOCK
      <3>1. sha_buffer' = bytes /\ sha_in' = sha_in
        BY <1>2, <2>2
      <3>2. Len(bytes) < 64 /\ Len(sha_in) + Len(bytes) = totalLength + c
        <4>1. Len(sha_in) + Len(sha_buffer) = totalLength
          BY <1>1 DEF InBlocks
        <4>2. Len(bytes) # 64
          BY <2>2 DEF BLOCK
        <4>3. Len(bytes) = Len(sha_buffer) + c
          BY <1>8
        <4>4. Len(bytes) < 64
          BY <1>4, <1>5, <4>2, <4>3
        <4>5. Len(sha_in) + Len(bytes) = totalLength + c
          BY <1>3, <1>4, <1>5, <4>1, <4>3
        <4> QED
          BY <4>4, <4>5
      <3>3. ShaTypes'
        BY <1>2, <1>3, <1>5, <1>8, <3>1 DEF ShaTypes
      <3>4. InBlocks'
        BY <1>1, <1>2, <1>8, <1>9, <3>1, <3>2 DEF InBlocks, BLOCK
      <3> QED
        BY <3>3, <3>4
    <2> QED
      BY <2>1, <2>2
  <1>11. Given'
    <2>1. PadLength(input_size) \in Nat
      BY <1>3, PadLengthNat
    <2>2. CASE sha_pc = "message"
      <3>1. data = totalLength /\ totalLength + len <= input_size
        BY <1>1, <2>2 DEF Given
      <3>2. data' = totalLength' /\ totalLength' + len' <= input_size'
        BY <1>2, <1>3, <1>5, <3>1
      <3> QED
        BY <1>2, <2>2, <3>2 DEF Given
    <2>3. CASE sha_pc = "padding"
      <3>1. /\ lengthPad = input_size /\ totalLength = input_size + data
            /\ data + len = PadLength(input_size)
        BY <1>1, <2>3 DEF Given
      <3>2. /\ lengthPad' = input_size' /\ totalLength' = input_size' + data'
            /\ data' + len' = PadLength(input_size')
        BY <1>2, <1>3, <1>5, <2>1, <3>1
      <3> QED
        BY <1>2, <2>3, <3>2 DEF Given
    <2>4. CASE sha_pc = "length"
      <3>1. /\ lengthPad = input_size
            /\ totalLength = input_size + PadLength(input_size) + data /\ data + len = 8
        BY <1>1, <2>4 DEF Given
      <3>2. /\ lengthPad' = input_size'
            /\ totalLength' = input_size' + PadLength(input_size') + data' /\ data' + len' = 8
        BY <1>2, <1>3, <1>5, <2>1, <3>1
      <3> QED
        BY <1>2, <2>4, <3>2 DEF Given
    <2> QED
      BY <1>1, <2>2, <2>3, <2>4
  <1> QED
    BY <1>1, <1>2, <1>10, <1>11 DEF ShaInv

\* The return of sha256_update,
LEMMA ReturnKeeps == ShaInv /\ UpdateReturns => ShaInv'
  <1> SUFFICES ASSUME ShaInv, UpdateReturns PROVE ShaInv'
    OBVIOUS
  <1>1. /\ sha_pc \in {"message", "padding", "length"} /\ len = 0
        /\ ShaTypes /\ InBlocks /\ Given
    BY DEF ShaInv, UpdateReturns
  <1>2. /\ UNCHANGED <<input_size, sha_data_num, totalLength, sha_buffer, lengthPad, sha_in, digested>>
        /\ \/ sha_pc = "message" /\ sha_pc' = "open" /\ UNCHANGED <<data, len>>
           \/ sha_pc = "padding" /\ sha_pc' = "length" /\ data' = 0 /\ len' = 8
           \/ sha_pc = "length" /\ sha_pc' = "wait" /\ UNCHANGED <<data, len>>
    BY DEF UpdateReturns
  <1>3. ShaTypes' /\ InBlocks'
    BY <1>1, <1>2 DEF ShaTypes, InBlocks
  <1>4. /\ data \in Nat /\ totalLength \in Nat /\ input_size \in Nat
        /\ PadLength(input_size) \in Nat
    BY <1>1, PadLengthNat DEF ShaTypes
  <1>5. Given'
    <2>1. CASE sha_pc = "message"
      <3>1. totalLength + 0 <= input_size
        BY <1>1, <2>1 DEF Given
      <3>2. totalLength' <= input_size'
        BY <1>2, <1>4, <3>1
      <3> QED
        BY <1>2, <2>1, <3>2 DEF Given
    <2>2. CASE sha_pc = "padding"
      <3>1. /\ lengthPad = input_size /\ totalLength = input_size + data
            /\ data + 0 = PadLength(input_size)
        BY <1>1, <2>2 DEF Given
      <3>2. /\ lengthPad' = input_size' /\ data' + len' = 8
            /\ totalLength' = input_size' + PadLength(input_size') + data'
        BY <1>2, <1>4, <2>2, <3>1
      <3> QED
        BY <1>2, <2>2, <3>2 DEF Given
    <2>3. CASE sha_pc = "length"
      <3>1. totalLength = input_size + PadLength(input_size) + data /\ data + 0 = 8
        BY <1>1, <2>3 DEF Given
      <3>2. totalLength' = input_size' + PadLength(input_size') + 8
        BY <1>2, <1>4, <3>1
      <3> QED
        BY <1>2, <2>3, <3>2 DEF Given
    <2> QED
      BY <1>1, <2>1, <2>2, <2>3
  <1> QED
    BY <1>2, <1>3, <1>5 DEF ShaInv

\* What is left over whole blocks is the remainder.
LEMMA WholeBlocks ==
    ASSUME NEW a \in Nat, NEW b \in Nat, b < 64, a % 64 = 0
    PROVE  (a + b) % 64 = b
  <1>1. PICK q \in Nat : a = 64 * q
    <2>1. a \div 64 \in Nat /\ a = 64 * (a \div 64) + (a % 64)
      OBVIOUS
    <2> QED
      BY <2>1
  <1> QED
    BY <1>1

\* the padding of sha256_final,
LEMMA FinalKeeps == ShaInv /\ Sha256Final => ShaInv'
  <1> SUFFICES ASSUME ShaInv, Sha256Final PROVE ShaInv'
    OBVIOUS
  <1>1. /\ sha_pc = "open" /\ ShaTypes /\ InBlocks
        /\ totalLength = input_size /\ sha_pc' = "padding" /\ data' = 0 /\ len' = BytesToPad
        /\ lengthPad' = totalLength
        /\ UNCHANGED <<input_size, sha_data_num, totalLength, sha_buffer, sha_in, digested>>
    BY DEF ShaInv, Sha256Final
  <1>2. /\ input_size \in Nat /\ Len(sha_buffer) \in Nat /\ Len(sha_buffer) < 64 /\ Len(sha_in) \in Nat
        /\ Len(sha_in) % 64 = 0 /\ Len(sha_in) + Len(sha_buffer) = input_size
    <2>1. sha_buffer \in Seq(Int) /\ sha_in \in Seq(Int) /\ input_size \in Nat
      BY <1>1 DEF ShaTypes
    <2>2. Len(sha_buffer) \in Nat /\ Len(sha_in) \in Nat
      BY <2>1, LenProperties
    <2>3. /\ Len(sha_in) % 64 = 0 /\ Len(sha_buffer) < 64
          /\ Len(sha_in) + Len(sha_buffer) = totalLength
      BY <1>1 DEF InBlocks, BLOCK
    <2>4. Len(sha_buffer) < 64
      BY <2>3
    <2>5. Len(sha_in) % 64 = 0
      BY <2>3
    <2>6. Len(sha_in) + Len(sha_buffer) = totalLength
      BY <2>3
    <2> QED
      BY <1>1, <2>1, <2>2, <2>4, <2>5, <2>6
  <1>3. input_size % 64 = Len(sha_buffer)
    BY <1>2, WholeBlocks
  <1>4. BytesToPad = PadLength(input_size)
    <2>1. PadLength(input_size) = IF Len(sha_buffer) < 56 THEN 56 - Len(sha_buffer)
                                  ELSE 120 - Len(sha_buffer)
      BY <1>3 DEF PadLength, BLOCK
    <2> QED
      BY <1>2, <2>1 DEF BytesToPad
  <1>5. PadLength(input_size) \in Nat
    BY <1>2, PadLengthNat
  <1>6. ShaTypes' /\ InBlocks'
    BY <1>1, <1>4, <1>5 DEF ShaTypes, InBlocks
  <1>7. Given'
    BY <1>1, <1>2, <1>4, <1>5 DEF Given
  <1> QED
    BY <1>1, <1>6, <1>7 DEF ShaInv

\* and the digest keep it.
LEMMA DigestKeeps == ShaInv /\ Sha256Digest => ShaInv'
  BY DEF ShaInv, Sha256Digest, ShaTypes, InBlocks, Given

\* The invariant of the driver.
THEOREM ShaInvariance == ShaSpec => []ShaInv
  <1>1. ASSUME ShaInv, [ShaNext]_sha_vars PROVE ShaInv'
    <2>1. CASE UNCHANGED sha_vars
      BY <1>1, <2>1 DEF ShaInv, ShaTypes, InBlocks, Given, sha_vars
    <2> QED
      BY <1>1, <2>1, InitKeeps, UpdateKeeps, RoundKeeps, ReturnKeeps, FinalKeeps, DigestKeeps
      DEF ShaNext
  <1> QED
    BY <1>1, ShaStart, PTL DEF ShaSpec

-----------------------------------------------------------------------------
(***************************************************************************)
(* The digest: of what                                                     *)
(***************************************************************************)

\* Where the blocks end.
LEMMA BlockArithmetic ==
    ASSUME NEW n \in Nat
    PROVE  /\ n % 64 \in 0 .. 63
           /\ n % 64 < 56 => /\ n + PadLength(n) + 8 = 64 * BlockCount(n)
                             /\ PaddedLength(n) = 64 * BlockCount(n)
                             /\ PadLength(n) = 56 - (n % 64)
           /\ ~(n % 64 < 56) => /\ n + PadLength(n) + 8 = 64 * BlockCount(n) + 64
                                /\ PaddedLength(n) = 64 * BlockCount(n) + 64
           /\ BlockCount(n) \in Nat /\ PaddedLength(n) \in Nat
  <1>1. PICK q \in Nat, r \in 0 .. 63 : n = 64 * q + r
    <2>1. n \div 64 \in Nat /\ n % 64 \in 0 .. 63 /\ n = 64 * (n \div 64) + (n % 64)
      OBVIOUS
    <2>2. n \div 64 \in Nat
      OBVIOUS
    <2> QED
      BY <2>1, <2>2
  <1>2. n % 64 = r /\ (n + 64) \div 64 = q + 1
    BY <1>1
  <1>3. r < 56 => (n + 8) \div 64 = q
    BY <1>1
  <1>4. ~(r < 56) => (n + 8) \div 64 = q + 1
    BY <1>1
  <1>5. BlockCount(n) = q + 1
    BY <1>2 DEF BlockCount, BLOCK
  <1>6. /\ r < 56 => PaddedLength(n) = 64 * (q + 1) /\ PadLength(n) = 56 - r
        /\ ~(r < 56) => PaddedLength(n) = 64 * (q + 1 + 1) /\ PadLength(n) = 120 - r
    BY <1>2, <1>3, <1>4 DEF PaddedLength, PadLength, BLOCK
  <1> QED
    BY <1>1, <1>2, <1>5, <1>6

\* The stream is the padded message, if the padding is short.
LEMMA StreamIsPadded ==
    ASSUME NEW n \in Nat, n % 64 < 56, NEW k \in 1 .. PaddedLength(n)
    PROVE  Padded(n)[k] = Stream(n, k)
  <1> DEFINE p == PaddedLength(n)
             q == PadLength(n)
  <1>1. q \in 1 .. 56 /\ p = n + q + 8
    <2>1. q = 56 - (n % 64) /\ n % 64 \in 0 .. 63 /\ n + q + 8 = 64 * BlockCount(n)
          /\ p = 64 * BlockCount(n)
      BY BlockArithmetic
    <2> HIDE DEF p, q
    <2> QED
      BY <2>1
  <1>2. Padded(n)[k] = IF k <= n THEN k
                       ELSE IF k = n + 1 THEN First80
                       ELSE IF k <= p - 8 THEN Zero
                       ELSE LengthByte(n, k - (p - 8))
    BY DEF Padded
  <1>3. p - 8 = n + q
    BY <1>1
  <1> HIDE DEF p, q
  <1>4. k \in Nat /\ k \in 1 .. p
    BY <1>1 DEF p
  <1>5. CASE k <= n
    BY <1>2, <1>5 DEF Stream
  <1>6. CASE ~(k <= n) /\ k <= n + q
    <2>1. k - n \in 1 .. 56 /\ k - n # 63 /\ (k - n = 1 <=> k = n + 1)
      BY <1>1, <1>4, <1>6
    <2>2. Stream(n, k) = PaddingByte(k - n)
      BY <1>6 DEF Stream, q
    <2> QED
      BY <1>2, <1>3, <1>6, <2>1, <2>2 DEF PaddingByte
  <1>7. CASE ~(k <= n) /\ ~(k <= n + q)
    <2>1. k # n + 1
      BY <1>1, <1>4, <1>7
    <2>2. Stream(n, k) = LengthByte(n, k - (n + q))
      BY <1>7 DEF Stream, q
    <2> QED
      BY <1>2, <1>3, <1>7, <2>1, <2>2
  <1> QED
    BY <1>5, <1>6, <1>7

\* When sha256_final waits, all bytes are in the accelerator.
LEMMA AllArrived ==
    ASSUME ShaInv, sha_pc \in {"wait", "done"}
    PROVE  /\ input_size \in Nat
           /\ Len(sha_in) = input_size + PadLength(input_size) + 8
           /\ sha_data_num = BlockCount(input_size)
           /\ \A k \in 1 .. Len(sha_in) : sha_in[k] = Stream(input_size, k)
           /\ sha_in \in Seq(Int)
  <1>1. /\ ShaTypes /\ InBlocks /\ totalLength = input_size + PadLength(input_size) + 8
    BY DEF ShaInv, Given
  <1>2. /\ input_size \in Nat /\ sha_in \in Seq(Int) /\ Len(sha_in) \in Nat /\ Len(sha_buffer) \in Nat /\ Len(sha_buffer) < 64
        /\ Len(sha_in) % 64 = 0 /\ Len(sha_in) + Len(sha_buffer) = totalLength
    <2>1. sha_buffer \in Seq(Int) /\ sha_in \in Seq(Int) /\ input_size \in Nat
      BY <1>1 DEF ShaTypes
    <2>2. Len(sha_buffer) \in Nat /\ Len(sha_in) \in Nat
      BY <2>1, LenProperties
    <2>3. /\ Len(sha_in) % 64 = 0 /\ Len(sha_buffer) < 64
          /\ Len(sha_in) + Len(sha_buffer) = totalLength
      BY <1>1 DEF InBlocks, BLOCK
    <2>4. Len(sha_buffer) < 64
      BY <2>3
    <2>5. Len(sha_in) % 64 = 0
      BY <2>3
    <2>6. Len(sha_in) + Len(sha_buffer) = totalLength
      BY <2>3
    <2> QED
      BY <1>1, <2>1, <2>2, <2>4, <2>5, <2>6
  <1>3. totalLength % 64 = 0 /\ totalLength \in Nat
    <2>1. BlockCount(input_size) \in Nat
      BY <1>2, BlockArithmetic
    <2>2. totalLength = 64 * BlockCount(input_size) \/ totalLength = 64 * BlockCount(input_size) + 64
      BY <1>1, <1>2, BlockArithmetic
    <2> HIDE DEF BlockCount
    <2>3. CASE totalLength = 64 * BlockCount(input_size)
      BY <2>1, <2>3
    <2>4. CASE totalLength = 64 * BlockCount(input_size) + 64
      <3>1. totalLength = 64 * (BlockCount(input_size) + 1)
        BY <2>1, <2>4
      <3> QED
        BY <2>1, <3>1
    <2> QED
      BY <2>2, <2>3, <2>4
  <1>4. Len(sha_in) = totalLength
    <2>1. totalLength % 64 = Len(sha_buffer)
      BY <1>2, WholeBlocks
    <2> QED
      BY <1>2, <1>3, <2>1
  <1> QED
    BY <1>1, <1>2, <1>4 DEF InBlocks

\* The digest comes, and is that of the message just if the padding has room in the
\* message's last block, however the message was cut.
THEOREM DigestIsRight == ShaSpec => []DigestRight
  <1>1. ASSUME ShaInv, sha_pc \in {"wait", "done"} PROVE BLOCK * sha_data_num <= Len(sha_in)
    <2>1. input_size \in Nat /\ BlockCount(input_size) \in Nat
      BY <1>1, AllArrived, BlockArithmetic
    <2>2. Len(sha_in) \in {64 * BlockCount(input_size), 64 * BlockCount(input_size) + 64}
      BY <1>1, <2>1, AllArrived, BlockArithmetic
    <2>3. sha_data_num = BlockCount(input_size)
      BY <1>1, AllArrived
    <2> QED
      BY <2>1, <2>2, <2>3 DEF BLOCK
  <1>2. ASSUME ShaInv, sha_pc = "done"
        PROVE  digested = Padded(input_size) <=> input_size % BLOCK < 56
    <2> DEFINE n == input_size
               m == 64 * sha_data_num
    <2>1. /\ n \in Nat /\ sha_data_num = BlockCount(n) /\ sha_in \in Seq(Int)
          /\ \A k \in 1 .. Len(sha_in) : sha_in[k] = Stream(n, k)
      BY <1>2, AllArrived
    <2>2. m \in Nat /\ m <= Len(sha_in) /\ Len(sha_in) \in Nat
      <3>1. BlockCount(n) \in Nat
        BY <2>1, BlockArithmetic
      <3>2. 64 * sha_data_num <= Len(sha_in)
        BY <1>1, <1>2 DEF BLOCK
      <3>3. Len(sha_in) \in Nat
        BY <2>1, LenProperties
      <3> QED
        BY <2>1, <3>1, <3>2, <3>3
    <2>3. digested = SubSeq(sha_in, 1, m)
      BY <1>2 DEF ShaInv, BLOCK
    <2>4. \A k \in 1 .. m : sha_in[k] \in Int
      BY <2>1, <2>2, LenProperties
    <2>5. /\ digested \in Seq(Int) /\ Len(digested) = m
          /\ \A k \in 1 .. m : digested[k] = Stream(n, k)
      <3>1. /\ SubSeq(sha_in, 1, m) \in Seq(Int)
            /\ Len(SubSeq(sha_in, 1, m)) = IF 1 <= m THEN m - 1 + 1 ELSE 0
            /\ \A i \in 1 .. m - 1 + 1 : SubSeq(sha_in, 1, m)[i] = sha_in[1 + i - 1]
        BY <2>2, <2>4, SubSeqProperties
      <3> HIDE DEF m
      <3>2. Len(digested) = m /\ digested \in Seq(Int)
        BY <2>2, <2>3, <3>1
      <3>3. ASSUME NEW k \in 1 .. m PROVE digested[k] = Stream(n, k)
        <4>1. k \in 1 .. m - 1 + 1 /\ 1 + k - 1 = k /\ k \in 1 .. Len(sha_in)
          BY <2>2
        <4> QED
          BY <2>1, <2>3, <3>1, <4>1
      <3> QED
        BY <3>2, <3>3
    <2>6. DOMAIN digested = 1 .. m /\ DOMAIN Padded(n) = 1 .. PaddedLength(n)
      BY <2>5, LenProperties DEF Padded
    <2>7. CASE n % 64 < 56
      <3>1. PaddedLength(n) = m
        BY <2>1, <2>7, BlockArithmetic
      <3>2. \A k \in 1 .. m : Padded(n)[k] = Stream(n, k)
        BY <2>1, <2>7, <3>1, StreamIsPadded
      <3>3. digested = [k \in 1 .. m |-> Stream(n, k)]
        <4>1. digested = [k \in 1 .. m |-> digested[k]]
          BY <2>5, <2>6, LenProperties
        <4> QED
          BY <2>5, <4>1
      <3>4. Padded(n) = [k \in 1 .. m |-> Stream(n, k)]
        <4>1. Padded(n) = [k \in 1 .. m |-> Padded(n)[k]]
          BY <3>1 DEF Padded
        <4> QED
          BY <3>2, <4>1
      <3> QED
        BY <2>7, <3>3, <3>4 DEF BLOCK
    <2>8. CASE ~(n % 64 < 56)
      <3>1. PaddedLength(n) = m + 64
        BY <2>1, <2>8, BlockArithmetic
      <3>2. m + 64 \in 1 .. m + 64 /\ m + 64 \notin 1 .. m
        BY <2>2
      <3>3. DOMAIN digested # DOMAIN Padded(n)
        BY <2>6, <3>1, <3>2
      <3> QED
        BY <2>8, <3>3 DEF BLOCK
    <2> QED
      BY <2>7, <2>8
  <1>3. ShaInv => DigestRight
    BY <1>1, <1>2 DEF DigestRight
  <1> QED
    BY <1>3, ShaInvariance, PTL
=============================================================================
