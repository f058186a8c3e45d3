-------------------------------- MODULE Otp --------------------------------
(***************************************************************************)
(* drivers/otp.c: the one-time programmable memory is written bit by bit,  *)
(* with a wait that may time out at every bit; then the controller repairs *)
(* weak cells.  A bit that was programmed stays programmed.                *)
(*                                                                         *)
(* External: what the controller answers.  A bit may be programmed, may be *)
(* taken but need repair, may fail, may be in a protected block, or the    *)
(* answer may not come in time, whether the bit was programmed or not.     *)
(* The repair runs by itself, some cells may be beyond it, and it raises   *)
(* bisr_finish, also when nobody waits any more.                           *)
(*                                                                         *)
(* Left out: the tests of the array (otp_testdec, otp_wrtest), the         *)
(* comparison of keys, and the switch that shows the key to the AES        *)
(* engine, which main.c sets and clears around the deciphering.            *)
(***************************************************************************)
EXTENDS Integers, FiniteSets

CONSTANTS
    Requests,       \* <<first byte, bytes, set of bits that are 1>>, see OtpAssumption
    Blocks, Funcs,  \* the blocks to protect and the functions to disable
    Tries,          \* attempts at a bit in bypass mode: the 20 in the code
    MaxCalls        \* bound: calls of the thread

ASSUME OtpAssumption ==
    /\ \A r \in Requests : r[1] \in Nat /\ r[2] \in Nat /\ r[3] \subseteq 0 .. 8 * r[2] - 1
    /\ Blocks \subseteq Nat /\ Funcs \subseteq Nat
    /\ Tries \in Nat \ {0}
    /\ MaxCalls \in Nat

OTP_BISR_DATA_ADDR == 15824
OTP_BLOCK_CTL_ADDR == 16336
OTP_WIRED_REG_ADDR == 16352
OTP_AES_KEY_ADDR == 16368
BLANK_TEST_DISABLE == 0
DATA_BLOCK_MAX == 64
FUNC_REG_MAX == 64

VARIABLES
    pc,             \* "idle", or the wait that the call is in
    call,           \* the function called last
    addr, length, ones,     \* its bits: the first, how many, which are 1 (absolute)
    at,             \* how many are through
    count,          \* attempts left at this bit
    result,         \* its status
    cells, weak,    \* bits programmed, and programmed but for the repair
    data_blk_ctrl,  \* the control areas may be written
    repairing, bisr_finish, pro_wrong,
    reg_flag,       \* functions that the registers tell to be disabled
    asked,          \* ghost: the bits that calls asked to program
    late,           \* ghost: a call did not wait for the end of the repair
    calls           \* bound: calls so far

args == <<call, addr, length, ones>>
memory == <<cells, weak>>
bisr == <<repairing, bisr_finish, pro_wrong>>
vars == <<pc, args, at, count, result, memory, data_blk_ctrl, bisr, reg_flag, asked, late, calls>>

-----------------------------------------------------------------------------

Status == {"OK", "TIMEOUT", "ADDRESS", "WRITE", "BLANK", "BISR", "PROTECTED", "WIRED_REG_SET",
           "PARAM"}
Bits(from, n) == from .. from + n - 1

TypeOK ==
    /\ pc \in {"idle", "write", "bisr_write", "bisr_read", "blank", "refresh", "soft"}
    /\ call \in {"none", "write_data", "key_write", "protect_set", "disable_set",
                 "blank_check", "soft_write"}
    /\ addr \in Nat /\ length \in Nat /\ at \in 0 .. length
    /\ ones \subseteq Nat
    /\ count \in 0 .. Tries
    /\ result \in Status
    /\ cells \subseteq Nat /\ weak \subseteq Nat
    /\ {data_blk_ctrl, repairing, bisr_finish, pro_wrong, late} \subseteq BOOLEAN
    /\ reg_flag \subseteq Funcs \cup {BLANK_TEST_DISABLE}
    /\ asked \subseteq Nat
    /\ calls \in 0 .. MaxCalls

Init ==
    /\ pc = "idle"
    /\ call = "none"
    /\ addr = 0 /\ length = 0 /\ ones = {} /\ at = 0 /\ count = 0
    /\ result = "OK"
    /\ cells = {} /\ weak = {}
    /\ data_blk_ctrl = FALSE
    /\ repairing = FALSE /\ bisr_finish = FALSE /\ pro_wrong = FALSE
    /\ reg_flag = {}
    /\ asked = {}
    /\ late = FALSE
    /\ calls = 0

-----------------------------------------------------------------------------
(***************************************************************************)
(* The calls                                                               *)
(***************************************************************************)

\* otp_write_byte for n bytes from the byte b on.
WriteByte(b, n, set) ==
    /\ addr' = 8 * b
    /\ length' = 8 * n
    /\ ones' = {8 * b + i : i \in set \cap Bits(0, 8 * n)}
    /\ at' = 0

Call(name, step) ==
    /\ pc = "idle"
    /\ calls < MaxCalls
    /\ calls' = calls + 1
    /\ call' = name
    /\ pc' = step

\* A call that ends at once.
Refuse(name, status) ==
    /\ Call(name, "idle")
    /\ result' = status
    /\ UNCHANGED <<addr, length, ones, at, count, memory, data_blk_ctrl, bisr, reg_flag, asked, late>>

\* otp_write_data: what is beyond the data area is cut off.
ClampNone(b, n) == n                               \* mutant: length as it is
Clamp(b, n) == IF n <= OTP_BISR_DATA_ADDR - b THEN n ELSE OTP_BISR_DATA_ADDR - b

WriteData(r) ==
    IF r[1] >= OTP_BISR_DATA_ADDR THEN Refuse("write_data", "ADDRESS")
    ELSE /\ Call("write_data", "write")
         /\ WriteByte(r[1], Clamp(r[1], r[2]), r[3])
         /\ asked' = asked \cup {8 * r[1] + i : i \in r[3]}
         /\ UNCHANGED <<count, result, memory, data_blk_ctrl, bisr, reg_flag, late>>

KeyWrite(r) ==
    /\ Call("key_write", "write")
    /\ WriteByte(OTP_AES_KEY_ADDR, 16, r[3])
    /\ asked' = asked \cup ones'
    /\ UNCHANGED <<count, result, memory, data_blk_ctrl, bisr, reg_flag, late>>

\* The two bits of a block or a function in the byte that has four of them.
Pair(x) == {2 * (x % 4) + i : i \in {0, 1}}
PairAt(base, x) == {8 * (base + x \div 4) + 2 * (x % 4) + i : i \in {0, 1}}

Protect(base, x) ==
    /\ data_blk_ctrl' = TRUE
    /\ WriteByte(base + x \div 4, 1, Pair(x))
    /\ asked' = asked \cup PairAt(base, x)

DataBlockProtectSet(block) ==
    IF block >= DATA_BLOCK_MAX THEN Refuse("protect_set", "PARAM")
    ELSE /\ Call("protect_set", "write")
         /\ Protect(OTP_BLOCK_CTL_ADDR, block)
         /\ UNCHANGED <<count, result, memory, bisr, reg_flag, late>>

FuncRegDisableSet(func) ==
    IF func >= FUNC_REG_MAX THEN Refuse("disable_set", "PARAM")
    ELSE /\ Call("disable_set", "write")
         /\ Protect(OTP_WIRED_REG_ADDR, func)
         /\ UNCHANGED <<count, result, memory, bisr, reg_flag, late>>

\* otp_blank_check, unless otp_func_reg_disable_get tells that it was disabled.
BlankCheck ==
    IF BLANK_TEST_DISABLE \in reg_flag THEN Refuse("blank_check", "WIRED_REG_SET")
    ELSE /\ Call("blank_check", "blank")
         /\ UNCHANGED <<addr, length, ones, at, count, result, memory, data_blk_ctrl, bisr,
                        reg_flag, asked, late>>

\* otp_soft_write: any address.
SoftWrite(r) ==
    /\ Call("soft_write", "soft")
    /\ WriteByte(r[1], r[2], r[3])
    /\ count' = Tries
    /\ asked' = asked \cup ones'
    /\ UNCHANGED <<result, memory, data_blk_ctrl, bisr, reg_flag, late>>

-----------------------------------------------------------------------------
(***************************************************************************)
(* otp_write_byte                                                          *)
(***************************************************************************)

\* The end of a call, through its caller: otp_data_block_protect_set and
\* otp_func_reg_disable_set close the control areas whatever happened.
Renamed(status) ==
    IF status # "ADDRESS" THEN status
    ELSE CASE call = "write_data" -> "PROTECTED"
           [] call = "key_write" -> "WIRED_REG_SET"
           [] OTHER -> "ADDRESS"
End(status) ==
    /\ pc' = "idle"
    /\ result' = Renamed(status)
    /\ data_blk_ctrl' = FALSE

\* Only bits that are 1, and the last one, go to the controller.
Sent(i) == addr + i \in ones \/ i = length - 1
NextSent == CHOOSE i \in at .. length - 1 :
                Sent(i) /\ \A j \in at .. i - 1 : ~Sent(j)
Data == {addr + NextSent} \cap ones

\* What the controller makes of the bit: it is programmed, or needs repair, or not.
Programmed ==
    \/ cells' = cells \cup Data /\ UNCHANGED weak
    \/ weak' = weak \cup (Data \ cells) /\ UNCHANGED cells
NotProgrammed == UNCHANGED memory

WriteBit ==
    /\ pc = "write" /\ at < length
    /\ Programmed
    /\ at' = NextSent + 1
    /\ UNCHANGED <<pc, args, count, result, data_blk_ctrl, bisr, reg_flag, asked, late, calls>>

WriteFails ==
    /\ pc = "write" /\ at < length
    /\ \/ NotProgrammed /\ \E status \in {"TIMEOUT", "ADDRESS", "WRITE"} : End(status)
       \/ Programmed /\ End("TIMEOUT")
    /\ UNCHANGED <<args, at, count, bisr, reg_flag, asked, late, calls>>

\* All bits are through.
StartRepair ==
    /\ pc = "write" /\ at = length
    /\ repairing' = TRUE
    /\ pc' = "bisr_write"
    /\ UNCHANGED <<args, at, count, result, memory, data_blk_ctrl, bisr_finish, pro_wrong,
                   reg_flag, asked, late, calls>>

-----------------------------------------------------------------------------
(***************************************************************************)
(* The repair: otp_bisr_write and otp_bisr_read.  Neither clears           *)
(* bisr_finish before it starts.                                           *)
(***************************************************************************)

RepairEnds ==
    /\ repairing
    /\ repairing' = FALSE
    /\ bisr_finish' = TRUE
    /\ \/ cells' = cells \cup weak /\ weak' = {} /\ pro_wrong' = FALSE
       \/ weak # {} /\ pro_wrong' = TRUE /\ UNCHANGED memory
    /\ UNCHANGED <<pc, args, at, count, result, data_blk_ctrl, reg_flag, asked, late, calls>>

WrongSeenNever == FALSE                            \* mutant: pro_wrong is not looked at
WrongSeen == pro_wrong

\* blank_check goes on with the function's bits, and after those with the refresh.
RepairSeen ==
    /\ pc \in {"bisr_write", "bisr_read"}
    /\ bisr_finish
    /\ bisr_finish' = FALSE
    /\ IF pc = "bisr_write" /\ WrongSeen
       THEN End("BISR") /\ UNCHANGED <<args, at, repairing, asked>>
       ELSE IF pc = "bisr_write"
       THEN /\ pc' = "bisr_read" /\ repairing' = TRUE
            /\ UNCHANGED <<args, at, result, data_blk_ctrl, asked>>
       ELSE IF call = "blank_check" /\ ~data_blk_ctrl
       THEN /\ Protect(OTP_WIRED_REG_ADDR, BLANK_TEST_DISABLE)
            /\ pc' = "write"
            /\ UNCHANGED <<call, result, repairing>>
       ELSE IF call = "blank_check"
       THEN pc' = "refresh" /\ data_blk_ctrl' = FALSE
            /\ UNCHANGED <<args, at, result, repairing, asked>>
       ELSE End("OK") /\ UNCHANGED <<args, at, repairing, asked>>
    /\ UNCHANGED <<count, memory, pro_wrong, reg_flag, late, calls>>

RepairTimeout ==
    /\ pc \in {"bisr_write", "bisr_read"}
    /\ ~bisr_finish
    /\ End("TIMEOUT")
    /\ late' = TRUE
    /\ UNCHANGED <<args, at, count, memory, bisr, reg_flag, asked, calls>>

-----------------------------------------------------------------------------
(***************************************************************************)
(* otp_blank_check and the bypass mode                                     *)
(***************************************************************************)

Blank ==
    /\ pc = "blank"
    /\ \/ End("TIMEOUT") /\ UNCHANGED repairing
       \/ End("BLANK") /\ UNCHANGED repairing
       \/ repairing' = TRUE /\ pc' = "bisr_write" /\ UNCHANGED <<result, data_blk_ctrl>>
    /\ UNCHANGED <<args, at, count, memory, bisr_finish, pro_wrong, reg_flag, asked, late, calls>>

\* otp_func_reg_disable_refresh reads the byte, by which the register follows it.
Refresh ==
    /\ pc = "refresh"
    /\ \/ /\ PairAt(OTP_WIRED_REG_ADDR, BLANK_TEST_DISABLE) \subseteq cells
          /\ reg_flag' = reg_flag \cup {BLANK_TEST_DISABLE}
          /\ End("OK")
       \/ PairAt(OTP_WIRED_REG_ADDR, BLANK_TEST_DISABLE) \ cells # {}
          /\ End("OK") /\ UNCHANGED reg_flag
       \/ \E status \in {"TIMEOUT", "ADDRESS"} : End(status) /\ UNCHANGED reg_flag
    /\ UNCHANGED <<args, at, count, memory, bisr, asked, late, calls>>

\* One attempt at a bit, which is over when it reads as it should.
BitTried(good) ==
    IF good THEN /\ at' = at + 1
                 /\ count' = Tries
                 /\ UNCHANGED <<pc, result, data_blk_ctrl>>
    ELSE IF count = 1 THEN End("WRITE") /\ UNCHANGED <<at, count>>
    ELSE count' = count - 1 /\ UNCHANGED <<pc, at, result, data_blk_ctrl>>

SoftBit ==
    /\ pc = "soft" /\ at < length
    /\ LET bit == {addr + at} \cap ones IN
       \/ cells' = cells \cup bit /\ BitTried(TRUE)
       \/ bit # {} /\ UNCHANGED cells /\ BitTried(FALSE)
    /\ UNCHANGED <<args, weak, bisr, reg_flag, asked, late, calls>>

SoftEnd ==
    /\ pc = "soft" /\ at = length
    /\ End("OK")
    /\ UNCHANGED <<args, at, count, memory, bisr, reg_flag, asked, late, calls>>

-----------------------------------------------------------------------------

Next ==
    \/ \E r \in Requests : WriteData(r) \/ KeyWrite(r) \/ SoftWrite(r)
    \/ \E block \in Blocks : DataBlockProtectSet(block)
    \/ \E func \in Funcs : FuncRegDisableSet(func)
    \/ BlankCheck
    \/ WriteBit \/ WriteFails \/ StartRepair
    \/ RepairEnds \/ RepairSeen \/ RepairTimeout
    \/ Blank \/ Refresh \/ SoftBit \/ SoftEnd

Spec == Init /\ [][Next]_vars

-----------------------------------------------------------------------------
(***************************************************************************)
(* Properties                                                              *)
(***************************************************************************)

\* Where the area ends that a call may write to.
AreaEnd == [write_data |-> OTP_BISR_DATA_ADDR, protect_set |-> OTP_WIRED_REG_ADDR,
            disable_set |-> OTP_AES_KEY_ADDR]

\* Nothing is programmed, for it cannot be undone, but the ones that a call asked for:
\* with every timeout and error on the way, a write of data stays out of the areas behind
\* the data, and a control byte gets the two bits of its block or function only, which are
\* in its own area, whatever number the call was made with.
OnlyAsked ==
    /\ cells \cup weak \subseteq asked
    /\ call \in DOMAIN AreaEnd /\ pc # "idle" =>
           \A i \in 0 .. length - 1 : addr + i < 8 * AreaEnd[call]
    /\ pc = "idle" => ~data_blk_ctrl

\* A call that returns OTP_OK has programmed all of its ones, the weak cells repaired.
\* That is so until a repair has timed out: its late bisr_finish is taken for the end of
\* the next one.
OkMeansWritten ==
    pc = "idle" /\ result = "OK" /\ ~late => ones \subseteq cells
=============================================================================
