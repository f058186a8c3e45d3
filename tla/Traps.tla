------------------------------- MODULE Traps -------------------------------
(***************************************************************************)
(* What becomes of a misaligned load or store: the processor traps,        *)
(* trap_entry of crt.S saves the registers in a frame on the stack,        *)
(* handle_misaligned_load or handle_misaligned_store of bsp/syscalls.c     *)
(* decodes the instruction and does it byte by byte with the registers of  *)
(* the frame, and trap_entry restores them.                                *)
(*                                                                         *)
(* A register is a number: 0 to 31 for the integers, 32 to 63 for the      *)
(* floating-point ones.  What it held before the instruction is <<r, 0>>,  *)
(* and <<r, n>> is n more, as a value or as an address.  The build has no  *)
(* compressed instructions (CMakeLists.txt:120), on which the handlers     *)
(* stop.                                                                   *)
(***************************************************************************)
EXTENDS Integers

CONSTANT Accesses   \* bound: the instructions that are tried

LOAD == 3
FPU_LOAD == 7
STORE == 35
FPU_STORE == 39
AMO == 47

\* The fields of an instruction whose access may be misaligned.
Misaligned ==
    {i \in [opcode : {LOAD, FPU_LOAD, STORE, FPU_STORE, AMO}, rd : 0 .. 31, funct3 : 0 .. 7,
            rs1 : 0 .. 31, rs2 : 0 .. 31, funct7 : 0 .. 127] :
        i.funct3 \in CASE i.opcode = LOAD  -> {1, 2, 3, 5, 6}
                       [] i.opcode = STORE -> {1, 2, 3}
                       [] OTHER            -> {2, 3}}

ASSUME TrapAssumption == Accesses \subseteq Misaligned

VARIABLES
    trap_pc,        \* "running", the step of the trap that is next, "resumed" behind the
                    \* instruction, or "stopped" for good
    insn,           \* the instruction, once it has trapped
    x,              \* the registers
    frame,          \* the slots of the frame, one for each register, once it is made
    access          \* where memory was read or written, how many bytes, and of what

trap_vars == <<trap_pc, insn, x, frame, access>>

Register == 0 .. 63
sp == 2

NoAccess == <<>>
Held(r) == <<r, 0>>
Plus(v, n) == <<v[1], v[2] + n>>
Loaded(a, n, upper) == <<a, n, upper>>             \* n bytes from a, and what is above them
Unsaved == <<-1, 0>>                               \* what was on the stack before
Astray == <<-2, 0>>                                \* from somewhere else

TrapInit ==
    /\ trap_pc = "running"
    /\ insn = NoAccess
    /\ x = [r \in Register |-> Held(r)]
    /\ frame = <<>>
    /\ access = NoAccess

-----------------------------------------------------------------------------

FrameBytes == 64 * 8

\* trap_entry: sp is moved before it is stored, and x0 is not stored.
TrapEntry(i) ==
    /\ trap_pc = "running"
    /\ insn' = i
    /\ x' = [x EXCEPT ![sp] = Plus(x[sp], -FrameBytes)]
    /\ frame' = [r \in Register |-> IF r = 0 THEN Unsaved ELSE x'[r]]
    /\ trap_pc' = "handle"
    /\ UNCHANGED access

\* 1 << len.
ShiftWide(funct3) == funct3                        \* mutant: the bit of the sign counts
Shift(funct3) == funct3 % 4
Bytes(len) == <<1, 2, 4, 8, 16, 32, 64, 128>>[len + 1]

\* offset, of 12 bits, is made negative by hand.
Offset(bits) == IF bits \div 2048 > 0 THEN -((bits % 1024) + 1) ELSE bits

HandleMisalignedLoad ==
    LET fpu == insn.opcode = FPU_LOAD
        len == Bytes(Shift(insn.funct3))
        unsigned == insn.funct3 \div 4 = 1
        addr == Plus(frame[insn.rs1], Offset(32 * insn.funct7 + insn.rs2))
        dst == IF fpu THEN 32 + insn.rd ELSE insn.rd
        upper == IF len = 8 THEN "none" ELSE IF unsigned \/ fpu THEN "zeros" ELSE "sign"
    IN  /\ trap_pc = "handle"
        /\ insn.opcode \in {LOAD, FPU_LOAD}
        /\ access' = <<addr, len>>
        /\ frame' = [frame EXCEPT ![dst] = Loaded(addr, len, upper)]
        /\ trap_pc' = "restore"
        /\ UNCHANGED <<insn, x>>

HandleMisalignedStore ==
    LET src == IF insn.opcode = FPU_STORE THEN 32 + insn.rs2 ELSE insn.rs2
        addr == Plus(frame[insn.rs1], Offset(32 * insn.funct7 + insn.rd))
    IN  /\ trap_pc = "handle"
        /\ insn.opcode \in {STORE, FPU_STORE}
        /\ access' = <<addr, Bytes(insn.funct3), frame[src]>>
        /\ trap_pc' = "restore"
        /\ UNCHANGED <<insn, x, frame>>

\* on_error: dump_core and sys_exit.
OnError ==
    /\ trap_pc = "handle"
    /\ insn.opcode \notin {LOAD, FPU_LOAD, STORE, FPU_STORE}
    /\ trap_pc' = "stopped"
    /\ UNCHANGED <<insn, x, frame, access>>

\* .restore: x1, then sp, and the others from where it points; sp is moved back.
Restore ==
    /\ trap_pc = "restore"
    /\ x' = [r \in Register |->
                CASE r = 0 -> x[0]
                  [] r = 1 -> frame[1]
                  [] r > 1 /\ frame[sp] # x[sp] -> Astray
                  [] r = sp /\ frame[sp] = x[sp] -> Plus(frame[sp], FrameBytes)
                  [] r > sp /\ frame[sp] = x[sp] -> frame[r]]
    /\ trap_pc' = "resumed"
    /\ UNCHANGED <<insn, frame, access>>

TrapNext ==
    \/ \E i \in Accesses : TrapEntry(i)
    \/ HandleMisalignedLoad \/ HandleMisalignedStore \/ OnError
    \/ Restore

TrapSpec == TrapInit /\ [][TrapNext]_trap_vars

-----------------------------------------------------------------------------
(***************************************************************************)
(* The instruction, by the RISC-V manual                                   *)
(***************************************************************************)

Signed(bits) == IF bits < 2048 THEN bits ELSE bits - 4096
Size(i) == CASE i.funct3 \in {1, 5} -> 2 [] i.funct3 \in {2, 6} -> 4 [] i.funct3 = 3 -> 8
IsLoad(i) == i.opcode \in {LOAD, FPU_LOAD}
OffsetBits(i) == 32 * i.funct7 + (IF IsLoad(i) THEN i.rs2 ELSE i.rd)
Target(i) == Plus(Held(i.rs1), Signed(OffsetBits(i)))

\* What is in the upper bits of a register after a load into it.
Upper(i) == IF i.funct3 = 3 THEN "none"
            ELSE IF i.opcode = FPU_LOAD THEN "ones"
            ELSE IF i.funct3 < 4 THEN "sign" ELSE "zeros"

RegistersAfter(i) ==
    [r \in Register |->
        IF IsLoad(i) /\ r = (IF i.opcode = LOAD THEN i.rd ELSE 32 + i.rd) /\ r # 0
        THEN Loaded(Target(i), Size(i), Upper(i)) ELSE Held(r)]
Moves(i) ==
    IF IsLoad(i) THEN <<Target(i), Size(i)>>
    ELSE <<Target(i), Size(i), Held(IF i.opcode = STORE THEN i.rs2 ELSE 32 + i.rs2)>>

-----------------------------------------------------------------------------

\* Which accesses are emulated: those whose offset is not negative, for which x0 and sp are
\* neither the base nor what is stored, sp is not what is loaded, and that are no loads of a
\* single-precision number.
Faithful(i) ==
    /\ OffsetBits(i) < 2048
    /\ i.rs1 \notin {0, sp}
    /\ i.opcode = LOAD => i.rd # sp
    /\ i.opcode = STORE => i.rs2 \notin {0, sp}
    /\ ~(i.opcode = FPU_LOAD /\ i.funct3 = 2)

\* The program goes on as if the access had been aligned for just these.  A negative offset
\* loses its sign extension to a formula of its own; the frame has nothing for x0, and an sp
\* that is 512 bytes too low; and a float is not boxed.
Emulated ==
    trap_pc = "resumed" => (x = RegistersAfter(insn) /\ access = Moves(insn) <=> Faithful(insn))
=============================================================================
