--------------------------- MODULE HandoffProofs ---------------------------
(***************************************************************************)
(* Proofs about what crt.S does.                                           *)
(*                                                                         *)
(* Handoff, for every stretch time that SleepsSuffice allows: the          *)
(* invariant IInv is inductive, and the properties follow from it.         *)
(*                                                                         *)
(* Traps, for every instruction whose access may be misaligned: which ones *)
(* end as if they were aligned.                                            *)
(***************************************************************************)
EXTENDS Handoff, Traps, TLAPS

-----------------------------------------------------------------------------
(***************************************************************************)
(* The misaligned access: the invariant                                    *)
(***************************************************************************)

\* What trap_entry saves.
Saved(r) == IF r = 0 THEN Unsaved ELSE IF r = sp THEN Plus(Held(sp), -FrameBytes) ELSE Held(r)
Frame0 == [r \in Register |-> Saved(r)]

\* What the handlers do.
Address(i) == Plus(Saved(i.rs1), Offset(OffsetBits(i)))
Destination(i) == IF i.opcode = LOAD THEN i.rd ELSE 32 + i.rd
Source(i) == IF i.opcode = STORE THEN i.rs2 ELSE 32 + i.rs2
Filled(i) == IF Size(i) = 8 THEN "none" ELSE IF i.funct3 > 3 \/ i.opcode = FPU_LOAD THEN "zeros" ELSE "sign"

\* What the registers, the frame and the access are at each step of the trap.
TrapInv ==
    /\ trap_pc \in {"running", "handle", "restore", "resumed", "stopped"}
    /\ trap_pc = "running" => x = [r \in Register |-> Held(r)]
    /\ trap_pc # "running" => insn \in Misaligned
    /\ trap_pc \in {"handle", "restore"} =>
          x = [r \in Register |-> IF r = sp THEN Plus(Held(sp), -FrameBytes) ELSE Held(r)]
    /\ trap_pc = "handle" => frame = Frame0
    /\ trap_pc \in {"restore", "resumed"} =>
          /\ insn.opcode # AMO
          /\ IsLoad(insn) =>
                /\ access = <<Address(insn), Size(insn)>>
                /\ frame = [Frame0 EXCEPT ![Destination(insn)] =
                               Loaded(Address(insn), Size(insn), Filled(insn))]
          /\ ~IsLoad(insn) =>
                /\ access = <<Address(insn), Size(insn), Saved(Source(insn))>>
                /\ frame = Frame0
    /\ trap_pc = "resumed" =>
          x = [r \in Register |->
                 IF r = 0 THEN Held(0)
                 ELSE IF r = 1 THEN frame[1]
                 ELSE IF IsLoad(insn) /\ Destination(insn) = sp THEN Astray
                 ELSE IF r = sp THEN Held(sp) ELSE frame[r]]

\* The fields of the instructions.
LEMMA Fields ==
    ASSUME NEW i \in Misaligned
    PROVE  /\ i.opcode \in {LOAD, FPU_LOAD, STORE, FPU_STORE, AMO}
           /\ i.rd \in 0 .. 31 /\ i.rs1 \in 0 .. 31 /\ i.rs2 \in 0 .. 31 /\ i.funct7 \in 0 .. 127
           /\ i.funct3 \in {1, 2, 3, 5, 6}
           /\ i.opcode \notin {LOAD} => i.funct3 \in {1, 2, 3}
           /\ i.opcode \in {FPU_LOAD, FPU_STORE} => i.funct3 \in {2, 3}
           /\ OffsetBits(i) \in 0 .. 4095
  BY DEF Misaligned, LOAD, FPU_LOAD, STORE, FPU_STORE, AMO, OffsetBits, IsLoad

\* The bits of funct3 that the handlers look at give the size and the sign.
LEMMA Sizes ==
    ASSUME NEW i \in Misaligned
    PROVE  /\ Bytes(Shift(i.funct3)) = Size(i)
           /\ ~IsLoad(i) => Bytes(i.funct3) = Size(i)
           /\ Size(i) \in {2, 4, 8}
           /\ Size(i) = 8 <=> i.funct3 = 3
           /\ i.funct3 \div 4 = 1 <=> i.funct3 > 3
  <1>1. i.funct3 \in {1, 2, 3, 5, 6} /\ (~IsLoad(i) => i.funct3 \in {1, 2, 3})
    BY Fields DEF IsLoad
  <1>2. Bytes(1) = 2 /\ Bytes(2) = 4 /\ Bytes(3) = 8
    BY DEF Bytes
  <1>3. /\ i.funct3 \in {1, 5} => Shift(i.funct3) = 1 /\ Size(i) = 2
        /\ i.funct3 \in {2, 6} => Shift(i.funct3) = 2 /\ Size(i) = 4
        /\ i.funct3 = 3 => Shift(i.funct3) = 3 /\ Size(i) = 8
    BY <1>1 DEF Shift, Size
  <1>4. i.funct3 \div 4 = 1 <=> i.funct3 > 3
    BY <1>1
  <1> QED
    BY <1>1, <1>2, <1>3, <1>4

\* It holds before the instruction.
LEMMA TrapStart == TrapInit => TrapInv
  BY DEF TrapInit, TrapInv

\* trap_entry keeps it,
LEMMA EntryKeeps == ASSUME TrapInv, NEW i \in Accesses, TrapEntry(i) PROVE TrapInv'
  <1>1. i \in Misaligned
    BY TrapAssumption
  <1>2. x' = [r \in Register |-> IF r = sp THEN Plus(Held(sp), -FrameBytes) ELSE Held(r)]
    BY DEF TrapInv, TrapEntry, Register, sp
  <1>3. frame' = Frame0
    BY <1>2 DEF TrapEntry, Frame0, Saved, Register, sp
  <1> QED
    BY <1>1, <1>2, <1>3 DEF TrapInv, TrapEntry

\* handle_misaligned_load,
LEMMA LoadKeeps == TrapInv /\ HandleMisalignedLoad => TrapInv'
  <1> SUFFICES ASSUME TrapInv, HandleMisalignedLoad PROVE TrapInv'
    OBVIOUS
  <1>1. trap_pc = "handle" /\ insn \in Misaligned /\ frame = Frame0 /\ IsLoad(insn) /\ insn.opcode # AMO
    BY DEF TrapInv, HandleMisalignedLoad, IsLoad, AMO, LOAD, FPU_LOAD
  <1>2. frame[insn.rs1] = Saved(insn.rs1)
    BY <1>1, Fields DEF Frame0, Register
  <1>3. Plus(frame[insn.rs1], Offset(32 * insn.funct7 + insn.rs2)) = Address(insn)
    BY <1>1, <1>2 DEF Address, OffsetBits
  <1>4. Bytes(Shift(insn.funct3)) = Size(insn)
    BY <1>1, Sizes
  <1>5. (IF insn.opcode = FPU_LOAD THEN 32 + insn.rd ELSE insn.rd) = Destination(insn)
    BY <1>1 DEF IsLoad, Destination, LOAD, FPU_LOAD
  <1>6. (IF Size(insn) = 8 THEN "none"
         ELSE IF insn.funct3 \div 4 = 1 \/ insn.opcode = FPU_LOAD THEN "zeros" ELSE "sign") = Filled(insn)
    BY <1>1, Sizes DEF Filled
  <1>7. /\ access' = <<Address(insn), Size(insn)>>
        /\ frame' = [frame EXCEPT ![Destination(insn)] = Loaded(Address(insn), Size(insn), Filled(insn))]
    BY <1>3, <1>4, <1>5, <1>6 DEF HandleMisalignedLoad
  <1>8. trap_pc' = "restore" /\ insn' = insn /\ x' = x
    BY DEF HandleMisalignedLoad
  <1> QED
    BY <1>1, <1>7, <1>8 DEF TrapInv

\* handle_misaligned_store,
LEMMA StoreKeeps == TrapInv /\ HandleMisalignedStore => TrapInv'
  <1> SUFFICES ASSUME TrapInv, HandleMisalignedStore PROVE TrapInv'
    OBVIOUS
  <1>1. trap_pc = "handle" /\ insn \in Misaligned /\ frame = Frame0 /\ ~IsLoad(insn) /\ insn.opcode # AMO
    BY DEF TrapInv, HandleMisalignedStore, IsLoad, AMO, LOAD, FPU_LOAD, STORE, FPU_STORE
  <1>2. Source(insn) = IF insn.opcode = FPU_STORE THEN 32 + insn.rs2 ELSE insn.rs2
    BY DEF HandleMisalignedStore, Source, STORE, FPU_STORE
  <1>3. frame[insn.rs1] = Saved(insn.rs1) /\ frame[Source(insn)] = Saved(Source(insn))
    BY <1>1, Fields DEF Frame0, Register, Source
  <1>4. Plus(frame[insn.rs1], Offset(32 * insn.funct7 + insn.rd)) = Address(insn)
    BY <1>1, <1>3 DEF Address, OffsetBits
  <1>5. Bytes(insn.funct3) = Size(insn)
    BY <1>1, Sizes
  <1>6. access' = <<Address(insn), Size(insn), Saved(Source(insn))>>
    BY <1>2, <1>3, <1>4, <1>5 DEF HandleMisalignedStore
  <1>7. trap_pc' = "restore" /\ insn' = insn /\ x' = x /\ frame' = frame
    BY DEF HandleMisalignedStore
  <1> QED
    BY <1>1, <1>6, <1>7 DEF TrapInv

\* and .restore, whose registers come from the right place unless sp was loaded.
LEMMA RestoreKeeps == TrapInv /\ Restore => TrapInv'
  <1> SUFFICES ASSUME TrapInv, Restore PROVE TrapInv'
    OBVIOUS
  <1>1. /\ trap_pc = "restore" /\ trap_pc' = "resumed"
        /\ insn \in Misaligned /\ insn' = insn /\ frame' = frame /\ access' = access
    BY DEF TrapInv, Restore
  <1>2. x = [r \in Register |-> IF r = sp THEN Plus(Held(sp), -FrameBytes) ELSE Held(r)]
    BY <1>1 DEF TrapInv
  <1>3. x[0] = Held(0) /\ x[sp] = Plus(Held(sp), -FrameBytes)
    BY <1>2 DEF Register, sp
  <1>4. frame[sp] = x[sp] <=> ~(IsLoad(insn) /\ Destination(insn) = sp)
    <2>1. CASE IsLoad(insn)
      <3>1. frame = [Frame0 EXCEPT ![Destination(insn)] =
                        Loaded(Address(insn), Size(insn), Filled(insn))]
        BY <1>1, <2>1 DEF TrapInv
      <3>2. CASE Destination(insn) = sp
        <4>1. frame[sp] = <<Address(insn), Size(insn), Filled(insn)>>
          BY <3>1, <3>2 DEF Frame0, Register, sp, Loaded
        <4>2. x[sp] = <<2, 0 + -FrameBytes>>
          BY <1>3 DEF Held, Plus, sp
        <4> QED
          BY <2>1, <3>2, <4>1, <4>2
      <3>3. CASE Destination(insn) # sp
        BY <1>3, <3>1, <3>3 DEF Frame0, Saved, Register, sp
      <3> QED
        BY <3>2, <3>3
    <2>2. CASE ~IsLoad(insn)
      <3>1. frame = Frame0
        BY <1>1, <2>2 DEF TrapInv
      <3> QED
        BY <1>3, <2>2, <3>1 DEF Frame0, Saved, Register, sp
    <2> QED
      BY <2>1, <2>2
  <1>5. Plus(x[sp], FrameBytes) = Held(sp)
    BY <1>3 DEF Plus, Held, FrameBytes
  <1>6. x' = [r \in Register |->
                 IF r = 0 THEN Held(0)
                 ELSE IF r = 1 THEN frame[1]
                 ELSE IF IsLoad(insn) /\ Destination(insn) = sp THEN Astray
                 ELSE IF r = sp THEN Held(sp) ELSE frame[r]]
    BY <1>3, <1>4, <1>5 DEF Restore, Register, sp
  <1> QED
    BY <1>1, <1>6 DEF TrapInv

\* The invariant of the trap.
THEOREM TrapInvariance == TrapSpec => []TrapInv
  <1>1. ASSUME TrapInv, [TrapNext]_trap_vars PROVE TrapInv'
    <2>1. CASE OnError
      BY <1>1, <2>1 DEF TrapInv, OnError
    <2>2. CASE UNCHANGED trap_vars
      BY <1>1, <2>2 DEF TrapInv, trap_vars
    <2> QED
      BY <1>1, <2>1, <2>2, EntryKeeps, LoadKeeps, StoreKeeps, RestoreKeeps DEF TrapNext
  <1> QED
    BY <1>1, TrapStart, PTL DEF TrapSpec

-----------------------------------------------------------------------------
(***************************************************************************)
(* The misaligned access: which instructions are emulated                  *)
(***************************************************************************)

\* The address is that of the instruction if its offset is not negative and the base is
\* neither x0 nor sp.  No negative offset makes up for the frame that sp is moved by.
LEMMA AddressRight ==
    ASSUME NEW i \in Misaligned
    PROVE  Address(i) = Target(i) <=> OffsetBits(i) < 2048 /\ i.rs1 \notin {0, sp}
  <1> DEFINE b == OffsetBits(i)
  <1>1. b \in 0 .. 4095 /\ i.rs1 \in 0 .. 31
    BY Fields
  <1> HIDE DEF b
  <1>2. Offset(b) \in Int /\ Signed(b) \in Int
    <2>1. b \in Int /\ b % 1024 \in Int
      BY <1>1
    <2> QED
      BY <2>1 DEF Offset, Signed
  <1>3. b < 2048 => Offset(b) = b /\ Signed(b) = b
    BY <1>1 DEF Offset, Signed
  <1>4. ~(b < 2048) => Offset(b) # Signed(b) /\ Offset(b) - 512 # Signed(b)
    <2> SUFFICES ASSUME ~(b < 2048) PROVE Offset(b) # Signed(b) /\ Offset(b) - 512 # Signed(b)
      OBVIOUS
    <2>4. b \div 2048 > 0
      BY <1>1
    <2>1. Offset(b) = -((b % 1024) + 1) /\ Signed(b) = b - 4096
      BY <1>1, <2>4 DEF Offset, Signed
    <2>2. b % 1024 = b - 2048 \/ b % 1024 = b - 3072
      BY <1>1
    <2>3. ASSUME NEW m \in Int, m = b - 2048 \/ m = b - 3072
          PROVE  -(m + 1) # b - 4096 /\ -(m + 1) - 512 # b - 4096
      BY <1>1, <2>3
    <2> QED
      BY <1>1, <2>1, <2>2, <2>3
  <1>5. b < 2048 => Offset(b) - 512 # Signed(b)
    BY <1>1, <1>3
  <1>6. Target(i) = <<i.rs1, 0 + Signed(b)>>
    BY DEF Target, Plus, Held, b
  <1>7. CASE i.rs1 = 0
    <2>1. Address(i) = <<-1, 0 + Offset(b)>>
      BY <1>7 DEF Address, Saved, Plus, Unsaved, b
    <2> QED
      BY <1>6, <1>7, <2>1
  <1>8. CASE i.rs1 = sp
    <2>1. Address(i) = <<2, (0 + -FrameBytes) + Offset(b)>>
      BY <1>8 DEF Address, Saved, Plus, Held, sp, b
    <2> QED
      BY <1>2, <1>4, <1>5, <1>6, <1>8, <2>1 DEF FrameBytes
  <1>9. CASE i.rs1 \notin {0, sp}
    <2>1. Address(i) = <<i.rs1, 0 + Offset(b)>>
      BY <1>9 DEF Address, Saved, Plus, Held, b
    <2> QED
      BY <1>2, <1>3, <1>4, <1>6, <1>9, <2>1 DEF b
  <1> QED
    BY <1>7, <1>8, <1>9

\* The upper bits of what is loaded are right, but for floats.
LEMMA FilledRight ==
    ASSUME NEW i \in Misaligned, IsLoad(i)
    PROVE  Filled(i) = Upper(i) <=> ~(i.opcode = FPU_LOAD /\ i.funct3 = 2)
  BY Fields, Sizes DEF Filled, Upper, IsLoad, LOAD, FPU_LOAD

\* What is stored is right, but for x0 and sp.
LEMMA StoredRight ==
    ASSUME NEW i \in Misaligned, ~IsLoad(i), i.opcode # AMO
    PROVE  Saved(Source(i)) = Held(Source(i)) <=> (i.opcode = STORE => i.rs2 \notin {0, sp})
  <1>1. Source(i) \in Register /\ (i.opcode # STORE => Source(i) > 31) /\ (i.opcode = STORE => Source(i) = i.rs2)
    BY Fields DEF Source, Register
  <1>2. Held(0) # Unsaved /\ Plus(Held(sp), -FrameBytes) # Held(sp)
    BY DEF Held, Unsaved, Plus, FrameBytes
  <1> QED
    BY <1>1, <1>2 DEF Saved, sp

\* Every instruction that goes on has the effect of the aligned access if it is one of those
\* that Faithful names, and does not if it is not.
THEOREM EmulatedExactly == TrapSpec => []Emulated
  <1>1. ASSUME TrapInv, trap_pc = "resumed"
        PROVE  x = RegistersAfter(insn) /\ access = Moves(insn) <=> Faithful(insn)
    <2> DEFINE i == insn
    <2>1. i \in Misaligned /\ i.opcode # AMO
      BY <1>1 DEF TrapInv
    <2>2. x = [r \in Register |->
                 IF r = 0 THEN Held(0)
                 ELSE IF r = 1 THEN frame[1]
                 ELSE IF IsLoad(i) /\ Destination(i) = sp THEN Astray
                 ELSE IF r = sp THEN Held(sp) ELSE frame[r]]
      BY <1>1 DEF TrapInv
    <2>3. CASE IsLoad(i)
      <3>1. /\ access = <<Address(i), Size(i)>>
            /\ frame = [Frame0 EXCEPT ![Destination(i)] = Loaded(Address(i), Size(i), Filled(i))]
        BY <1>1, <2>3 DEF TrapInv
      <3>2. Moves(i) = <<Target(i), Size(i)>>
        BY <2>3 DEF Moves
      <3>3. access = Moves(i) <=> Address(i) = Target(i)
        BY <3>1, <3>2
      <3>4. Destination(i) \in Register /\ (Destination(i) = sp <=> i.opcode = LOAD /\ i.rd = sp)
        BY <2>1, Fields DEF Destination, Register, sp
      <3>5. CASE Destination(i) = sp
        <4>1. x[sp] = Astray
          BY <2>2, <2>3, <3>5 DEF Register, sp
        <4>2. RegistersAfter(i)[sp] = <<Target(i), Size(i), Upper(i)>>
          BY <2>3, <3>5 DEF RegistersAfter, Destination, Register, sp, Loaded
        <4>3. x # RegistersAfter(i)
          BY <4>1, <4>2 DEF Astray
        <4> QED
          BY <3>4, <3>5, <4>3 DEF Faithful
      <3>6. CASE Destination(i) # sp
        <4>1. x = [r \in Register |->
                     IF r = Destination(i) /\ r # 0 THEN Loaded(Address(i), Size(i), Filled(i)) ELSE Held(r)]
          <5>1. \A r \in Register : frame[r] = IF r = Destination(i) THEN Loaded(Address(i), Size(i), Filled(i)) ELSE Saved(r)
            BY <3>1 DEF Frame0
          <5>2. \A r \in Register \ {0, sp} : Saved(r) = Held(r)
            BY DEF Saved
          <5> QED
            BY <2>2, <3>6, <5>1, <5>2 DEF Register, sp
        <4>2. RegistersAfter(i) = [r \in Register |->
                     IF r = Destination(i) /\ r # 0 THEN Loaded(Target(i), Size(i), Upper(i)) ELSE Held(r)]
          BY <2>3 DEF RegistersAfter, Destination
        <4>3. CASE Destination(i) = 0
          <5>1. x = RegistersAfter(i)
            BY <4>1, <4>2, <4>3
          <5>2. i.opcode # FPU_LOAD
            BY <2>1, <4>3, Fields DEF Destination, FPU_LOAD, LOAD
          <5> QED
            BY <2>1, <2>3, <3>3, <3>4, <3>6, <5>1, <5>2, AddressRight DEF Faithful, IsLoad, STORE, LOAD, FPU_LOAD
        <4>4. CASE Destination(i) # 0
          <5>1. x = RegistersAfter(i) <=> Loaded(Address(i), Size(i), Filled(i)) = Loaded(Target(i), Size(i), Upper(i))
            <6>1. /\ x[Destination(i)] = Loaded(Address(i), Size(i), Filled(i))
                  /\ RegistersAfter(i)[Destination(i)] = Loaded(Target(i), Size(i), Upper(i))
              BY <3>4, <4>1, <4>2, <4>4
            <6> QED
              BY <4>1, <4>2, <6>1
          <5>2. x = RegistersAfter(i) <=> Address(i) = Target(i) /\ Filled(i) = Upper(i)
            BY <5>1 DEF Loaded
          <5> QED
            BY <2>1, <2>3, <3>3, <3>4, <3>6, <5>2, AddressRight, FilledRight DEF Faithful, IsLoad, STORE, LOAD, FPU_LOAD
        <4> QED
          BY <4>3, <4>4
      <3> QED
        BY <3>5, <3>6
    <2>4. CASE ~IsLoad(i)
      <3>1. access = <<Address(i), Size(i), Saved(Source(i))>> /\ frame = Frame0
        BY <1>1, <2>4 DEF TrapInv
      <3>2. Moves(i) = <<Target(i), Size(i), Held(Source(i))>>
        BY <2>4 DEF Moves, Source
      <3>3. access = Moves(i) <=> Address(i) = Target(i) /\ Saved(Source(i)) = Held(Source(i))
        BY <3>1, <3>2
      <3>4. x = [r \in Register |-> Held(r)]
        BY <2>2, <2>4, <3>1 DEF Frame0, Saved, Register, sp
      <3>5. RegistersAfter(i) = [r \in Register |-> Held(r)]
        BY <2>4 DEF RegistersAfter
      <3> QED
        BY <2>1, <2>4, <3>3, <3>4, <3>5, AddressRight, StoredRight DEF Faithful, IsLoad
    <2> QED
      BY <2>3, <2>4
  <1>2. TrapInv => Emulated
    BY <1>1 DEF Emulated
  <1> QED
    BY <1>2, TrapInvariance, PTL

-----------------------------------------------------------------------------
-----------------------------------------------------------------------------
(***************************************************************************)
(* The start of the cores                                                  *)
(***************************************************************************)

USE TimesAssumption, SleepsSuffice
    DEF Core, Stage, App, Code, Flag, Starting, SettingUp, Leaving, Untimed, PrintSleep

-----------------------------------------------------------------------------
(***************************************************************************)
(* The tables, row by row                                                  *)
(***************************************************************************)

LEMMA LeastTable ==
  ASSUME NEW p \in Code
  PROVE  /\ p = "rom" => Least(p) = EntrySkewMin
         /\ p = "sleep20" => Least(p) = 20
         /\ p = "sleep10" => Least(p) = 10
         /\ p = "sleep100" => Least(p) = 100
         /\ p \notin {"rom", "sleep20", "sleep10", "sleep100"} => Least(p) = 0
  BY DEF Least, RegisterSleep, AckSleep

LEMMA MostTable ==
  ASSUME NEW p \in Code
  PROVE  /\ p = "rom" => Most(p) = EntrySkewMax
         /\ p \in Starting => Most(p) = InitTime
         /\ p \in {"register", "enable"} => Most(p) = BannerTime
         /\ p = "print" => Most(p) = PrintTime
         /\ p \in SettingUp => Most(p) = SetupTime
         /\ p = "sleep20" => Most(p) = 20 + Quick
         /\ p = "sleep10" => Most(p) = 10 + Quick
         /\ p = "sleep100" => Most(p) = 100 + Quick
         /\ p \in {"send", "spin", "waiting", "woken", "flag"} => Most(p) = Quick
  BY DEF Most, RegisterSleep, AckSleep

LEMMA LeftTable ==
  ASSUME NEW p \in Code, NEW t \in Nat
  PROVE  /\ p = "rom" => /\ MinLeft(p, t) = EntrySkewMin - t
                         /\ MaxLeft(p, t) = EntrySkewMax - t
         /\ p = "spin" => /\ MinLeft(p, t) = 100
                          /\ MaxLeft(p, t) = PrintTime + 100 + 2 * Quick - t
         /\ p = "sleep10" => /\ MinLeft(p, t) = 110 - t
                             /\ MaxLeft(p, t) = 10 + PrintTime + 100 + 2 * Quick - t
         /\ p = "print" => /\ MinLeft(p, t) = 100
                           /\ MaxLeft(p, t) = PrintTime + 100 + Quick - t
         /\ p = "sleep100" => /\ MinLeft(p, t) = 100 - t
                              /\ MaxLeft(p, t) = 100 + Quick - t
  BY DEF MinLeft, MaxLeft, AckSleep

LEMMA AwaitedTable ==
  ASSUME NEW c \in Core
  PROVE  /\ pc[c] = "env" => Awaited(c) = env[stage[c]]
         /\ pc[c] = "thread" => Awaited(c) = wake[stage[c]]
         /\ pc[c] = "spin" => Awaited(c) = jump[stage[c]]
         /\ pc[c] = "waiting" => Awaited(c) = "zero"
         /\ pc[c] \notin {"env", "thread", "spin", "waiting"} => Awaited(c) = "one"
  BY DEF Awaited

-----------------------------------------------------------------------------


LEMMA InitIInv == Init => IInv
<1> SUFFICES ASSUME Init PROVE IInv
  OBVIOUS
<1>1. TypeOK
  <2>1. /\ stage \in [Core -> Stage \cup {App}]
        /\ pc \in [Core -> Code]
        /\ clock \in [Core -> 0 .. PrintSleep + Quick]
    BY DEF Init
  <2>2. /\ env \in [Stage -> Flag]
        /\ wake \in [Stage -> Flag]
        /\ callback \in [Stage -> {"garbage", "null", "core1_entry"}]
        /\ jump \in [Stage -> Flag]
        /\ msip \in BOOLEAN
        /\ mie \in BOOLEAN
    BY Zenon DEF Init
  <2> QED
    BY <2>1, <2>2 DEF TypeOK
<1>2. Places
  BY MostTable DEF Init, Places
<1>3. Follows
  BY LeftTable DEF Init, Follows
<1>4. Words /\ SetsUp /\ Waits /\ Leaves /\ EntersInitialised
  BY DEF Init, Words, SetsUp, Waits, Leaves, EntersInitialised
<1> QED
  BY <1>1, <1>2, <1>3, <1>4 DEF Init, IInv

-----------------------------------------------------------------------------
(***************************************************************************)
(* Core 0                                                                  *)
(***************************************************************************)

LEMMA InitBssStep == IInv /\ InitBss => IInv'
<1> SUFFICES ASSUME IInv, InitBss PROVE IInv'
  OBVIOUS
<1> USE LeastTable, MostTable, LeftTable, AwaitedTable
    DEF At, Goto, Continue, Interrupted, bss, IInv, TypeOK, Places, Words, Follows,
        SetsUp, Waits, Leaves, EntersInitialised
<1>1. TypeOK' /\ Places' /\ Words'
  BY SMTT(90) DEF InitBss
<1>2. Follows' /\ SetsUp' /\ Waits' /\ Leaves'
  BY SMTT(90) DEF InitBss
<1>3. (stage[1] = App => stage[0] = App)' /\ EntersInitialised'
  BY SMTT(90) DEF InitBss
<1> QED
  BY <1>1, <1>2, <1>3

LEMMA EnvReadyStep == IInv /\ EnvReady => IInv'
<1> SUFFICES ASSUME IInv, EnvReady PROVE IInv'
  OBVIOUS
<1> USE LeastTable, MostTable, LeftTable, AwaitedTable
    DEF At, Goto, Continue, Interrupted, bss, IInv, TypeOK, Places, Words, Follows,
        SetsUp, Waits, Leaves, EntersInitialised
<1>1. TypeOK' /\ Places' /\ Words'
  BY SMTT(90) DEF EnvReady
<1>2. Follows' /\ SetsUp' /\ Waits' /\ Leaves'
  BY SMTT(90) DEF EnvReady
<1>3. (stage[1] = App => stage[0] = App)' /\ EntersInitialised'
  BY SMTT(90) DEF EnvReady
<1> QED
  BY <1>1, <1>2, <1>3

LEMMA NullCallbackStep == IInv /\ NullCallback => IInv'
<1> SUFFICES ASSUME IInv, NullCallback PROVE IInv'
  OBVIOUS
<1> USE LeastTable, MostTable, LeftTable, AwaitedTable
    DEF At, Goto, Continue, Interrupted, bss, IInv, TypeOK, Places, Words, Follows,
        SetsUp, Waits, Leaves, EntersInitialised
<1>1. TypeOK' /\ Places' /\ Words'
  BY SMTT(90) DEF NullCallback
<1>2. Follows' /\ SetsUp' /\ Waits' /\ Leaves'
  BY SMTT(90) DEF NullCallback
<1>3. (stage[1] = App => stage[0] = App)' /\ EntersInitialised'
  BY SMTT(90) DEF NullCallback
<1> QED
  BY <1>1, <1>2, <1>3

LEMMA RegisterCore1Step == IInv /\ RegisterCore1 => IInv'
<1> SUFFICES ASSUME IInv, RegisterCore1 PROVE IInv'
  OBVIOUS
<1> USE LeastTable, MostTable, LeftTable, AwaitedTable
    DEF At, Goto, Continue, Interrupted, bss, IInv, TypeOK, Places, Words, Follows,
        SetsUp, Waits, Leaves, EntersInitialised
<1>1. TypeOK' /\ Places' /\ Words'
  BY SMTT(90) DEF RegisterCore1
<1>2. Follows' /\ SetsUp' /\ Waits' /\ Leaves'
  BY SMTT(90) DEF RegisterCore1
<1>3. (stage[1] = App => stage[0] = App)' /\ EntersInitialised'
  BY SMTT(90) DEF RegisterCore1
<1> QED
  BY <1>1, <1>2, <1>3

LEMMA CoreEnableStep == IInv /\ CoreEnable => IInv'
<1> SUFFICES ASSUME IInv, CoreEnable PROVE IInv'
  OBVIOUS
<1> USE LeastTable, MostTable, LeftTable, AwaitedTable
    DEF At, Goto, Continue, Interrupted, bss, IInv, TypeOK, Places, Words, Follows,
        SetsUp, Waits, Leaves, EntersInitialised
<1>1. TypeOK' /\ Places' /\ Words'
  BY SMTT(90) DEF CoreEnable
<1>2. Follows' /\ SetsUp' /\ Waits' /\ Leaves'
  BY SMTT(90) DEF CoreEnable
<1>3. (stage[1] = App => stage[0] = App)' /\ EntersInitialised'
  BY SMTT(90) DEF CoreEnable
<1> QED
  BY <1>1, <1>2, <1>3

LEMMA Sleep20Step == IInv /\ Sleep20 => IInv'
<1> SUFFICES ASSUME IInv, Sleep20 PROVE IInv'
  OBVIOUS
<1> USE LeastTable, MostTable, LeftTable, AwaitedTable
    DEF At, Goto, Continue, Interrupted, bss, IInv, TypeOK, Places, Words, Follows,
        SetsUp, Waits, Leaves, EntersInitialised
<1>1. TypeOK' /\ Places' /\ Words'
  BY SMTT(90) DEF Sleep20
<1>2. Follows' /\ SetsUp' /\ Waits' /\ Leaves'
  BY SMTT(90) DEF Sleep20
<1>3. (stage[1] = App => stage[0] = App)' /\ EntersInitialised'
  BY SMTT(90) DEF Sleep20
<1> QED
  BY <1>1, <1>2, <1>3

LEMMA CheckStep == IInv /\ Check => IInv'
<1> SUFFICES ASSUME IInv, Check PROVE IInv'
  OBVIOUS
<1> USE LeastTable, MostTable, LeftTable, AwaitedTable
    DEF At, Goto, Continue, Interrupted, bss, IInv, TypeOK, Places, Words, Follows,
        SetsUp, Waits, Leaves, EntersInitialised
<1>1. TypeOK' /\ Places' /\ Words'
  BY SMTT(90) DEF Check
<1>2. Follows' /\ SetsUp' /\ Waits' /\ Leaves'
  BY SMTT(90) DEF Check
<1>3. (stage[1] = App => stage[0] = App)' /\ EntersInitialised'
  BY SMTT(90) DEF Check
<1> QED
  BY <1>1, <1>2, <1>3

LEMMA ClintIpiSendStep == IInv /\ ClintIpiSend => IInv'
<1> SUFFICES ASSUME IInv, ClintIpiSend PROVE IInv'
  OBVIOUS
<1> USE LeastTable, MostTable, LeftTable, AwaitedTable
    DEF At, Goto, Continue, Interrupted, bss, IInv, TypeOK, Places, Words, Follows,
        SetsUp, Waits, Leaves, EntersInitialised
<1>1. TypeOK' /\ Places' /\ Words'
  BY SMTT(90) DEF ClintIpiSend
<1>2. Follows' /\ SetsUp' /\ Waits' /\ Leaves'
  BY SMTT(90) DEF ClintIpiSend
<1>3. (stage[1] = App => stage[0] = App)' /\ EntersInitialised'
  BY SMTT(90) DEF ClintIpiSend
<1> QED
  BY <1>1, <1>2, <1>3

LEMMA SpinStep == IInv /\ Spin => IInv'
<1> SUFFICES ASSUME IInv, Spin PROVE IInv'
  OBVIOUS
<1> USE LeastTable, MostTable, LeftTable, AwaitedTable
    DEF At, Goto, Continue, Interrupted, bss, IInv, TypeOK, Places, Words, Follows,
        SetsUp, Waits, Leaves, EntersInitialised
<1>1. TypeOK' /\ Places' /\ Words'
  BY SMTT(90) DEF Spin
<1>2. Follows' /\ SetsUp' /\ Waits' /\ Leaves'
  BY SMTT(90) DEF Spin
<1>3. (stage[1] = App => stage[0] = App)' /\ EntersInitialised'
  BY SMTT(90) DEF Spin
<1> QED
  BY <1>1, <1>2, <1>3

-----------------------------------------------------------------------------
(***************************************************************************)
(* Core 1                                                                  *)
(***************************************************************************)

LEMMA EnterStage1Step == IInv /\ EnterStage1 => IInv'
<1> SUFFICES ASSUME IInv, EnterStage1 PROVE IInv'
  OBVIOUS
<1> USE LeastTable, MostTable, LeftTable, AwaitedTable
    DEF At, Goto, Continue, Interrupted, bss, IInv, TypeOK, Places, Words, Follows,
        SetsUp, Waits, Leaves, EntersInitialised
<1>1. TypeOK' /\ Places' /\ Words'
  BY SMTT(90) DEF EnterStage1
<1>2. Follows' /\ SetsUp' /\ Waits' /\ Leaves'
  BY SMTT(90) DEF EnterStage1
<1>3. (stage[1] = App => stage[0] = App)' /\ EntersInitialised'
  BY SMTT(90) DEF EnterStage1
<1> QED
  BY <1>1, <1>2, <1>3

LEMMA AwaitEnvStep == IInv /\ AwaitEnv => IInv'
<1> SUFFICES ASSUME IInv, AwaitEnv PROVE IInv'
  OBVIOUS
<1> USE LeastTable, MostTable, LeftTable, AwaitedTable
    DEF At, Goto, Continue, Interrupted, bss, IInv, TypeOK, Places, Words, Follows,
        SetsUp, Waits, Leaves, EntersInitialised
<1>1. TypeOK' /\ Places' /\ Words'
  BY SMTT(90) DEF AwaitEnv
<1>2. Follows' /\ SetsUp' /\ Waits' /\ Leaves'
  BY SMTT(90) DEF AwaitEnv
<1>3. (stage[1] = App => stage[0] = App)' /\ EntersInitialised'
  BY SMTT(90) DEF AwaitEnv
<1> QED
  BY <1>1, <1>2, <1>3

LEMMA ThreadEntryStep == IInv /\ ThreadEntry => IInv'
<1> SUFFICES ASSUME IInv, ThreadEntry PROVE IInv'
  OBVIOUS
<1> USE LeastTable, MostTable, LeftTable, AwaitedTable
    DEF At, Goto, Continue, Interrupted, bss, IInv, TypeOK, Places, Words, Follows,
        SetsUp, Waits, Leaves, EntersInitialised
<1>1. TypeOK' /\ Places' /\ Words'
  BY SMTT(90) DEF ThreadEntry
<1>2. Follows' /\ SetsUp' /\ Waits' /\ Leaves'
  BY SMTT(90) DEF ThreadEntry
<1>3. (stage[1] = App => stage[0] = App)' /\ EntersInitialised'
  BY SMTT(90) DEF ThreadEntry
<1> QED
  BY <1>1, <1>2, <1>3

\* Core 1 gets past thread_entry only when core 0 has registered core1_entry.
LEMMA CallCore1EntryStep == IInv /\ CallCore1Entry => IInv'
<1> SUFFICES ASSUME IInv, CallCore1Entry PROVE IInv'
  OBVIOUS
<1>1. callback[stage[1]] = "core1_entry"
  BY DEF CallCore1Entry, At, IInv, TypeOK, Places, SetsUp, Words
<1>2. /\ At(1, "call")
      /\ Continue(1, "ipi_init")
      /\ UNCHANGED <<stage, bss, msip, mie>>
  BY <1>1, Zenon DEF CallCore1Entry
<1> USE LeastTable, MostTable, LeftTable, AwaitedTable
    DEF At, Goto, Continue, Interrupted, bss, IInv, TypeOK, Places, Words, Follows,
        SetsUp, Waits, Leaves, EntersInitialised
<1>3. TypeOK' /\ Places' /\ Words'
  BY <1>2, SMTT(90)
<1>4. Follows' /\ SetsUp' /\ Waits' /\ Leaves'
  BY <1>2, SMTT(90)
<1>5. (stage[1] = App => stage[0] = App)' /\ EntersInitialised'
  BY <1>2, SMTT(90)
<1> QED
  BY <1>3, <1>4, <1>5

LEMMA ClintIpiInitStep == IInv /\ ClintIpiInit => IInv'
<1> SUFFICES ASSUME IInv, ClintIpiInit PROVE IInv'
  OBVIOUS
<1>a. msip' \in BOOLEAN /\ mie' \in BOOLEAN
  BY Zenon DEF ClintIpiInit, IInv, TypeOK
<1> USE LeastTable, MostTable, LeftTable, AwaitedTable
    DEF At, Goto, Continue, Interrupted, bss, IInv, TypeOK, Places, Words, Follows,
        SetsUp, Waits, Leaves, EntersInitialised
<1>1. TypeOK' /\ Places' /\ Words'
  BY <1>a, SMTT(90) DEF ClintIpiInit
<1>2. Follows' /\ SetsUp' /\ Waits' /\ Leaves'
  BY SMTT(90) DEF ClintIpiInit
<1>3. (stage[1] = App => stage[0] = App)' /\ EntersInitialised'
  BY SMTT(90) DEF ClintIpiInit
<1> QED
  BY <1>1, <1>2, <1>3

LEMMA ClintIpiClearStep == IInv /\ ClintIpiClear => IInv'
<1> SUFFICES ASSUME IInv, ClintIpiClear PROVE IInv'
  OBVIOUS
<1>a. msip' \in BOOLEAN /\ mie' \in BOOLEAN
  BY Zenon DEF ClintIpiClear, IInv, TypeOK
<1> USE LeastTable, MostTable, LeftTable, AwaitedTable
    DEF At, Goto, Continue, Interrupted, bss, IInv, TypeOK, Places, Words, Follows,
        SetsUp, Waits, Leaves, EntersInitialised
<1>1. TypeOK' /\ Places' /\ Words'
  BY <1>a, SMTT(90) DEF ClintIpiClear
<1>2. Follows' /\ SetsUp' /\ Waits' /\ Leaves'
  BY SMTT(90) DEF ClintIpiClear
<1>3. (stage[1] = App => stage[0] = App)' /\ EntersInitialised'
  BY SMTT(90) DEF ClintIpiClear
<1> QED
  BY <1>1, <1>2, <1>3

LEMMA ClintIpiEnableStep == IInv /\ ClintIpiEnable => IInv'
<1> SUFFICES ASSUME IInv, ClintIpiEnable PROVE IInv'
  OBVIOUS
<1> USE LeastTable, MostTable, LeftTable, AwaitedTable
    DEF At, Goto, Continue, Interrupted, bss, IInv, TypeOK, Places, Words, Follows,
        SetsUp, Waits, Leaves, EntersInitialised
<1>1. TypeOK' /\ Places' /\ Words'
  BY SMTT(90) DEF ClintIpiEnable
<1>2. Follows' /\ SetsUp' /\ Waits' /\ Leaves'
  BY SMTT(90) DEF ClintIpiEnable
<1>3. (stage[1] = App => stage[0] = App)' /\ EntersInitialised'
  BY SMTT(90) DEF ClintIpiEnable
<1> QED
  BY <1>1, <1>2, <1>3

LEMMA WfiStep == IInv /\ Wfi => IInv'
<1> SUFFICES ASSUME IInv, Wfi PROVE IInv'
  OBVIOUS
<1> USE LeastTable, MostTable, LeftTable, AwaitedTable
    DEF At, Goto, Continue, Interrupted, bss, IInv, TypeOK, Places, Words, Follows,
        SetsUp, Waits, Leaves, EntersInitialised
<1>1. TypeOK' /\ Places' /\ Words'
  BY SMTT(90) DEF Wfi
<1>2. Follows' /\ SetsUp' /\ Leaves'
  BY SMTT(90) DEF Wfi
<1>4. Waits'
  BY SMTT(90) DEF Wfi
<1>3. (stage[1] = App => stage[0] = App)' /\ EntersInitialised'
  BY SMTT(90) DEF Wfi
<1> QED
  BY <1>1, <1>2, <1>3, <1>4

LEMMA HandleIrqMSoftStep == IInv /\ HandleIrqMSoft => IInv'
<1> SUFFICES ASSUME IInv, HandleIrqMSoft PROVE IInv'
  OBVIOUS
<1>a. msip' \in BOOLEAN /\ mie' \in BOOLEAN
  BY Zenon DEF HandleIrqMSoft, IInv, TypeOK
<1> USE LeastTable, MostTable, LeftTable, AwaitedTable
    DEF At, Goto, Continue, Interrupted, bss, IInv, TypeOK, Places, Words, Follows,
        SetsUp, Waits, Leaves, EntersInitialised
<1>1. TypeOK' /\ Places' /\ Words'
  BY <1>a, SMTT(90) DEF HandleIrqMSoft
<1>2. Follows' /\ SetsUp' /\ Waits' /\ Leaves'
  BY SMTT(90) DEF HandleIrqMSoft
<1>3. (stage[1] = App => stage[0] = App)' /\ EntersInitialised'
  BY SMTT(90) DEF HandleIrqMSoft
<1> QED
  BY <1>1, <1>2, <1>3

LEMMA ClintIpiDisableStep == IInv /\ ClintIpiDisable => IInv'
<1> SUFFICES ASSUME IInv, ClintIpiDisable PROVE IInv'
  OBVIOUS
<1>a. msip' \in BOOLEAN /\ mie' \in BOOLEAN
  BY Zenon DEF ClintIpiDisable, IInv, TypeOK
<1> USE LeastTable, MostTable, LeftTable, AwaitedTable
    DEF At, Goto, Continue, Interrupted, bss, IInv, TypeOK, Places, Words, Follows,
        SetsUp, Waits, Leaves, EntersInitialised
<1>1. TypeOK' /\ Places' /\ Words'
  BY <1>a, SMTT(90) DEF ClintIpiDisable
<1>2. Follows' /\ SetsUp' /\ Waits' /\ Leaves'
  BY SMTT(90) DEF ClintIpiDisable
<1>3. (stage[1] = App => stage[0] = App)' /\ EntersInitialised'
  BY SMTT(90) DEF ClintIpiDisable
<1> QED
  BY <1>1, <1>2, <1>3

LEMMA JumpFlagStep == IInv /\ JumpFlag => IInv'
<1> SUFFICES ASSUME IInv, JumpFlag PROVE IInv'
  OBVIOUS
<1> USE LeastTable, MostTable, LeftTable, AwaitedTable
    DEF At, Goto, Continue, Interrupted, bss, IInv, TypeOK, Places, Words, Follows,
        SetsUp, Waits, Leaves, EntersInitialised
<1>1. TypeOK' /\ Places' /\ Words'
  BY SMTT(90) DEF JumpFlag
<1>2. Follows' /\ SetsUp' /\ Waits' /\ Leaves'
  BY SMTT(90) DEF JumpFlag
<1>3. (stage[1] = App => stage[0] = App)' /\ EntersInitialised'
  BY SMTT(90) DEF JumpFlag
<1> QED
  BY <1>1, <1>2, <1>3

LEMMA Sleep10Step == IInv /\ Sleep10 => IInv'
<1> SUFFICES ASSUME IInv, Sleep10 PROVE IInv'
  OBVIOUS
<1> USE LeastTable, MostTable, LeftTable, AwaitedTable
    DEF At, Goto, Continue, Interrupted, bss, IInv, TypeOK, Places, Words, Follows,
        SetsUp, Waits, Leaves, EntersInitialised
<1>1. TypeOK' /\ Places' /\ Words'
  BY SMTT(90) DEF Sleep10
<1>2. Follows' /\ SetsUp' /\ Waits' /\ Leaves'
  BY SMTT(90) DEF Sleep10
<1>3. (stage[1] = App => stage[0] = App)' /\ EntersInitialised'
  BY SMTT(90) DEF Sleep10
<1> QED
  BY <1>1, <1>2, <1>3

-----------------------------------------------------------------------------
(***************************************************************************)
(* Either core, and time                                                   *)
(***************************************************************************)

LEMMA PrintJumping0Step == IInv /\ PrintJumping(0) => IInv'
<1> SUFFICES ASSUME IInv, PrintJumping(0) PROVE IInv'
  OBVIOUS
<1> USE LeastTable, MostTable, LeftTable, AwaitedTable
    DEF At, Goto, Continue, Interrupted, bss, IInv, TypeOK, Places, Words, Follows,
        SetsUp, Waits, Leaves, EntersInitialised
<1>1. TypeOK' /\ Places' /\ Words'
  BY SMTT(90) DEF PrintJumping
<1>2. Follows' /\ SetsUp' /\ Waits' /\ Leaves'
  BY SMTT(90) DEF PrintJumping
<1>3. (stage[1] = App => stage[0] = App)' /\ EntersInitialised'
  BY SMTT(90) DEF PrintJumping
<1> QED
  BY <1>1, <1>2, <1>3

LEMMA PrintJumping1Step == IInv /\ PrintJumping(1) => IInv'
<1> SUFFICES ASSUME IInv, PrintJumping(1) PROVE IInv'
  OBVIOUS
<1> USE LeastTable, MostTable, LeftTable, AwaitedTable
    DEF At, Goto, Continue, Interrupted, bss, IInv, TypeOK, Places, Words, Follows,
        SetsUp, Waits, Leaves, EntersInitialised
<1>1. TypeOK' /\ Places' /\ Words'
  BY SMTT(90) DEF PrintJumping
<1>2. Follows' /\ SetsUp' /\ Waits' /\ Leaves'
  BY SMTT(90) DEF PrintJumping
<1>3. (stage[1] = App => stage[0] = App)' /\ EntersInitialised'
  BY SMTT(90) DEF PrintJumping
<1> QED
  BY <1>1, <1>2, <1>3

LEMMA JumpToBoot0Step == IInv /\ JumpToBoot(0) => IInv'
<1> SUFFICES ASSUME IInv, JumpToBoot(0) PROVE IInv'
  OBVIOUS
<1> USE LeastTable, MostTable, LeftTable, AwaitedTable
    DEF At, Goto, Continue, Interrupted, bss, IInv, TypeOK, Places, Words, Follows,
        SetsUp, Waits, Leaves, EntersInitialised
<1>1. TypeOK' /\ Places' /\ Words'
  BY SMTT(90) DEF JumpToBoot
<1>2. Follows' /\ SetsUp' /\ Waits' /\ Leaves'
  BY SMTT(90) DEF JumpToBoot
<1>3. (stage[1] = App => stage[0] = App)' /\ EntersInitialised'
  BY SMTT(90) DEF JumpToBoot
<1> QED
  BY <1>1, <1>2, <1>3

LEMMA JumpToBoot1Step == IInv /\ JumpToBoot(1) => IInv'
<1> SUFFICES ASSUME IInv, JumpToBoot(1) PROVE IInv'
  OBVIOUS
<1> USE LeastTable, MostTable, LeftTable, AwaitedTable
    DEF At, Goto, Continue, Interrupted, bss, IInv, TypeOK, Places, Words, Follows,
        SetsUp, Waits, Leaves, EntersInitialised
<1>1. TypeOK' /\ Places' /\ Words'
  BY SMTT(90) DEF JumpToBoot
<1>2. Follows' /\ SetsUp' /\ Waits' /\ Leaves'
  BY SMTT(90) DEF JumpToBoot
<1>3. (stage[1] = App => stage[0] = App)' /\ EntersInitialised'
  BY SMTT(90) DEF JumpToBoot
<1> QED
  BY <1>1, <1>2, <1>3

\* A tick brings no clock beyond what its stretch of code takes.
LEMMA TickTypes == TypeOK /\ Tick => TypeOK'
<1> SUFFICES ASSUME TypeOK, Tick PROVE TypeOK'
  OBVIOUS
<1>1. \A p \in Code \ Untimed : Most(p) \in 0 .. 100 + Quick
  BY MostTable, TimesAssumption, SleepsSuffice
  DEF TimesAssumption, SleepsSuffice, Code, Untimed, Starting, SettingUp
<1>2. Quick \in Nat
  BY TimesAssumption DEF TimesAssumption
<1>3. ASSUME NEW c \in Core
      PROVE  (IF Timed(c) THEN clock[c] + 1 ELSE clock[c]) \in 0 .. PrintSleep + Quick
  <2>1. clock[c] \in 0 .. PrintSleep + Quick /\ pc[c] \in Code
    BY DEF TypeOK
  <2>2. CASE Timed(c)
    <3>1. clock[c] < Most(pc[c])
      BY <2>2 DEF Tick
    <3>2. Most(pc[c]) \in 0 .. 100 + Quick
      BY <1>1, <2>1, <2>2 DEF Timed
    <3> QED
      BY <1>2, <2>1, <2>2, <3>1, <3>2 DEF PrintSleep
  <2>3. CASE ~Timed(c)
    BY <2>1, <2>3
  <2> QED
    BY <2>2, <2>3
<1>4. clock' \in [Core -> 0 .. PrintSleep + Quick]
  BY <1>3 DEF Tick
<1> QED
  BY <1>4, Zenon DEF TypeOK, Tick, bss

LEMMA TickStep == IInv /\ Tick => IInv'
<1> SUFFICES ASSUME IInv, Tick PROVE IInv'
  OBVIOUS
<1>0. TypeOK'
  BY TickTypes DEF IInv
<1> USE LeastTable, MostTable, LeftTable, AwaitedTable
    DEF At, Goto, Continue, Interrupted, Timed, bss, IInv, TypeOK, Places, Words, Follows,
        SetsUp, Waits, Leaves, EntersInitialised
<1>1. Places' /\ Words'
  BY SMTT(90) DEF Tick
<1>2. Follows'
  BY SMTT(90) DEF Tick
<1>4. SetsUp' /\ Waits'
  BY SMTT(90) DEF Tick
<1>5. Leaves'
  BY SMTT(90) DEF Tick
<1>3. (stage[1] = App => stage[0] = App)' /\ EntersInitialised'
  BY SMTT(90) DEF Tick
<1> QED
  BY <1>0, <1>1, <1>2, <1>3, <1>4, <1>5

-----------------------------------------------------------------------------
(***************************************************************************)
(* The theorems                                                            *)
(***************************************************************************)

LEMMA StutterStep == IInv /\ UNCHANGED vars => IInv'
<1> SUFFICES ASSUME IInv, UNCHANGED vars PROVE IInv'
  OBVIOUS
<1>1. /\ stage' = stage /\ pc' = pc /\ clock' = clock
      /\ env' = env /\ wake' = wake /\ callback' = callback /\ jump' = jump
      /\ msip' = msip /\ mie' = mie
  BY Zenon DEF vars
<1>2. TypeOK' /\ Places' /\ Words'
  BY <1>1 DEF IInv, TypeOK, Places, Words
<1>3. Follows' /\ SetsUp' /\ Waits' /\ Leaves' /\ EntersInitialised'
  BY <1>1 DEF IInv, Follows, SetsUp, Waits, Leaves, EntersInitialised
<1> QED
  BY <1>1, <1>2, <1>3 DEF IInv

LEMMA NextIInv == IInv /\ [Next]_vars => IInv'
<1> SUFFICES ASSUME IInv, [Next]_vars PROVE IInv'
  OBVIOUS
<1>1. CASE Core0
  BY <1>1, InitBssStep, EnvReadyStep, NullCallbackStep, RegisterCore1Step,
     CoreEnableStep, Sleep20Step, CheckStep, ClintIpiSendStep, SpinStep,
     PrintJumping0Step, JumpToBoot0Step, Zenon
  DEF Core0, GoBoot
<1>2. CASE Core1
  BY <1>2, EnterStage1Step, AwaitEnvStep, ThreadEntryStep, CallCore1EntryStep,
     ClintIpiInitStep, ClintIpiClearStep, ClintIpiEnableStep, WfiStep,
     HandleIrqMSoftStep, ClintIpiDisableStep, JumpFlagStep, Sleep10Step,
     PrintJumping1Step, JumpToBoot1Step, Zenon
  DEF Core1, GoBoot
<1>3. CASE Tick
  BY <1>3, TickStep
<1>4. CASE UNCHANGED vars
  BY <1>4, StutterStep
<1> QED
  BY <1>1, <1>2, <1>3, <1>4 DEF Next

\* The invariant, for all times that the two sleeps of go_boot and main() leave
\* room for.
THEOREM HandoffInvariance == Spec => []IInv
<1>1. Init => IInv
  BY InitIInv
<1>2. IInv /\ [Next]_vars => IInv'
  BY NextIInv
<1> QED
  BY <1>1, <1>2, PTL DEF Spec

\* Type correctness.
THEOREM HandoffTypes == Spec => []TypeOK
<1>1. IInv => TypeOK
  BY Zenon DEF IInv
<1> QED
  BY <1>1, HandoffInvariance, PTL

\* Core 1 finds every stage it enters initialised.
THEOREM InitialisedBeforeEntry == Spec => []EntersInitialised
<1>1. IInv => EntersInitialised
  BY Zenon DEF IInv
<1> QED
  BY <1>1, HandoffInvariance, PTL

\* Core 1 never calls anything but core1_entry, and has left stage 1 before stage 2 loads
\* the application over it.
THEOREM NoCodePulledAway == Spec => []RunsOwnCode
<1>1. IInv => RunsOwnCode
  <2>1. IInv => pc[1] \notin {"wild", "exit"}
    BY DEF IInv, Places
  <2>2. IInv /\ stage[0] = 2
        /\ pc[0] \notin {"bss", "ready", "null", "register", "enable", "sleep20"}
        => stage[1] # 1
    BY DEF IInv, TypeOK, Places, Follows
  <2> QED
    BY <2>1, <2>2 DEF RunsOwnCode
<1> QED
  BY <1>1, HandoffInvariance, PTL

\* Neither core is ever a whole stage ahead of the other, and core 0 leads.
THEOREM LeadKept == Spec => []CoreZeroLeads
<1>1. IInv => CoreZeroLeads
  BY DEF IInv, TypeOK, Places, SetsUp, Waits, Leaves, Follows, CoreZeroLeads
<1> QED
  BY <1>1, HandoffInvariance, PTL

\* The interrupt that wakes core 1 is sent only when core 1 is in its wfi: it
\* cannot be lost.
THEOREM NoLostWakeUp == Spec => IpiIsHeard
<1>1. IInv /\ [Next]_vars => (msip' /\ ~msip => pc[1] = "waiting")
  <2> SUFFICES ASSUME IInv, [Next]_vars, msip', ~msip PROVE pc[1] = "waiting"
    OBVIOUS
  <2>1. IInv'
    BY NextIInv
  <2>2. pc'[1] = "waiting" /\ pc'[0] = "spin"
    BY <2>1 DEF IInv, Words
  <2>3. ClintIpiSend
    BY Zenon
    DEF Next, Core0, Core1, GoBoot, Tick, InitBss, EnvReady, NullCallback,
        RegisterCore1, CoreEnable, Sleep20, Check, Spin, PrintJumping, JumpToBoot,
        EnterStage1, AwaitEnv, ThreadEntry, CallCore1Entry, ClintIpiInit,
        ClintIpiClear, ClintIpiEnable, Wfi, HandleIrqMSoft, ClintIpiDisable, JumpFlag,
        Sleep10, vars
  <2> QED
    BY <2>2, <2>3 DEF ClintIpiSend, Goto, IInv, TypeOK
<1> QED
  BY <1>1, HandoffInvariance, PTL DEF Spec, IpiIsHeard
=============================================================================
