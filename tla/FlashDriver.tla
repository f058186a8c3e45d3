---------------------------- MODULE FlashDriver ----------------------------
(***************************************************************************)
(* The flash driver, drivers/flash.c, from flash_init to flash_write_data, *)
(* under the commands that write to the flash: flerase and flwrite of the  *)
(* console and flash_image_backup of the loader.  The driver sends a       *)
(* command, then polls the busy bit, but not for ever; nobody looks at     *)
(* what flash_check_status returns.                                        *)
(*                                                                         *)
(* The chip is external: it obeys a command only if it is idle, write      *)
(* enabled, not protected and, for a quad program, in quad mode; it        *)
(* ignores any other; and an address that runs over the end of its page    *)
(* wraps to the page's start.  The content of a byte is its index in the   *)
(* buffer it came from.                                                    *)
(***************************************************************************)
EXTENDS Integers

CONSTANTS
    ChipSize,       \* bytes of the chip
    SectorSize,     \* flash_FLASH_SECTOR_SIZE, FLASH_SECTOR_SIZE
    PageSize,       \* flash_FLASH_PAGE_SIZE
    Burst,          \* bytes in one program command: the 32 of the SPI FIFO
    WriteSize,      \* FLASH_WRITE_SIZE
    Header,         \* what flash_image_backup writes first: Header[i] is the end of
                    \* the i-th part (the flag, then the length)
    Lengths,        \* bound: lengths of the requests
    MaxJobs,        \* bound: requests
    MaxTimeouts     \* bound: times that the driver gives up on a busy chip

Address == 0 .. ChipSize - 1
PageOf(a) == a \div PageSize
SectorOf(a) == a \div SectorSize

ASSUME FlashAssumption ==
    /\ PageSize \in Nat \ {0}
    /\ SectorSize \in Nat \ {0}
    /\ SectorSize % PageSize = 0
    /\ ChipSize \in Nat
    /\ ChipSize % SectorSize = 0
    /\ Burst \in Nat \ {0}
    /\ WriteSize \in Nat \ {0}
    /\ Header[1] \in Nat \ {0}
    /\ Header[2] \in Nat
    /\ Header[2] > Header[1]
    /\ Lengths \subseteq Nat \ {0}
    /\ MaxJobs \in Nat
    /\ MaxTimeouts \in Nat

VARIABLES
    cells,      \* cells[a]: content of byte a of the chip
    qe,         \* chip: quad mode is enabled
    protected,  \* chip: block protection is on
    op,         \* chip: the command it is busy with, or Idle
    pc,         \* what core 0 does next
    then,       \* what it does when the chip is not busy any more
    wide,       \* flash_page_program_fun is flash_quad_page_program
    job,        \* the request, or NoJob
    erased,     \* do_flash_erase is over
    sector,     \* i of do_flash_erase
    addr, buf,  \* flash_write_data: next address, and next index in the buffer
    rest,       \* bytes of the request after this call of flash_write_data
    length, write_len,  \* of flash_write_data
    late,       \* history: the chip was still busy when the driver went on
    timeouts,   \* history: how often that was
    cut,        \* history: a ^C ended the erase
    area,       \* history: the sectors that commands of this or an unfinished
                \* earlier request are for
    jobs        \* history: requests so far

chip == <<cells, qe, protected>>
caller == <<job, erased, late, timeouts, cut, area, jobs>>
loop == <<sector, addr, buf, rest, length, write_len>>
vars == <<chip, op, pc, then, wide, caller, loop>>

-----------------------------------------------------------------------------

Blank == -1
Junk  == -2
Byte == {Blank, Junk} \cup Nat

Idle == [kind |-> "none"]
Erase(s) == [kind |-> "erase", sector |-> s]
Program(a, b, len) == [kind |-> "program", at |-> a, from |-> b, len |-> len]
Status(p, q) == [kind |-> "status", protect |-> p, quad |-> q]

NoJob == [kind |-> "none"]
Job == [kind : {"flerase", "flwrite", "backup"}, offset : Address, length : Lengths]

\* The requests that do_flash_erase does not refuse and that fit the chip.
Requests == {j \in Job : /\ j.offset % SectorSize = 0
                         /\ j.offset + j.length <= ChipSize
                         /\ j.kind = "backup" => j.length > Header[2]}

\* The bytes of a request, and the sectors they are in.
Bytes(j) == j.offset .. j.offset + j.length - 1
Sectors(j) == {SectorOf(a) : a \in Bytes(j)}

TypeOK ==
    /\ cells \in [Address -> Byte]
    /\ qe \in BOOLEAN
    /\ protected \in BOOLEAN
    /\ \/ op = Idle
       \/ op.kind = "erase" /\ op.sector \in {SectorOf(a) : a \in Address}
       \/ op.kind = "program" /\ op.at \in Address /\ op.from \in Nat /\ op.len \in 1 .. Burst
       \/ op.kind = "status" /\ op.protect \in BOOLEAN /\ op.quad \in BOOLEAN
    /\ {pc, then} \subseteq {"idle", "init", "protect", "erase", "erased", "call", "write",
                             "poll", "done"}
    /\ wide \in BOOLEAN
    /\ job \in Requests \cup {NoJob}
    /\ erased \in BOOLEAN
    /\ sector \in Nat
    /\ addr \in 0 .. ChipSize
    /\ buf \in 0 .. ChipSize
    /\ rest \in 0 .. ChipSize
    /\ length \in 0 .. ChipSize
    /\ write_len \in 0 .. PageSize
    /\ late \in BOOLEAN
    /\ timeouts \in 0 .. MaxTimeouts
    /\ cut \in BOOLEAN
    /\ area \subseteq {SectorOf(a) : a \in Address}
    /\ jobs \in 0 .. MaxJobs

Init ==
    /\ cells = [a \in Address |-> Junk]
    /\ qe \in BOOLEAN
    /\ protected \in BOOLEAN
    /\ op = Idle
    /\ pc = "idle"
    /\ then = "idle"
    /\ wide = FALSE
    /\ job = NoJob
    /\ erased = FALSE
    /\ sector = 0
    /\ addr = 0
    /\ buf = 0
    /\ rest = 0
    /\ length = 0
    /\ write_len = 0
    /\ late = FALSE
    /\ timeouts = 0
    /\ cut = FALSE
    /\ area = {}
    /\ jobs = 0

-----------------------------------------------------------------------------
(***************************************************************************)
(* The chip                                                                *)
(***************************************************************************)

\* The addresses that a program command reaches, and the index of the byte that
\* ends up at address a: it wraps within the page.
Reached(o) == {PageOf(o.at) * PageSize + ((o.at + k) % PageSize) : k \in 0 .. o.len - 1}
IndexAt(o, a) == o.from + ((a - o.at) % PageSize)

\* NOR programming only clears bits.
Programmed(old, new) == IF old \in {Blank, new} THEN new ELSE Junk

\* The addresses whose content the command changes, and what it is then.
Affected(o) == CASE o.kind = "erase"   -> {a \in Address : SectorOf(a) = o.sector}
                 [] o.kind = "program" -> Reached(o)
                 [] OTHER              -> {}
Result(o, a) == IF o.kind = "erase" THEN Blank ELSE Programmed(cells[a], IndexAt(o, a))

\* The chip is done with its command.
ChipDone ==
    /\ op # Idle
    /\ cells' = [a \in Address |-> IF a \in Affected(op) THEN Result(op, a) ELSE cells[a]]
    /\ IF op.kind = "status" THEN protected' = op.protect /\ qe' = op.quad
       ELSE UNCHANGED <<protected, qe>>
    /\ op' = Idle
    /\ UNCHANGED <<pc, then, wide, caller, loop>>

\* flash_write_enable, which the driver sends before each command that writes, sets
\* the latch if the chip is idle; the latch is reset when the chip is done.
WriteEnabled == op = Idle

\* The chip takes a command to change bytes, or ignores it.
Take(o) == op' = IF WriteEnabled /\ ~protected THEN o ELSE op

-----------------------------------------------------------------------------
(***************************************************************************)
(* The driver                                                              *)
(***************************************************************************)

Poll(next) == pc' = "poll" /\ then' = next

\* flash_check_status: the busy bit was read as zero.
FlashCheckStatus ==
    /\ pc = "poll"
    /\ op = Idle
    /\ pc' = then
    /\ UNCHANGED <<chip, op, then, wide, caller, loop>>

\* It was not, in all the rounds: FLASH_BUSY is returned, to nobody.
FlashOperationTimeout ==
    /\ pc = "poll"
    /\ op # Idle
    /\ timeouts < MaxTimeouts
    /\ pc' = then
    /\ late' = TRUE
    /\ timeouts' = timeouts + 1
    /\ UNCHANGED <<chip, op, then, wide, job, erased, cut, area, jobs, loop>>

\* flash_init, and flash_enable_quad_mode with flash_write_status_reg: the quad bit
\* is set if it is not, and the protection is written back as it is read.
FlashInit ==
    /\ pc = "init"
    /\ wide' = TRUE
    /\ op' = IF ~qe /\ WriteEnabled THEN Status(protected, TRUE) ELSE op
    /\ Poll(IF erased THEN "call" ELSE "protect")
    /\ UNCHANGED <<chip, caller, loop>>

\* flash_disable_protect: of the second register, the quad bit is kept.
QuadKeptNot == FALSE                               \* mutant: reg2 & 0x01
QuadKept == qe
FlashDisableProtect ==
    /\ pc = "protect"
    /\ op' = IF WriteEnabled THEN Status(FALSE, QuadKept) ELSE op
    /\ Poll("erase")
    /\ UNCHANGED <<chip, wide, caller, loop>>

FlashSectorErase ==
    /\ pc = "erase"
    /\ Take(Erase(SectorOf(job.offset) + sector))
    /\ Poll("erased")
    /\ UNCHANGED <<chip, wide, caller, loop>>

\* flash_page_program or flash_quad_page_program, of len bytes.
FlashPageProgram(len) ==
    IF wide => qe THEN Take(Program(addr, buf, len)) ELSE UNCHANGED op

\* What is left of the page, and with it write_len.
PageRemainBeyond == PageSize                       \* mutant: the page is not split
PageRemain == PageSize - (addr % PageSize)
Lesser(a, b) == IF a < b THEN a ELSE b

\* One round of the inner loop of flash_write_data, after one of the outer loop if
\* the page is complete.
FlashWriteData ==
    /\ pc = "write"
    /\ length > 0 \/ write_len > 0
    /\ LET page == IF write_len > 0 THEN write_len ELSE Lesser(length, PageRemain)
           len  == Lesser(page, Burst)
       IN  /\ FlashPageProgram(len)
           /\ addr' = addr + len
           /\ buf' = buf + len
           /\ write_len' = page - len
           /\ length' = IF write_len > 0 THEN length ELSE length - page
    /\ Poll("write")
    /\ UNCHANGED <<chip, wide, caller, sector, rest>>

\* Its last flash_check_status.
FlashWriteDone ==
    /\ pc = "write"
    /\ length = 0 /\ write_len = 0
    /\ Poll(IF job.kind = "backup" /\ buf = Header[2] THEN "init" ELSE "call")
    /\ UNCHANGED <<chip, op, wide, caller, loop>>

-----------------------------------------------------------------------------
(***************************************************************************)
(* The commands                                                            *)
(***************************************************************************)

Start(j) ==
    /\ pc = "idle"
    /\ jobs < MaxJobs
    /\ pc' = "init"
    /\ job' = j
    /\ jobs' = jobs + 1
    /\ erased' = FALSE
    /\ late' = (op # Idle)
    /\ cut' = FALSE
    /\ area' = Sectors(j) \cup (IF op # Idle THEN area ELSE {})
    /\ sector' = 0
    /\ addr' = j.offset
    /\ buf' = 0
    /\ rest' = j.length
    /\ length' = 0
    /\ write_len' = 0
    /\ UNCHANGED <<chip, op, then, wide, timeouts>>

\* The sectors that do_flash_erase erases, rounded up.
SectorCount == job.length \div SectorSize + (IF job.length % SectorSize = 0 THEN 0 ELSE 1)

\* After a sector: the next one, or the end of do_flash_erase, or a ^C.  flwrite
\* looks at what do_flash_erase returns, flash_image_backup does not.  flwrite goes on
\* to do_flash_write; flash_image_backup writes the header first.
NextSectorSame == sector                           \* mutant: i++ is missing
NextSector == sector + 1
AfterErase == IF job.kind = "flwrite" THEN "init" ELSE "call"
CutIgnored == IF job.kind = "flerase" THEN "done" ELSE AfterErase  \* mutant: for flwrite too
AfterCut == IF job.kind = "backup" THEN AfterErase ELSE "done"
SectorErased ==
    /\ pc = "erased"
    /\ sector' = NextSector
    /\ \/ /\ sector + 1 < SectorCount
          /\ pc' = "erase"
          /\ UNCHANGED <<erased, cut>>
       \/ /\ sector + 1 >= SectorCount
          /\ pc' = IF job.kind = "flerase" THEN "done" ELSE AfterErase
          /\ erased' = TRUE
          /\ UNCHANGED cut
       \/ /\ pc' = AfterCut
          /\ erased' = TRUE
          /\ cut' = TRUE
    /\ UNCHANGED <<chip, op, then, wide, job, late, timeouts, area, jobs, addr, buf, rest,
                   length, write_len>>

\* The length of the next call of flash_write_data: a part of the header, or what
\* do_flash_write writes at once.
CallLength ==
    IF job.kind = "backup" /\ buf < Header[1] THEN Header[1]
    ELSE IF job.kind = "backup" /\ buf < Header[2] THEN Header[2] - Header[1]
    ELSE Lesser(rest, WriteSize)

CallFlashWriteData ==
    /\ pc = "call"
    /\ rest > 0
    /\ length' = CallLength
    /\ rest' = rest - CallLength
    /\ pc' = "write"
    /\ UNCHANGED <<chip, op, then, wide, caller, sector, addr, buf, write_len>>

AllWritten ==
    /\ pc = "call"
    /\ rest = 0
    /\ pc' = "done"
    /\ UNCHANGED <<chip, op, then, wide, caller, loop>>

Return ==
    /\ pc = "done"
    /\ pc' = "idle"
    /\ job' = NoJob
    /\ UNCHANGED <<chip, op, then, wide, erased, late, timeouts, cut, area, jobs, loop>>

\* The power goes, and tears what the chip is busy with: the bytes of the sector, or those
\* that the program command would change.
TornBy(o) == {a \in Affected(o) : o.kind = "program" => Result(o, a) # cells[a]}
PowerLoss ==
    /\ job # NoJob
    /\ cells' = [a \in Address |-> IF a \in TornBy(op) THEN Junk ELSE cells[a]]
    /\ IF op.kind = "status" THEN protected' \in BOOLEAN /\ qe' \in BOOLEAN
       ELSE UNCHANGED <<protected, qe>>
    /\ op' = Idle
    /\ pc' = "idle"
    /\ job' = NoJob
    /\ UNCHANGED <<then, wide, erased, late, timeouts, cut, area, jobs, loop>>

-----------------------------------------------------------------------------

Driver ==
    \/ FlashCheckStatus \/ FlashOperationTimeout
    \/ FlashInit \/ FlashDisableProtect \/ FlashSectorErase
    \/ FlashWriteData \/ FlashWriteDone
    \/ SectorErased \/ CallFlashWriteData \/ AllWritten \/ Return

Next ==
    \/ ChipDone
    \/ Driver
    \/ PowerLoss
    \/ \E j \in Requests : Start(j)

\* The chip is done some time, but nothing says before the driver gives up.
Spec == Init /\ [][Next]_vars /\ WF_vars(Driver) /\ WF_vars(ChipDone)

-----------------------------------------------------------------------------
(***************************************************************************)
(* Properties                                                              *)
(***************************************************************************)

\* Nothing is erased or written outside the sectors of the requests whose commands
\* the chip may still have, also if the driver goes on before the chip is done.
Confined == [][\A a \in Address : cells'[a] # cells[a] => SectorOf(a) \in area]_vars

\* A command that writes never reaches a chip that ignores it (because it is busy, or
\* protected, or not in quad mode), unless the chip outlasted the polling.
CommandsTaken ==
    /\ pc = "erase" \/ (pc = "write" /\ length + write_len > 0)
    /\ ~late
    => op = Idle /\ ~protected /\ (wide => qe)

\* While a request is written its bytes appear in order: there is a place up to which
\* they are written and from which on they are erased, and when the request is done that
\* is its end.  The boot flow relies on this when the power goes: the digest, which is
\* last, is there only if all the rest is.
Written ==
    erased /\ job # NoJob /\ ~late /\ ~cut =>
        \E k \in 0 .. job.length :
            /\ \A a \in Address :
                   SectorOf(a) \in Sectors(job) =>
                       cells[a] = IF a < job.offset + k THEN a - job.offset ELSE Blank
            /\ pc = "done" /\ job.kind # "flerase" => k = job.length

\* Where the driver is, or goes on when the polling is over.
Stage == IF pc = "poll" THEN then ELSE pc

\* Up to where the bytes are there.
Until == IF op.kind = "program" THEN op.from ELSE buf

\* A request as CellStore sees it: whether it is under way, and how far it is.
Sound == job # NoJob /\ ~late
Done == CASE ~Sound           -> 0
          [] Sound /\ erased  -> Until
          [] Sound /\ ~erased -> IF Stage = "erased" /\ op.kind # "erase" THEN sector + 1
                                 ELSE sector
Phase == IF late THEN "lost" ELSE IF job = NoJob THEN "none"
         ELSE IF erased THEN "program" ELSE "erase"
CutShort == Sound /\ erased /\ cut

Store == INSTANCE CellStore WITH
            request   <- job,
            NoRequest <- NoJob,
            phase     <- Phase,
            done      <- Done,
            cut       <- CutShort

\* With all its enabling, splitting and polling the driver implements the store that Boot
\* takes the flash for: one sector after the other and one byte after the other, also when
\* a ^C or the power ends it; and if a polling timed out, changes stay in the sectors of
\* the requests.
ImplementsCellStore == Store!Spec

\* Every request comes to an end, however slow the chip is.
JobEnds == job # NoJob ~> job = NoJob
=============================================================================
