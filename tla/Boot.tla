------------------------------- MODULE Boot -------------------------------
(***************************************************************************)
(* One boot loader stage of the K210 board: core 0's path through main()   *)
(* of src/main.c, from the check of the backup image to the jump, together *)
(* with the NOR flash that holds the two image slots.  Stage 1 and stage 2 *)
(* run this same code over different slots.                                *)
(*                                                                         *)
(* The flash is kept cell by cell, because the hazards of this code are in *)
(* the order in which a copy erases sectors and programs cells: a power    *)
(* loss or a ^C may fall between any two of those steps.  An image is laid *)
(* out in a slot as                                                        *)
(*                                                                         *)
(*     flag | length | body ... body | SHA-256 over flag, length and body  *)
(*                                                                         *)
(* and SHA-256 is taken as ideal: a digest identifies the image it was     *)
(* computed over.  The contents that a cell can hold are symbolic.         *)
(***************************************************************************)
EXTENDS Integers

CONSTANTS
    Image,          \* the images somebody built and signed (distinct contents)
    Len,            \* Len[m]: body cells of image m (the length field)
    Encrypted,      \* the images whose flag byte asks for AES deciphering
    NoImage,        \* no image: the img field of a cell that needs none
    SlotCells,      \* cells of a slot (FLASH_NEXT_SIZE)
    SectorCells,    \* cells of an erase sector (FLASH_SECTOR_SIZE)
    AesCells,       \* cells of one AES block
    MaxMishaps      \* bound: bit rots and updates while the power is off

\* The slots are whole sectors (64K or 320K of 4K each), a sector holds more than
\* the header, and images are not empty and were built to fit their slot.
ASSUME ConstantsAssumption ==
    /\ SectorCells \in Nat \ {0, 1, 2}
    /\ SlotCells \in Nat \ {0, 1, 2, 3}
    /\ \E n \in 1 .. SlotCells : SlotCells = n * SectorCells
    /\ AesCells \in Nat \ {0}
    /\ MaxMishaps \in Nat
    /\ NoImage \notin Image
    /\ Encrypted \subseteq Image
    /\ Len \in [Image -> 1 .. SlotCells - 3]

VARIABLES
    flash,      \* flash[s][c]: content of cell c of slot s
    pc,         \* where core 0 is in main()
    bakOk,      \* bak_check == 0
    appOk,      \* app_check == 0
    ram,        \* what the RAM at _boot holds
    from,       \* flash_image_backup: the slot it reads
    cursor,     \* next cell to erase or to program in the other slot
    tainted,    \* history: slots whose stored digest vouches for nothing
    mishaps     \* history: bit rots and updates so far

vars == <<flash, pc, bakOk, appOk, ram, from, cursor, tainted, mishaps>>

-----------------------------------------------------------------------------
(***************************************************************************)
(* Cells, images and slots                                                 *)
(***************************************************************************)

Slot == {"APP", "BAK"}
Other(s) == IF s = "APP" THEN "BAK" ELSE "APP"
Cells == 0 .. SlotCells - 1

\* The slots are neighbours: FLASH_BAK_ADDR = FLASH_APP_ADDR + FLASH_NEXT_SIZE.
Base(s) == IF s = "APP" THEN 0 ELSE SlotCells

\* What a cell can hold.  Junk is any content that is neither erased nor part
\* of an image: a torn or rotten cell, or one programmed over other bits.  A
\* length that was programmed lets the image fit (see ConstantsAssumption).
CellValue ==
    {v \in [kind : {"blank", "junk", "flag", "len", "body", "digest"},
            img  : Image \cup {NoImage},
            at   : Cells] : v.kind = "len" => v.at + 2 \in Cells}

Blank == [kind |-> "blank", img |-> NoImage, at |-> 0]
Junk  == [kind |-> "junk",  img |-> NoImage, at |-> 0]

FlagCell(m)    == [kind |-> "flag", img |-> NoImage,
                   at |-> IF m \in Encrypted THEN 1 ELSE 0]
LenCell(m)     == [kind |-> "len", img |-> NoImage, at |-> Len[m]]
BodyCell(m, c) == [kind |-> "body", img |-> m, at |-> c]
DigestCell(m)  == [kind |-> "digest", img |-> m, at |-> 0]

ImageCells(m) == Len[m] + 3

\* The content of cell c of image m, flag first and digest last.
ImageCell(m, c) == IF c = 0 THEN FlagCell(m)
                   ELSE IF c = 1 THEN LenCell(m)
                   ELSE IF c = Len[m] + 2 THEN DigestCell(m)
                   ELSE BodyCell(m, c)

\* The content f of a slot is image m, bit for bit: the digest that
\* flash_image_check recomputes is the stored one.
Contains(f, m) == \A c \in Cells : c < ImageCells(m) => f[c] = ImageCell(m, c)
ImageIn(f) == CHOOSE m \in Image : Contains(f, m)

\* The 32 bytes that flash_image_compare takes for the digest of a slot.  They
\* lie where the length cell says.  An erased length (0xFFFFFFFF) or a torn one
\* points at bytes that are the digest of nothing: Junk.
DigestIn(f) == IF f[1].kind = "len" THEN f[f[1].at + 2] ELSE Junk

Holds(s, m) == Contains(flash[s], m)
Good(s) == \E m \in Image : Holds(s, m)
ImageOf(s) == ImageIn(flash[s])
StoredDigest(s) == DigestIn(flash[s])

\* NOR programming only clears bits: over other content it leaves neither.
Programmed(old, new) == IF old \in {Blank, new} THEN new ELSE Junk

\* The addresses of the erase sector that starts at address a.
SectorAt(a) == {x \in 0 .. 2 * SlotCells - 1 : a <= x /\ x < a + SectorCells}

-----------------------------------------------------------------------------
(***************************************************************************)
(* Core 0                                                                  *)
(***************************************************************************)

\* codes_length is counted down from Len[m] and compared with 0.
AesTerminatesTwo(m) == Len[m] % (2 * AesCells) = 0   \* mutant: two blocks a round
AesTerminates(m) == Len[m] % AesCells = 0

NoRam == [img |-> NoImage, form |-> "unknown"]

TypeOK ==
    /\ flash \in [Slot -> [Cells -> CellValue]]
    /\ pc \in {"off", "checkBak", "checkApp", "compare", "erase", "program",
               "jumped", "failed", "runaway"}
    /\ bakOk \in BOOLEAN
    /\ appOk \in BOOLEAN
    /\ ram \in [img : Image \cup {NoImage}, form : {"unknown", "raw", "plain"}]
    /\ from \in Slot
    /\ cursor \in 0 .. SlotCells
    /\ tainted \in SUBSET Slot
    /\ mishaps \in 0 .. MaxMishaps

\* A slot as it leaves the factory: erased, or erased and then programmed.
ErasedSlot == [c \in Cells |-> Blank]
FactorySlot == {ErasedSlot} \cup
    {[c \in Cells |-> IF c < ImageCells(m) THEN ImageCell(m, c) ELSE Blank] :
        m \in Image}

Init ==
    /\ flash \in [Slot -> FactorySlot]
    /\ pc = "off"
    /\ bakOk = FALSE
    /\ appOk = FALSE
    /\ ram = NoRam
    /\ from = "APP"
    /\ cursor = 0
    /\ tainted = {}
    /\ mishaps = 0

\* Power on: the stage starts and main() reaches the check of the backup.
PowerOn ==
    /\ pc = "off"
    /\ pc' = "checkBak"
    /\ UNCHANGED <<flash, bakOk, appOk, ram, from, cursor, tainted, mishaps>>

\* flash_image_check: read the slot into RAM, recompute the digest, decipher in
\* place.  result' is the verdict of the caller.  An oversize length returns
\* before the RAM is touched; the AES loop counts codes_length down by one
\* block until it is exactly 0, and never ends if a part of a block is left.
FlashImageCheck(s, result, next) ==
    \/ /\ Good(s)
       /\ LET m == ImageOf(s) IN
          IF m \in Encrypted /\ ~AesTerminates(m)
          THEN /\ pc' = "runaway"
               /\ ram' = NoRam
               /\ UNCHANGED result
          ELSE /\ pc' = next
               /\ ram' = [img |-> m, form |-> "plain"]
               /\ result' = TRUE
    \/ /\ ~Good(s)
       /\ pc' = next
       /\ result' = FALSE
       /\ \/ flash[s][1].kind # "len" /\ UNCHANGED ram
          \/ flash[s][1].kind # "blank" /\ ram' = NoRam

CheckBak ==
    /\ pc = "checkBak"
    /\ FlashImageCheck("BAK", bakOk, "checkApp")
    /\ UNCHANGED <<flash, appOk, from, cursor, tainted, mishaps>>

CheckApp ==
    /\ pc = "checkApp"
    /\ FlashImageCheck("APP", appOk, "compare")
    /\ UNCHANGED <<flash, bakOk, from, cursor, tainted, mishaps>>

\* flash_image_compare: only the stored digests are compared.
Differ == StoredDigest("APP") # StoredDigest("BAK")

\* flash_image_backup up to the erase: the raw image, digest included, is read
\* over the RAM that the checks filled.
StartCopy(s) ==
    /\ pc' = "erase"
    /\ from' = s
    /\ cursor' = 0
    /\ ram' = [img |-> ImageOf(s), form |-> "raw"]

\* The branches of main() after the two checks.
RestoreIfBakGood == Differ /\ bakOk               \* mutant: app_check not looked at
GiveUpIfAppBad == ~appOk                          \* mutant: the backup is not tried
GiveUpIfBothBad == Differ /\ ~appOk /\ ~bakOk     \* mutant: no "else if (app_check)"
MustBackUp  == Differ /\ appOk
MustRestore == Differ /\ ~appOk /\ bakOk
MustGiveUp  == IF Differ THEN ~appOk /\ ~bakOk ELSE ~appOk

Decide ==
    /\ pc = "compare"
    /\ \/ MustBackUp /\ StartCopy("APP")
       \/ MustRestore /\ StartCopy("BAK")
       \/ MustGiveUp /\ pc' = "failed" /\ UNCHANGED <<ram, from, cursor>>
       \/ /\ ~MustBackUp /\ ~MustRestore /\ ~MustGiveUp
          /\ pc' = "jumped"
          /\ UNCHANGED <<ram, from, cursor>>
    /\ UNCHANGED <<flash, bakOk, appOk, tainted, mishaps>>

\* The image being copied, and the slot it is copied to.
Copied == ram.img
To == Other(from)

\* The sector that do_flash_erase erases next, and whether it is the last.
Sector == SectorAt(Base(To) + cursor)
LastSectorFloor == cursor + 2 * SectorCells > ImageCells(Copied)  \* mutant: rounds down
LastSectorBeyond == cursor + SectorCells > ImageCells(Copied)     \* mutant: one too many
LastSector == cursor + SectorCells >= ImageCells(Copied)

\* do_flash_erase, one sector: erase it, then look for a ^C on the console.
\* flash_image_backup ignores the error that a ^C makes do_flash_erase return
\* and goes on to program the sectors that were not erased.
EraseSector ==
    /\ pc = "erase"
    /\ flash' = [s \in Slot |-> [c \in Cells |->
                    IF Base(s) + c \in Sector THEN Blank ELSE flash[s][c]]]
    /\ \/ /\ ~LastSector
          /\ cursor' = cursor + SectorCells
          /\ UNCHANGED <<pc, tainted>>
       \/ /\ ~LastSector               \* ^C
          /\ pc' = "program"
          /\ cursor' = 0
          /\ tainted' = tainted \cup {To}
       \/ /\ LastSector                \* a ^C makes no difference any more
          /\ pc' = "program"
          /\ cursor' = 0
          /\ tainted' = tainted \ {To}
    /\ UNCHANGED <<bakOk, appOk, ram, from, mishaps>>

\* The cell that do_flash_write programs last, the digest.
LastCellBody == cursor + 2 = ImageCells(Copied)      \* mutant: FLASH_SHA256_LEN left out
LastCell == cursor + 1 = ImageCells(Copied)

\* flash_write_data of the flag, then of the length, then do_flash_write of the
\* body and the digest: one cell after the other, and then go_boot.
ProgramCell ==
    /\ pc = "program"
    /\ flash' = [flash EXCEPT ![To][cursor] =
                    Programmed(@, ImageCell(Copied, cursor))]
    /\ cursor' = cursor + 1
    /\ pc' = IF LastCell THEN "jumped" ELSE "program"
    /\ UNCHANGED <<bakOk, appOk, ram, from, tainted, mishaps>>

-----------------------------------------------------------------------------
(***************************************************************************)
(* Power loss, and what happens to the flash while the loader is not       *)
(* running                                                                 *)
(***************************************************************************)

\* What the flash may look like when the power goes: the sector being erased
\* is torn, or the cell being programmed, unless no bit of it had to change.
TornErase(f) ==
    {[s \in Slot |-> [c \in Cells |->
        IF Base(s) + c \in Sector
        THEN CASE w[Base(s) + c] = "kept"  -> f[s][c]
               [] w[Base(s) + c] = "blank" -> Blank
               [] w[Base(s) + c] = "junk"  -> Junk
        ELSE f[s][c]]] :
        w \in [Sector -> {"kept", "blank", "junk"}]}

TornProgram(f) ==
    {[f EXCEPT ![To][cursor] = v] :
        v \in LET old == f[To][cursor]
                  new == ImageCell(Copied, cursor)
              IN {old, Programmed(old, new)} \cup (IF old = new THEN {} ELSE {Junk})}

PowerLoss ==
    /\ pc # "off"
    /\ flash' \in CASE pc = "erase"   -> TornErase(flash)
                    [] pc = "program" -> TornProgram(flash)
                    [] OTHER          -> {flash}
    /\ pc' = "off"
    /\ bakOk' = FALSE
    /\ appOk' = FALSE
    /\ ram' = NoRam
    /\ from' = "APP"
    /\ cursor' = 0
    /\ UNCHANGED <<tainted, mishaps>>

\* A cell of a slot decays.
Rot(s, c) ==
    /\ pc = "off"
    /\ mishaps < MaxMishaps
    /\ flash[s][c] # Junk
    /\ flash' = [flash EXCEPT ![s][c] = Junk]
    /\ tainted' = tainted \cup {s}
    /\ mishaps' = mishaps + 1
    /\ UNCHANGED <<pc, bakOk, appOk, ram, from, cursor>>

\* A new image is installed in a slot (by the application or a flashing tool):
\* its sectors are erased and programmed, those beyond are left.  If the other
\* slot still stores this image's digest, over a body that a power loss tore,
\* that digest now vouches for nothing.
Updated(old, m) ==
    [c \in Cells |-> IF c < ImageCells(m) THEN ImageCell(m, c)
                     ELSE IF c \div SectorCells = (ImageCells(m) - 1) \div SectorCells
                     THEN Blank
                     ELSE old[c]]

Update(s, m) ==
    /\ pc = "off"
    /\ mishaps < MaxMishaps
    /\ flash' = [flash EXCEPT ![s] = Updated(@, m)]
    /\ tainted' = (tainted \ {s}) \cup
           {t \in {Other(s)} : StoredDigest(t) = DigestCell(m) /\ ~Holds(t, m)}
    /\ mishaps' = mishaps + 1
    /\ UNCHANGED <<pc, bakOk, appOk, ram, from, cursor>>

-----------------------------------------------------------------------------

Loader == CheckBak \/ CheckApp \/ Decide \/ EraseSector \/ ProgramCell

Environment ==
    \/ PowerOn
    \/ PowerLoss
    \/ \E s \in Slot, c \in Cells : Rot(s, c)
    \/ \E s \in Slot, m \in Image : Update(s, m)

Next == Loader \/ Environment

\* While it has power, core 0 runs; nothing makes the power come or go.
Spec == Init /\ [][Next]_vars /\ WF_vars(Loader)
-----------------------------------------------------------------------------
(***************************************************************************)
(* Properties                                                              *)
(***************************************************************************)

\* Throughout a copy the slot that is read stays bit for bit the image that is
\* being written to the other one, so the copy can always be started again.
SourceKept == pc \in {"erase", "program"} => Copied \in Image /\ Holds(from, Copied)

\* No step of the running loader, a power loss in the middle of a copy included,
\* turns a device that still has a good image into one that has none.
LastGoodKept ==
    [][pc # "off" /\ (\E s \in Slot : Good(s)) => \E s \in Slot : Good(s)']_vars

\* The running loader never writes to an APP slot that passes its check: an
\* update is never rolled back to the backup behind the user's back.
GoodAppUntouched ==
    [][pc # "off" /\ Good("APP") => flash'["APP"] = flash["APP"]]_vars

\* The loader jumps only to an image that passed its check in this boot and is
\* still in its slot: APP's if that passed, else BAK's.
JumpsToChecked ==
    pc = "jumped" => /\ ram.form # "unknown"
                     /\ Holds(IF appOk THEN "APP" ELSE "BAK", ram.img)

\* flash_image_compare looks at nothing but the stored digests.  Whatever power
\* losses left behind, two equal digests mean that a slot no rot, ^C or repeated
\* update has tainted really holds that image.
DigestsTell ==
    \A s \in Slot, m \in Image :
        /\ s \notin tainted
        /\ StoredDigest(s) = DigestCell(m)
        /\ StoredDigest(Other(s)) = DigestCell(m)
        => Holds(s, m)

\* When the next stage is started on an untainted device, both slots hold the
\* image that is started: the redundancy is complete again after every boot.
JumpRedundant ==
    pc = "jumped" /\ tainted = {} => \A s \in Slot : Holds(s, ram.img)

\* The loader gives up only if the application is bad; and on a good backup just in
\* the one case in which main() does not try it (main.c:325, 337): the bad application
\* still stores the backup's digest.  A decayed cell, a ^C or a repeated update of the
\* application brings that about, power losses alone never do.
BackupTriedIfDiffers ==
    pc = "failed" =>
        /\ ~Good("APP")
        /\ Good("BAK") => /\ StoredDigest("APP") = StoredDigest("BAK")
                          /\ "APP" \in tainted

\* The invariant that the proofs are built on.  Checked: what the verdicts of
\* the two checks say of the slots.
Checked ==
    /\ pc = "checkApp" => (bakOk <=> Good("BAK"))
    /\ pc = "compare" => /\ bakOk <=> Good("BAK")
                         /\ appOk <=> Good("APP")
                         /\ appOk => ram = [img |-> ImageOf("APP"), form |-> "plain"]

\* Which copy is under way, and how far it may have got.
Copying ==
    pc \in {"erase", "program"} => /\ ram.form = "raw"
                                   /\ appOk <=> from = "APP"
                                   /\ cursor < ImageCells(Copied)

\* While sectors are erased, those below the cursor are empty, the other slot
\* does not show the digest of the image being copied, and an application that is
\* written over is bad.
Erasing ==
    pc = "erase" => /\ \E k \in 0 .. SlotCells : cursor = k * SectorCells
                    /\ \A c \in Cells : c < cursor => flash[To][c] = Blank
                    /\ StoredDigest(To) # DigestCell(Copied)
                    /\ from = "BAK" => ~Good("APP")

\* While cells are programmed, those up to the cursor are the image's and those
\* beyond it are erased: at least in the first sector, and everywhere unless a
\* ^C cut the erase short.
Programming ==
    pc = "program" =>
        \A c \in Cells :
            c < ImageCells(Copied) /\ (c < SectorCells \/ To \notin tainted)
            => flash[To][c] = IF c < cursor THEN ImageCell(Copied, c) ELSE Blank

IInv ==
    /\ TypeOK
    /\ Checked
    /\ Copying
    /\ SourceKept
    /\ Erasing
    /\ Programming
    /\ DigestsTell
    /\ JumpsToChecked
    /\ JumpRedundant
    /\ BackupTriedIfDiffers

\* The slots seen as whole images: the abstract state of ImageStore.
GoodImages == [s \in Slot |-> IF Good(s) THEN ImageOf(s) ELSE NoImage]

Store == INSTANCE ImageStore WITH
            good    <- GoodImages,
            powered <- pc # "off",
            started <- IF pc = "jumped" THEN ram.img ELSE NoImage

\* Cell by cell, with every tear and ^C, the loader implements the store of
\* whole images: it loses or renews only copies of an image it still has, never
\* touches a good application, and starts the application before the backup.
ImplementsStore == Store!Spec

\* A slot holds an encrypted image that is not made of whole AES blocks.
PartialBlock ==
    \E s \in Slot, m \in Encrypted :
        Holds(s, m) /\ \A k \in 1 .. SlotCells : Len[m] # k * AesCells

\* Every boot comes to an end: a jump, a refusal, or, only if the image in a
\* slot is not whole AES blocks, a deciphering loop that runs away.
BootEnds ==
    pc = "checkBak" ~>
        (pc \in {"off", "jumped", "failed"} \/ (pc = "runaway" /\ PartialBlock))

\* What the comment "TO run later, we must check APP last" (main.c:319) asks
\* for: what the loader jumps to can run, that is, it is not ciphertext.
JumpsToRunnable ==
    pc = "jumped" => ram.form = "plain" \/ ram.img \notin Encrypted
=============================================================================
