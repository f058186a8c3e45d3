----------------------------- MODULE BootProofs -----------------------------
(***************************************************************************)
(* Proofs about Boot for every set of images, every slot and sector size   *)
(* and any number of mishaps: the inductive invariant IInv, the safety     *)
(* properties that follow from it, and that Boot implements ImageStore.    *)
(***************************************************************************)
EXTENDS Boot, TLAPS

-----------------------------------------------------------------------------
(***************************************************************************)
(* Images and slots                                                        *)
(***************************************************************************)

\* What the cells of an image are: the first three and the last one, and that
\* none of them is erased or junk.
LEMMA ImageFacts ==
    ASSUME NEW m \in Image
    PROVE  /\ Len[m] \in 1 .. SlotCells - 3
           /\ ImageCells(m) \in 4 .. SlotCells
           /\ ImageCell(m, 0) = FlagCell(m)
           /\ ImageCell(m, 1) = LenCell(m)
           /\ ImageCell(m, 2) = BodyCell(m, 2)
           /\ ImageCell(m, Len[m] + 2) = DigestCell(m)
           /\ \A c \in Cells : /\ ImageCell(m, c) \in CellValue
                               /\ ImageCell(m, c) # Blank
                               /\ ImageCell(m, c) # Junk
<1>1. Len[m] \in 1 .. SlotCells - 3 /\ SlotCells \in Nat
  BY ConstantsAssumption
<1>2. ImageCells(m) \in 4 .. SlotCells
  BY <1>1 DEF ImageCells
<1>3. /\ ImageCell(m, 0) = FlagCell(m)
      /\ ImageCell(m, 1) = LenCell(m)
      /\ ImageCell(m, 2) = BodyCell(m, 2)
      /\ ImageCell(m, Len[m] + 2) = DigestCell(m)
  BY <1>1 DEF ImageCell
<1>4. ASSUME NEW c \in Cells
      PROVE  /\ ImageCell(m, c) \in CellValue
             /\ ImageCell(m, c) # Blank
             /\ ImageCell(m, c) # Junk
  BY <1>1, <1>4 DEF ImageCell, FlagCell, LenCell, BodyCell, DigestCell,
                    CellValue, Cells, Blank, Junk
<1>5. QED
  BY <1>1, <1>2, <1>3, <1>4

\* A slot that contains an image stores its length and its digest.
LEMMA ContainsFacts ==
    ASSUME NEW f, NEW m \in Image, Contains(f, m)
    PROVE  /\ f[0] = FlagCell(m)
           /\ f[1] = LenCell(m)
           /\ f[2] = BodyCell(m, 2)
           /\ DigestIn(f) = DigestCell(m)
<1>1. /\ 0 \in Cells /\ 1 \in Cells /\ 2 \in Cells /\ Len[m] + 2 \in Cells
      /\ 2 < ImageCells(m) /\ Len[m] + 2 < ImageCells(m)
  BY ImageFacts, ConstantsAssumption DEF Cells, ImageCells
<1>2. /\ f[0] = FlagCell(m)
      /\ f[1] = LenCell(m)
      /\ f[2] = BodyCell(m, 2)
      /\ f[Len[m] + 2] = DigestCell(m)
  BY <1>1, ImageFacts DEF Contains
<1>3. QED
  BY <1>2 DEF DigestIn, LenCell

\* A slot contains at most one image, so ImageIn names it.
LEMMA ContainsOne ==
    ASSUME NEW f, NEW m \in Image, NEW n \in Image, Contains(f, m), Contains(f, n)
    PROVE  m = n
<1>1. BodyCell(m, 2) = BodyCell(n, 2)
  BY ContainsFacts
<1>2. QED
  BY <1>1 DEF BodyCell

LEMMA ImageInContains ==
    ASSUME NEW f, NEW m \in Image, Contains(f, m)
    PROVE  ImageIn(f) = m
<1>1. ImageIn(f) \in Image /\ Contains(f, ImageIn(f))
  BY DEF ImageIn
<1>2. QED
  BY <1>1, ContainsOne

\* A digest belongs to one image.
LEMMA DigestOfOne ==
    ASSUME NEW m \in Image, NEW n \in Image, DigestCell(m) = DigestCell(n)
    PROVE  m = n
  BY DEF DigestCell

\* Erasing or tearing cells of a slot makes no image and no digest appear.
LEMMA WipedFacts ==
    ASSUME NEW f \in [Cells -> CellValue], NEW g \in [Cells -> CellValue],
           \A c \in Cells : g[c] \in {f[c], Blank, Junk},
           NEW m \in Image
    PROVE  /\ Contains(g, m) => Contains(f, m)
           /\ DigestIn(g) = DigestCell(m) => DigestIn(f) = DigestCell(m)
<1>1. Contains(g, m) => Contains(f, m)
  BY ImageFacts DEF Contains, Cells
<1>2. ASSUME DigestIn(g) = DigestCell(m) PROVE DigestIn(f) = DigestCell(m)
  <2>1. 1 \in Cells
    BY ConstantsAssumption DEF Cells
  <2>2. DigestCell(m) # Junk /\ DigestCell(m) # Blank
    BY DEF DigestCell, Junk, Blank
  <2>3. g[1].kind = "len" /\ DigestIn(g) = g[g[1].at + 2]
    BY <1>2, <2>2 DEF DigestIn
  <2>4. g[1] = f[1]
    BY <2>1, <2>3 DEF Blank, Junk
  <2>5. f[1].at + 2 \in Cells
    BY <2>1, <2>3, <2>4 DEF CellValue
  <2>6. QED
    BY <1>2, <2>2, <2>3, <2>4, <2>5 DEF DigestIn
<1>3. QED
  BY <1>1, <1>2

-----------------------------------------------------------------------------
(***************************************************************************)
(* What one step of a copy does to the flash                               *)
(***************************************************************************)

\* Whole sectors never reach over the end of a slot.
LEMMA SectorFits ==
    ASSUME NEW k \in Nat, k * SectorCells < SlotCells
    PROVE  k * SectorCells + SectorCells <= SlotCells
<1>1. PICK n \in 1 .. SlotCells : SlotCells = n * SectorCells
  BY ConstantsAssumption
<1>2. SectorCells \in Nat /\ SectorCells > 0 /\ n \in Nat
  BY ConstantsAssumption, <1>1
<1>3. ~(n <= k)
  <2>1. SUFFICES ASSUME n <= k PROVE FALSE
    OBVIOUS
  <2>2. n * SectorCells <= k * SectorCells
    BY <1>2, <2>1
  <2>3. QED
    BY <1>1, <1>2, <2>2
<1>4. (k + 1) * SectorCells <= n * SectorCells
  <2>1. k + 1 <= n
    BY <1>2, <1>3
  <2>2. QED
    BY <1>2, <2>1
<1>5. (k + 1) * SectorCells = k * SectorCells + SectorCells
  BY <1>2
<1>6. QED
  BY <1>1, <1>4, <1>5

LEMMA MultipleBound ==
    ASSUME NEW a \in Nat, NEW b \in Nat, b > 0
    PROVE  a <= a * b
<1>1. b - 1 \in Nat /\ a * b = a * (b - 1) + a
  OBVIOUS
<1>2. a * (b - 1) \in Nat
  BY <1>1
<1>3. QED
  BY <1>1, <1>2

LEMMA SlotFacts ==
    /\ Slot = {"APP", "BAK"}
    /\ \A s \in Slot : Other(s) \in Slot /\ Other(s) # s /\ Other(Other(s)) = s
    /\ \A s \in Slot, t \in Slot : t = s \/ t = Other(s)
  BY DEF Slot, Other

\* The sector being erased lies in the slot that is written.
LEMMA SectorOfTo ==
    ASSUME IInv, pc = "erase"
    PROVE  /\ To \in Slot /\ from \in Slot /\ To # from
           /\ cursor \in Nat /\ cursor + SectorCells <= SlotCells
           /\ \A s \in Slot, c \in Cells :
                 Base(s) + c \in Sector
                    <=> s = To /\ cursor <= c /\ c < cursor + SectorCells
<1>1. /\ SectorCells \in Nat /\ SectorCells > 2
      /\ SlotCells \in Nat /\ SlotCells > 3
  BY ConstantsAssumption
<1>2. To \in Slot /\ from \in Slot /\ To # from
  BY SlotFacts DEF IInv, TypeOK, To
<1>3. Copied \in Image /\ cursor < ImageCells(Copied)
  BY DEF IInv, SourceKept, Copying
<1>4. cursor \in Nat /\ cursor < SlotCells
  BY <1>1, <1>3, ImageFacts DEF IInv, TypeOK
<1>5. cursor + SectorCells <= SlotCells
  <2>1. PICK k \in 0 .. SlotCells : cursor = k * SectorCells
    BY DEF IInv, Erasing
  <2>2. k \in Nat /\ k * SectorCells < SlotCells
    BY <1>4, <2>1
  <2>3. QED
    BY <2>1, <2>2, SectorFits
<1>6. ASSUME NEW s \in Slot, NEW c \in Cells
      PROVE  Base(s) + c \in Sector
                <=> s = To /\ cursor <= c /\ c < cursor + SectorCells
  BY <1>1, <1>2, <1>4, <1>5 DEF Sector, SectorAt, Base, Cells, Slot
<1>7. QED
  BY <1>2, <1>4, <1>5, <1>6

\* Wiping cells of the slot that is written, by an erase or by a power loss in
\* the middle of one, keeps the source and makes no digest of it appear.
LEMMA WipedSlot ==
    ASSUME IInv, pc = "erase",
           flash' \in [Slot -> [Cells -> CellValue]],
           flash'[from] = flash[from],
           \A c \in Cells : flash'[To][c] \in {flash[To][c], Blank, Junk}
    PROVE  /\ Contains(flash'[from], Copied)
           /\ DigestIn(flash'[To]) # DigestCell(Copied)
           /\ \A m \in Image : Contains(flash'[To], m) => Contains(flash[To], m)
           /\ \A s \in Slot, m \in Image :
                 /\ DigestIn(flash'[s]) = DigestCell(m)
                 /\ DigestIn(flash'[Other(s)]) = DigestCell(m)
                 => Contains(flash'[s], m)
<1>1. To \in Slot /\ from \in Slot /\ To = Other(from) /\ Other(To) = from
  BY SlotFacts DEF IInv, TypeOK, To
<1>2. flash[To] \in [Cells -> CellValue] /\ flash'[To] \in [Cells -> CellValue]
  BY <1>1 DEF IInv, TypeOK
<1>3. Copied \in Image /\ Contains(flash'[from], Copied)
  BY DEF IInv, SourceKept, Holds
<1>4. \A m \in Image :
         /\ Contains(flash'[To], m) => Contains(flash[To], m)
         /\ DigestIn(flash'[To]) = DigestCell(m) => DigestIn(flash[To]) = DigestCell(m)
  BY <1>2, WipedFacts
<1>5. DigestIn(flash'[To]) # DigestCell(Copied)
  BY <1>3, <1>4 DEF IInv, Erasing, StoredDigest
<1>6. DigestIn(flash'[from]) = DigestCell(Copied)
  BY <1>3, ContainsFacts
<1>7. ASSUME NEW s \in Slot, NEW m \in Image,
             DigestIn(flash'[s]) = DigestCell(m),
             DigestIn(flash'[Other(s)]) = DigestCell(m)
      PROVE  Contains(flash'[s], m)
  <2>1. DigestIn(flash'[from]) = DigestCell(m) /\ DigestIn(flash'[To]) = DigestCell(m)
    BY <1>1, <1>7, SlotFacts
  <2>2. QED
    BY <1>5, <1>6, <2>1
<1>8. QED
  BY <1>3, <1>4, <1>5, <1>7

-----------------------------------------------------------------------------
(***************************************************************************)
(* The inductive invariant                                                 *)
(***************************************************************************)

\* A factory slot is erased, or holds the image whose digest it stores.
LEMMA FactoryFacts ==
    ASSUME NEW f \in FactorySlot
    PROVE  /\ f \in [Cells -> CellValue]
           /\ \A m \in Image : DigestIn(f) = DigestCell(m) => Contains(f, m)
<1>1. 1 \in Cells /\ Blank \in CellValue
  BY ConstantsAssumption DEF Cells, CellValue, Blank
<1>2. CASE f = ErasedSlot
  <2>1. f \in [Cells -> CellValue]
    BY <1>1, <1>2 DEF ErasedSlot
  <2>2. DigestIn(f) = Junk
    BY <1>1, <1>2 DEF ErasedSlot, DigestIn, Blank
  <2>3. QED
    BY <2>1, <2>2 DEF DigestCell, Junk
<1>3. ASSUME NEW m \in Image,
             f = [c \in Cells |-> IF c < ImageCells(m) THEN ImageCell(m, c) ELSE Blank]
      PROVE  /\ f \in [Cells -> CellValue]
             /\ \A n \in Image : DigestIn(f) = DigestCell(n) => Contains(f, n)
  <2>1. f \in [Cells -> CellValue]
    BY <1>1, <1>3, ImageFacts
  <2>2. Contains(f, m)
    BY <1>3 DEF Contains
  <2>3. DigestIn(f) = DigestCell(m)
    BY <2>2, ContainsFacts
  <2>4. QED
    BY <2>1, <2>2, <2>3, DigestOfOne
<1>4. QED
  BY <1>2, <1>3 DEF FactorySlot

LEMMA InitIInv == Init => IInv
<1> SUFFICES ASSUME Init PROVE IInv
  OBVIOUS
<1>1. TypeOK
  <2>1. flash \in [Slot -> [Cells -> CellValue]]
    BY FactoryFacts DEF Init
  <2>2. ram \in [img : Image \cup {NoImage}, form : {"unknown", "raw", "plain"}]
    BY DEF Init, NoRam
  <2>3. cursor \in 0 .. SlotCells /\ mishaps \in 0 .. MaxMishaps
    BY ConstantsAssumption DEF Init
  <2>4. QED
    BY <2>1, <2>2, <2>3 DEF Init, TypeOK, Slot
<1>2. DigestsTell
  BY FactoryFacts DEF Init, DigestsTell, StoredDigest, Holds
<1>3. QED
  BY <1>1, <1>2 DEF Init, IInv, Checked, Copying, SourceKept, Erasing, Programming,
                    JumpsToChecked, JumpRedundant, BackupTriedIfDiffers

\* Nothing that the invariant says of the slots changes in a step that leaves
\* them and the history alone.
LEMMA SlotsUnchanged ==
    ASSUME UNCHANGED <<flash, tainted>>
    PROVE  /\ DigestsTell => DigestsTell'
           /\ \A s : Good(s)' = Good(s) /\ ImageOf(s)' = ImageOf(s)
           /\ \A s, m : Holds(s, m)' = Holds(s, m)
           /\ \A s : StoredDigest(s)' = StoredDigest(s)
  BY DEF DigestsTell, Good, ImageOf, Holds, StoredDigest

LEMMA PowerOnIInv ==
    ASSUME IInv, PowerOn PROVE IInv'
<1> USE DEF PowerOn
<1>1. TypeOK'
  BY DEF IInv, TypeOK
<1>2. DigestsTell'
  BY SlotsUnchanged DEF IInv
<1>3. QED
  BY <1>1, <1>2 DEF IInv, Checked, Copying, SourceKept, Erasing, Programming,
                    JumpsToChecked, JumpRedundant, BackupTriedIfDiffers

\* The image that a good slot holds.
LEMMA ImageOfGood ==
    ASSUME NEW s, Good(s)
    PROVE  ImageOf(s) \in Image /\ Holds(s, ImageOf(s))
  BY DEF Good, ImageOf, ImageIn, Holds

\* A check leaves in RAM what it says it does.
LEMMA CheckedRam ==
    ASSUME IInv, NEW s \in Slot,
           \/ Good(s) /\ ram' \in {NoRam, [img |-> ImageOf(s), form |-> "plain"]}
           \/ ram' \in {ram, NoRam}
    PROVE  ram' \in [img : Image \cup {NoImage}, form : {"unknown", "raw", "plain"}]
<1>1. CASE ram' \in {ram, NoRam}
  BY <1>1 DEF IInv, TypeOK, NoRam
<1>2. CASE Good(s) /\ ram' = [img |-> ImageOf(s), form |-> "plain"]
  BY <1>2, ImageOfGood
<1>3. QED
  BY <1>1, <1>2

LEMMA CheckBakIInv ==
    ASSUME IInv, CheckBak PROVE IInv'
<1> USE DEF CheckBak
<1>1. TypeOK'
  <2>1. ram' \in [img : Image \cup {NoImage}, form : {"unknown", "raw", "plain"}]
    BY CheckedRam DEF FlashImageCheck, Slot
  <2>2. QED
    BY <2>1 DEF FlashImageCheck, IInv, TypeOK
<1>2. DigestsTell'
  BY SlotsUnchanged DEF IInv
<1>3. pc' = "checkApp" => (bakOk' <=> Good("BAK")')
  BY SlotsUnchanged DEF FlashImageCheck
<1>4. pc' \in {"checkApp", "runaway"}
  BY DEF FlashImageCheck
<1>5. QED
  BY <1>1, <1>2, <1>3, <1>4
     DEF IInv, Checked, Copying, SourceKept, Erasing, Programming,
         JumpsToChecked, JumpRedundant, BackupTriedIfDiffers

LEMMA CheckAppIInv ==
    ASSUME IInv, CheckApp PROVE IInv'
<1> USE DEF CheckApp
<1>1. TypeOK'
  <2>1. ram' \in [img : Image \cup {NoImage}, form : {"unknown", "raw", "plain"}]
    BY CheckedRam DEF FlashImageCheck, Slot
  <2>2. QED
    BY <2>1 DEF FlashImageCheck, IInv, TypeOK
<1>2. DigestsTell'
  BY SlotsUnchanged DEF IInv
<1>3. pc' \in {"compare", "runaway"}
  BY DEF FlashImageCheck
<1>4. pc' = "compare" => /\ bakOk' <=> Good("BAK")'
                         /\ appOk' <=> Good("APP")'
                         /\ appOk' => ram' = [img |-> ImageOf("APP")', form |-> "plain"]
  BY SlotsUnchanged DEF FlashImageCheck, IInv, Checked
<1>5. QED
  BY <1>1, <1>2, <1>3, <1>4
     DEF IInv, Checked, Copying, SourceKept, Erasing, Programming,
         JumpsToChecked, JumpRedundant, BackupTriedIfDiffers

\* The decision: a copy starts only from a good slot, and over a slot with
\* another digest.
LEMMA DecideIInv ==
    ASSUME IInv, Decide PROVE IInv'
<1> USE DEF Decide
<1>1. /\ pc = "compare" /\ UNCHANGED <<flash, bakOk, appOk, tainted, mishaps>>
      /\ bakOk <=> Good("BAK")
      /\ appOk <=> Good("APP")
      /\ appOk => ram = [img |-> ImageOf("APP"), form |-> "plain"]
  BY DEF IInv, Checked
<1>2. DigestsTell'
  BY <1>1, SlotsUnchanged DEF IInv
<1>3. ASSUME NEW s \in Slot, Differ, Good(s), StartCopy(s),
             appOk <=> s = "APP"
      PROVE  IInv'
  <2>1. ImageOf(s) \in Image /\ Holds(s, ImageOf(s))
    BY <1>3, ImageOfGood
  <2>2. /\ pc' = "erase" /\ from' = s /\ cursor' = 0
        /\ ram' = [img |-> ImageOf(s), form |-> "raw"]
        /\ Copied' = ImageOf(s) /\ To' = Other(s)
    BY <1>3 DEF StartCopy, Copied, To
  <2>3. TypeOK'
    <3>1. ram' \in [img : Image \cup {NoImage}, form : {"unknown", "raw", "plain"}]
      BY <2>1, <2>2
    <3>2. cursor' \in 0 .. SlotCells
      BY <2>2, ConstantsAssumption
    <3>3. QED
      BY <1>1, <2>2, <3>1, <3>2 DEF IInv, TypeOK
  <2>4. SourceKept' /\ Copying'
    <3>1. 0 < ImageCells(ImageOf(s))
      BY <2>1, ImageFacts
    <3>2. Holds(s, ImageOf(s))'
      BY <1>1, <2>1, SlotsUnchanged
    <3>3. QED
      BY <1>1, <1>3, <2>1, <2>2, <3>1, <3>2 DEF SourceKept, Copying, Holds
  <2>5. Erasing'
    <3>1. 0 \in 0 .. SlotCells /\ 0 = 0 * SectorCells
      BY ConstantsAssumption
    <3>2. StoredDigest(s) = DigestCell(ImageOf(s))
      BY <2>1, ContainsFacts DEF StoredDigest, Holds
    <3>3. StoredDigest(Other(s)) # DigestCell(ImageOf(s))
      BY <1>3, <3>2 DEF Differ, Slot, Other
    <3>4. s = "BAK" => ~Good("APP")'
      BY <1>1, <1>3, SlotsUnchanged
    <3>5. \A c \in Cells : ~(c < 0)
      BY ConstantsAssumption DEF Cells
    <3>6. QED
      BY <1>1, <2>2, <3>1, <3>3, <3>4, <3>5 DEF Erasing, StoredDigest
  <2>6. QED
    BY <1>2, <2>2, <2>3, <2>4, <2>5
       DEF IInv, Checked, Programming, JumpsToChecked, JumpRedundant, BackupTriedIfDiffers
<1>4. ASSUME MustGiveUp, pc' = "failed", UNCHANGED <<ram, from, cursor>>
      PROVE  IInv'
  <2>1. TypeOK'
    BY <1>1, <1>4 DEF IInv, TypeOK
  <2>2. ~Good("APP")
    BY <1>1, <1>4 DEF MustGiveUp
  <2>3. ASSUME Good("BAK")
        PROVE  StoredDigest("APP") = StoredDigest("BAK") /\ "APP" \in tainted
    <3>1. PICK m \in Image : Holds("BAK", m)
      BY <2>3 DEF Good
    <3>2. StoredDigest("APP") = StoredDigest("BAK")
      BY <1>1, <1>4, <2>3 DEF MustGiveUp, Differ
    <3>3. StoredDigest("BAK") = DigestCell(m) /\ StoredDigest("APP") = DigestCell(m)
      BY <3>1, <3>2, ContainsFacts DEF Holds, StoredDigest
    <3>4. "APP" \notin tainted => Holds("APP", m)
      BY <3>1, <3>3 DEF IInv, DigestsTell, Slot, Other
    <3>5. QED
      BY <2>2, <3>2, <3>4 DEF Good
  <2>4. BackupTriedIfDiffers'
    BY <1>1, <2>2, <2>3, SlotsUnchanged DEF BackupTriedIfDiffers
  <2>5. QED
    BY <1>2, <1>4, <2>1, <2>4
       DEF IInv, Checked, Copying, SourceKept, Erasing, Programming,
           JumpsToChecked, JumpRedundant
<1>5. ASSUME ~MustBackUp, ~MustRestore, ~MustGiveUp,
             pc' = "jumped", UNCHANGED <<ram, from, cursor>>
      PROVE  IInv'
  <2>1. TypeOK'
    BY <1>1, <1>5 DEF IInv, TypeOK
  <2>2. appOk /\ ~Differ
    BY <1>5 DEF MustBackUp, MustRestore, MustGiveUp
  <2>3. PICK m \in Image : ram.img = m /\ Holds("APP", m) /\ ram.form = "plain"
    BY <1>1, <2>2, ImageOfGood
  <2>4. tainted = {} => Holds("BAK", m)
    <3>1. StoredDigest("BAK") = DigestCell(m) /\ StoredDigest("APP") = DigestCell(m)
      BY <2>2, <2>3, ContainsFacts DEF Holds, StoredDigest, Differ
    <3>2. QED
      BY <3>1 DEF IInv, DigestsTell, Slot, Other
  <2>5. JumpsToChecked' /\ JumpRedundant'
    BY <1>1, <1>5, <2>2, <2>3, <2>4 DEF JumpsToChecked, JumpRedundant, Holds, Slot
  <2>6. QED
    BY <1>2, <1>5, <2>1, <2>5
       DEF IInv, Checked, Copying, SourceKept, Erasing, Programming, BackupTriedIfDiffers
<1>6. QED
  <2>1. CASE MustBackUp /\ StartCopy("APP")
    BY <1>1, <1>3, <2>1 DEF MustBackUp, Slot
  <2>2. CASE MustRestore /\ StartCopy("BAK")
    BY <1>1, <1>3, <2>2 DEF MustRestore, Slot
  <2>3. QED
    BY <1>4, <1>5, <2>1, <2>2

\* An erase blanks the sector in the slot that is written, and nothing else.
LEMMA ErasedFlash ==
    ASSUME IInv, EraseSector
    PROVE  /\ flash' \in [Slot -> [Cells -> CellValue]]
           /\ flash'[from] = flash[from]
           /\ \A c \in Cells :
                 flash'[To][c] = IF cursor <= c /\ c < cursor + SectorCells
                                 THEN Blank ELSE flash[To][c]
<1> USE DEF EraseSector
<1>1. Blank \in CellValue
  BY ConstantsAssumption DEF CellValue, Cells, Blank
<1>2. flash \in [Slot -> [Cells -> CellValue]]
  BY DEF IInv, TypeOK
<1>3. flash' \in [Slot -> [Cells -> CellValue]]
  BY <1>1, <1>2
<1>4. flash'[from] = flash[from]
  BY <1>2, SectorOfTo
<1>5. QED
  BY <1>3, <1>4, SectorOfTo

LEMMA EraseSectorIInv ==
    ASSUME IInv, EraseSector PROVE IInv'
<1> USE DEF EraseSector
<1>1. /\ pc = "erase" /\ from' = from /\ ram' = ram /\ appOk' = appOk
      /\ Copied' = Copied /\ To' = To
  BY DEF Copied, To
<1>2. /\ Copied \in Image /\ Holds(from, Copied) /\ ram.form = "raw"
      /\ appOk <=> from = "APP"
      /\ ImageCells(Copied) \in 4 .. SlotCells
  BY <1>1, ImageFacts DEF IInv, SourceKept, Copying
<1>3. /\ To \in Slot /\ from \in Slot /\ To = Other(from) /\ Other(To) = from
      /\ cursor \in Nat /\ cursor + SectorCells <= SlotCells
      /\ SectorCells \in Nat /\ SectorCells > 2
      /\ SlotCells \in Nat
  BY <1>1, SectorOfTo, SlotFacts, ConstantsAssumption DEF To
<1>4. \A c \in Cells : flash'[To][c] \in {flash[To][c], Blank, Junk}
  BY ErasedFlash
<1>5. /\ Contains(flash'[from], Copied)
      /\ DigestIn(flash'[To]) # DigestCell(Copied)
      /\ \A m \in Image : Contains(flash'[To], m) => Contains(flash[To], m)
      /\ \A s \in Slot, m \in Image :
            /\ DigestIn(flash'[s]) = DigestCell(m)
            /\ DigestIn(flash'[Other(s)]) = DigestCell(m)
            => Contains(flash'[s], m)
  BY <1>1, <1>4, ErasedFlash, WipedSlot
<1>6. \A c \in Cells : c < cursor + SectorCells => flash'[To][c] = Blank
  <2>1. \A c \in Cells : c < cursor => flash[To][c] = Blank
    BY <1>1 DEF IInv, Erasing
  <2>2. \A c \in Cells : c \in Int
    BY DEF Cells
  <2>3. QED
    BY <1>3, <2>1, <2>2, ErasedFlash
<1>7. DigestsTell'
  BY <1>5 DEF DigestsTell, StoredDigest, Holds
<1>8. cursor' \in 0 .. SlotCells /\ cursor' < ImageCells(Copied)
  BY <1>2, <1>3 DEF LastSector
<1>9. TypeOK'
  <2>1. tainted' \in SUBSET Slot
    BY <1>3 DEF IInv, TypeOK
  <2>2. QED
    BY <1>1, <1>8, <2>1, ErasedFlash DEF IInv, TypeOK
<1>10. SourceKept' /\ Copying'
  BY <1>1, <1>2, <1>5, <1>8 DEF SourceKept, Copying, Holds
<1>11. CASE pc' = "erase"
  <2>1. cursor' = cursor + SectorCells
    BY <1>1, <1>11
  <2>2. \E k \in 0 .. SlotCells : cursor' = k * SectorCells
    <3>1. PICK k \in 0 .. SlotCells : cursor = k * SectorCells
      BY <1>1 DEF IInv, Erasing
    <3>2. k + 1 \in Nat /\ cursor' = (k + 1) * SectorCells
      BY <1>3, <2>1, <3>1
    <3>3. k + 1 <= (k + 1) * SectorCells
      <4>1. \A j \in Nat : j <= j * SectorCells
        BY <1>3, MultipleBound
      <4>2. QED
        BY <3>2, <4>1
    <3>4. k + 1 \in 0 .. SlotCells
      BY <1>3, <1>8, <3>2, <3>3
    <3>5. QED
      BY <3>2, <3>4
  <2>3. from = "BAK" => ~Good("APP")'
    BY <1>1, <1>3, <1>5 DEF IInv, Erasing, Good, Holds, Slot, Other
  <2>4. Erasing'
    BY <1>1, <1>5, <1>6, <2>1, <2>2, <2>3 DEF Erasing, StoredDigest
  <2>5. QED
    BY <1>7, <1>9, <1>10, <1>11, <2>4
       DEF IInv, Checked, Programming, JumpsToChecked, JumpRedundant, BackupTriedIfDiffers
<1>12. CASE pc' = "program"
  <2>1. cursor' = 0
    BY <1>1, <1>12
  <2>2. ASSUME NEW c \in Cells, c < ImageCells(Copied),
               c < SectorCells \/ To \notin tainted'
        PROVE  flash'[To][c] = Blank
    <3>1. c \in Nat
      BY DEF Cells
    <3>2. CASE c < SectorCells
      BY <1>3, <1>6, <3>1, <3>2
    <3>3. CASE To \notin tainted'
      BY <1>1, <1>2, <1>3, <1>6, <1>12, <2>2, <3>1, <3>3 DEF LastSector
    <3>4. QED
      BY <2>2, <3>2, <3>3
  <2>3. Programming'
    <3>1. \A c \in Cells : ~(c < 0)
      BY DEF Cells
    <3>2. QED
      BY <1>1, <2>1, <2>2, <3>1 DEF Programming
  <2>4. QED
    BY <1>7, <1>9, <1>10, <1>12, <2>3
       DEF IInv, Checked, Erasing, JumpsToChecked, JumpRedundant, BackupTriedIfDiffers
<1>13. QED
  BY <1>1, <1>11, <1>12

\* Programming one cell: the cells of the image below the cursor stay, the one at
\* the cursor is now the image's, or torn, or still empty.
LEMMA ProgrammedFlash ==
    ASSUME IInv, pc = "program",
           NEW v \in {flash[To][cursor], Junk,
                      Programmed(flash[To][cursor], ImageCell(Copied, cursor))},
           flash' = [flash EXCEPT ![To][cursor] = v]
    PROVE  /\ To \in Slot /\ from \in Slot /\ To = Other(from) /\ Other(To) = from
           /\ Copied \in Image /\ cursor \in Cells /\ cursor < ImageCells(Copied)
           /\ flash' \in [Slot -> [Cells -> CellValue]]
           /\ flash'[from] = flash[from]
           /\ Contains(flash'[from], Copied)
           /\ \A c \in Cells : c # cursor => flash'[To][c] = flash[To][c]
           /\ flash'[To][cursor] = v
           /\ \A c \in Cells :
                 c < ImageCells(Copied) /\ (c < SectorCells \/ To \notin tainted)
                 => /\ c < cursor => flash'[To][c] = ImageCell(Copied, c)
                    /\ c = cursor => flash'[To][c] \in {Blank, Junk, ImageCell(Copied, c)}
                    /\ c > cursor => flash'[To][c] = Blank
<1>1. /\ To \in Slot /\ from \in Slot /\ To = Other(from) /\ Other(To) = from /\ To # from
  BY SlotFacts DEF IInv, TypeOK, To
<1>2. /\ Copied \in Image /\ Contains(flash[from], Copied)
      /\ cursor < ImageCells(Copied)
  BY DEF IInv, SourceKept, Copying, Holds
<1>3. cursor \in Cells
  <2>1. ImageCells(Copied) \in 4 .. SlotCells /\ cursor \in 0 .. SlotCells
    BY <1>2, ImageFacts DEF IInv, TypeOK
  <2>2. QED
    BY <1>2, <2>1, ConstantsAssumption DEF Cells
<1>4. flash \in [Slot -> [Cells -> CellValue]]
  BY DEF IInv, TypeOK
<1>5. v \in CellValue
  <2>1. Junk \in CellValue
    BY ConstantsAssumption DEF CellValue, Cells, Junk
  <2>2. QED
    BY <1>1, <1>2, <1>3, <1>4, <2>1, ImageFacts DEF Programmed
<1>6. /\ flash' \in [Slot -> [Cells -> CellValue]]
      /\ flash'[from] = flash[from]
      /\ \A c \in Cells : c # cursor => flash'[To][c] = flash[To][c]
      /\ flash'[To][cursor] = v
  BY <1>1, <1>3, <1>4, <1>5
<1>7. ASSUME NEW c \in Cells, c < ImageCells(Copied), c < SectorCells \/ To \notin tainted
      PROVE  /\ c < cursor => flash'[To][c] = ImageCell(Copied, c)
             /\ c = cursor => flash'[To][c] \in {Blank, Junk, ImageCell(Copied, c)}
             /\ c > cursor => flash'[To][c] = Blank
  <2>1. flash[To][c] = IF c < cursor THEN ImageCell(Copied, c) ELSE Blank
    BY <1>7 DEF IInv, Programming
  <2>2. c \in Int /\ cursor \in Int
    BY <1>3, ConstantsAssumption DEF Cells
  <2>3. QED
    BY <1>6, <2>1, <2>2 DEF Programmed
<1>8. QED
  BY <1>1, <1>2, <1>3, <1>6, <1>7

\* A slot programmed in order shows its digest only when it is complete.
LEMMA DigestLast ==
    ASSUME NEW f, NEW m \in Image, NEW n \in Cells,
           \A c \in Cells :
              c < ImageCells(m) => /\ c < n => f[c] = ImageCell(m, c)
                                   /\ c = n => f[c] \in {Blank, Junk, ImageCell(m, c)}
                                   /\ c > n => f[c] = Blank,
           DigestIn(f) = DigestCell(m)
    PROVE  Contains(f, m)
<1>1. /\ 1 \in Cells /\ Len[m] + 2 \in Cells /\ n \in Int /\ Len[m] \in Int
      /\ 1 < ImageCells(m) /\ ImageCells(m) = Len[m] + 3
      /\ \A c \in Cells : c \in Int
  BY ImageFacts, ConstantsAssumption DEF Cells, ImageCells
<1>2. f[1].kind = "len"
  BY DEF DigestIn, Junk, DigestCell
<1>3. f[1] = LenCell(m)
  BY <1>1, <1>2, ImageFacts DEF Blank, Junk
<1>4. f[Len[m] + 2] = DigestCell(m)
  BY <1>2, <1>3 DEF DigestIn, LenCell
<1>5. n >= Len[m] + 2
  BY <1>1, <1>4 DEF Blank, DigestCell
<1>6. ASSUME NEW c \in Cells, c < ImageCells(m)
      PROVE  f[c] = ImageCell(m, c)
  <2>1. CASE c < n
    BY <1>6, <2>1
  <2>2. CASE c = n
    BY <1>1, <1>4, <1>5, <1>6, <2>2, ImageFacts
  <2>3. c < n \/ c = n
    <3>1. c \in Int /\ c < Len[m] + 3
      BY <1>1, <1>6
    <3>2. QED
      BY <1>1, <1>5, <3>1
  <2>4. QED
    BY <2>1, <2>2, <2>3
<1>7. QED
  BY <1>6 DEF Contains

\* So a copy in progress never makes a digest vouch for a body it does not belong
\* to, unless its slot is tainted.
LEMMA ProgramDigestsTell ==
    ASSUME IInv, pc = "program", tainted' = tainted,
           NEW v \in {flash[To][cursor], Junk,
                      Programmed(flash[To][cursor], ImageCell(Copied, cursor))},
           flash' = [flash EXCEPT ![To][cursor] = v]
    PROVE  DigestsTell'
<1>1. SUFFICES ASSUME NEW s \in Slot, NEW m \in Image, s \notin tainted,
                      DigestIn(flash'[s]) = DigestCell(m),
                      DigestIn(flash'[Other(s)]) = DigestCell(m)
               PROVE  Contains(flash'[s], m)
  BY DEF DigestsTell, StoredDigest, Holds
<1>2. m = Copied
  <2>1. DigestIn(flash'[from]) = DigestCell(Copied) /\ Copied \in Image
    BY ProgrammedFlash, ContainsFacts
  <2>2. s = from \/ Other(s) = from
    BY <1>1, ProgrammedFlash, SlotFacts
  <2>3. QED
    BY <1>1, <2>1, <2>2, DigestOfOne
<1>3. CASE s = from
  BY <1>2, <1>3, ProgrammedFlash
<1>4. CASE s = To
  BY <1>1, <1>2, <1>4, ProgrammedFlash, DigestLast
<1>5. QED
  BY <1>3, <1>4, ProgrammedFlash, SlotFacts

LEMMA ProgramCellIInv ==
    ASSUME IInv, ProgramCell PROVE IInv'
<1> DEFINE new == ImageCell(Copied, cursor)
           v == Programmed(flash[To][cursor], new)
<1>1. /\ pc = "program" /\ from' = from /\ ram' = ram /\ appOk' = appOk
      /\ tainted' = tainted /\ Copied' = Copied /\ To' = To
      /\ cursor' = cursor + 1 /\ mishaps' = mishaps /\ bakOk' = bakOk
      /\ pc' = IF LastCell THEN "jumped" ELSE "program"
      /\ flash' = [flash EXCEPT ![To][cursor] = v]
  BY DEF ProgramCell, Copied, To
<1>2. /\ To \in Slot /\ from \in Slot /\ To = Other(from)
      /\ Copied \in Image /\ cursor \in Cells /\ cursor < ImageCells(Copied)
      /\ flash' \in [Slot -> [Cells -> CellValue]]
      /\ flash'[from] = flash[from]
      /\ Contains(flash'[from], Copied)
      /\ \A c \in Cells : c # cursor => flash'[To][c] = flash[To][c]
      /\ flash'[To][cursor] = v
  BY <1>1, ProgrammedFlash
<1>3. DigestsTell'
  BY <1>1, ProgramDigestsTell
<1>4. cursor \in Nat /\ SlotCells \in Nat /\ cursor + 1 \in 0 .. SlotCells
      /\ ImageCells(Copied) \in 4 .. SlotCells
  BY <1>2, ConstantsAssumption, ImageFacts DEF Cells
<1>5. TypeOK'
  BY <1>1, <1>2, <1>4 DEF IInv, TypeOK
<1>6. SourceKept'
  BY <1>1, <1>2 DEF SourceKept, Holds
<1>7. /\ ram.form = "raw" /\ (appOk <=> from = "APP")
  BY <1>1 DEF IInv, Copying
<1>8. ASSUME NEW c \in Cells, c < ImageCells(Copied), c < SectorCells \/ To \notin tainted
      PROVE  flash'[To][c] = IF c < cursor + 1 THEN ImageCell(Copied, c) ELSE Blank
  <2>1. flash[To][c] = IF c < cursor THEN ImageCell(Copied, c) ELSE Blank
    BY <1>1, <1>8 DEF IInv, Programming
  <2>2. c \in Int
    BY DEF Cells
  <2>3. CASE c = cursor
    BY <1>2, <1>4, <2>1, <2>2, <2>3 DEF Programmed
  <2>4. CASE c # cursor
    BY <1>2, <1>4, <2>1, <2>2, <2>4
  <2>5. QED
    BY <2>3, <2>4
<1>9. CASE ~LastCell
  <2>1. pc' = "program" /\ cursor' < ImageCells(Copied)
    BY <1>1, <1>2, <1>4, <1>9 DEF LastCell
  <2>2. Copying'
    BY <1>1, <1>7, <2>1 DEF Copying
  <2>3. Programming'
    BY <1>1, <1>8 DEF Programming
  <2>4. QED
    BY <1>3, <1>5, <1>6, <2>1, <2>2, <2>3
       DEF IInv, Checked, Erasing, JumpsToChecked, JumpRedundant, BackupTriedIfDiffers
<1>10. CASE LastCell
  <2>1. pc' = "jumped" /\ cursor + 1 = ImageCells(Copied)
    BY <1>1, <1>10 DEF LastCell
  <2>2. JumpsToChecked'
    <3>1. from = IF appOk THEN "APP" ELSE "BAK"
      BY <1>2, <1>7 DEF Slot
    <3>2. QED
      BY <1>1, <1>2, <1>7, <3>1 DEF JumpsToChecked, Holds, Copied
  <2>3. JumpRedundant'
    <3>1. ASSUME tainted = {} PROVE Contains(flash'[To], Copied)
      BY <1>4, <1>8, <2>1, <3>1 DEF Contains
    <3>2. \A s \in Slot : s = To \/ s = from
      BY <1>2, SlotFacts
    <3>3. QED
      BY <1>1, <1>2, <3>1, <3>2 DEF JumpRedundant, Holds, Copied
  <2>4. QED
    BY <1>3, <1>5, <2>1, <2>2, <2>3
       DEF IInv, Checked, Copying, SourceKept, Erasing, Programming, BackupTriedIfDiffers
<1>11. QED
  BY <1>9, <1>10

\* A power loss in the middle of an erase tears cells of that sector only.
LEMMA TornFlash ==
    ASSUME IInv, pc = "erase", flash' \in TornErase(flash)
    PROVE  /\ flash' \in [Slot -> [Cells -> CellValue]]
           /\ flash'[from] = flash[from]
           /\ \A c \in Cells : flash'[To][c] \in {flash[To][c], Blank, Junk}
<1>1. Blank \in CellValue /\ Junk \in CellValue
  BY ConstantsAssumption DEF CellValue, Cells, Blank, Junk
<1>2. flash \in [Slot -> [Cells -> CellValue]]
  BY DEF IInv, TypeOK
<1>3. PICK w \in [Sector -> {"kept", "blank", "junk"}] :
         flash' = [s \in Slot |-> [c \in Cells |->
                     IF Base(s) + c \in Sector
                     THEN CASE w[Base(s) + c] = "kept"  -> flash[s][c]
                            [] w[Base(s) + c] = "blank" -> Blank
                            [] w[Base(s) + c] = "junk"  -> Junk
                     ELSE flash[s][c]]]
  BY DEF TornErase
<1>4. \A s \in Slot, c \in Cells :
         /\ flash'[s][c] \in {flash[s][c], Blank, Junk}
         /\ Base(s) + c \notin Sector => flash'[s][c] = flash[s][c]
  BY <1>3
<1>5. flash' \in [Slot -> [Cells -> CellValue]]
  BY <1>1, <1>2, <1>3, <1>4
<1>6. flash'[from] = flash[from]
  <2>1. \A c \in Cells : flash'[from][c] = flash[from][c]
    BY <1>4, SectorOfTo
  <2>2. QED
    BY <1>2, <1>5, <2>1, SectorOfTo
<1>7. QED
  BY <1>4, <1>5, <1>6, SectorOfTo

LEMMA PowerLossIInv ==
    ASSUME IInv, PowerLoss PROVE IInv'
<1>1. /\ pc' = "off" /\ bakOk' = FALSE /\ appOk' = FALSE /\ ram' = NoRam
      /\ from' = "APP" /\ cursor' = 0 /\ UNCHANGED <<tainted, mishaps>>
  BY DEF PowerLoss
<1>2. flash' \in [Slot -> [Cells -> CellValue]] /\ DigestsTell'
  <2>1. CASE pc = "erase"
    <3>1. flash' \in TornErase(flash)
      BY <2>1 DEF PowerLoss
    <3>2. QED
      BY <2>1, <3>1, TornFlash, WipedSlot DEF DigestsTell, StoredDigest, Holds
  <2>2. CASE pc = "program"
    <3>1. PICK v \in {flash[To][cursor], Junk,
                      Programmed(flash[To][cursor], ImageCell(Copied, cursor))} :
             flash' = [flash EXCEPT ![To][cursor] = v]
      BY <2>2 DEF PowerLoss, TornProgram
    <3>2. QED
      BY <1>1, <2>2, <3>1, ProgrammedFlash, ProgramDigestsTell
  <2>3. CASE pc \notin {"erase", "program"}
    <3>1. flash' = flash
      BY <2>3 DEF PowerLoss
    <3>2. QED
      BY <1>1, <3>1, SlotsUnchanged DEF IInv, TypeOK
  <2>4. QED
    BY <2>1, <2>2, <2>3
<1>3. TypeOK'
  <2>1. NoRam \in [img : Image \cup {NoImage}, form : {"unknown", "raw", "plain"}]
    BY DEF NoRam
  <2>2. 0 \in 0 .. SlotCells
    BY ConstantsAssumption
  <2>3. QED
    BY <1>1, <1>2, <2>1, <2>2 DEF IInv, TypeOK, Slot
<1>4. QED
  BY <1>1, <1>2, <1>3
     DEF IInv, Checked, Copying, SourceKept, Erasing, Programming,
         JumpsToChecked, JumpRedundant, BackupTriedIfDiffers

LEMMA RotIInv ==
    ASSUME IInv, NEW s \in Slot, NEW c \in Cells, Rot(s, c) PROVE IInv'
<1>1. /\ pc = "off" /\ flash' = [flash EXCEPT ![s][c] = Junk]
      /\ tainted' = tainted \cup {s} /\ mishaps < MaxMishaps /\ mishaps' = mishaps + 1
      /\ UNCHANGED <<pc, bakOk, appOk, ram, from, cursor>>
  BY DEF Rot
<1>2. Junk \in CellValue
  BY ConstantsAssumption DEF CellValue, Cells, Junk
<1>3. /\ flash \in [Slot -> [Cells -> CellValue]]
      /\ flash' \in [Slot -> [Cells -> CellValue]]
      /\ flash'[Other(s)] = flash[Other(s)]
      /\ \A d \in Cells : flash'[s][d] \in {flash[s][d], Blank, Junk}
  BY <1>1, <1>2, SlotFacts DEF IInv, TypeOK
<1>4. TypeOK'
  BY <1>1, <1>3, ConstantsAssumption DEF IInv, TypeOK
<1>5. DigestsTell'
  <2>1. SUFFICES ASSUME NEW t \in Slot, NEW m \in Image, t \notin tainted \cup {s},
                        DigestIn(flash'[t]) = DigestCell(m),
                        DigestIn(flash'[Other(t)]) = DigestCell(m)
                 PROVE  Contains(flash'[t], m)
    BY <1>1 DEF DigestsTell, StoredDigest, Holds
  <2>2. t = Other(s) /\ Other(t) = s /\ t \notin tainted
    BY <2>1, SlotFacts
  <2>3. DigestIn(flash[s]) = DigestCell(m)
    <3>1. flash[s] \in [Cells -> CellValue] /\ flash'[s] \in [Cells -> CellValue]
      BY <1>3
    <3>2. QED
      BY <1>3, <2>1, <2>2, <3>1, WipedFacts
  <2>4. Contains(flash[t], m)
    BY <1>3, <2>1, <2>2, <2>3 DEF IInv, DigestsTell, StoredDigest, Holds
  <2>5. QED
    BY <1>3, <2>2, <2>4
<1>6. QED
  BY <1>1, <1>4, <1>5
     DEF IInv, Checked, Copying, SourceKept, Erasing, Programming,
         JumpsToChecked, JumpRedundant, BackupTriedIfDiffers

LEMMA UpdateIInv ==
    ASSUME IInv, NEW s \in Slot, NEW m \in Image, Update(s, m) PROVE IInv'
<1>1. /\ pc = "off" /\ flash' = [flash EXCEPT ![s] = Updated(flash[s], m)]
      /\ tainted' = (tainted \ {s}) \cup
            {t \in {Other(s)} : StoredDigest(t) = DigestCell(m) /\ ~Holds(t, m)}
      /\ mishaps < MaxMishaps /\ mishaps' = mishaps + 1
      /\ UNCHANGED <<pc, bakOk, appOk, ram, from, cursor>>
  BY DEF Update
<1>2. flash \in [Slot -> [Cells -> CellValue]]
  BY DEF IInv, TypeOK
<1>3. Updated(flash[s], m) \in [Cells -> CellValue]
  <2>1. Blank \in CellValue
    BY ConstantsAssumption DEF CellValue, Cells, Blank
  <2>2. flash[s] \in [Cells -> CellValue]
    BY <1>2
  <2>3. QED
    BY <2>1, <2>2, ImageFacts DEF Updated
<1>4. /\ flash' \in [Slot -> [Cells -> CellValue]]
      /\ flash'[Other(s)] = flash[Other(s)]
      /\ flash'[s] = Updated(flash[s], m)
  BY <1>1, <1>2, <1>3, SlotFacts
<1>5. Contains(flash'[s], m) /\ DigestIn(flash'[s]) = DigestCell(m)
  <2>1. Contains(flash'[s], m)
    BY <1>4 DEF Contains, Updated
  <2>2. QED
    BY <2>1, ContainsFacts
<1>6. TypeOK'
  <2>1. tainted' \in SUBSET Slot
    BY <1>1, SlotFacts DEF IInv, TypeOK
  <2>2. mishaps' \in 0 .. MaxMishaps
    BY <1>1, ConstantsAssumption DEF IInv, TypeOK
  <2>3. QED
    BY <1>1, <1>4, <2>1, <2>2 DEF IInv, TypeOK
<1>7. DigestsTell'
  <2>1. SUFFICES ASSUME NEW t \in Slot, NEW n \in Image, t \notin tainted',
                        DigestIn(flash'[t]) = DigestCell(n),
                        DigestIn(flash'[Other(t)]) = DigestCell(n)
                 PROVE  Contains(flash'[t], n)
    BY DEF DigestsTell, StoredDigest, Holds
  <2>2. n = m
    BY <1>5, <2>1, DigestOfOne, SlotFacts
  <2>3. CASE t = s
    BY <1>5, <2>2, <2>3
  <2>4. CASE t = Other(s)
    BY <1>1, <1>4, <2>1, <2>2, <2>4 DEF StoredDigest, Holds
  <2>5. QED
    BY <2>3, <2>4, SlotFacts
<1>8. QED
  BY <1>1, <1>6, <1>7
     DEF IInv, Checked, Copying, SourceKept, Erasing, Programming,
         JumpsToChecked, JumpRedundant, BackupTriedIfDiffers

LEMMA StutterIInv ==
    ASSUME IInv, UNCHANGED vars PROVE IInv'
<1> USE DEF vars
<1>1. /\ TypeOK' /\ Checked' /\ Copying' /\ SourceKept' /\ Erasing' /\ Programming'
  BY DEF IInv, TypeOK, Checked, Copying, SourceKept, Erasing, Programming,
         Good, ImageOf, Holds, StoredDigest, Copied, To
<1>2. DigestsTell' /\ JumpsToChecked' /\ JumpRedundant' /\ BackupTriedIfDiffers'
  BY DEF IInv, DigestsTell, JumpsToChecked, JumpRedundant, BackupTriedIfDiffers,
         Good, Holds, StoredDigest
<1>3. QED
  BY <1>1, <1>2 DEF IInv

LEMMA NextIInv ==
    ASSUME IInv, [Next]_vars PROVE IInv'
  BY PowerOnIInv, CheckBakIInv, CheckAppIInv, DecideIInv, EraseSectorIInv,
     ProgramCellIInv, PowerLossIInv, RotIInv, UpdateIInv, StutterIInv
     DEF Next, Loader, Environment

\* The inductive invariant holds in every reachable state: the strengthening that
\* the theorems below are read off from.
THEOREM Invariance == Spec => []IInv
<1>1. Init => IInv
  BY InitIInv
<1>2. IInv /\ [Next]_vars => IInv'
  BY NextIInv
<1>3. QED
  BY <1>1, <1>2, PTL DEF Spec

-----------------------------------------------------------------------------
(***************************************************************************)
(* Safety                                                                  *)
(***************************************************************************)

\* The variables of the loader and the cells of the flash keep their types: the
\* cursor of a copy never leaves the slot.
THEOREM TypeCorrect == Spec => []TypeOK
  BY Invariance, PTL DEF IInv

\* The slot that flash_image_backup reads is intact until the copy is complete.
THEOREM SourceSafe == Spec => []SourceKept
  BY Invariance, PTL DEF IInv

\* Power losses alone never make equal stored digests lie about an image.
THEOREM DigestsHonest == Spec => []DigestsTell
  BY Invariance, PTL DEF IInv

\* The loader jumps only to an image that passed its check in this boot.
THEOREM JumpsSafe == Spec => []JumpsToChecked
  BY Invariance, PTL DEF IInv

\* On an untainted device both slots hold the image that is started.
THEOREM RedundancyRestored == Spec => []JumpRedundant
  BY Invariance, PTL DEF IInv

\* The loader gives up only with a bad application, and leaves a good backup untried only
\* if the application stores the backup's digest without being that image, which takes a
\* decayed cell, a ^C or a repeated update.
THEOREM GivesUpLate == Spec => []BackupTriedIfDiffers
  BY Invariance, PTL DEF IInv

-----------------------------------------------------------------------------
(***************************************************************************)
(* What a step may do to the slots, and the refinement of ImageStore       *)
(***************************************************************************)

\* The third cell gives the image away: the first sector is always erased, so
\* while a slot is programmed it contains the image being copied or none.
LEMMA OnlyCopied ==
    ASSUME IInv, pc = "program",
           NEW f, f[2] \in {Blank, Junk, flash[To][2], ImageCell(Copied, 2)},
           NEW m \in Image, Contains(f, m)
    PROVE  m = Copied
<1>1. Copied \in Image /\ 2 \in Cells /\ 2 < ImageCells(Copied) /\ 2 < SectorCells
  BY ImageFacts, ConstantsAssumption DEF IInv, SourceKept, Cells
<1>2. flash[To][2] \in {Blank, ImageCell(Copied, 2)}
  BY <1>1 DEF IInv, Programming
<1>3. ImageCell(Copied, 2) = BodyCell(Copied, 2) /\ f[2] = BodyCell(m, 2)
  BY <1>1, ImageFacts, ContainsFacts
<1>4. BodyCell(m, 2) # Blank /\ BodyCell(m, 2) # Junk
  BY DEF BodyCell, Blank, Junk
<1>5. BodyCell(m, 2) = BodyCell(Copied, 2)
  BY <1>2, <1>3, <1>4
<1>6. QED
  BY <1>5 DEF BodyCell

\* What a step of the running loader, or a power loss, does to the slots: it
\* leaves both alone, or it leaves the source of the copy alone and keeps, loses
\* or completes an image in the other slot.
SlotStep ==
    \/ flash' = flash
    \/ /\ pc \in {"erase", "program"}
       /\ flash'[from] = flash[from]
       /\ \A m \in Image : Contains(flash'[To], m) =>
                              m = Copied \/ Contains(flash[To], m)
       /\ pc = "program" =>
             \A m \in Image : Contains(flash'[To], m) \/ Contains(flash[To], m)
                                  => m = Copied
       /\ To = "APP" => ~Good("APP")

LEMMA EraseSlotStep ==
    ASSUME IInv, pc = "erase",
           flash' \in [Slot -> [Cells -> CellValue]],
           flash'[from] = flash[from],
           \A c \in Cells : flash'[To][c] \in {flash[To][c], Blank, Junk}
    PROVE  SlotStep
<1>1. \A m \in Image : Contains(flash'[To], m) => Contains(flash[To], m)
  BY WipedSlot
<1>2. To = "APP" => ~Good("APP")
  BY SlotFacts DEF IInv, TypeOK, Erasing, To, Other
<1>3. QED
  BY <1>1, <1>2 DEF SlotStep

LEMMA ProgramSlotStep ==
    ASSUME IInv, pc = "program",
           NEW v \in {flash[To][cursor], Junk,
                      Programmed(flash[To][cursor], ImageCell(Copied, cursor))},
           flash' = [flash EXCEPT ![To][cursor] = v],
           flash[To][cursor] = ImageCell(Copied, cursor) => v = flash[To][cursor]
    PROVE  SlotStep
<1>1. /\ To \in Slot /\ Copied \in Image /\ cursor \in Cells
      /\ cursor < ImageCells(Copied) /\ flash'[from] = flash[from]
      /\ flash'[To][cursor] = v
      /\ \A c \in Cells : c # cursor => flash'[To][c] = flash[To][c]
  BY ProgrammedFlash
<1>2. flash'[To][2] \in {Blank, Junk, flash[To][2], ImageCell(Copied, 2)}
  <2>1. 2 \in Cells
    BY ConstantsAssumption DEF Cells
  <2>2. QED
    BY <1>1, <2>1 DEF Programmed
<1>3. ASSUME NEW m \in Image, Contains(flash'[To], m) \/ Contains(flash[To], m)
      PROVE  m = Copied
  <2>1. \A f : /\ f[2] \in {Blank, Junk, flash[To][2], ImageCell(Copied, 2)}
               /\ Contains(f, m)
               => m = Copied
    BY OnlyCopied
  <2>2. flash[To][2] \in {Blank, Junk, flash[To][2], ImageCell(Copied, 2)}
    OBVIOUS
  <2>3. QED
    BY <1>2, <1>3, <2>1, <2>2
<1>4. CASE Good(To)
  <2>1. Contains(flash[To], Copied)
    BY <1>3, <1>4 DEF Good, Holds
  <2>2. v = flash[To][cursor]
    BY <1>1, <2>1 DEF Contains
  <2>3. flash' = flash
    BY <1>1, <2>2 DEF IInv, TypeOK
  <2>4. QED
    BY <2>3 DEF SlotStep
<1>5. CASE ~Good(To)
  BY <1>1, <1>3, <1>5 DEF SlotStep
<1>6. QED
  BY <1>4, <1>5

LEMMA RunningSlotStep ==
    ASSUME IInv, [Next]_vars, pc # "off" PROVE SlotStep
<1>1. CASE EraseSector
  BY <1>1, ErasedFlash, EraseSlotStep DEF EraseSector
<1>2. CASE ProgramCell
  <2>1. flash[To][cursor] = ImageCell(Copied, cursor) =>
           Programmed(flash[To][cursor], ImageCell(Copied, cursor)) = flash[To][cursor]
    BY DEF Programmed
  <2>2. QED
    BY <1>2, <2>1, ProgramSlotStep DEF ProgramCell
<1>3. CASE PowerLoss
  <2>1. CASE pc = "erase"
    <3>1. flash' \in TornErase(flash)
      BY <1>3, <2>1 DEF PowerLoss
    <3>2. QED
      BY <2>1, <3>1, TornFlash, EraseSlotStep
  <2>2. CASE pc = "program"
    <3>1. PICK v \in {flash[To][cursor], Junk,
                      Programmed(flash[To][cursor], ImageCell(Copied, cursor))} :
             /\ flash' = [flash EXCEPT ![To][cursor] = v]
             /\ flash[To][cursor] = ImageCell(Copied, cursor) => v = flash[To][cursor]
      BY <1>3, <2>2 DEF PowerLoss, TornProgram, Programmed
    <3>2. QED
      BY <2>2, <3>1, ProgramSlotStep
  <2>3. CASE pc \notin {"erase", "program"}
    BY <1>3, <2>3 DEF PowerLoss, SlotStep
  <2>4. QED
    BY <2>1, <2>2, <2>3
<1>4. CASE CheckBak \/ CheckApp \/ Decide \/ UNCHANGED vars
  BY <1>4 DEF CheckBak, CheckApp, Decide, vars, SlotStep
<1>5. QED
  BY <1>1, <1>2, <1>3, <1>4
     DEF Next, Loader, Environment, PowerOn, Rot, Update

\* No step of the running loader loses the last good image of the device.
THEOREM LastGoodSafe == Spec => LastGoodKept
<1>1. ASSUME IInv, [Next]_vars, pc # "off", NEW s \in Slot, Good(s)
      PROVE  \E t \in Slot : Good(t)'
  <2>1. SlotStep
    BY <1>1, RunningSlotStep
  <2>2. CASE flash' = flash
    BY <1>1, <2>2 DEF Good, Holds
  <2>3. CASE pc \in {"erase", "program"} /\ flash'[from] = flash[from]
    BY <1>1, <2>3 DEF IInv, TypeOK, SourceKept, Good, Holds
  <2>4. QED
    BY <2>1, <2>2, <2>3 DEF SlotStep
<1>2. IInv /\ [Next]_vars =>
         [pc # "off" /\ (\E s \in Slot : Good(s)) => \E s \in Slot : Good(s)']_vars
  BY <1>1
<1>3. QED
  BY <1>2, Invariance, PTL DEF Spec, LastGoodKept

\* No step of the running loader writes to an application that passes its check.
THEOREM GoodAppSafe == Spec => GoodAppUntouched
<1>1. ASSUME IInv, [Next]_vars, pc # "off", Good("APP")
      PROVE  flash'["APP"] = flash["APP"]
  <2>1. SlotStep
    BY <1>1, RunningSlotStep
  <2>2. from = "APP" \/ To = "APP"
    BY <1>1 DEF IInv, TypeOK, Slot, To, Other
  <2>3. QED
    BY <1>1, <2>1, <2>2 DEF SlotStep
<1>2. IInv /\ [Next]_vars =>
         [pc # "off" /\ Good("APP") => flash'["APP"] = flash["APP"]]_vars
  BY <1>1
<1>3. QED
  BY <1>2, Invariance, PTL DEF Spec, GoodAppUntouched

\* How the whole images of the slots follow from their cells.
LEMMA GoodImagesFacts ==
    ASSUME NEW s \in Slot
    PROVE  /\ GoodImages[s] \in Image \cup {NoImage}
           /\ \A m \in Image : Contains(flash[s], m) <=> GoodImages[s] = m
           /\ GoodImages[s] = NoImage <=> ~Good(s)
           /\ GoodImages'[s] \in Image \cup {NoImage}
           /\ \A m \in Image : Contains(flash'[s], m) <=> GoodImages'[s] = m
<1>1. ASSUME NEW f, NEW g, g = IF \E m \in Image : Contains(f, m) THEN ImageIn(f) ELSE NoImage
      PROVE  /\ g \in Image \cup {NoImage}
             /\ \A m \in Image : Contains(f, m) <=> g = m
             /\ g = NoImage <=> ~\E m \in Image : Contains(f, m)
  BY <1>1, ImageInContains, ConstantsAssumption
<1>2. GoodImages[s] = IF \E m \in Image : Contains(flash[s], m)
                      THEN ImageIn(flash[s]) ELSE NoImage
  BY DEF GoodImages, Good, Holds, ImageOf
<1>3. GoodImages'[s] = IF \E m \in Image : Contains(flash'[s], m)
                       THEN ImageIn(flash'[s]) ELSE NoImage
  BY DEF GoodImages, Good, Holds, ImageOf
<1>4. QED
  BY <1>1, <1>2, <1>3 DEF Good, Holds

LEMMA GoodImagesTyped ==
    /\ GoodImages \in [Slot -> Image \cup {NoImage}]
    /\ GoodImages' \in [Slot -> Image \cup {NoImage}]
<1>1. \A s \in Slot : /\ GoodImages[s] \in Image \cup {NoImage}
                      /\ GoodImages'[s] \in Image \cup {NoImage}
  BY GoodImagesFacts
<1>2. /\ GoodImages = [s \in Slot |-> GoodImages[s]]
      /\ GoodImages' = [s \in Slot |-> GoodImages'[s]]
  BY DEF GoodImages
<1>3. QED
  BY <1>1, <1>2

\* A step of the running loader, or a power loss, maintains the slots.
LEMMA RunningMaintains ==
    ASSUME IInv, [Next]_vars, pc # "off" PROVE Store!MaintainSlots
<1>1. SlotStep
  BY RunningSlotStep
<1>2. Store!Slot = Slot /\ \A s : Store!Other(s) = Other(s)
  BY DEF Store!Slot, Slot, Store!Other, Other
<1>3. CASE flash' = flash
  <2>1. GoodImages' = GoodImages
    BY <1>3 DEF GoodImages, Good, Holds, ImageOf
  <2>2. QED
    BY <1>2, <2>1, GoodImagesTyped DEF Store!MaintainSlots
<1>4. CASE flash' # flash
  <2>1. /\ pc \in {"erase", "program"}
        /\ flash'[from] = flash[from]
        /\ \A m \in Image : Contains(flash'[To], m) =>
                               m = Copied \/ Contains(flash[To], m)
        /\ To = "APP" => ~Good("APP")
    BY <1>1, <1>4 DEF SlotStep
  <2>2. /\ from \in Slot /\ To \in Slot /\ To = Other(from) /\ Other(To) = from
        /\ \A s \in Slot : s = from \/ s = To
    BY SlotFacts DEF IInv, TypeOK, To
  <2>3. Copied \in Image /\ Contains(flash[from], Copied)
    BY <2>1 DEF IInv, SourceKept, Holds
  <2>4. GoodImages[from] = Copied /\ GoodImages'[from] = Copied /\ Copied # NoImage
    BY <2>1, <2>2, <2>3, GoodImagesFacts, ConstantsAssumption
  <2>5. GoodImages'[To] \in {NoImage, Copied, GoodImages[To]}
    <3>1. ASSUME NEW m \in Image, GoodImages'[To] = m
          PROVE  m = Copied \/ m = GoodImages[To]
      BY <2>1, <2>2, <3>1, GoodImagesFacts
    <3>2. GoodImages'[To] \in Image \cup {NoImage}
      BY <2>2, GoodImagesFacts
    <3>3. QED
      BY <3>1, <3>2
  <2>6. To = "APP" => GoodImages["APP"] = NoImage
    BY <2>1, <2>2, GoodImagesFacts
  <2>7. QED
    BY <1>2, <2>2, <2>4, <2>5, <2>6, GoodImagesTyped DEF Store!MaintainSlots
<1>5. QED
  BY <1>3, <1>4

\* When a copy is complete, or none was needed, the image that is started is the
\* preferred one.
LEMMA JumpPreferred ==
    ASSUME IInv, Next, pc # "jumped", pc' = "jumped"
    PROVE  pc # "off" /\ ram'.img = Store!Preferred
<1>1. CASE Decide
  <2>1. pc = "compare" /\ appOk /\ ram' = ram
    BY <1>1 DEF Decide, StartCopy, MustBackUp, MustRestore, MustGiveUp
  <2>2. ram.img = ImageOf("APP") /\ Good("APP")
    BY <2>1 DEF IInv, Checked
  <2>3. GoodImages["APP"] = ram.img /\ GoodImages["APP"] # NoImage
    BY <2>2, GoodImagesFacts DEF GoodImages, Slot
  <2>4. QED
    BY <2>1, <2>3 DEF Store!Preferred
<1>2. CASE ProgramCell
  <2>1. /\ pc = "program" /\ ram' = ram /\ from \in Slot
        /\ Copied \in Image /\ Contains(flash[from], Copied)
    BY <1>2 DEF ProgramCell, IInv, TypeOK, SourceKept, Holds
  <2>2. GoodImages[from] = Copied /\ Copied # NoImage
    BY <2>1, GoodImagesFacts, ConstantsAssumption
  <2>3. from = "APP" \/ (from = "BAK" /\ To = "APP")
    BY <2>1 DEF Slot, To, Other
  <2>4. To = "APP" => GoodImages["APP"] \in {Copied, NoImage}
    <3>1. ASSUME NEW m \in Image, Contains(flash[To], m) PROVE m = Copied
      <4>1. flash[To][2] \in {Blank, Junk, flash[To][2], ImageCell(Copied, 2)}
        OBVIOUS
      <4>2. QED
        BY <2>1, <3>1, <4>1, OnlyCopied
    <3>2. QED
      BY <3>1, GoodImagesFacts DEF Slot
  <2>5. QED
    BY <2>1, <2>2, <2>3, <2>4 DEF Store!Preferred, Copied
<1>3. QED
  BY <1>1, <1>2
     DEF Next, Loader, Environment, CheckBak, CheckApp, FlashImageCheck,
         EraseSector, PowerOn, PowerLoss, Rot, Update

\* Cell by cell, with every tear and ^C, the loader implements ImageStore.
THEOREM Refinement == Spec => ImplementsStore
<1>1. Init => Store!Init
  BY GoodImagesTyped DEF Init, Store!Init, Store!Slot, Slot
<1>2. ASSUME IInv, [Next]_vars PROVE [Store!Next]_Store!vars
  <2>1. CASE UNCHANGED vars
    BY <2>1 DEF vars, Store!vars, GoodImages, Good, Holds, ImageOf
  <2>2. CASE PowerOn
    <3>1. GoodImages' = GoodImages
      BY <2>2 DEF PowerOn, GoodImages, Good, Holds, ImageOf
    <3>2. QED
      BY <2>2, <3>1 DEF PowerOn, Store!Next, Store!PowerOn
  <2>3. CASE PowerLoss
    BY <2>3, <1>2, RunningMaintains DEF PowerLoss, Store!Next, Store!PowerLoss
  <2>4. CASE Loader
    <3>1. pc # "off" /\ pc' # "off" /\ pc # "jumped"
      BY <2>4 DEF Loader, CheckBak, CheckApp, FlashImageCheck, Decide, StartCopy,
                  EraseSector, ProgramCell
    <3>2. Store!MaintainSlots
      BY <1>2, <3>1, RunningMaintains
    <3>3. pc' = "jumped" => ram'.img = Store!Preferred
      BY <1>2, <2>4, <3>1, JumpPreferred DEF Next
    <3>4. QED
      BY <3>1, <3>2, <3>3 DEF Store!Next, Store!Maintain
  <2>5. ASSUME NEW s \in Slot, pc = "off", pc' = "off",
               \A t \in Slot : t # s => flash'[t] = flash[t]
        PROVE  Store!Replace
    <3>1. \A t \in Slot : t # s => GoodImages'[t] = GoodImages[t]
      BY <2>5 DEF GoodImages, Good, Holds, ImageOf
    <3>2. GoodImages' = [GoodImages EXCEPT ![s] = GoodImages'[s]]
      BY <3>1, GoodImagesTyped
    <3>3. GoodImages'[s] \in Image \cup {NoImage}
      BY GoodImagesFacts
    <3>4. QED
      BY <2>5, <3>2, <3>3 DEF Store!Replace, Store!Slot, Slot
  <2>6. CASE \E s \in Slot, c \in Cells : Rot(s, c)
    BY <2>5, <2>6 DEF Rot, Store!Next, IInv, TypeOK
  <2>7. CASE \E s \in Slot, m \in Image : Update(s, m)
    BY <2>5, <2>7 DEF Update, Store!Next, IInv, TypeOK
  <2>8. QED
    BY <1>2, <2>1, <2>2, <2>3, <2>4, <2>6, <2>7 DEF Next, Environment
<1>3. QED
  BY <1>1, <1>2, Invariance, PTL DEF Spec, ImplementsStore, Store!Spec
=============================================================================
