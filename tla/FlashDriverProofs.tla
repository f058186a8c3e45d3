---------------------------- MODULE FlashDriverProofs ------------------------
(***************************************************************************)
(* Proofs about FlashDriver, for any sizes of chip, sector, page and       *)
(* burst, any requests and any number of timeouts: nothing outside the     *)
(* sectors of the requests changes, and as long as the chip is done before *)
(* the driver gives up, commands are taken and bytes appear in order.      *)
(* From this follows that FlashDriver implements the store of CellStore.   *)
(* Below, about SpiTransfer, which carries the commands and the data: for  *)
(* FIFOs and requests of any size no transfer loses or adds a byte.        *)
(***************************************************************************)
EXTENDS FlashDriver, SpiTransfer, SequenceTheorems, TLAPS

-----------------------------------------------------------------------------
(***************************************************************************)
(* The inductive invariant                                                 *)
(***************************************************************************)

\* Which stage may be when.
Staged ==
    /\ pc = "idle" <=> job = NoJob
    /\ pc = "poll" => then \in {"init", "protect", "erase", "erased", "call", "write"}
    /\ Stage \in {"protect", "erase", "erased"} => ~erased
    /\ Stage \in {"call", "write", "done"} => erased

\* The cursors of a request.
Cursors ==
    job # NoJob =>
        /\ addr = job.offset + buf
        /\ buf + write_len + length + rest = job.length
        /\ (addr % PageSize) + write_len <= PageSize
        /\ Stage # "write" => length = 0 /\ write_len = 0
        /\ ~erased => buf = 0
        /\ Stage = "done" /\ job.kind # "flerase" => rest = 0 \/ cut
        /\ job.kind = "backup" =>
               LET end == buf + write_len + length
               IN  end = 0 \/ end = Header[1] \/ end >= Header[2]
        /\ Stage \in {"init", "protect"} /\ ~erased => sector = 0
        /\ Stage \in {"erase", "erased"} => sector < SectorCount

\* What the chip is busy with is for one of the sectors in area.
Aimed ==
    /\ job # NoJob => Sectors(job) \subseteq area
    /\ op.kind = "erase" => op.sector \in area
    /\ op.kind = "program" => SectorOf(op.at) \in area

\* The registers when the chip is done.
ProtectedThen == IF op.kind = "status" THEN op.protect ELSE protected
QuadThen == IF op.kind = "status" THEN op.quad ELSE qe

\* As long as no polling timed out, the chip is idle after it, and obeys.
Settled ==
    ~late =>
        /\ pc # "poll" => op = Idle
        /\ Stage # "idle" /\ (Stage = "init" => erased) => (wide => QuadThen)
        /\ Stage \in {"erase", "erased"} \/ (job # NoJob /\ erased) => ~ProtectedThen

\* The first sector of the request.
First == SectorOf(job.offset)

\* What the command under way is, and what is in the sectors before it is done.
Contents ==
    job # NoJob /\ ~late /\ ~cut =>
        IF erased
        THEN /\ op.kind # "erase"
             /\ op.kind = "program" => /\ op.at = job.offset + op.from
                                       /\ op.from + op.len = buf
                                       /\ (op.at % PageSize) + op.len <= PageSize
             /\ \A a \in Address :
                    SectorOf(a) \in Sectors(job) =>
                        cells[a] = IF a < job.offset + Until THEN a - job.offset ELSE Blank
        ELSE /\ op.kind # "program"
             /\ op.kind = "erase" => Stage = "erased" /\ op.sector = First + sector
             /\ \A a \in Address :
                    \/ SectorOf(a) \in First .. First + sector - 1
                    \/ Stage = "erased" /\ op.kind # "erase" /\ SectorOf(a) = First + sector
                    => cells[a] = Blank

IInv == TypeOK /\ Staged /\ Cursors /\ Aimed /\ Settled /\ Contents

-----------------------------------------------------------------------------
(***************************************************************************)
(* Pages and sectors                                                       *)
(***************************************************************************)

\* Multiples of n are n apart.
LEMMA Apart ==
    ASSUME NEW n \in Nat \ {0}, NEW p \in Int, NEW q \in Int
    PROVE  /\ p < q => n * p + n <= n * q
           /\ n * p < n * q => p < q
  OBVIOUS

LEMMA Sizes == PageSize \in Nat \ {0} /\ SectorSize \in Nat \ {0}
  BY FlashAssumption

LEMMA Paged ==
    ASSUME NEW a \in Int
    PROVE  /\ PageOf(a) \in Int /\ a % PageSize \in 0 .. PageSize - 1
           /\ a = PageSize * PageOf(a) + (a % PageSize)
  BY Sizes DEF PageOf

LEMMA Sectored ==
    ASSUME NEW a \in Int
    PROVE  /\ SectorOf(a) \in Int /\ a % SectorSize \in 0 .. SectorSize - 1
           /\ a = SectorSize * SectorOf(a) + (a % SectorSize)
  BY Sizes DEF SectorOf

LEMMA SectorBounds ==
    ASSUME NEW a \in Int
    PROVE  /\ SectorOf(a) \in Int /\ SectorSize * SectorOf(a) \in Int
           /\ SectorSize * SectorOf(a) <= a /\ a < SectorSize * SectorOf(a) + SectorSize
           /\ a % SectorSize = 0 => a = SectorSize * SectorOf(a)
  BY Sizes DEF SectorOf

LEMMA PageUnique ==
    ASSUME NEW q \in Int, NEW r \in 0 .. PageSize - 1, NEW a \in Int, a = PageSize * q + r
    PROVE  PageOf(a) = q /\ a % PageSize = r
  BY Sizes DEF PageOf

LEMMA SectorUnique ==
    ASSUME NEW q \in Int, NEW r \in 0 .. SectorSize - 1, NEW a \in Int, a = SectorSize * q + r
    PROVE  SectorOf(a) = q /\ a % SectorSize = r
  BY Sizes DEF SectorOf

LEMMA WholePages == \E m \in Nat \ {0} : SectorSize = PageSize * m
  <1> DEFINE m == SectorSize \div PageSize
  <1>1. m \in Int /\ SectorSize = PageSize * m
    BY FlashAssumption
  <1> HIDE DEF m
  <1>2. PageSize * 0 < PageSize * m
    BY <1>1, Sizes
  <1>3. 0 < m
    BY <1>1, <1>2, Sizes, Apart
  <1> QED
    BY <1>1, <1>3

\* Within the page of an address one is in its sector.
LEMMA PageInSector ==
    ASSUME NEW a \in Nat, NEW x \in 0 .. PageSize - 1
    PROVE  SectorOf(PageOf(a) * PageSize + x) = SectorOf(a)
  <1> DEFINE q == PageOf(a)
             r == a % PageSize
             s == SectorOf(a)
             t == a % SectorSize
  <1>1. PICK m \in Nat \ {0} : SectorSize = PageSize * m
    BY WholePages
  <1>2. q \in Int /\ r \in 0 .. PageSize - 1 /\ a = PageSize * q + r
    BY Paged
  <1>3. s \in Int /\ t \in 0 .. SectorSize - 1 /\ a = SectorSize * s + t
    BY Sectored
  <1> DEFINE d == q - m * s
  <1> HIDE DEF q, r, s, t
  <1>4. SectorSize * s = PageSize * (m * s)
    BY <1>1, <1>3, Sizes
  <1>5. d \in Int /\ PageSize * d = PageSize * q - SectorSize * s
    BY <1>2, <1>3, <1>4, Sizes
  <1>6. PageSize * d + r = t
    BY <1>2, <1>3, <1>5, Sizes
  <1> HIDE DEF d
  <1>7. PageSize * (-1) < PageSize * d
    BY <1>2, <1>3, <1>5, <1>6, Sizes
  <1>8. PageSize * d < PageSize * m
    BY <1>1, <1>2, <1>3, <1>5, <1>6, Sizes
  <1>9. d >= 0 /\ d < m
    BY <1>5, <1>7, <1>8, Sizes, Apart
  <1>10. PageSize * d + PageSize <= PageSize * m /\ 0 <= PageSize * d
    BY <1>5, <1>9, Sizes, Apart
  <1>11. PageSize * d + x \in 0 .. SectorSize - 1
    BY <1>1, <1>5, <1>10, Sizes
  <1>12. q * PageSize + x = SectorSize * s + (PageSize * d + x)
    BY <1>2, <1>3, <1>5, Sizes
  <1>13. q * PageSize + x \in Int
    BY <1>2, Sizes
  <1>14. SectorOf(q * PageSize + x) = s
    BY <1>3, <1>11, <1>12, <1>13, SectorUnique
  <1> QED
    BY <1>14 DEF q, s

\* A program command that stays in its page reaches one byte after the other.
LEMMA ReachedStraight ==
    ASSUME NEW o, o.at \in Nat, o.len \in Nat \ {0}, (o.at % PageSize) + o.len <= PageSize
    PROVE  /\ Reached(o) = o.at .. o.at + o.len - 1
           /\ \A a \in Reached(o) : IndexAt(o, a) = o.from + (a - o.at)
  <1> DEFINE q == PageOf(o.at)
             r == o.at % PageSize
  <1>1. q \in Int /\ r \in 0 .. PageSize - 1 /\ o.at = PageSize * q + r
    BY Paged
  <1> HIDE DEF q
  <1>2. ASSUME NEW k \in 0 .. o.len - 1
        PROVE  (o.at + k) % PageSize = r + k
    <2>1. o.at + k = PageSize * q + (r + k) /\ r + k \in 0 .. PageSize - 1 /\ o.at + k \in Int
      BY <1>1, Sizes
    <2> QED
      BY <2>1, <1>1, PageUnique
  <1>3. ASSUME NEW k \in 0 .. o.len - 1
        PROVE  q * PageSize + ((o.at + k) % PageSize) = o.at + k
    <2>1. PageSize * q = q * PageSize
      BY <1>1, Sizes
    <2> QED
      BY <1>1, <1>2, <2>1, Sizes
  <1>4. Reached(o) = {o.at + k : k \in 0 .. o.len - 1}
    BY <1>3 DEF Reached, q
  <1>5. {o.at + k : k \in 0 .. o.len - 1} = o.at .. o.at + o.len - 1
    <2>1. ASSUME NEW a \in o.at .. o.at + o.len - 1
          PROVE  a - o.at \in 0 .. o.len - 1 /\ a = o.at + (a - o.at)
      OBVIOUS
    <2>2. \A k \in 0 .. o.len - 1 : o.at + k \in o.at .. o.at + o.len - 1
      OBVIOUS
    <2> QED
      BY <2>1, <2>2
  <1>6. ASSUME NEW a \in o.at .. o.at + o.len - 1
        PROVE  (a - o.at) % PageSize = a - o.at
    <2>1. a - o.at = PageSize * 0 + (a - o.at) /\ a - o.at \in 0 .. PageSize - 1
      BY <1>1, Sizes
    <2>2. a - o.at \in Int
      OBVIOUS
    <2> QED
      BY <2>1, <2>2, PageUnique
  <1> QED
    BY <1>4, <1>5, <1>6 DEF IndexAt

\* In any case it stays in its sector.
LEMMA ReachedInSector ==
    ASSUME NEW o, o.at \in Nat, o.len \in Nat, NEW a \in Reached(o)
    PROVE  SectorOf(a) = SectorOf(o.at)
  <1>1. PICK k \in 0 .. o.len - 1 : a = PageOf(o.at) * PageSize + ((o.at + k) % PageSize)
    BY DEF Reached
  <1>2. (o.at + k) % PageSize \in 0 .. PageSize - 1
    BY Paged, o.at + k \in Int
  <1> QED
    BY <1>1, <1>2, PageInSector

\* What a burst leaves of its page.
LEMMA BurstInPage ==
    ASSUME NEW a \in Nat, NEW n \in Nat, NEW len \in 0 .. n,
           (a % PageSize) + n <= PageSize
    PROVE  ((a + len) % PageSize) + (n - len) <= PageSize
  <1>1. PageOf(a) \in Int /\ a % PageSize \in 0 .. PageSize - 1
        /\ a = PageSize * PageOf(a) + (a % PageSize)
    BY Paged
  <1>2. CASE (a % PageSize) + len < PageSize
    <2>1. a + len = PageSize * PageOf(a) + ((a % PageSize) + len)
          /\ (a % PageSize) + len \in 0 .. PageSize - 1 /\ a + len \in Int
      BY <1>1, <1>2, Sizes
    <2>2. (a + len) % PageSize = (a % PageSize) + len
      BY <1>1, <2>1, PageUnique
    <2> QED
      BY <1>1, <2>2, Sizes
  <1>3. CASE (a % PageSize) + len >= PageSize
    <2>1. n = len
      BY <1>1, <1>3, Sizes
    <2>2. (a + len) % PageSize \in 0 .. PageSize - 1
      BY Paged, a + len \in Int
    <2> QED
      BY <2>1, <2>2, Sizes
  <1> QED
    BY <1>1, <1>2, <1>3, Sizes

-----------------------------------------------------------------------------
(***************************************************************************)
(* The requests                                                            *)
(***************************************************************************)

LEMMA RequestFacts ==
    ASSUME NEW j \in Requests
    PROVE  /\ j.kind \in {"flerase", "flwrite", "backup"}
           /\ j.offset \in Nat /\ j.offset % SectorSize = 0
           /\ j.length \in Nat \ {0}
           /\ j.offset + j.length <= ChipSize
           /\ j.kind = "backup" => j.length > Header[2]
           /\ j # NoJob
  <1>1. j \in Job /\ j.offset % SectorSize = 0 /\ j.offset + j.length <= ChipSize
        /\ (j.kind = "backup" => j.length > Header[2])
    BY DEF Requests
  <1>2. j.kind \in {"flerase", "flwrite", "backup"} /\ j.offset \in Address /\ j.length \in Lengths
    BY <1>1 DEF Job
  <1>3. j.offset \in Nat /\ j.length \in Nat \ {0}
    <2>1. Lengths \subseteq Nat \ {0} /\ ChipSize \in Nat
      BY FlashAssumption
    <2>2. j.length \in Nat \ {0}
      BY <1>2, <2>1, Zenon
    <2>3. j.offset \in Nat
      BY <1>2, <2>1 DEF Address
    <2> QED
      BY <2>2, <2>3
  <1>4. j # NoJob
    BY <1>2 DEF NoJob
  <1> QED
    BY <1>1, <1>2, <1>3, <1>4

\* The sectors of a request, counted as do_flash_erase counts them.
SectorCountOf(j) == j.length \div SectorSize + (IF j.length % SectorSize = 0 THEN 0 ELSE 1)

LEMMA SectorsOfRequest ==
    ASSUME NEW j \in Requests
    PROVE  /\ SectorOf(j.offset) \in Int /\ SectorCountOf(j) \in Nat \ {0}
           /\ Sectors(j) = SectorOf(j.offset) .. SectorOf(j.offset) + SectorCountOf(j) - 1
           /\ \A a \in Nat : SectorOf(a) \in Sectors(j) => a >= j.offset
  <1> DEFINE first == SectorOf(j.offset)
             count == SectorCountOf(j)
             n == j.length
  <1>1. j.offset \in Nat /\ j.offset % SectorSize = 0 /\ n \in Nat \ {0}
    BY RequestFacts
  <1>2. first \in Int /\ j.offset = SectorSize * first
    BY <1>1, SectorBounds
  <1>3. n \div SectorSize \in Int /\ n % SectorSize \in 0 .. SectorSize - 1
        /\ n = SectorSize * (n \div SectorSize) + (n % SectorSize)
    BY <1>1, Sectored DEF SectorOf
  <1>4. count \in Int /\ SectorSize * (count - 1) < n /\ n <= SectorSize * count
    <2> DEFINE q == n \div SectorSize
    <2>0. q \in Int /\ n % SectorSize \in 0 .. SectorSize - 1 /\ n = SectorSize * q + (n % SectorSize)
      BY <1>3
    <2>1. CASE n % SectorSize = 0
      <3>1. count = q
        BY <2>0, <2>1 DEF SectorCountOf
      <3>2. SectorSize * (q - 1) = SectorSize * q - SectorSize
        BY <2>0, Sizes
      <3> HIDE DEF q, count, n
      <3> QED
        BY <3>1, <3>2, <2>1, <1>1, <2>0, Sizes
    <2>2. CASE n % SectorSize # 0
      <3>1. count = q + 1
        BY <2>2 DEF SectorCountOf
      <3>2. SectorSize * (q + 1) = SectorSize * q + SectorSize /\ (q + 1) - 1 = q
        BY <2>0, Sizes
      <3> HIDE DEF q, count, n
      <3> QED
        BY <3>1, <3>2, <2>2, <1>1, <2>0, Sizes
    <2> QED
      BY <2>1, <2>2
  <1> HIDE DEF first, count, n
  <1>5. count \in Nat \ {0}
    <2>1. SectorSize * 0 < SectorSize * count
      BY <1>1, <1>4, Sizes
    <2> QED
      BY <2>1, <1>4, Sizes, Apart
  <1>6. ASSUME NEW a \in Bytes(j)
        PROVE  SectorOf(a) \in first .. first + count - 1
    <2> DEFINE s == SectorOf(a)
    <2>1. a \in Nat /\ a >= j.offset /\ a < j.offset + n
      BY <1>1 DEF Bytes, n
    <2>2. s \in Int /\ SectorSize * s <= a /\ a < SectorSize * s + SectorSize
      BY <2>1, SectorBounds
    <2> HIDE DEF s
    <2>3. SectorSize * (s + 1) = SectorSize * s + SectorSize
          /\ SectorSize * (first + count) = SectorSize * first + SectorSize * count
      BY <1>2, <1>4, <2>2, Sizes
    <2>4. SectorSize * first < SectorSize * (s + 1) /\ SectorSize * s < SectorSize * (first + count)
      BY <1>1, <1>2, <1>4, <2>1, <2>2, <2>3, Sizes
    <2>5. first < s + 1 /\ s < first + count
      BY <1>2, <1>4, <2>2, <2>4, Sizes, Apart
    <2>6. s \in first .. first + count - 1
      BY <1>2, <1>4, <2>2, <2>5
    <2> QED
      BY <2>6 DEF s
  <1>7. ASSUME NEW s \in first .. first + count - 1
        PROVE  \E a \in Bytes(j) : SectorOf(a) = s
    <2>1. s \in Int /\ s - first <= count - 1 /\ s >= first
      BY <1>2, <1>4
    <2>2. SectorSize * s = j.offset + SectorSize * (s - first)
      BY <1>2, <2>1, Sizes
    <2>3. SectorSize * (s - first) <= SectorSize * (count - 1) /\ 0 <= SectorSize * (s - first)
      BY <1>2, <1>4, <2>1, Sizes
    <2>4. SectorSize * s \in Int /\ SectorSize * s >= j.offset /\ SectorSize * s <= j.offset + n - 1
      <3>1. /\ SectorSize * s \in Int /\ SectorSize * (s - first) \in Int
            /\ SectorSize * (count - 1) \in Int
        BY <1>2, <1>4, <2>1, Sizes
      <3> QED
        BY <1>1, <1>4, <2>2, <2>3, <3>1
    <2>6. SectorSize * s \in Bytes(j)
      BY <1>1, <2>4 DEF Bytes, n
    <2>5. SectorOf(SectorSize * s) = s
      BY <2>1, Sizes, SectorUnique, SectorSize * s = SectorSize * s + 0, SectorSize * s \in Int,
         0 \in 0 .. SectorSize - 1
    <2> QED
      BY <2>5, <2>6
  <1>8. Sectors(j) = first .. first + count - 1
    BY <1>6, <1>7 DEF Sectors
  <1>9. ASSUME NEW a \in Nat, SectorOf(a) \in Sectors(j)
        PROVE  a >= j.offset
    <2>1. SectorOf(a) \in Int /\ SectorSize * SectorOf(a) <= a
      BY SectorBounds
    <2>2. SectorOf(a) >= first
      BY <1>2, <1>4, <1>8, <1>9
    <2>3. SectorSize * first <= SectorSize * SectorOf(a)
      BY <1>2, <2>1, <2>2, Sizes, Apart
    <2> QED
      BY <1>1, <1>2, <2>1, <2>3, Sizes
  <1> QED
    BY <1>2, <1>5, <1>8, <1>9 DEF first, count

LEMMA SectorCountIs == SectorCount = SectorCountOf(job)
  BY DEF SectorCount, SectorCountOf

\* The sectors of the request under way.
LEMMA JobFacts ==
    ASSUME TypeOK, job # NoJob
    PROVE  /\ job \in Requests
           /\ job.offset \in Nat /\ job.length \in Nat \ {0}
           /\ job.offset + job.length <= ChipSize
           /\ job.kind \in {"flerase", "flwrite", "backup"}
           /\ job.kind = "backup" => job.length > Header[2]
           /\ First \in Int /\ SectorCount \in Nat \ {0}
           /\ Sectors(job) = First .. First + SectorCount - 1
           /\ \A a \in Nat : SectorOf(a) \in Sectors(job) => a >= job.offset
  <1>1. job \in Requests
    BY DEF TypeOK
  <1> QED
    BY <1>1, RequestFacts, SectorsOfRequest, SectorCountIs DEF First

\* The bytes of a request are in its sectors.
LEMMA InItsSectors ==
    ASSUME NEW j \in Requests, NEW n \in Nat, n < j.length
    PROVE  j.offset + n \in Address /\ SectorOf(j.offset + n) \in Sectors(j)
  <1>1. j.offset \in Nat /\ j.length \in Nat /\ j.offset + j.length <= ChipSize
    BY RequestFacts
  <1>2. j.offset + n \in Bytes(j) /\ j.offset + n \in Address
    BY <1>1, FlashAssumption DEF Bytes, Address
  <1> QED
    BY <1>2 DEF Sectors

-----------------------------------------------------------------------------
(***************************************************************************)
(* The first state                                                         *)
(***************************************************************************)

LEMMA InitIInv == Init => IInv
  <1> SUFFICES ASSUME Init PROVE IInv
    OBVIOUS
  <1>1. TypeOK
    <2>1. ChipSize \in Nat /\ PageSize \in Nat /\ MaxTimeouts \in Nat /\ MaxJobs \in Nat
      BY FlashAssumption
    <2>2. cells \in [Address -> Byte]
      BY DEF Init, Byte
    <2>3. /\ addr \in 0 .. ChipSize /\ buf \in 0 .. ChipSize /\ rest \in 0 .. ChipSize
          /\ length \in 0 .. ChipSize /\ write_len \in 0 .. PageSize
          /\ timeouts \in 0 .. MaxTimeouts /\ jobs \in 0 .. MaxJobs
      BY <2>1 DEF Init
    <2> QED
      BY <2>2, <2>3 DEF Init, TypeOK
  <1>2. Staged /\ Cursors /\ Settled /\ Contents
    BY DEF Init, Staged, Stage, Cursors, Settled, Contents
  <1>3. Aimed
    BY DEF Init, Aimed, Idle
  <1> QED
    BY <1>1, <1>2, <1>3 DEF IInv

-----------------------------------------------------------------------------
(***************************************************************************)
(* The chip                                                                *)
(***************************************************************************)

\* What the chip is busy with changes one sector only, and that is one of area.
LEMMA AffectedInArea ==
    ASSUME TypeOK, Aimed, NEW a \in Affected(op)
    PROVE  SectorOf(a) \in area
  <1>1. CASE op.kind = "erase"
    BY <1>1 DEF Affected, Aimed
  <1>2. CASE op.kind = "program"
    <2>1. op.at \in Nat /\ op.len \in Nat
      BY <1>2, FlashAssumption DEF TypeOK, Idle, Address
    <2>2. a \in Reached(op)
      BY <1>2 DEF Affected
    <2> QED
      BY <1>2, <2>1, <2>2, ReachedInSector DEF Aimed
  <1> QED
    BY <1>1, <1>2 DEF Affected

LEMMA ChipDoneTypes ==
    ASSUME TypeOK, ChipDone
    PROVE  TypeOK'
  <1>1. ASSUME NEW a \in Address
        PROVE  cells'[a] \in Byte
    <2>1. CASE a \in Affected(op) /\ op.kind # "erase"
      <3>1. op.kind = "program"
        BY <2>1 DEF Affected
      <3>2. op.at \in Nat /\ op.from \in Nat
        BY <3>1 DEF TypeOK, Idle, Address
      <3>3. IndexAt(op, a) \in Nat
        <4>1. a - op.at \in Int
          BY <3>2 DEF Address
        <4>2. (a - op.at) % PageSize \in 0 .. PageSize - 1
          BY <4>1, Paged
        <4> QED
          BY <3>2, <4>2, Sizes DEF IndexAt
      <3> QED
        BY <2>1, <3>3 DEF ChipDone, Result, Programmed, Byte
    <2>2. CASE a \in Affected(op) /\ op.kind = "erase"
      BY <2>2 DEF ChipDone, Result, Byte
    <2>3. CASE a \notin Affected(op)
      BY <2>3 DEF ChipDone, TypeOK
    <2> QED
      BY <2>1, <2>2, <2>3
  <1>2. cells' \in [Address -> Byte]
    BY <1>1 DEF ChipDone
  <1>3. protected' \in BOOLEAN /\ qe' \in BOOLEAN
    BY DEF ChipDone, TypeOK, Idle
  <1> QED
    BY <1>2, <1>3 DEF ChipDone, TypeOK, caller, loop

LEMMA ChipDoneKeeps ==
    ASSUME IInv, ChipDone
    PROVE  IInv'
  <1>1. /\ op # Idle /\ op' = Idle
        /\ UNCHANGED <<pc, then, wide, job, erased, late, timeouts, cut, area, jobs,
                       sector, addr, buf, rest, length, write_len>>
    BY DEF ChipDone, caller, loop
  <1>2. TypeOK'
    BY ChipDoneTypes DEF IInv
  <1>3. Staged' /\ Cursors'
    BY <1>1 DEF IInv, Staged, Cursors, Stage, SectorCount
  <1>4. Aimed'
    BY <1>1 DEF IInv, Aimed, Idle
  <1>5. Settled'
    <2>1. ProtectedThen' = ProtectedThen /\ QuadThen' = QuadThen
      BY <1>1 DEF ChipDone, ProtectedThen, QuadThen, Idle
    <2> QED
      BY <1>1, <2>1 DEF IInv, Settled, Stage
  <1>6. Contents'
    <2> SUFFICES ASSUME job # NoJob, ~late, ~cut PROVE Contents'
      BY <1>1 DEF Contents
    <2>1. Contents /\ Stage' = Stage /\ op'.kind = "none" /\ First' = First
      BY <1>1 DEF IInv, Stage, Idle, First
    <2>2. CASE erased
      <3>1. op.kind # "erase" /\ Until' = buf
        BY <1>1, <2>1, <2>2 DEF Contents, Until
      <3>2. \A a \in Address :
               SectorOf(a) \in Sectors(job) =>
                   cells'[a] = IF a < job.offset + buf THEN a - job.offset ELSE Blank
        <4>1. CASE op.kind = "program"
          <5>1. /\ op.at = job.offset + op.from /\ op.from + op.len = buf
                /\ (op.at % PageSize) + op.len <= PageSize
                /\ \A a \in Address : SectorOf(a) \in Sectors(job) =>
                      cells[a] = IF a < job.offset + op.from THEN a - job.offset ELSE Blank
            BY <2>1, <2>2, <4>1 DEF Contents, Until
          <5>2. op.at \in Nat /\ op.from \in Nat /\ op.len \in Nat \ {0} /\ job.offset \in Nat
            BY <4>1, FlashAssumption, JobFacts DEF IInv, TypeOK, Idle, Address
          <5>3. /\ Reached(op) = op.at .. op.at + op.len - 1
                /\ \A a \in Reached(op) : IndexAt(op, a) = op.from + (a - op.at)
            BY <5>1, <5>2, ReachedStraight
          <5>4. ASSUME NEW a \in Address, SectorOf(a) \in Sectors(job), a \in Reached(op)
                PROVE  cells'[a] = IF a < job.offset + buf THEN a - job.offset ELSE Blank
            <6>1. a < job.offset + buf /\ a - job.offset = IndexAt(op, a)
              BY <5>1, <5>2, <5>3, <5>4 DEF Address
            <6>2. cells[a] = Blank
              BY <5>1, <5>2, <5>3, <5>4 DEF Address
            <6>3. cells'[a] = Programmed(cells[a], IndexAt(op, a))
              BY <4>1, <5>4 DEF ChipDone, Affected, Result
            <6> QED
              BY <6>1, <6>2, <6>3 DEF Programmed
          <5>5. ASSUME NEW a \in Address, SectorOf(a) \in Sectors(job), a \notin Reached(op)
                PROVE  cells'[a] = IF a < job.offset + buf THEN a - job.offset ELSE Blank
            <6>1. cells'[a] = cells[a]
              BY <4>1, <5>5 DEF ChipDone, Affected
            <6>2. a < job.offset + op.from <=> a < job.offset + buf
              BY <5>1, <5>2, <5>3, <5>5 DEF Address
            <6> QED
              BY <6>1, <6>2, <5>1, <5>5
          <5> QED
            BY <5>4, <5>5
        <4>2. CASE op.kind # "program"
          <5>1. Affected(op) = {}
            BY <3>1, <4>2 DEF Affected
          <5> QED
            BY <2>1, <2>2, <4>2, <5>1 DEF ChipDone, Contents, Until
        <4> QED
          BY <4>1, <4>2
      <3> QED
        BY <1>1, <2>1, <2>2, <3>1, <3>2 DEF Contents
    <2>3. CASE ~erased
      <3>1. op.kind # "program"
        BY <2>1, <2>3 DEF Contents
      <3>2. ASSUME NEW a \in Address,
                   \/ SectorOf(a) \in First .. First + sector - 1
                   \/ Stage = "erased" /\ SectorOf(a) = First + sector
            PROVE  cells'[a] = Blank
        <4>1. CASE a \in Affected(op)
          BY <3>1, <4>1 DEF ChipDone, Result, Affected
        <4>2. CASE a \notin Affected(op)
          <5>1. cells'[a] = cells[a]
            BY <4>2 DEF ChipDone
          <5>2. ~(op.kind = "erase" /\ SectorOf(a) = First + sector)
            BY <2>1, <2>3, <4>2 DEF Contents, Affected
          <5> QED
            BY <2>1, <2>3, <3>2, <5>1, <5>2 DEF Contents
        <4> QED
          BY <4>1, <4>2
      <3> QED
        BY <1>1, <2>1, <2>3, <3>2 DEF Contents
    <2> QED
      BY <2>2, <2>3
  <1> QED
    BY <1>2, <1>3, <1>4, <1>5, <1>6 DEF IInv

LEMMA PowerLossKeeps ==
    ASSUME IInv, PowerLoss
    PROVE  IInv'
  <1>1. /\ op' = Idle /\ pc' = "idle" /\ job' = NoJob
        /\ UNCHANGED <<then, wide, erased, late, timeouts, cut, area, jobs, sector, addr, buf,
                       rest, length, write_len>>
    BY DEF PowerLoss, loop
  <1>2. cells' \in [Address -> Byte]
    BY DEF PowerLoss, IInv, TypeOK, Byte
  <1>3. protected' \in BOOLEAN /\ qe' \in BOOLEAN
    BY DEF PowerLoss, IInv, TypeOK
  <1>4. TypeOK'
    BY <1>1, <1>2, <1>3 DEF IInv, TypeOK
  <1>5. Staged' /\ Cursors' /\ Settled' /\ Contents'
    BY <1>1 DEF Staged, Stage, Cursors, Settled, Contents
  <1>6. Aimed'
    BY <1>1 DEF Aimed, Idle
  <1> QED
    BY <1>4, <1>5, <1>6 DEF IInv

-----------------------------------------------------------------------------
(***************************************************************************)
(* The polling and the commands                                            *)
(***************************************************************************)

LEMMA FlashCheckStatusKeeps ==
    ASSUME IInv, FlashCheckStatus
    PROVE  IInv'
  <1>1. /\ pc = "poll" /\ op = Idle /\ pc' = then
        /\ UNCHANGED <<chip, op, then, wide, caller, loop>>
    BY DEF FlashCheckStatus
  <1>2. /\ then \in {"init", "protect", "erase", "erased", "call", "write"}
        /\ Stage' = Stage /\ pc' # "poll"
    BY <1>1 DEF IInv, Staged, Stage
  <1>3. TypeOK'
    BY <1>1, <1>2 DEF IInv, TypeOK, chip, caller, loop
  <1>4. Staged'
    BY <1>1, <1>2 DEF IInv, Staged, caller
  <1>5. Cursors'
    BY <1>1, <1>2 DEF IInv, Cursors, SectorCount, caller, loop
  <1>6. Aimed'
    BY <1>1 DEF IInv, Aimed, caller
  <1>7. Settled'
    BY <1>1, <1>2 DEF IInv, Settled, ProtectedThen, QuadThen, chip, caller
  <1>8. Contents'
    BY <1>1, <1>2 DEF IInv, Contents, Until, First, chip, caller, loop
  <1> QED
    BY <1>3, <1>4, <1>5, <1>6, <1>7, <1>8 DEF IInv

LEMMA FlashOperationTimeoutKeeps ==
    ASSUME IInv, FlashOperationTimeout
    PROVE  IInv'
  <1>1. /\ pc = "poll" /\ pc' = then /\ late' = TRUE
        /\ timeouts < MaxTimeouts /\ timeouts' = timeouts + 1
        /\ UNCHANGED <<chip, op, then, wide, job, erased, cut, area, jobs, loop>>
    BY DEF FlashOperationTimeout
  <1>2. /\ then \in {"init", "protect", "erase", "erased", "call", "write"}
        /\ Stage' = Stage /\ pc' # "poll"
    BY <1>1 DEF IInv, Staged, Stage
  <1>3. TypeOK'
    <2>1. timeouts' \in 0 .. MaxTimeouts
      BY <1>1, FlashAssumption DEF IInv, TypeOK
    <2> QED
      BY <1>1, <1>2, <2>1 DEF IInv, TypeOK, chip, loop
  <1>4. Staged'
    BY <1>1, <1>2 DEF IInv, Staged
  <1>5. Cursors'
    BY <1>1, <1>2 DEF IInv, Cursors, SectorCount, loop
  <1>6. Aimed'
    BY <1>1 DEF IInv, Aimed
  <1>7. Settled' /\ Contents'
    BY <1>1 DEF Settled, Contents
  <1> QED
    BY <1>3, <1>4, <1>5, <1>6, <1>7 DEF IInv

LEMMA FlashInitKeeps ==
    ASSUME IInv, FlashInit
    PROVE  IInv'
  <1>1. /\ pc = "init" /\ wide' = TRUE /\ pc' = "poll"
        /\ then' = (IF erased THEN "call" ELSE "protect")
        /\ op' = IF ~qe /\ op = Idle THEN Status(protected, TRUE) ELSE op
        /\ UNCHANGED <<chip, caller, loop>>
    BY DEF FlashInit, Poll, WriteEnabled
  <1>2. job # NoJob /\ Stage = "init" /\ Stage' = IF erased THEN "call" ELSE "protect"
    BY <1>1 DEF IInv, Staged, Stage
  <1>3. TypeOK'
    <2>1. CASE op' = op
      BY <1>1, <2>1 DEF IInv, TypeOK, chip, caller, loop
    <2>2. CASE op' = Status(protected, TRUE)
      <3>1. op'.kind = "status" /\ op'.protect \in BOOLEAN /\ op'.quad \in BOOLEAN
        BY <2>2 DEF IInv, TypeOK, Status
      <3> QED
        BY <1>1, <3>1 DEF IInv, TypeOK, chip, caller, loop
    <2> QED
      BY <1>1, <2>1, <2>2
  <1>4. Staged'
    BY <1>1, <1>2 DEF IInv, Staged, caller
  <1>5. Cursors'
    BY <1>1, <1>2 DEF IInv, Cursors, caller, loop
  <1>6. Aimed'
    BY <1>1 DEF IInv, Aimed, Status, caller
  <1>7. Settled'
    <2> SUFFICES ASSUME ~late PROVE Settled'
      BY <1>1 DEF Settled, caller
    <2>1. op = Idle
      BY <1>1 DEF IInv, Settled
    <2>2. QuadThen' = TRUE /\ ProtectedThen' = ProtectedThen
      BY <1>1, <2>1 DEF QuadThen, ProtectedThen, Status, Idle, chip, IInv, TypeOK
    <2> QED
      BY <1>1, <1>2, <2>2 DEF IInv, Settled, caller
  <1>8. Contents'
    <2> SUFFICES ASSUME ~late PROVE Contents'
      BY <1>1 DEF Contents, caller
    <2>1. op = Idle
      BY <1>1 DEF IInv, Settled
    <2>2. op'.kind \in {"none", "status"} /\ op.kind = "none"
      BY <1>1, <2>1 DEF Status, Idle
    <2> QED
      BY <1>1, <1>2, <2>2 DEF IInv, Contents, Until, First, chip, caller, loop
  <1> QED
    BY <1>3, <1>4, <1>5, <1>6, <1>7, <1>8 DEF IInv

LEMMA FlashDisableProtectKeeps ==
    ASSUME IInv, FlashDisableProtect
    PROVE  IInv'
  <1>1. /\ pc = "protect" /\ pc' = "poll" /\ then' = "erase"
        /\ op' = IF op = Idle THEN Status(FALSE, qe) ELSE op
        /\ UNCHANGED <<chip, wide, caller, loop>>
    BY DEF FlashDisableProtect, Poll, WriteEnabled, QuadKept
  <1>2. job # NoJob /\ Stage = "protect" /\ Stage' = "erase" /\ ~erased
    BY <1>1 DEF IInv, Staged, Stage
  <1>3. TypeOK'
    <2>1. CASE op' = op
      BY <1>1, <2>1 DEF IInv, TypeOK, chip, caller, loop
    <2>2. CASE op' = Status(FALSE, qe)
      <3>1. op'.kind = "status" /\ op'.protect \in BOOLEAN /\ op'.quad \in BOOLEAN
        BY <2>2 DEF IInv, TypeOK, Status
      <3> QED
        BY <1>1, <3>1 DEF IInv, TypeOK, chip, caller, loop
    <2> QED
      BY <1>1, <2>1, <2>2
  <1>4. Staged'
    BY <1>1, <1>2 DEF IInv, Staged, caller
  <1>5. Cursors'
    <2>1. sector < SectorCount
      BY <1>2, JobFacts DEF IInv, Cursors
    <2> QED
      BY <1>1, <1>2, <2>1 DEF IInv, Cursors, SectorCount, caller, loop
  <1>6. Aimed'
    BY <1>1 DEF IInv, Aimed, Status, caller
  <1>7. Settled'
    <2> SUFFICES ASSUME ~late PROVE Settled'
      BY <1>1 DEF Settled, caller
    <2>1. op = Idle
      BY <1>1 DEF IInv, Settled
    <2>2. QuadThen' = QuadThen /\ ProtectedThen' = FALSE
      BY <1>1, <2>1 DEF QuadThen, ProtectedThen, Status, Idle, chip
    <2> QED
      BY <1>1, <1>2, <2>2 DEF IInv, Settled, caller
  <1>8. Contents'
    <2> SUFFICES ASSUME ~late, ~cut PROVE Contents'
      BY <1>1 DEF Contents, caller
    <2>1. op = Idle
      BY <1>1 DEF IInv, Settled
    <2>2. op'.kind = "status"
      BY <1>1, <2>1 DEF Status
    <2>3. sector = 0
      BY <1>2 DEF IInv, Cursors
    <2>4. First \in Int /\ First' = First
      BY <1>1, <1>2, JobFacts DEF IInv, First, caller
    <2>5. First' .. First' + sector' - 1 = {}
      BY <1>1, <2>3, <2>4 DEF loop
    <2> QED
      BY <1>1, <1>2, <2>2, <2>5 DEF Contents, caller
  <1> QED
    BY <1>3, <1>4, <1>5, <1>6, <1>7, <1>8 DEF IInv

LEMMA FlashSectorEraseKeeps ==
    ASSUME IInv, FlashSectorErase
    PROVE  IInv'
  <1>1. /\ pc = "erase" /\ pc' = "poll" /\ then' = "erased"
        /\ op' = IF op = Idle /\ ~protected THEN Erase(First + sector) ELSE op
        /\ UNCHANGED <<chip, wide, caller, loop>>
    BY DEF FlashSectorErase, Poll, Take, WriteEnabled, First
  <1>2. job # NoJob /\ Stage = "erase" /\ Stage' = "erased" /\ ~erased
    BY <1>1 DEF IInv, Staged, Stage
  <1>3. First + sector \in Sectors(job)
    BY <1>2, JobFacts DEF IInv, Cursors, TypeOK
  <1>4. First + sector \in {SectorOf(a) : a \in Address}
    <2>1. Bytes(job) \subseteq Address
      BY <1>2, JobFacts, FlashAssumption DEF IInv, Bytes, Address
    <2> QED
      BY <1>3, <2>1 DEF Sectors
  <1>5. TypeOK'
    <2>1. CASE op' = op
      BY <1>1, <2>1 DEF IInv, TypeOK, chip, caller, loop
    <2>2. CASE op' = Erase(First + sector)
      BY <1>1, <1>4, <2>2 DEF IInv, TypeOK, Erase, chip, caller, loop
    <2> QED
      BY <1>1, <2>1, <2>2
  <1>6. Staged'
    BY <1>1, <1>2 DEF IInv, Staged, caller
  <1>7. Cursors'
    BY <1>1, <1>2 DEF IInv, Cursors, SectorCount, caller, loop
  <1>8. Aimed'
    BY <1>1, <1>2, <1>3 DEF IInv, Aimed, Erase, caller
  <1>9. ~late => op = Idle /\ op' = Erase(First + sector)
    BY <1>1, <1>2 DEF IInv, Settled, ProtectedThen, Idle
  <1>10. Settled'
    <2> SUFFICES ASSUME ~late PROVE Settled'
      BY <1>1 DEF Settled, caller
    <2>1. QuadThen' = QuadThen /\ ProtectedThen' = ProtectedThen
      BY <1>1, <1>9 DEF QuadThen, ProtectedThen, Erase, Idle, chip
    <2> QED
      BY <1>1, <1>2, <2>1 DEF IInv, Settled, caller
  <1>11. Contents'
    <2> SUFFICES ASSUME ~late, ~cut PROVE Contents'
      BY <1>1 DEF Contents, caller
    <2>1. op'.kind = "erase" /\ op'.sector = First + sector /\ First' = First
      BY <1>1, <1>9 DEF Erase, First, caller
    <2>2. \A a \in Address : SectorOf(a) \in First .. First + sector - 1 => cells[a] = Blank
      BY <1>2 DEF IInv, Contents
    <2> QED
      BY <1>1, <1>2, <2>1, <2>2 DEF Contents, chip, caller, loop
  <1> QED
    BY <1>5, <1>6, <1>7, <1>8, <1>10, <1>11 DEF IInv

LEMMA FlashWriteDataKeeps ==
    ASSUME IInv, FlashWriteData
    PROVE  IInv'
  <1> DEFINE page == IF write_len > 0 THEN write_len ELSE Lesser(length, PageRemain)
             len == Lesser(page, Burst)
             length2 == IF write_len > 0 THEN length ELSE length - page
  <1>1. /\ pc = "write" /\ pc' = "poll" /\ then' = "write"
        /\ length > 0 \/ write_len > 0
        /\ addr' = addr + len /\ buf' = buf + len /\ write_len' = page - len
        /\ length' = length2
        /\ FlashPageProgram(len)
        /\ UNCHANGED <<chip, wide, caller, sector, rest>>
    BY DEF FlashWriteData, Poll
  <1>2. job # NoJob /\ Stage = "write" /\ Stage' = "write" /\ erased
    BY <1>1 DEF IInv, Staged, Stage
  <1>3. /\ addr \in Nat /\ buf \in Nat /\ length \in Nat /\ write_len \in Nat /\ rest \in Nat
        /\ addr = job.offset + buf /\ buf + write_len + length + rest = job.length
        /\ (addr % PageSize) + write_len <= PageSize
    BY <1>2 DEF IInv, TypeOK, Cursors
  <1>4. addr % PageSize \in 0 .. PageSize - 1 /\ PageSize \in Nat \ {0} /\ Burst \in Nat \ {0}
    <2>1. addr % PageSize \in 0 .. PageSize - 1
      BY <1>3, Paged
    <2> QED
      BY <2>1, FlashAssumption
  <1>5. /\ page \in Nat \ {0} /\ (addr % PageSize) + page <= PageSize
        /\ length2 \in Nat /\ page + length2 = write_len + length
    <2>1. CASE write_len > 0
      BY <1>3, <1>4, <2>1
    <2>2. CASE ~(write_len > 0)
      <3>1. write_len = 0 /\ length > 0
        BY <1>1, <1>3, <2>2
      <3>2. page = Lesser(length, PageSize - (addr % PageSize)) /\ length2 = length - page
        BY <2>2 DEF PageRemain
      <3> QED
        BY <1>3, <1>4, <3>1, <3>2 DEF Lesser
    <2> QED
      BY <2>1, <2>2
  <1> HIDE DEF page, length2
  <1>6. len \in 1 .. Burst /\ len <= page
    BY <1>4, <1>5 DEF Lesser
  <1> HIDE DEF len
  <1>7. /\ ((addr + len) % PageSize) + (page - len) <= PageSize
        /\ page <= PageSize
    BY <1>3, <1>4, <1>5, <1>6, BurstInPage
  <1>8. addr \in Address /\ SectorOf(addr) \in Sectors(job)
    <2>1. buf < job.length
      BY <1>1, <1>3, <1>5
    <2> QED
      BY <1>2, <1>3, <2>1, JobFacts, InItsSectors DEF IInv
  <1>9. op' = op \/ op' = Program(addr, buf, len)
    BY <1>1 DEF FlashPageProgram, Take
  <1>10. TypeOK'
    <2>1. /\ addr' \in 0 .. ChipSize /\ buf' \in 0 .. ChipSize /\ length' \in 0 .. ChipSize
          /\ write_len' \in 0 .. PageSize
      <3>1. job.offset \in Nat /\ job.length \in Nat /\ job.offset + job.length <= ChipSize
            /\ ChipSize \in Nat
        BY <1>2, JobFacts, FlashAssumption DEF IInv
      <3> QED
        BY <1>1, <1>3, <1>4, <1>5, <1>6, <1>7, <3>1
    <2>2. CASE op' = op
      BY <1>1, <2>1, <2>2 DEF IInv, TypeOK, chip, caller
    <2>3. CASE op' = Program(addr, buf, len)
      <3>1. op'.kind = "program" /\ op'.at \in Address /\ op'.from \in Nat /\ op'.len \in 1 .. Burst
        BY <1>3, <1>6, <1>8, <2>3 DEF Program
      <3> QED
        BY <1>1, <2>1, <3>1 DEF IInv, TypeOK, chip, caller
    <2> QED
      BY <1>9, <2>2, <2>3
  <1>11. Staged'
    BY <1>1, <1>2 DEF IInv, Staged, caller
  <1>12. Cursors'
    <2>1. addr' = job.offset + buf' /\ buf' + write_len' + length' + rest = job.length
          /\ buf' + write_len' + length' = buf + write_len + length
      <3>1. job.offset \in Nat /\ job.length \in Nat
        BY <1>2, JobFacts DEF IInv
      <3> QED
        BY <1>1, <1>3, <1>5, <1>6, <3>1
    <2>2. (addr' % PageSize) + write_len' <= PageSize
      BY <1>1, <1>7
    <2> QED
      BY <1>1, <1>2, <2>1, <2>2 DEF IInv, Cursors, SectorCount, caller
  <1>13. Aimed'
    BY <1>1, <1>2, <1>8, <1>9 DEF IInv, Aimed, Program, caller
  <1>14. ~late => op = Idle /\ op' = Program(addr, buf, len)
    BY <1>1, <1>2 DEF IInv, Settled, ProtectedThen, QuadThen, Idle, FlashPageProgram, Take,
                      WriteEnabled
  <1>15. Settled'
    <2> SUFFICES ASSUME ~late PROVE Settled'
      BY <1>1 DEF Settled, caller
    <2>1. QuadThen' = QuadThen /\ ProtectedThen' = ProtectedThen
      BY <1>1, <1>14 DEF QuadThen, ProtectedThen, Program, Idle, chip
    <2> QED
      BY <1>1, <1>2, <2>1 DEF IInv, Settled, caller
  <1>16. Contents'
    <2> SUFFICES ASSUME ~late, ~cut PROVE Contents'
      BY <1>1 DEF Contents, caller
    <2>1. op'.kind = "program" /\ op'.at = addr /\ op'.from = buf /\ op'.len = len
          /\ op.kind = "none"
      BY <1>14 DEF Program, Idle
    <2>2. op'.at = job.offset + op'.from /\ op'.from + op'.len = buf'
          /\ (op'.at % PageSize) + op'.len <= PageSize
      BY <1>1, <1>3, <1>4, <1>5, <1>6, <2>1
    <2>3. Until' = buf /\ Until = buf
      BY <2>1 DEF Until
    <2>4. \A a \in Address : SectorOf(a) \in Sectors(job) =>
               cells[a] = IF a < job.offset + buf THEN a - job.offset ELSE Blank
      BY <1>2, <2>3 DEF IInv, Contents
    <2> QED
      BY <1>1, <1>2, <2>1, <2>2, <2>3, <2>4 DEF Contents, chip, caller
  <1> QED
    BY <1>10, <1>11, <1>12, <1>13, <1>15, <1>16 DEF IInv

\* The steps of the driver that send nothing.
LEMMA FlashWriteDoneKeeps ==
    ASSUME IInv, FlashWriteDone
    PROVE  IInv'
  <1>1. /\ pc = "write" /\ length = 0 /\ write_len = 0
        /\ pc' = "poll" /\ then' \in {"init", "call"}
        /\ UNCHANGED <<chip, op, wide, caller, loop>>
    BY DEF FlashWriteDone, Poll
  <1>2. job # NoJob /\ Stage = "write" /\ Stage' \in {"init", "call"} /\ erased
    BY <1>1 DEF IInv, Staged, Stage
  <1>3. TypeOK'
    BY <1>1 DEF IInv, TypeOK, chip, caller, loop
  <1>4. Staged'
    BY <1>1, <1>2 DEF IInv, Staged, caller
  <1>5. Cursors'
    BY <1>1, <1>2 DEF IInv, Cursors, SectorCount, caller, loop
  <1>6. Aimed'
    BY <1>1 DEF IInv, Aimed, caller
  <1>7. Settled'
    BY <1>1, <1>2 DEF IInv, Settled, ProtectedThen, QuadThen, chip, caller
  <1>8. Contents'
    BY <1>1, <1>2 DEF IInv, Contents, Until, First, chip, caller, loop
  <1> QED
    BY <1>3, <1>4, <1>5, <1>6, <1>7, <1>8 DEF IInv

LEMMA CallKeeps ==
    ASSUME IInv, CallFlashWriteData
    PROVE  IInv'
  <1>1. /\ pc = "call" /\ pc' = "write" /\ rest > 0
        /\ length' = CallLength /\ rest' = rest - CallLength
        /\ UNCHANGED <<chip, op, then, wide, caller, sector, addr, buf, write_len>>
    BY DEF CallFlashWriteData
  <1>2. job # NoJob /\ Stage = "call" /\ Stage' = "write" /\ erased
    BY <1>1 DEF IInv, Staged, Stage
  <1>3. /\ buf \in Nat /\ length = 0 /\ write_len = 0 /\ rest \in Nat
        /\ buf + rest = job.length
        /\ job.kind = "backup" => buf = 0 \/ buf = Header[1] \/ buf >= Header[2]
    BY <1>2 DEF IInv, TypeOK, Cursors
  <1>4. /\ Header[1] \in Nat \ {0} /\ Header[2] \in Nat /\ Header[2] > Header[1]
        /\ WriteSize \in Nat \ {0}
    BY FlashAssumption
  <1>5. job.length \in Nat /\ (job.kind = "backup" => job.length > Header[2])
    BY <1>2, JobFacts DEF IInv
  <1>6. /\ CallLength \in Nat \ {0} /\ CallLength <= rest
        /\ job.kind = "backup" =>
               buf + CallLength = Header[1] \/ buf + CallLength >= Header[2]
    BY <1>1, <1>3, <1>4, <1>5 DEF CallLength, Lesser
  <1>7. TypeOK'
    <2>1. length' \in 0 .. ChipSize /\ rest' \in 0 .. ChipSize
      BY <1>1, <1>6, FlashAssumption DEF IInv, TypeOK
    <2> QED
      BY <1>1, <2>1 DEF IInv, TypeOK, chip, caller
  <1>8. Staged'
    BY <1>1, <1>2 DEF IInv, Staged, caller
  <1>9. Cursors'
    <2>1. /\ buf' + write_len' + length' + rest' = job.length
          /\ buf' + write_len' + length' = buf + CallLength
      BY <1>1, <1>3, <1>5, <1>6
    <2> QED
      BY <1>1, <1>2, <1>6, <2>1 DEF IInv, Cursors, SectorCount, caller
  <1>10. Aimed'
    BY <1>1 DEF IInv, Aimed, caller
  <1>11. Settled'
    BY <1>1, <1>2 DEF IInv, Settled, ProtectedThen, QuadThen, chip, caller
  <1>12. Contents'
    BY <1>1, <1>2 DEF IInv, Contents, Until, First, chip, caller
  <1> QED
    BY <1>7, <1>8, <1>9, <1>10, <1>11, <1>12 DEF IInv

LEMMA AllWrittenKeeps ==
    ASSUME IInv, AllWritten
    PROVE  IInv'
  <1>1. /\ pc = "call" /\ pc' = "done" /\ rest = 0
        /\ UNCHANGED <<chip, op, then, wide, caller, loop>>
    BY DEF AllWritten
  <1>2. job # NoJob /\ Stage = "call" /\ Stage' = "done" /\ erased
    BY <1>1 DEF IInv, Staged, Stage
  <1>3. TypeOK'
    BY <1>1 DEF IInv, TypeOK, chip, caller, loop
  <1>4. Staged'
    BY <1>1, <1>2 DEF IInv, Staged, caller
  <1>5. Cursors'
    BY <1>1, <1>2 DEF IInv, Cursors, SectorCount, caller, loop
  <1>6. Aimed'
    BY <1>1 DEF IInv, Aimed, caller
  <1>7. Settled'
    BY <1>1, <1>2 DEF IInv, Settled, ProtectedThen, QuadThen, chip, caller
  <1>8. Contents'
    BY <1>1, <1>2 DEF IInv, Contents, Until, First, chip, caller, loop
  <1> QED
    BY <1>3, <1>4, <1>5, <1>6, <1>7, <1>8 DEF IInv

LEMMA ReturnKeeps ==
    ASSUME IInv, Return
    PROVE  IInv'
  <1>1. /\ pc = "done" /\ pc' = "idle" /\ job' = NoJob
        /\ UNCHANGED <<chip, op, then, wide, erased, late, timeouts, cut, area, jobs, loop>>
    BY DEF Return
  <1>2. TypeOK'
    BY <1>1 DEF IInv, TypeOK, chip, loop
  <1>3. Staged' /\ Cursors' /\ Contents'
    BY <1>1 DEF Staged, Stage, Cursors, Contents
  <1>4. Aimed'
    BY <1>1 DEF IInv, Aimed
  <1>5. Settled'
    BY <1>1 DEF IInv, Settled, Stage
  <1> QED
    BY <1>2, <1>3, <1>4, <1>5 DEF IInv

-----------------------------------------------------------------------------
(***************************************************************************)
(* The commands above the driver                                           *)
(***************************************************************************)

LEMMA SectorErasedKeeps ==
    ASSUME IInv, SectorErased
    PROVE  IInv'
  <1>1. /\ pc = "erased" /\ sector' = sector + 1
        /\ UNCHANGED <<chip, op, then, wide, job, late, timeouts, area, jobs, addr, buf, rest,
                       length, write_len>>
    BY DEF SectorErased, NextSector
  <1>2. job # NoJob /\ Stage = "erased" /\ ~erased /\ Stage' = pc'
    <2>1. pc' # "poll"
      BY DEF SectorErased, AfterErase, AfterCut
    <2> QED
      BY <1>1, <2>1 DEF IInv, Staged, Stage
  <1>3. /\ sector \in Nat /\ sector < SectorCount /\ buf = 0 /\ length = 0 /\ write_len = 0
        /\ SectorCount' = SectorCount
    BY <1>1, <1>2 DEF IInv, TypeOK, Cursors, SectorCount
  <1>4. /\ First \in Int /\ SectorCount \in Nat /\ First' = First
        /\ Sectors(job) = First .. First + SectorCount - 1
        /\ \A a \in Nat : SectorOf(a) \in Sectors(job) => a >= job.offset
        /\ job.offset \in Nat
    BY <1>1, <1>2, JobFacts DEF IInv, First
  <1>5. Aimed'
    BY <1>1 DEF IInv, Aimed
  <1>6. ~late => op = Idle
    BY <1>1 DEF IInv, Settled
  <1>7. ~late /\ ~cut => \A a \in Address : SectorOf(a) \in First .. First + sector => cells[a] = Blank
    <2> SUFFICES ASSUME ~late, ~cut, NEW a \in Address, SectorOf(a) \in First .. First + sector
                 PROVE  cells[a] = Blank
      OBVIOUS
    <2>1. SectorOf(a) \in First .. First + sector - 1 \/ SectorOf(a) = First + sector
      BY <1>3, <1>4
    <2>2. op.kind # "erase"
      BY <1>6 DEF Idle
    <2> QED
      BY <1>2, <2>1, <2>2 DEF IInv, Contents
  <1>8. TypeOK'
    <2>1. pc' \in {"erase", "done", "init", "call"} /\ erased' \in BOOLEAN /\ cut' \in BOOLEAN
      BY DEF SectorErased, AfterErase, AfterCut, IInv, TypeOK
    <2> QED
      BY <1>1, <1>3, <2>1 DEF IInv, TypeOK, chip
  <1>9. CASE /\ sector + 1 < SectorCount
             /\ pc' = "erase"
             /\ UNCHANGED <<erased, cut>>
    <2>1. Staged'
      BY <1>1, <1>2, <1>9 DEF IInv, Staged
    <2>2. Cursors'
      BY <1>1, <1>2, <1>3, <1>9 DEF IInv, Cursors
    <2>3. Settled'
      BY <1>1, <1>2, <1>9 DEF IInv, Settled, ProtectedThen, QuadThen, chip
    <2>4. Contents'
      <3>1. First .. First + sector' - 1 = First .. First + sector
        BY <1>1, <1>3, <1>4
      <3>2. Idle.kind = "none"
        BY DEF Idle
      <3> QED
        BY <1>1, <1>2, <1>4, <1>6, <1>7, <1>9, <3>1, <3>2 DEF Contents, chip
    <2> QED
      BY <1>5, <1>8, <2>1, <2>2, <2>3, <2>4 DEF IInv
  <1>10. CASE /\ erased' = TRUE
              /\ pc' \in {"done", "init", "call"}
              /\ \/ sector + 1 >= SectorCount /\ (pc' = "done" => job.kind = "flerase")
                 \/ cut'
    <2>1. Staged'
      BY <1>1, <1>2, <1>10 DEF IInv, Staged
    <2>2. Cursors'
      BY <1>1, <1>2, <1>3, <1>10 DEF IInv, Cursors
    <2>3. Settled'
      BY <1>1, <1>2, <1>10 DEF IInv, Settled, ProtectedThen, QuadThen, chip
    <2>4. Contents'
      <3> SUFFICES ASSUME ~late, ~cut' PROVE Contents'
        BY <1>1 DEF Contents
      <3>1. ~cut
        BY DEF SectorErased
      <3>2. op' = Idle /\ op'.kind = "none" /\ Until' = 0
        BY <1>1, <1>3, <1>6 DEF Idle, Until
      <3>3. ASSUME NEW a \in Address, SectorOf(a) \in Sectors(job)
            PROVE  cells[a] = IF a < job.offset + 0 THEN a - job.offset ELSE Blank
        <4>1. SectorOf(a) \in First .. First + sector
          BY <1>3, <1>4, <1>10, <3>3
        <4>2. a \in Nat /\ ~(a < job.offset + 0)
          BY <1>4, <3>3 DEF Address
        <4> QED
          BY <1>7, <3>1, <4>1, <4>2
      <3> QED
        BY <1>1, <1>10, <3>2, <3>3 DEF Contents, chip
    <2> QED
      BY <1>5, <1>8, <2>1, <2>2, <2>3, <2>4 DEF IInv
  <1> QED
    BY <1>9, <1>10 DEF SectorErased, AfterErase, AfterCut

LEMMA StartKeeps ==
    ASSUME IInv, NEW j \in Requests, Start(j)
    PROVE  IInv'
  <1>1. /\ pc = "idle" /\ pc' = "init" /\ job' = j /\ jobs < MaxJobs /\ jobs' = jobs + 1
        /\ erased' = FALSE /\ late' = (op # Idle) /\ cut' = FALSE
        /\ area' = Sectors(j) \cup (IF op # Idle THEN area ELSE {})
        /\ sector' = 0 /\ addr' = j.offset /\ buf' = 0 /\ rest' = j.length
        /\ length' = 0 /\ write_len' = 0
        /\ UNCHANGED <<chip, op, then, wide, timeouts>>
    BY DEF Start
  <1>2. /\ j # NoJob /\ j.offset \in Nat /\ j.length \in Nat /\ j.offset + j.length <= ChipSize
    BY RequestFacts
  <1>3. Stage' = "init"
    BY <1>1 DEF Stage
  <1>4. TypeOK'
    <2>1. /\ addr' \in 0 .. ChipSize /\ buf' \in 0 .. ChipSize /\ rest' \in 0 .. ChipSize
          /\ length' \in 0 .. ChipSize /\ write_len' \in 0 .. PageSize /\ sector' \in Nat
          /\ jobs' \in 0 .. MaxJobs
      BY <1>1, <1>2, FlashAssumption DEF IInv, TypeOK
    <2>2. Bytes(j) \subseteq Address
      BY <1>2, FlashAssumption DEF Bytes, Address
    <2>3. area' \subseteq {SectorOf(a) : a \in Address}
      BY <1>1, <2>2 DEF Sectors, IInv, TypeOK
    <2> QED
      BY <1>1, <2>1, <2>3 DEF IInv, TypeOK, chip
  <1>5. Staged'
    BY <1>1, <1>2, <1>3 DEF Staged
  <1>6. Cursors'
    <2>1. (addr' % PageSize) + write_len' <= PageSize
      <3>1. addr' % PageSize \in 0 .. PageSize - 1
        BY <1>1, <1>2, Paged
      <3> QED
        BY <1>1, <3>1, Sizes
    <2> QED
      BY <1>1, <1>2, <1>3, <2>1 DEF Cursors
  <1>7. Aimed'
    BY <1>1 DEF IInv, Aimed, Idle
  <1>8. Settled'
    BY <1>1, <1>3 DEF Settled
  <1>9. Contents'
    <2>1. First' .. First' + sector' - 1 = {}
      <3>1. First' \in Int
        BY <1>1, SectorsOfRequest DEF First
      <3>2. \A n \in Int : n .. n + 0 - 1 = {}
        OBVIOUS
      <3> QED
        BY <1>1, <3>1, <3>2
    <2>2. ~late' => op' = Idle
      BY <1>1
    <2> QED
      BY <1>1, <1>3, <2>1, <2>2 DEF Contents, Idle
  <1> QED
    BY <1>4, <1>5, <1>6, <1>7, <1>8, <1>9 DEF IInv

LEMMA NextIInv == IInv /\ [Next]_vars => IInv'
  <1> SUFFICES ASSUME IInv, [Next]_vars PROVE IInv'
    OBVIOUS
  <1>1. CASE Driver
    BY <1>1, FlashCheckStatusKeeps, FlashOperationTimeoutKeeps, FlashInitKeeps,
       FlashDisableProtectKeeps, FlashSectorEraseKeeps, FlashWriteDataKeeps, FlashWriteDoneKeeps,
       SectorErasedKeeps, CallKeeps, AllWrittenKeeps, ReturnKeeps DEF Driver
  <1>2. CASE UNCHANGED vars
    BY <1>2 DEF vars, chip, caller, loop, IInv, TypeOK, Staged, Stage, Cursors, SectorCount,
                Aimed, Settled, ProtectedThen, QuadThen, Contents, Until, First
  <1> QED
    BY <1>1, <1>2, ChipDoneKeeps, PowerLossKeeps, StartKeeps DEF Next

-----------------------------------------------------------------------------
(***************************************************************************)
(* The theorems                                                            *)
(***************************************************************************)

\* The inductive invariant of the flash driver.
THEOREM FlashInvariance == Spec => []IInv
  <1> QED
    BY InitIInv, NextIInv, PTL DEF Spec

\* Type correctness: no cursor leaves the chip, and no burst is longer than the FIFO.
THEOREM FlashTypes == Spec => []TypeOK
  <1>1. IInv => TypeOK
    BY DEF IInv
  <1> QED
    BY <1>1, FlashInvariance, PTL

\* flash_sector_erase and the page programs of flash_write_data never reach a chip that
\* ignores them, unless flash_check_status gave up on it.
THEOREM NoCommandLost == Spec => []CommandsTaken
  <1>1. IInv => CommandsTaken
    BY DEF IInv, Staged, Settled, Stage, ProtectedThen, QuadThen, Idle, CommandsTaken
  <1> QED
    BY <1>1, FlashInvariance, PTL

\* The bytes of a request appear in order, and all of them, if no polling timed out and
\* no ^C came: do_flash_erase, do_flash_write and flash_image_backup over flash_write_data.
THEOREM WrittenInOrder == Spec => []Written
  <1>1. IInv => Written
    <2> SUFFICES ASSUME IInv, erased, job # NoJob, ~late, ~cut PROVE Written
      BY DEF Written
    <2>1. /\ op.kind = "program" => op.from + op.len = buf
          /\ \A a \in Address :
                 SectorOf(a) \in Sectors(job) =>
                     cells[a] = IF a < job.offset + Until THEN a - job.offset ELSE Blank
      BY DEF IInv, Contents
    <2>2. /\ buf + write_len + length + rest = job.length
          /\ buf \in Nat /\ write_len \in Nat /\ length \in Nat /\ rest \in Nat
      BY DEF IInv, Cursors, TypeOK
    <2>3. Until \in 0 .. job.length
      <3>1. CASE op.kind = "program"
        <4>1. op.from \in Nat /\ op.len \in Nat
          BY <3>1, FlashAssumption DEF IInv, TypeOK, Idle
        <4> QED
          BY <2>1, <2>2, <3>1, <4>1 DEF Until
      <3>2. CASE op.kind # "program"
        BY <2>2, <3>2 DEF Until
      <3> QED
        BY <3>1, <3>2
    <2>4. ASSUME pc = "done", job.kind # "flerase"
          PROVE  Until = job.length
      <3>1. Stage = "done" /\ op = Idle
        BY <2>4 DEF Stage, IInv, Settled
      <3>2. Until = buf /\ length = 0 /\ write_len = 0 /\ rest = 0
        BY <2>4, <3>1 DEF Until, Idle, IInv, Cursors
      <3> QED
        BY <2>2, <3>2
    <2> QED
      BY <2>1, <2>3, <2>4 DEF Written
  <1> QED
    BY <1>1, FlashInvariance, PTL

\* What a step changes is in area.
LEMMA ChangesInArea ==
    ASSUME IInv, Next, NEW a \in Address, cells'[a] # cells[a]
    PROVE  SectorOf(a) \in area
  <1>1. CASE ChipDone
    BY <1>1, AffectedInArea DEF ChipDone, IInv
  <1>2. CASE PowerLoss
    BY <1>2, AffectedInArea DEF PowerLoss, TornBy, IInv
  <1>3. CASE Driver
    BY <1>3 DEF Driver, FlashCheckStatus, FlashOperationTimeout, FlashInit,
                FlashDisableProtect, FlashSectorErase, FlashWriteData, FlashWriteDone,
                SectorErased, CallFlashWriteData, AllWritten, Return, chip
  <1>4. CASE \E j \in Requests : Start(j)
    BY <1>4 DEF Start, chip
  <1> QED
    BY <1>1, <1>2, <1>3, <1>4 DEF Next

\* Nothing changes outside the sectors of the requests, also if the driver goes on before
\* the chip is done, or the power goes.
THEOREM NothingElseChanges == Spec => Confined
  <1> DEFINE Confines == \A a \in Address : cells'[a] # cells[a] => SectorOf(a) \in area
  <1>1. IInv /\ [Next]_vars => [Confines]_vars
    BY ChangesInArea
  <1> QED
    BY <1>1, FlashInvariance, PTL DEF Spec, Confined

-----------------------------------------------------------------------------
(***************************************************************************)
(* FlashDriver implements CellStore                                        *)
(***************************************************************************)

\* Whether a request writes, now that its sectors are erased.
Writing == job.kind = "backup" \/ (job.kind = "flwrite" /\ ~cut)

\* What the command under way is for.  The bytes that a ^C left do not matter here.
Pointed ==
    Sound =>
        /\ ~erased => ~cut
        /\ op.kind = "erase" => Stage = "erased" /\ op.sector = First + sector
        /\ op.kind = "program" => /\ Stage = "write"
                                  /\ op.at = job.offset + op.from
                                  /\ op.from + op.len = buf
                                  /\ (op.at % PageSize) + op.len <= PageSize
        /\ Stage \in {"call", "write"} \/ (Stage = "init" /\ erased) => Writing
        /\ Stage = "done" /\ Writing => rest = 0

LEMMA InitPointed == Init => Pointed
  BY DEF Init, Pointed, Sound

\* The driver goes on polling only while the chip may be busy.
LEMMA IdleThen ==
    ASSUME IInv, Sound, pc # "poll"
    PROVE  op = Idle /\ op.kind = "none" /\ Stage = pc
  BY DEF IInv, Settled, Sound, Idle, Stage

\* The steps that leave the command and the request as they are.
LEMMA ChipPointed ==
    ASSUME IInv, Pointed, ChipDone \/ FlashCheckStatus \/ FlashOperationTimeout \/ PowerLoss
    PROVE  Pointed'
  <1>1. CASE ChipDone
    <2>1. op' = Idle /\ UNCHANGED <<pc, then, job, erased, late, cut, rest>>
      BY <1>1 DEF ChipDone, caller, loop
    <2>2. Stage' = Stage /\ Sound' = Sound /\ Writing' = Writing /\ op'.kind = "none"
      BY <2>1 DEF Stage, Sound, Writing, Idle
    <2> QED
      BY <2>1, <2>2 DEF Pointed
  <1>2. CASE FlashCheckStatus
    <2>1. /\ pc = "poll" /\ pc' = then
          /\ UNCHANGED <<op, then, job, erased, late, cut, sector, buf, rest>>
      BY <1>2 DEF FlashCheckStatus, caller, loop
    <2>2. then # "poll"
      BY <2>1 DEF IInv, Staged
    <2>3. Stage' = Stage /\ Sound' = Sound /\ Writing' = Writing /\ First' = First
      BY <2>1, <2>2 DEF Stage, Sound, Writing, First
    <2> QED
      BY <2>1, <2>3 DEF Pointed
  <1>3. CASE FlashOperationTimeout \/ PowerLoss
    BY <1>3 DEF FlashOperationTimeout, PowerLoss, Pointed, Sound
  <1> QED
    BY <1>1, <1>2, <1>3

LEMMA CommandPointed ==
    ASSUME IInv, Pointed, FlashInit \/ FlashDisableProtect \/ FlashSectorErase
    PROVE  Pointed'
  <1> SUFFICES ASSUME Sound' PROVE Pointed'
    BY DEF Pointed
  <1>1. /\ Sound /\ UNCHANGED <<job, erased, late, cut, sector, buf, rest>>
        /\ pc # "poll" /\ pc' = "poll"
    <2>1. UNCHANGED <<caller, loop>> /\ pc # "poll" /\ pc' = "poll"
      BY DEF FlashInit, FlashDisableProtect, FlashSectorErase, Poll
    <2> QED
      BY <2>1 DEF caller, loop, Sound
  <1>2. op = Idle /\ op.kind = "none" /\ Stage = pc
    BY <1>1, IdleThen
  <1>3. Writing' = Writing /\ First' = First /\ Stage' = then'
    BY <1>1 DEF Writing, First, Stage
  <1>4. CASE FlashInit
    <2>1. /\ op'.kind \in {"none", "status"} /\ pc = "init"
          /\ Stage' = IF erased THEN "call" ELSE "protect"
      BY <1>2, <1>3, <1>4 DEF FlashInit, Poll, Status
    <2> QED
      BY <1>1, <1>2, <1>3, <2>1 DEF Pointed
  <1>5. CASE FlashDisableProtect
    <2>1. op'.kind \in {"none", "status"} /\ Stage' = "erase"
      BY <1>2, <1>3, <1>5 DEF FlashDisableProtect, Poll, Status
    <2> QED
      BY <1>1, <1>2, <1>3, <2>1 DEF Pointed
  <1>6. CASE FlashSectorErase
    <2>1. op' \in {Idle, Erase(First + sector)} /\ Stage' = "erased"
      BY <1>2, <1>3, <1>6 DEF FlashSectorErase, Poll, Take, First
    <2>2. op'.kind = "none" \/ (op'.kind = "erase" /\ op'.sector = First + sector)
      BY <2>1 DEF Idle, Erase
    <2> QED
      BY <1>1, <1>2, <1>3, <2>1, <2>2 DEF Pointed
  <1> QED
    BY <1>4, <1>5, <1>6

\* A burst of flash_write_data: its command is taken, and stays in its page.
LEMMA BurstTaken ==
    ASSUME IInv, Sound, FlashWriteData
    PROVE  \E len \in Nat \ {0} :
               /\ op' = Program(addr, buf, len)
               /\ buf' = buf + len
               /\ addr = job.offset + buf
               /\ (addr % PageSize) + len <= PageSize
  <1> DEFINE page == IF write_len > 0 THEN write_len ELSE Lesser(length, PageRemain)
             len == Lesser(page, Burst)
  <1>1. /\ pc = "write" /\ (length > 0 \/ write_len > 0)
        /\ FlashPageProgram(len) /\ buf' = buf + len
    BY DEF FlashWriteData
  <1>2. op = Idle /\ Stage = "write"
    BY <1>1, IdleThen DEF FlashWriteData
  <1>3. ~protected /\ (wide => qe)
    <2>1. erased
      BY <1>2 DEF IInv, Staged
    <2> QED
      BY <1>2, <2>1 DEF IInv, Settled, Sound, ProtectedThen, QuadThen, Idle
  <1>4. op' = Program(addr, buf, len)
    BY <1>1, <1>2, <1>3 DEF FlashPageProgram, Take, WriteEnabled
  <1>5. addr = job.offset + buf /\ (addr % PageSize) + write_len <= PageSize
    BY DEF IInv, Cursors, Sound
  <1>6. /\ length \in Nat /\ write_len \in Nat /\ Burst \in Nat \ {0}
        /\ addr % PageSize \in 0 .. PageSize - 1 /\ PageSize \in Nat
    <2>1. addr \in Int
      BY FlashAssumption DEF IInv, TypeOK
    <2>2. length \in Nat /\ write_len \in Nat /\ Burst \in Nat \ {0} /\ PageSize \in Nat
      BY FlashAssumption DEF IInv, TypeOK
    <2> QED
      BY <2>1, <2>2, Paged
  <1>7. page \in Nat \ {0} /\ (addr % PageSize) + page <= PageSize
    BY <1>1, <1>5, <1>6 DEF Lesser, PageRemain
  <1>8. len \in Nat \ {0} /\ (addr % PageSize) + len <= PageSize
    <2> HIDE DEF page
    <2> QED
      BY <1>6, <1>7 DEF Lesser
  <1> QED
    BY <1>1, <1>4, <1>5, <1>8

LEMMA WritePointed ==
    ASSUME IInv, Pointed, FlashWriteData \/ FlashWriteDone
    PROVE  Pointed'
  <1> SUFFICES ASSUME Sound' PROVE Pointed'
    BY DEF Pointed
  <1>1. Sound /\ UNCHANGED <<job, erased, late, cut>> /\ pc = "write" /\ pc' = "poll"
    BY DEF FlashWriteData, FlashWriteDone, Poll, caller, Sound
  <1>2. op = Idle /\ op.kind = "none" /\ Stage = "write"
    BY <1>1, IdleThen
  <1>3. Writing' = Writing /\ Stage' = then' /\ Writing /\ erased
    BY <1>1, <1>2 DEF Writing, Stage, Pointed, IInv, Staged
  <1>4. CASE FlashWriteData
    <2>1. PICK len \in Nat \ {0} :
               /\ op' = Program(addr, buf, len)
               /\ buf' = buf + len
               /\ addr = job.offset + buf
               /\ (addr % PageSize) + len <= PageSize
      BY <1>1, <1>4, BurstTaken
    <2>2. op'.kind = "program" /\ op'.at = addr /\ op'.from = buf /\ op'.len = len
      BY <2>1 DEF Program
    <2>3. Stage' = "write"
      BY <1>3, <1>4 DEF FlashWriteData, Poll
    <2> QED
      BY <1>1, <1>3, <2>1, <2>2, <2>3 DEF Pointed
  <1>5. CASE FlashWriteDone
    <2>1. op' = op /\ Stage' \in {"init", "call"}
      BY <1>3, <1>5 DEF FlashWriteDone, Poll
    <2> QED
      BY <1>1, <1>2, <1>3, <2>1 DEF Pointed
  <1> QED
    BY <1>4, <1>5

LEMMA RequestPointed ==
    ASSUME IInv, Pointed,
           \/ SectorErased \/ CallFlashWriteData \/ AllWritten \/ Return
           \/ \E j \in Requests : Start(j)
    PROVE  Pointed'
  <1> SUFFICES ASSUME Sound' PROVE Pointed'
    BY DEF Pointed
  <1>1. CASE \E j \in Requests : Start(j)
    <2>1. /\ op = Idle /\ op' = op /\ pc' = "init" /\ ~erased' /\ ~cut'
      BY <1>1 DEF Start, Sound
    <2> QED
      BY <2>1 DEF Pointed, Stage, Idle
  <1>2. CASE Return
    BY <1>2 DEF Return, Sound
  <1>3. CASE SectorErased
    <2>1. /\ pc = "erased" /\ pc' \in {"erase", "done", "init", "call"}
          /\ UNCHANGED <<op, then, job, late, rest>>
      BY <1>3 DEF SectorErased, AfterErase, AfterCut
    <2>2. Sound /\ op.kind = "none" /\ Stage = "erased" /\ Stage' = pc' /\ ~erased /\ ~cut
      <3>1. Sound
        BY <2>1 DEF Sound
      <3>2. op.kind = "none" /\ Stage = "erased"
        BY <2>1, <3>1, IdleThen
      <3> QED
        BY <2>1, <3>1, <3>2 DEF Stage, IInv, Staged, Pointed
    <2>3. job.kind \in {"flerase", "flwrite", "backup"}
      BY <2>2, JobFacts DEF IInv, Sound
    <2>4. pc' = "erase" => ~erased' /\ ~cut'
      BY <1>3, <2>2 DEF SectorErased, AfterErase, AfterCut
    <2>5. pc' \in {"init", "call"} => Writing'
      BY <1>3, <2>1, <2>2, <2>3 DEF SectorErased, AfterErase, AfterCut, Writing
    <2>6. pc' = "done" => ~Writing'
      BY <1>3, <2>1, <2>2, <2>3 DEF SectorErased, AfterErase, AfterCut, Writing
    <2>7. pc' # "erase" => erased'
      BY <1>3 DEF SectorErased
    <2> QED
      BY <2>1, <2>2, <2>4, <2>5, <2>6, <2>7 DEF Pointed
  <1>4. CASE CallFlashWriteData \/ AllWritten
    <2>1. /\ pc = "call" /\ pc' \in {"write", "done"}
          /\ UNCHANGED <<op, then, job, late, erased, cut>>
          /\ pc' = "done" => rest' = 0
      BY <1>4 DEF CallFlashWriteData, AllWritten, caller, loop
    <2>2. /\ Sound /\ op.kind = "none" /\ Stage = "call" /\ Stage' = pc'
          /\ erased /\ Writing' = Writing
      <3>1. Sound
        BY <2>1 DEF Sound
      <3>2. op.kind = "none" /\ Stage = "call"
        BY <2>1, <3>1, IdleThen
      <3> QED
        BY <2>1, <3>1, <3>2 DEF Stage, IInv, Staged, Writing
    <2> QED
      BY <2>1, <2>2 DEF Pointed
  <1> QED
    BY <1>1, <1>2, <1>3, <1>4

LEMMA NextPointed == IInv /\ Pointed /\ [Next]_vars => Pointed'
  <1> SUFFICES ASSUME IInv, Pointed, [Next]_vars PROVE Pointed'
    OBVIOUS
  <1>1. CASE UNCHANGED vars
    BY <1>1 DEF vars, chip, caller, loop, Pointed, Sound, Stage, First, Writing
  <1> QED
    BY <1>1, ChipPointed, CommandPointed, WritePointed, RequestPointed DEF Next, Driver

\* Pointed holds all along.
THEOREM PointedInvariance == Spec => [](IInv /\ Pointed)
  <1> QED
    BY InitIInv, InitPointed, NextIInv, NextPointed, PTL DEF Spec

\* What CellStore and FlashDriver have in common.
LEMMA StoreNames ==
    /\ Store!Address = Address /\ Store!Byte = Byte /\ Store!Blank = Blank /\ Store!Junk = Junk
    /\ \A a \in Int : Store!SectorOf(a) = SectorOf(a)
    /\ \A j \in Requests : Store!Sectors(j) = Sectors(j)
    /\ \A old, new : Store!Programmed(old, new) = Programmed(old, new)
  BY DEF Store!Address, Address, Store!Byte, Byte, Store!Blank, Blank, Store!Junk, Junk,
         Store!SectorOf, SectorOf, Store!Sectors, Sectors, Bytes, Store!Programmed, Programmed

LEMMA InitMaps == Init => Store!Init
  <1> SUFFICES ASSUME Init PROVE Store!Init
    OBVIOUS
  <1>1. cells \in [Store!Address -> Store!Byte]
    BY StoreNames DEF Init, Byte
  <1>2. job = NoJob /\ late = FALSE /\ area = {}
    BY DEF Init
  <1> QED
    BY <1>1, <1>2 DEF Store!Init, Phase, Done, CutShort, Sound

\* A step that CellStore does not see.
LEMMA Stutters ==
    ASSUME UNCHANGED <<cells, job, Phase, Done, CutShort, area>>
    PROVE  UNCHANGED Store!vars
  BY DEF Store!vars

\* A request begins.
LEMMA StartMaps ==
    ASSUME IInv, NEW j \in Requests, Start(j)
    PROVE  Store!Next
  <1>1. /\ pc = "idle" /\ job' = j /\ ~erased' /\ late' = (op # Idle)
        /\ pc' = "init" /\ sector' = 0
        /\ area' = Sectors(j) \cup (IF op # Idle THEN area ELSE {})
        /\ cells' = cells
    BY DEF Start, chip
  <1>2. job = NoJob /\ j # NoJob /\ Store!Sectors(j) = Sectors(j)
    BY <1>1, RequestFacts, StoreNames DEF IInv, Staged
  <1>3. CutShort' = FALSE /\ Done' = 0
    BY <1>1 DEF CutShort, Done, Stage
  <1>4. CASE op = Idle
    <2>1. Phase' = "erase" /\ area' = Sectors(j)
      BY <1>1, <1>2, <1>4 DEF Phase
    <2> QED
      BY <1>1, <1>2, <1>3, <2>1 DEF Store!Next, Store!Begin
  <1>5. CASE op # Idle
    <2>1. late
      BY <1>1, <1>5 DEF IInv, Settled
    <2>2. Phase = "lost" /\ Phase' = "lost" /\ area' = Sectors(j) \cup area
      BY <1>1, <1>5, <2>1 DEF Phase
    <2> QED
      BY <1>1, <1>2, <1>3, <2>2 DEF Store!Next, Store!Begin
  <1> QED
    BY <1>4, <1>5

\* After a polling timed out anything may happen to area.
LEMMA LostMaps ==
    ASSUME IInv, late, ChipDone \/ Driver \/ PowerLoss
    PROVE  Store!Next
  <1>1. late' /\ area' = area /\ job' \in {job, NoJob}
    BY DEF ChipDone, Driver, PowerLoss, FlashCheckStatus, FlashOperationTimeout, FlashInit,
           FlashDisableProtect, FlashSectorErase, FlashWriteData, FlashWriteDone,
           SectorErased, CallFlashWriteData, AllWritten, Return, caller
  <1>2. /\ Phase = "lost" /\ Phase' = "lost" /\ Done = 0 /\ Done' = 0
        /\ CutShort = FALSE /\ CutShort' = FALSE
    BY <1>1 DEF Phase, Done, CutShort, Sound
  <1>3. cells' \in [Store!Address -> Store!Byte]
    <2>1. IInv'
      BY NextIInv DEF Next
    <2> QED
      BY <2>1, StoreNames DEF IInv, TypeOK
  <1>4. \A a \in Store!Address : Store!SectorOf(a) \notin area => cells'[a] = cells[a]
    <2> SUFFICES ASSUME NEW a \in Address, Store!SectorOf(a) \notin area PROVE cells'[a] = cells[a]
      BY StoreNames
    <2>1. a \in Int /\ Store!SectorOf(a) = SectorOf(a)
      BY StoreNames DEF Address
    <2> QED
      BY <2>1, ChangesInArea DEF Next
  <1> QED
    BY <1>1, <1>2, <1>3, <1>4 DEF Store!Next, Store!Stray

\* The polling gives up.
LEMMA TimeoutMaps ==
    ASSUME IInv, ~late, FlashOperationTimeout
    PROVE  Store!Next
  <1>1. pc = "poll" /\ late' = TRUE /\ UNCHANGED <<cells, job, area>>
    BY DEF FlashOperationTimeout, chip
  <1>2. job # NoJob
    BY <1>1 DEF IInv, Staged
  <1>3. Phase \in {"erase", "program"} /\ Phase' = "lost" /\ Done' = 0 /\ CutShort' = FALSE
    BY <1>1, <1>2 DEF Phase, Done, CutShort, Sound
  <1> QED
    BY <1>1, <1>3 DEF Store!Next, Store!Lose

\* The sector that the chip is busy with is the next one, and a sector of the request.
LEMMA EraseAtDone ==
    ASSUME IInv, Pointed, Sound, op.kind = "erase"
    PROVE  /\ ~erased /\ Stage = "erased" /\ Done = sector
           /\ Store!Sector = op.sector
           /\ Store!Sector \in Store!Sectors(job)
           /\ Store!InSector = Affected(op)
  <1>1. Stage = "erased" /\ op.sector = First + sector /\ ~erased
    BY DEF Pointed, IInv, Staged
  <1>2. Done = sector
    BY <1>1 DEF Done
  <1>3. /\ First \in Int /\ SectorCount \in Nat /\ job \in Requests /\ job.offset \in Nat
        /\ Sectors(job) = First .. First + SectorCount - 1
    BY JobFacts DEF IInv, Sound
  <1>4. Store!Sector = op.sector
    BY <1>1, <1>2, <1>3, StoreNames DEF Store!Sector, First
  <1>5. sector < SectorCount /\ sector \in Nat
    BY <1>1 DEF IInv, Cursors, TypeOK, Sound
  <1>6. op.sector \in Sectors(job)
    BY <1>1, <1>3, <1>5
  <1>7. Store!InSector = Affected(op)
    <2>1. \A a \in Address : a \in Int
      BY DEF Address
    <2> QED
      BY <1>4, <2>1, StoreNames DEF Store!InSector, Affected
  <1> QED
    BY <1>1, <1>2, <1>3, <1>4, <1>6, <1>7, StoreNames

\* The bytes that the chip is busy with are the next ones.
LEMMA ProgramAtDone ==
    ASSUME IInv, Pointed, Sound, op.kind = "program"
    PROVE  /\ erased /\ Writing /\ Done = op.from /\ buf = op.from + op.len
           /\ op.len \in 1 .. job.length - Done
           /\ Affected(op) = Store!Run(op.len)
           /\ \A a \in Affected(op) : IndexAt(op, a) = a - job.offset
  <1>1. /\ Stage = "write" /\ op.at = job.offset + op.from /\ op.from + op.len = buf
        /\ (op.at % PageSize) + op.len <= PageSize /\ Writing
    BY DEF Pointed
  <1>2. erased
    BY <1>1 DEF IInv, Staged
  <1>3. Done = op.from
    BY <1>2 DEF Done, Until
  <1>4. op.at \in Nat /\ op.from \in Nat /\ op.len \in Nat \ {0} /\ job.offset \in Nat
    BY FlashAssumption, JobFacts DEF IInv, TypeOK, Idle, Address, Sound
  <1>5. /\ buf + write_len + length + rest = job.length
        /\ buf \in Nat /\ write_len \in Nat /\ length \in Nat /\ rest \in Nat
    BY DEF IInv, Cursors, TypeOK, Sound
  <1>6. op.len \in 1 .. job.length - Done
    BY <1>1, <1>3, <1>4, <1>5
  <1>7. /\ Reached(op) = op.at .. op.at + op.len - 1
        /\ \A a \in Reached(op) : IndexAt(op, a) = op.from + (a - op.at)
    BY <1>1, <1>4, ReachedStraight
  <1>8. Affected(op) = Store!Run(op.len)
    BY <1>1, <1>3, <1>7 DEF Affected, Store!Run
  <1>9. \A a \in Affected(op) : IndexAt(op, a) = a - job.offset
    BY <1>1, <1>4, <1>7 DEF Affected
  <1> QED
    BY <1>1, <1>2, <1>3, <1>6, <1>8, <1>9

LEMMA WritesIs ==
    ASSUME IInv, Sound, erased
    PROVE  Store!Writes <=> Writing
  BY DEF Store!Writes, Writing, CutShort

\* What a byte is when it is programmed.
LEMMA NewIs ==
    ASSUME IInv, Pointed, Sound, op.kind = "program", NEW a \in Affected(op)
    PROVE  Store!New(a) = Result(op, a)
  BY ProgramAtDone, StoreNames DEF Store!New, Result

\* The chip is done with a sector or with a burst.
LEMMA ChipMaps ==
    ASSUME IInv, Pointed, ~late, ChipDone
    PROVE  [Store!Next]_Store!vars
  <1>1. /\ op # Idle /\ op' = Idle /\ op'.kind = "none"
        /\ UNCHANGED <<pc, then, job, erased, late, cut, area, sector, buf, rest>>
        /\ cells' = [a \in Address |-> IF a \in Affected(op) THEN Result(op, a) ELSE cells[a]]
    BY DEF ChipDone, caller, loop, Idle
  <1>2. Sound /\ Sound' /\ Stage' = Stage
    <2>1. job # NoJob
      BY <1>1 DEF IInv, Staged, Settled
    <2> QED
      BY <1>1, <2>1 DEF Sound, Stage
  <1>3. Phase' = Phase /\ CutShort' = CutShort
    BY <1>1 DEF Phase, CutShort, Sound
  <1>4. CASE op.kind = "erase"
    <2>1. Done' = Done + 1 /\ Phase = "erase"
      BY <1>1, <1>2, <1>4, EraseAtDone DEF Done, Phase, Sound
    <2>2. cells' = [a \in Store!Address |->
                       IF a \in Store!InSector THEN Store!Blank ELSE cells[a]]
      BY <1>1, <1>2, <1>4, EraseAtDone, StoreNames DEF Result
    <2> QED
      BY <1>1, <1>2, <1>3, <1>4, <2>1, <2>2, EraseAtDone DEF Store!Next, Store!EraseSector
  <1>5. CASE op.kind = "program"
    <2>1. /\ erased /\ Writing /\ op.len \in 1 .. job.length - Done
          /\ Affected(op) = Store!Run(op.len) /\ Done = op.from /\ buf = op.from + op.len
      BY <1>2, <1>5, ProgramAtDone
    <2>2. Done' = Done + op.len /\ Phase = "program"
      BY <1>1, <1>2, <2>1 DEF Done, Until, Phase, Sound
    <2>3. \A a \in Affected(op) : Result(op, a) = Store!New(a)
      BY <1>2, <1>5, NewIs
    <2>4. cells' = [a \in Store!Address |->
                       IF a \in Store!Run(op.len) THEN Store!New(a) ELSE cells[a]]
      BY <1>1, <2>1, <2>3, StoreNames
    <2>5. Store!Writes
      BY <1>2, <2>1, WritesIs
    <2> QED
      BY <1>1, <1>3, <2>1, <2>2, <2>4, <2>5 DEF Store!Next, Store!Program
  <1>6. CASE op.kind \notin {"erase", "program"}
    <2>1. Affected(op) = {} /\ cells \in [Address -> Byte]
      BY <1>6 DEF Affected, IInv, TypeOK
    <2>2. cells' = cells
      BY <1>1, <2>1
    <2>3. Done' = Done
      BY <1>1, <1>2, <1>6 DEF Done, Until
    <2> QED
      BY <1>1, <1>3, <2>2, <2>3, Stutters
  <1> QED
    BY <1>4, <1>5, <1>6

\* The power goes.
LEMMA PowerLossMaps ==
    ASSUME IInv, Pointed, ~late, PowerLoss
    PROVE  Store!Next
  <1>1. /\ job # NoJob /\ job' = NoJob /\ UNCHANGED <<late, area>>
        /\ cells' = [a \in Address |-> IF a \in TornBy(op) THEN Junk ELSE cells[a]]
    BY DEF PowerLoss
  <1>2. /\ Sound /\ Phase = (IF erased THEN "program" ELSE "erase")
        /\ Phase' = "none" /\ Done' = 0 /\ CutShort' = FALSE
    BY <1>1 DEF Sound, Phase, Done, CutShort
  <1>3. Store!Ends
    BY <1>1, <1>2 DEF Store!Ends
  <1>4. cells \in [Address -> Byte] /\ cells' \in [Store!Address -> Store!Byte]
    BY <1>1, StoreNames DEF IInv, TypeOK, Byte
  <1>5. CASE op.kind = "erase"
    <2>1. TornBy(op) \subseteq Store!InSector /\ Store!Sector \in Store!Sectors(job) /\ ~erased
      BY <1>2, <1>5, EraseAtDone DEF TornBy
    <2>2. Store!TornSector
      BY <1>1, <2>1, StoreNames DEF Store!TornSector
    <2> QED
      BY <1>2, <1>3, <1>4, <2>1, <2>2 DEF Store!Next, Store!PowerLoss
  <1>6. CASE op.kind = "program"
    <2>1. /\ erased /\ Writing /\ op.len \in 1 .. job.length - Done
          /\ Affected(op) = Store!Run(op.len)
      BY <1>2, <1>6, ProgramAtDone
    <2>2. \A a \in Affected(op) : Result(op, a) = Store!New(a)
      BY <1>2, <1>6, NewIs
    <2>3. \A a \in TornBy(op) : a \in Store!Run(op.len) /\ Store!New(a) # cells[a]
      BY <1>6, <2>1, <2>2 DEF TornBy
    <2>4. Store!TornRun(op.len)
      <3> SUFFICES ASSUME NEW a \in Address
                   PROVE  cells'[a] \in IF a \in Store!Run(op.len) /\ Store!New(a) # cells[a]
                                        THEN {cells[a], Store!New(a), Junk} ELSE {cells[a]}
        BY StoreNames DEF Store!TornRun
      <3>1. cells'[a] = IF a \in TornBy(op) THEN Junk ELSE cells[a]
        BY <1>1
      <3> QED
        BY <2>3, <3>1
    <2>5. Store!Writes
      BY <1>2, <2>1, WritesIs
    <2> QED
      BY <1>2, <1>3, <1>4, <2>1, <2>4, <2>5 DEF Store!Next, Store!PowerLoss
  <1>7. CASE op.kind \notin {"erase", "program"}
    <2>1. TornBy(op) = {}
      BY <1>7 DEF TornBy, Affected
    <2>2. cells' = cells
      BY <1>1, <1>4, <2>1
    <2> QED
      BY <1>2, <1>3, <1>4, <2>2 DEF Store!Next, Store!PowerLoss
  <1> QED
    BY <1>5, <1>6, <1>7

\* The commands and the calls are steps that CellStore does not see.
LEMMA CommandMaps ==
    ASSUME IInv, Pointed, ~late,
           \/ FlashCheckStatus \/ FlashInit \/ FlashDisableProtect \/ FlashSectorErase
           \/ FlashWriteData \/ FlashWriteDone \/ CallFlashWriteData \/ AllWritten
    PROVE  UNCHANGED Store!vars
  <1>1. /\ UNCHANGED <<cells, job, late, erased, cut, area, sector>>
        /\ pc # "idle"
    BY DEF FlashCheckStatus, FlashInit, FlashDisableProtect, FlashSectorErase, FlashWriteData,
           FlashWriteDone, CallFlashWriteData, AllWritten, chip, caller, loop
  <1>2. Sound /\ Sound' /\ Phase' = Phase /\ CutShort' = CutShort
    BY <1>1 DEF IInv, Staged, Sound, Phase, CutShort
  <1>3. Done' = Done
    <2>1. CASE FlashCheckStatus
      <3>1. UNCHANGED <<op, buf>> /\ pc = "poll" /\ pc' = then
        BY <2>1 DEF FlashCheckStatus, loop
      <3>2. Stage' = Stage
        BY <3>1 DEF IInv, Staged, Stage
      <3> QED
        BY <1>1, <1>2, <3>1, <3>2 DEF Done, Until
    <2>2. CASE FlashInit \/ FlashDisableProtect
      <3>1. /\ pc \in {"init", "protect"} /\ pc' = "poll" /\ buf' = buf
            /\ then' \in {"call", "protect", "erase"}
            /\ op' = op \/ op'.kind = "status"
        BY <2>2 DEF FlashInit, FlashDisableProtect, Poll, Status, loop
      <3>2. op.kind = "none" /\ Stage # "erased" /\ Stage' # "erased"
        BY <1>2, <3>1, IdleThen DEF Stage
      <3> QED
        BY <1>1, <1>2, <3>1, <3>2 DEF Done, Until
    <2>3. CASE FlashSectorErase
      <3>1. pc = "erase" /\ Stage' = "erased"
        BY <2>3 DEF FlashSectorErase, Poll, Stage
      <3>2. op = Idle /\ op.kind = "none" /\ Stage = "erase" /\ ~erased
        BY <1>2, <3>1, IdleThen DEF IInv, Staged
      <3>3. ~protected
        BY <1>2, <3>2 DEF IInv, Settled, Sound, ProtectedThen
      <3>4. op'.kind = "erase"
        BY <2>3, <3>2, <3>3 DEF FlashSectorErase, Take, WriteEnabled, Erase
      <3> QED
        BY <1>1, <1>2, <3>1, <3>2, <3>4 DEF Done
    <2>4. CASE FlashWriteData
      <3>1. pc = "write"
        BY <2>4 DEF FlashWriteData
      <3>2. op.kind = "none" /\ erased
        BY <1>2, <3>1, IdleThen DEF IInv, Staged
      <3>3. op'.kind = "program" /\ op'.from = buf
        BY <1>2, <2>4, BurstTaken DEF Program
      <3> QED
        BY <1>1, <1>2, <3>2, <3>3 DEF Done, Until
    <2>5. CASE FlashWriteDone \/ CallFlashWriteData \/ AllWritten
      <3>1. /\ pc \in {"write", "call"} /\ UNCHANGED <<op, buf>>
        BY <2>5 DEF FlashWriteDone, CallFlashWriteData, AllWritten, loop
      <3>2. erased
        BY <1>2, <3>1, IdleThen DEF IInv, Staged
      <3> QED
        BY <1>1, <1>2, <3>1, <3>2 DEF Done, Until
    <2> QED
      BY <2>1, <2>2, <2>3, <2>4, <2>5
  <1> QED
    BY <1>1, <1>2, <1>3, Stutters

\* A sector is erased: the next one, or the end of the erase.
LEMMA SectorErasedMaps ==
    ASSUME IInv, Pointed, ~late, SectorErased
    PROVE  [Store!Next]_Store!vars
  <1>1. /\ pc = "erased" /\ sector' = sector + 1
        /\ UNCHANGED <<cells, op, then, job, late, area, buf>>
        /\ pc' \in {"erase", "done", "init", "call"}
    BY DEF SectorErased, NextSector, AfterErase, AfterCut, chip
  <1>2. Sound /\ Sound'
    BY <1>1 DEF IInv, Staged, Sound
  <1>3. op = Idle /\ op.kind = "none" /\ Stage = "erased" /\ Stage' = pc'
    BY <1>1, <1>2, IdleThen DEF Stage
  <1>4. ~erased /\ ~cut /\ buf = 0 /\ sector \in Nat
    BY <1>2, <1>3 DEF IInv, Staged, Cursors, Pointed, Sound, TypeOK
  <1>5. Done = sector + 1 /\ Phase = "erase" /\ CutShort = FALSE
    BY <1>2, <1>3, <1>4 DEF Done, Phase, CutShort, Sound
  <1>6. CASE pc' = "erase"
    <2>1. ~erased'
      BY <1>4, <1>6 DEF SectorErased, AfterErase, AfterCut
    <2>2. Done' = sector' /\ Phase' = "erase" /\ CutShort' = FALSE
      BY <1>2, <1>3, <1>6, <2>1 DEF Done, Phase, CutShort, Sound
    <2> QED
      BY <1>1, <1>5, <2>2, Stutters
  <1>7. CASE pc' # "erase"
    <2>1. /\ erased' /\ cut' \in BOOLEAN
          /\ cut' \/ sector + 1 >= SectorCount
      <3>1. CASE sector + 1 >= SectorCount /\ erased' = TRUE /\ UNCHANGED cut
        <4>1. cut \in BOOLEAN
          BY DEF IInv, TypeOK
        <4> QED
          BY <1>4, <3>1, <4>1
      <3>2. CASE erased' = TRUE /\ cut' = TRUE
        BY <3>2
      <3> QED
        BY <1>7, <3>1, <3>2 DEF SectorErased
    <2>2. Phase' = "program" /\ Done' = 0 /\ CutShort' = cut'
      BY <1>1, <1>2, <1>3, <1>4, <2>1 DEF Done, Phase, CutShort, Sound, Until
    <2>3. cut' \/ Store!Sector \notin Store!Sectors(job)
      <3>1. /\ First \in Int /\ SectorCount \in Nat /\ job \in Requests /\ job.offset \in Nat
            /\ Sectors(job) = First .. First + SectorCount - 1
        BY <1>2, JobFacts DEF IInv, Sound
      <3>2. Store!Sector = First + (sector + 1) /\ Store!Sectors(job) = Sectors(job)
        BY <1>5, <3>1, StoreNames DEF Store!Sector, First
      <3> QED
        BY <1>4, <2>1, <3>1, <3>2
    <2> QED
      BY <1>1, <1>4, <1>5, <2>1, <2>2, <2>3 DEF Store!Next, Store!EndErase
  <1> QED
    BY <1>6, <1>7

\* The request returns: with all its bytes, if it writes.
LEMMA ReturnMaps ==
    ASSUME IInv, Pointed, ~late, Return
    PROVE  Store!Next
  <1>1. pc = "done" /\ job' = NoJob /\ UNCHANGED <<cells, late, area>>
    BY DEF Return, chip
  <1>2. Sound
    BY <1>1 DEF IInv, Staged, Sound
  <1>3. op.kind = "none" /\ Stage = "done" /\ erased
    BY <1>1, <1>2, IdleThen DEF IInv, Staged
  <1>4. /\ Phase = "program" /\ Done = buf
        /\ Phase' = "none" /\ Done' = 0 /\ CutShort' = FALSE
    BY <1>1, <1>2, <1>3 DEF Phase, Done, Until, CutShort, Sound
  <1>5. Writing => buf = job.length
    <2> SUFFICES ASSUME Writing PROVE buf = job.length
      OBVIOUS
    <2>1. rest = 0 /\ length = 0 /\ write_len = 0 /\ buf + write_len + length + rest = job.length
      BY <1>2, <1>3 DEF Pointed, IInv, Cursors, Sound
    <2>2. buf \in Nat
      BY DEF IInv, TypeOK
    <2> QED
      BY <2>1, <2>2
  <1> QED
    BY <1>1, <1>2, <1>3, <1>4, <1>5, WritesIs DEF Store!Next, Store!End, Store!Ends

\* The driver implements the store of cells that Boot takes the flash for: what
\* do_flash_erase, do_flash_write and flash_image_backup make of a request through
\* flash_sector_erase, flash_write_data and flash_check_status.
THEOREM StoreRefinement == Spec => ImplementsCellStore
  <1>1. ASSUME IInv, Pointed, [Next]_vars
        PROVE  [Store!Next]_Store!vars
    <2>1. CASE UNCHANGED vars
      <3>1. UNCHANGED <<cells, op, pc, then, job, erased, late, cut, area, sector, buf>>
        BY <2>1 DEF vars, chip, caller, loop
      <3>2. UNCHANGED <<Phase, Done, CutShort>>
        BY <3>1 DEF Phase, Done, CutShort, Sound, Stage, Until
      <3> QED
        BY <3>1, <3>2, Stutters
    <2>2. CASE \E j \in Requests : Start(j)
      BY <1>1, <2>2, StartMaps
    <2>3. CASE late /\ (ChipDone \/ Driver \/ PowerLoss)
      BY <1>1, <2>3, LostMaps
    <2>4. CASE ~late /\ (ChipDone \/ Driver \/ PowerLoss)
      BY <1>1, <2>4, ChipMaps, PowerLossMaps, TimeoutMaps, CommandMaps, SectorErasedMaps,
         ReturnMaps
         DEF Driver
    <2> QED
      BY <1>1, <2>1, <2>2, <2>3, <2>4 DEF Next
  <1> QED
    BY <1>1, InitMaps, PointedInvariance, PTL DEF Spec, ImplementsCellStore, Store!Spec

-----------------------------------------------------------------------------
(***************************************************************************)
(* SpiTransfer                                                             *)
(*                                                                         *)
(* In a send, what the chip got, the frame in the shift register and the   *)
(* transmit FIFO are the beginning of what is to be sent, and the FIFO     *)
(* holds more frames than the core can be late for.  In a read, what the   *)
(* controller still takes and the receive FIFO are together what is left   *)
(* of the read command, which is no more than the FIFO has room for.       *)
(***************************************************************************)

\* No frame is on its way.
Quiet == tx = <<>> /\ rx = <<>> /\ shift = NoFrame /\ frames = 0

\* The frame at the place k of a send, and how many of its frames are in the shift register.
FrameAt(k) == IF k <= CmdLength THEN <<"cmd", 0>> ELSE <<"data", k - CmdLength - 1>>
InShift == IF shift = NoFrame THEN 0 ELSE 1

\* t goes on behind b frames of the send, up to its data byte m.
Continues(t, b, m) ==
    /\ b + Len(t) = CmdLength + m
    /\ \A k \in 1 .. Len(t) : t[k] = FrameAt(b + k)

\* What the chip got, the frame that is being shifted and the FIFO are the beginning of
\* the send, one behind the other.
InLine ==
    /\ \A k \in 1 .. Len(arrived) : arrived[k] = FrameAt(k)
    /\ shift # NoFrame => shift = FrameAt(Len(arrived) + 1)
    /\ Continues(tx, Len(arrived) + InShift, moved)

Sending ==
    spi_mode = "send" =>
        /\ rx = <<>> /\ frames = 0
        /\ spi_pc # "command"
        /\ spi_pc # "idle" => moved + left = total
        /\ spi_pc \notin {"idle", "done"} => InLine
        /\ spi_pc \in {"wait", "deselect", "done"} => left = 0
        /\ spi_pc = "deselect" => Sent
        /\ spi_pc = "done" => 
              /\ Len(arrived) = CmdLength + total
              /\ \A k \in 1 .. Len(arrived) : arrived[k] = FrameAt(k)
        /\ spi_pc \in {"level", "move"} =>
              /\ selected
              /\ left > 0
              /\ Len(tx) + shifted >= Depth - Slack
        /\ spi_pc = "move" => 
              /\ fifo_len <= left
              /\ fifo_len = left \/ fifo_len + Len(tx) + shifted >= Depth
              /\ fifo_len + Len(tx) <= Depth

Reading ==
    spi_mode = "receive" =>
        /\ spi_pc # "wait"
        /\ moved <= total
        /\ Len(got) = moved
        /\ \A k \in 1 .. moved : got[k] = k - 1
        /\ spi_pc = "command" => moved < total
        /\ spi_pc = "done" => moved = total
        /\ spi_pc = "deselect" => Quiet
        /\ spi_pc \in {"level", "move"} =>
              /\ selected
              /\ left > 0 /\ left <= Chunk
              /\ moved + left <= total
              /\ frames + Len(rx) = left
              /\ \A k \in 1 .. Len(rx) : rx[k] = moved + k - 1
              /\ \A k \in 1 .. Len(tx) : tx[k] = <<"cmd", moved>>
              /\ shift # NoFrame => shift = <<"cmd", moved>>
              /\ IF Sent THEN at = moved + Len(rx) ELSE rx = <<>>
        /\ spi_pc = "move" => fifo_len <= left /\ fifo_len <= Len(rx)

SpiInv ==
    /\ SpiTypeOK
    /\ spi_pc \in {"idle", "command", "done"} => Quiet
    /\ Sending
    /\ Reading

-----------------------------------------------------------------------------

LEMMA FrameTypes ==
    /\ \A i \in Nat : <<"cmd", i>> \in Frame /\ <<"data", i>> \in Frame
    /\ NoFrame \notin Frame
    /\ \A k \in Nat \ {0} : FrameAt(k) \in Frame
  <1>1. \A i \in Nat : <<"cmd", i>> \in Frame /\ <<"data", i>> \in Frame
    BY DEF Frame
  <1>2. NoFrame \notin Frame
    BY DEF NoFrame, Frame
  <1>3. \A k \in Nat \ {0} : FrameAt(k) \in Frame
    <2> SUFFICES ASSUME NEW k \in Nat \ {0} PROVE FrameAt(k) \in Frame
      OBVIOUS
    <2>1. CASE k <= CmdLength
      BY <1>1, <2>1 DEF FrameAt
    <2>2. CASE ~(k <= CmdLength)
      <3>1. k - CmdLength - 1 \in Nat
        BY <2>2, SpiAssumption
      <3> QED
        BY <1>1, <2>2, <3>1 DEF FrameAt
    <2> QED
      BY <2>1, <2>2
  <1> QED
    BY <1>1, <1>2, <1>3

LEMMA CommandShape ==
    ASSUME NEW i \in Nat
    PROVE  /\ Command(i) \in Seq(Frame)
           /\ Len(Command(i)) = CmdLength
           /\ \A k \in 1 .. CmdLength : Command(i)[k] = <<"cmd", i>>
  <1>1. Command(i) \in [1 .. CmdLength -> Frame]
    BY FrameTypes DEF Command
  <1>2. CmdLength \in Nat
    BY SpiAssumption
  <1>3. Command(i) \in Seq(Frame)
    BY <1>1, <1>2, SeqDef
  <1>4. Len(Command(i)) = CmdLength
    BY <1>1, <1>2, <1>3, LenProperties
  <1> QED
    BY <1>3, <1>4 DEF Command

LEMMA DataShape ==
    ASSUME NEW i \in Nat, NEW n \in Nat
    PROVE  /\ DataFrames(i, n) \in Seq(Frame)
           /\ Len(DataFrames(i, n)) = n
           /\ \A k \in 1 .. n : DataFrames(i, n)[k] = <<"data", i + k - 1>>
  <1>1. DataFrames(i, n) \in [1 .. n -> Frame]
    <2> SUFFICES ASSUME NEW k \in 1 .. n PROVE <<"data", i + k - 1>> \in Frame
      BY DEF DataFrames
    <2>1. i + k - 1 \in Nat
      OBVIOUS
    <2> QED
      BY <2>1, FrameTypes
  <1>2. DataFrames(i, n) \in Seq(Frame)
    BY <1>1, SeqDef
  <1>3. Len(DataFrames(i, n)) = n
    BY <1>1, <1>2, LenProperties
  <1> QED
    BY <1>2, <1>3 DEF DataFrames

\* The FIFO of a send after it was filled: the data goes on where it ended.
LEMMA Filled ==
    ASSUME NEW t \in Seq(Frame), NEW b \in Nat, NEW m \in Nat, NEW n \in Nat,
           Continues(t, b, m)
    PROVE  /\ t \o DataFrames(m, n) \in Seq(Frame)
           /\ Len(t \o DataFrames(m, n)) = Len(t) + n
           /\ Continues(t \o DataFrames(m, n), b, m + n)
  <1> DEFINE u == t \o DataFrames(m, n)
  <1>0. /\ b + Len(t) = CmdLength + m
        /\ \A k \in 1 .. Len(t) : t[k] = FrameAt(b + k)
    BY DEF Continues
  <1>1. Len(t) \in Nat /\ CmdLength \in Nat
    BY LenProperties, SpiAssumption
  <1>2. /\ u \in Seq(Frame)
        /\ Len(u) = Len(t) + n
        /\ \A k \in 1 .. Len(t) + n :
              u[k] = IF k <= Len(t) THEN t[k] ELSE DataFrames(m, n)[k - Len(t)]
    <2>1. /\ DataFrames(m, n) \in Seq(Frame)
          /\ Len(DataFrames(m, n)) = n
      BY DataShape
    <2>2. /\ u \in Seq(Frame)
          /\ Len(u) = Len(t) + Len(DataFrames(m, n))
          /\ \A k \in 1 .. Len(t) + Len(DataFrames(m, n)) :
                u[k] = IF k <= Len(t) THEN t[k] ELSE DataFrames(m, n)[k - Len(t)]
      BY <2>1, ConcatProperties
    <2> HIDE DEF u
    <2> QED
      BY <2>1, <2>2
  <1> HIDE DEF u
  <1>3. ASSUME NEW k \in 1 .. Len(t) + n PROVE u[k] = FrameAt(b + k)
    <2>1. CASE k <= Len(t)
      <3>1. k \in 1 .. Len(t)
        BY <1>1, <2>1
      <3> QED
        BY <1>0, <1>2, <3>1, <2>1
    <2>2. CASE k > Len(t)
      <3>1. k - Len(t) \in 1 .. n /\ ~(k <= Len(t))
        BY <1>1, <2>2
      <3>2. u[k] = <<"data", m + (k - Len(t)) - 1>>
        BY <1>2, <3>1, DataShape
      <3>3. b + k > CmdLength /\ b + k - CmdLength - 1 = m + (k - Len(t)) - 1
        BY <1>0, <1>1, <2>2
      <3>4. FrameAt(b + k) = <<"data", b + k - CmdLength - 1>>
        BY <3>3, <1>1 DEF FrameAt
      <3> QED
        BY <3>2, <3>3, <3>4
    <2>3. k <= Len(t) \/ k > Len(t)
      BY <1>1
    <2> QED
      BY <2>1, <2>2, <2>3
  <1>4. b + (Len(t) + n) = CmdLength + (m + n)
    BY <1>0, <1>1
  <1>5. u \in Seq(Frame) /\ Len(u) = Len(t) + n /\ Continues(u, b, m + n)
    BY <1>2, <1>3, <1>4 DEF Continues
  <1> QED
    BY <1>5 DEF u

\* A whole send, or as much of one as fits the FIFO.
LEMMA SendShape ==
    ASSUME NEW n \in Nat
    PROVE  LET u == Command(0) \o DataFrames(0, n) IN
           /\ u \in Seq(Frame)
           /\ Len(u) = CmdLength + n
           /\ \A k \in 1 .. Len(u) : u[k] = FrameAt(k)
  <1> DEFINE u == Command(0) \o DataFrames(0, n)
  <1>1. CmdLength \in Nat
    BY SpiAssumption
  <1>2. \A k \in 1 .. Len(Command(0)) : Command(0)[k] = FrameAt(0 + k)
    <2> SUFFICES ASSUME NEW k \in 1 .. Len(Command(0)) PROVE Command(0)[k] = FrameAt(0 + k)
      OBVIOUS
    <2>1. k \in 1 .. CmdLength
      BY CommandShape
    <2>2. 0 + k = k /\ k <= CmdLength
      BY <2>1, <1>1
    <2> QED
      BY <2>1, <2>2, CommandShape DEF FrameAt
  <1>3. /\ Command(0) \in Seq(Frame)
        /\ Len(Command(0)) = CmdLength
        /\ Continues(Command(0), 0, 0)
        /\ 0 \in Nat
    BY <1>1, <1>2, CommandShape DEF Continues
  <1>4. /\ u \in Seq(Frame)
        /\ Len(u) = CmdLength + n
        /\ Continues(u, 0, 0 + n)
    BY <1>3, Filled
  <1>5. /\ u \in Seq(Frame)
        /\ Len(u) = CmdLength + n
        /\ \A k \in 1 .. Len(u) : u[k] = FrameAt(0 + k)
    BY <1>4 DEF Continues
  <1> HIDE DEF u
  <1>6. \A k \in 1 .. Len(u) : 0 + k = k
    BY <1>1, <1>5
  <1>7. /\ u \in Seq(Frame)
        /\ Len(u) = CmdLength + n
        /\ \A k \in 1 .. Len(u) : u[k] = FrameAt(k)
    BY <1>5, <1>6
  <1> QED
    BY <1>7 DEF u

\* What the chip got when all of the send arrived.
LEMMA WholeSend ==
    ASSUME NEW s \in Seq(Frame), NEW n \in Nat, Len(s) = CmdLength + n,
           \A k \in 1 .. Len(s) : s[k] = FrameAt(k)
    PROVE  s = Command(0) \o DataFrames(0, n)
  <1> DEFINE u == Command(0) \o DataFrames(0, n)
  <1>1. /\ u \in Seq(Frame)
        /\ Len(u) = CmdLength + n
        /\ \A k \in 1 .. Len(u) : u[k] = FrameAt(k)
    BY SendShape
  <1> HIDE DEF u
  <1>2. s = u
    BY <1>1, SeqEqual
  <1> QED
    BY <1>2 DEF u

-----------------------------------------------------------------------------

LEMMA SpiStart == SpiInit => SpiInv
  <1> SUFFICES ASSUME SpiInit PROVE SpiInv
    OBVIOUS
  <1> USE SpiAssumption
  <1>0. /\ <<>> \in Seq(Frame) /\ <<>> \in Seq(Nat) /\ Len(<<>>) = 0
    BY EmptySeq
  <1>1. SpiTypeOK
    <2>1. 0 \in Nat /\ 0 \in 0 .. Depth /\ 0 \in 0 .. Chunk /\ 0 \in 0 .. Slack /\ 0 <= Depth
      OBVIOUS
    <2> QED
      BY <1>0, <2>1 DEF SpiInit, SpiTypeOK
  <1>2. Quiet /\ Sending /\ Reading
    BY DEF SpiInit, Quiet, Sending, Reading
  <1> QED
    BY <1>1, <1>2 DEF SpiInv

LEMMA LenNat ==
    ASSUME NEW S, NEW s \in Seq(S)
    PROVE  Len(s) \in Nat /\ (s = <<>> <=> Len(s) = 0)
  BY EmptySeq, LenProperties

LEMMA InLineKept ==
    InLine /\ UNCHANGED <<arrived, shift, tx, moved>> => InLine'
  BY DEF InLine, InShift, Continues, FrameAt

LEMMA ReadCommandKeeps == SpiInv /\ ReadCommand => SpiInv'
  <1> SUFFICES ASSUME SpiInv, ReadCommand PROVE SpiInv'
    OBVIOUS
  <1> USE SpiAssumption
  <1>1. SpiTypeOK /\ Quiet /\ spi_mode = "receive" /\ moved < total
    BY DEF SpiInv, ReadCommand, Sending, Reading, SpiTypeOK
  <1>2. /\ WriteLen \in 1 .. Chunk
        /\ moved + WriteLen <= total
    BY <1>1 DEF WriteLen, AtMost, SpiTypeOK
  <1>3. /\ tx' \in Seq(Frame)
        /\ Len(tx') = CmdLength
        /\ \A k \in 1 .. CmdLength : tx'[k] = <<"cmd", moved>>
    BY <1>1, CommandShape DEF ReadCommand, NextAddress, SpiTypeOK
  <1>4. tx' # <<>>
    BY <1>3, LenNat
  <1>5. rx' = <<>> /\ Len(rx') = 0 /\ <<>> \in Seq(Frame)
    BY <1>1, EmptySeq DEF Quiet, ReadCommand
  <1>6. SpiTypeOK'
    BY <1>1, <1>2, <1>3, <1>5 DEF SpiTypeOK, ReadCommand, spi_core
  <1>7. Sending'
    BY <1>1 DEF Sending, ReadCommand, spi_core
  <1>8. Reading'
    BY <1>1, <1>2, <1>3, <1>4, <1>5 DEF Reading, ReadCommand, spi_core, Sent, Quiet, SpiInv
  <1> QED
    BY <1>6, <1>7, <1>8 DEF SpiInv, ReadCommand

LEMMA EndReceiveKeeps == SpiInv /\ EndReceive => SpiInv'
  <1> SUFFICES ASSUME SpiInv, EndReceive PROVE SpiInv'
    OBVIOUS
  <1> USE SpiAssumption
  <1>1. SpiTypeOK /\ moved <= total
    BY DEF SpiInv, EndReceive, Reading
  <1>2. <<>> \in Seq(Frame) /\ <<>> \in Seq(Nat) /\ Len(<<>>) = 0
    BY EmptySeq
  <1>3. SpiTypeOK'
    <2>1. tx' = <<>> /\ rx' = <<>> /\ shift' = NoFrame /\ selected' = FALSE
      BY DEF EndReceive, SwitchOff
    <2>2. 0 \in 0 .. Chunk /\ 0 <= Depth
      OBVIOUS
    <2> QED
      BY <1>1, <1>2, <2>1, <2>2 DEF SpiInv, SpiTypeOK, EndReceive, spi_core, spi_loop
  <1>4. Quiet'
    BY DEF Quiet, EndReceive, SwitchOff
  <1>5. Sending'
    BY DEF Sending, EndReceive, spi_core
  <1>6. Reading'
    BY <1>1 DEF Reading, EndReceive, spi_core, spi_loop, SpiInv, SpiTypeOK
  <1> QED
    BY <1>3, <1>4, <1>5, <1>6 DEF SpiInv

LEMMA StartReadKeeps ==
    ASSUME NEW n \in SpiLengths, SpiInv, StartRead(n) PROVE SpiInv'
  <1> USE SpiAssumption
  <1>1. SpiTypeOK /\ Quiet /\ n \in Nat
    BY DEF SpiInv, StartRead
  <1>2. <<>> \in Seq(Nat) /\ Len(<<>>) = 0
    BY EmptySeq
  <1>3. SpiTypeOK'
    BY <1>1, <1>2 DEF SpiTypeOK, StartRead, spi
  <1>4. Quiet'
    BY <1>1 DEF Quiet, StartRead, spi
  <1>5. Sending'
    BY DEF Sending, StartRead
  <1>6. Reading'
    BY <1>1, <1>2 DEF Reading, StartRead
  <1> QED
    BY <1>3, <1>4, <1>5, <1>6 DEF SpiInv

LEMMA StartSendKeeps ==
    ASSUME NEW n \in SpiLengths, SpiInv, StartSend(n) PROVE SpiInv'
  <1> USE SpiAssumption
  <1> DEFINE room == AtMost(Depth - CmdLength, n)
  <1>1. SpiTypeOK /\ Quiet /\ n \in Nat
    BY DEF SpiInv, StartSend
  <1>2. /\ room \in Nat /\ room <= n /\ CmdLength + room <= Depth
        /\ room < n => CmdLength + room = Depth
    BY <1>1 DEF AtMost
  <1>3. /\ tx' = Command(0) \o DataFrames(0, room)
        /\ moved' = room /\ left' = n - room /\ total' = n
        /\ spi_pc' = IF room < n THEN "level" ELSE "wait"
    BY DEF StartSend
  <1> HIDE DEF room
  <1>4. <<>> \in Seq(Nat) /\ <<>> \in Seq(Frame) /\ Len(<<>>) = 0
    BY EmptySeq
  <1>6. /\ tx' \in Seq(Frame)
        /\ Len(tx') = CmdLength + room
        /\ \A k \in 1 .. Len(tx') : tx'[k] = FrameAt(k)
    BY <1>2, <1>3, SendShape
  <1>7. SpiTypeOK'
    BY <1>1, <1>2, <1>3, <1>4, <1>6 DEF SpiTypeOK, StartSend
  <1>8. InLine'
    <2>1. arrived' = <<>> /\ shift' = NoFrame
      BY <1>1 DEF StartSend, Quiet
    <2>2. \A k \in 1 .. Len(tx') : Len(arrived') + 0 + k = k
      BY <1>2, <1>4, <1>6, <2>1
    <2> QED
      BY <1>2, <1>3, <1>4, <1>6, <2>1, <2>2 DEF InLine, InShift, Continues
  <1>9. Sending'
    BY <1>1, <1>2, <1>3, <1>6, <1>8 DEF Sending, StartSend, Quiet
  <1>10. Reading'
    BY DEF Reading, StartSend
  <1> QED
    BY <1>3, <1>7, <1>9, <1>10 DEF SpiInv

LEMMA WaitSentKeeps == SpiInv /\ WaitSent => SpiInv'
  <1> SUFFICES ASSUME SpiInv, WaitSent PROVE SpiInv'
    OBVIOUS
  <1>1. SpiTypeOK'
    BY DEF SpiInv, SpiTypeOK, WaitSent, spi_core, spi_loop, spi
  <1>2. spi_mode = "send" /\ InLine
    BY DEF SpiInv, Sending, Reading, WaitSent, SpiTypeOK
  <1>3. InLine'
    BY <1>2, InLineKept DEF WaitSent, spi, spi_loop
  <1>4. Sending'
    BY <1>2, <1>3 DEF SpiInv, Sending, WaitSent, Sent, spi_core, spi_loop, spi
  <1>5. Reading'
    BY <1>2 DEF Reading, WaitSent, spi_core
  <1> QED
    BY <1>1, <1>4, <1>5 DEF SpiInv, WaitSent

LEMMA EndSendKeeps == SpiInv /\ EndSend => SpiInv'
  <1> SUFFICES ASSUME SpiInv, EndSend PROVE SpiInv'
    OBVIOUS
  <1> USE SpiAssumption
  <1>1. <<>> \in Seq(Frame) /\ <<>> \in Seq(Nat) /\ Len(<<>>) = 0
    BY EmptySeq
  <1>2. SpiTypeOK'
    <2>1. tx' = <<>> /\ rx' = <<>> /\ shift' = NoFrame /\ selected' = FALSE
      BY DEF EndSend, SwitchOff
    <2>2. 0 \in 0 .. Chunk /\ 0 <= Depth
      OBVIOUS
    <2> QED
      BY <1>1, <2>1, <2>2 DEF SpiInv, SpiTypeOK, EndSend, spi_core, spi_loop
  <1>3. InLine /\ Sent /\ moved + left = total /\ left = 0 /\ frames = 0
    BY DEF SpiInv, Sending, EndSend
  <1>4. /\ Len(arrived) = CmdLength + total
        /\ \A k \in 1 .. Len(arrived) : arrived[k] = FrameAt(k)
    <2>1. Len(arrived) \in Nat /\ moved \in Nat
      BY LenNat DEF SpiInv, SpiTypeOK
    <2> QED
      BY <1>1, <1>3, <2>1 DEF InLine, InShift, Continues, Sent
  <1>5. Quiet'
    BY <1>3 DEF Quiet, EndSend, SwitchOff
  <1>6. Sending'
    BY <1>3, <1>4 DEF Sending, EndSend, SwitchOff, spi_core, spi_loop, FrameAt
  <1>7. Reading'
    BY DEF Reading, EndSend, spi_core
  <1> QED
    BY <1>2, <1>5, <1>6, <1>7 DEF SpiInv

LEMMA SpiReturnKeeps == SpiInv /\ SpiReturn => SpiInv'
  <1> SUFFICES ASSUME SpiInv, SpiReturn PROVE SpiInv'
    OBVIOUS
  <1>1. SpiTypeOK'
    BY DEF SpiInv, SpiTypeOK, SpiReturn, spi_core, spi_loop, spi
  <1>2. Quiet'
    BY DEF SpiInv, Quiet, SpiReturn, spi
  <1>3. Sending' /\ Reading'
    BY DEF SpiInv, Sending, Reading, SpiReturn, spi_core, spi_loop, spi
  <1> QED
    BY <1>1, <1>2, <1>3 DEF SpiInv

LEMMA ReadLevelKeeps == SpiInv /\ ReadLevel => SpiInv'
  <1> SUFFICES ASSUME SpiInv, ReadLevel PROVE SpiInv'
    OBVIOUS
  <1> USE SpiAssumption
  <1>1. /\ SpiTypeOK
        /\ Len(tx) \in Nat /\ Len(rx) \in Nat
    BY LenNat DEF SpiInv, SpiTypeOK
  <1>2. CASE spi_mode = "send"
    <2>1. /\ InLine /\ selected /\ left > 0
          /\ Len(tx) + shifted >= Depth - Slack
          /\ moved + left = total /\ rx = <<>> /\ frames = 0
      BY <1>2 DEF SpiInv, Sending, ReadLevel
    <2>2. /\ fifo_len' \in 0 .. Depth
          /\ fifo_len' <= left
          /\ fifo_len' = left \/ fifo_len' + Len(tx) + shifted >= Depth
          /\ fifo_len' + Len(tx) <= Depth
      BY <1>1, <1>2, <2>1 DEF ReadLevel, TxLevel, AtMost, SpiTypeOK
    <2>3. InLine'
      BY <2>1, InLineKept DEF ReadLevel, spi
    <2>4. SpiTypeOK'
      BY <1>1, <2>2 DEF SpiTypeOK, ReadLevel, spi_core, spi
    <2>5. Sending'
      BY <1>2, <2>1, <2>2, <2>3 DEF Sending, ReadLevel, spi_core, spi
    <2>6. Reading'
      BY <1>2 DEF Reading, ReadLevel, spi_core
    <2> QED
      BY <2>4, <2>5, <2>6 DEF SpiInv, ReadLevel
  <1>3. CASE spi_mode = "receive"
    <2>1. /\ fifo_len' \in 0 .. Depth
          /\ fifo_len' <= left /\ fifo_len' <= Len(rx)
      BY <1>1, <1>3 DEF ReadLevel, RxLevel, AtMost, SpiTypeOK
    <2>2. SpiTypeOK'
      BY <1>1, <2>1 DEF SpiTypeOK, ReadLevel, spi_core, spi
    <2>3. Sending'
      BY <1>3 DEF Sending, ReadLevel, spi_core
    <2>4. Reading'
      BY <1>3, <2>1 DEF SpiInv, Reading, ReadLevel, Sent, spi_core, spi
    <2> QED
      BY <2>2, <2>3, <2>4 DEF SpiInv, ReadLevel
  <1> QED
    BY <1>1, <1>2, <1>3 DEF SpiTypeOK

LEMMA MoveSendKeeps == SpiInv /\ MoveBytes /\ spi_mode = "send" => SpiInv'
  <1> SUFFICES ASSUME SpiInv, MoveBytes, spi_mode = "send" PROVE SpiInv'
    OBVIOUS
  <1> USE SpiAssumption
  <1>1. /\ SpiTypeOK /\ InLine /\ selected /\ left > 0
        /\ moved + left = total /\ rx = <<>> /\ frames = 0
        /\ fifo_len <= left
        /\ fifo_len = left \/ fifo_len + Len(tx) + shifted >= Depth
        /\ fifo_len + Len(tx) <= Depth
    BY DEF SpiInv, Sending, MoveBytes
  <1>2. /\ Len(tx) \in Nat /\ Len(arrived) \in Nat /\ InShift \in Nat
        /\ fifo_len \in Nat /\ left \in Nat /\ moved \in Nat /\ total \in Nat
        /\ shifted \in 0 .. Slack
    BY <1>1, LenNat DEF SpiTypeOK, InShift
  <1>3. /\ tx' = tx \o DataFrames(moved, fifo_len)
        /\ shifted' = 0 /\ moved' = moved + fifo_len /\ left' = left - fifo_len
        /\ spi_pc' = IF left' > 0 THEN "level" ELSE "wait"
        /\ UNCHANGED <<rx, got, spi_mode, total, fifo_len, shift, frames, at, selected, arrived>>
    BY DEF MoveBytes
  <1>4. /\ tx' \in Seq(Frame)
        /\ Len(tx') = Len(tx) + fifo_len
        /\ Continues(tx', Len(arrived) + InShift, moved + fifo_len)
    <2>1. /\ Len(arrived) + InShift \in Nat
          /\ Continues(tx, Len(arrived) + InShift, moved)
          /\ tx \in Seq(Frame)
      BY <1>1, <1>2 DEF InLine, SpiTypeOK
    <2> QED
      BY <1>2, <1>3, <2>1, Filled
  <1>5. SpiTypeOK'
    <2>1. left' \in Nat /\ moved' \in Nat /\ Len(tx') <= Depth /\ 0 \in 0 .. Slack
      BY <1>1, <1>2, <1>3, <1>4
    <2>2. spi_pc' \in {"level", "wait"}
      BY <1>3
    <2> QED
      BY <1>1, <1>3, <1>4, <2>1, <2>2 DEF SpiTypeOK
  <1>6. InLine'
    <2>1. InShift' = InShift /\ arrived' = arrived /\ shift' = shift
      BY <1>3 DEF InShift
    <2> QED
      BY <1>1, <1>3, <1>4, <2>1 DEF InLine
  <1>7. /\ moved' + left' = total'
        /\ left' > 0 => Len(tx') + shifted' >= Depth - Slack
        /\ ~(left' > 0) => left' = 0
    BY <1>1, <1>2, <1>3, <1>4
  <1>8. Sending'
    BY <1>1, <1>3, <1>6, <1>7 DEF Sending
  <1>9. Reading'
    BY <1>3 DEF Reading
  <1> QED
    BY <1>3, <1>5, <1>8, <1>9 DEF SpiInv

LEMMA MoveReceiveKeeps == SpiInv /\ MoveBytes /\ spi_mode = "receive" => SpiInv'
  <1> SUFFICES ASSUME SpiInv, MoveBytes, spi_mode = "receive" PROVE SpiInv'
    OBVIOUS
  <1> USE SpiAssumption
  <1>1. /\ SpiTypeOK /\ selected
        /\ left > 0 /\ left <= Chunk /\ moved + left <= total
        /\ frames + Len(rx) = left
        /\ fifo_len <= left /\ fifo_len <= Len(rx)
        /\ Len(got) = moved
        /\ \A k \in 1 .. moved : got[k] = k - 1
        /\ \A k \in 1 .. Len(rx) : rx[k] = moved + k - 1
        /\ \A k \in 1 .. Len(tx) : tx[k] = <<"cmd", moved>>
        /\ shift # NoFrame => shift = <<"cmd", moved>>
        /\ IF Sent THEN at = moved + Len(rx) ELSE rx = <<>>
    BY DEF SpiInv, Reading, MoveBytes
  <1>2. /\ Len(rx) \in Nat /\ Len(tx) \in Nat /\ Len(got) \in Nat /\ frames \in Nat
        /\ fifo_len \in Nat /\ left \in Nat /\ moved \in Nat /\ total \in Nat /\ at \in Nat
        /\ rx = <<>> <=> Len(rx) = 0
    BY <1>1, LenNat DEF SpiTypeOK
  <1>3. /\ got' = got \o SubSeq(rx, 1, fifo_len)
        /\ rx' = SubSeq(rx, fifo_len + 1, Len(rx))
        /\ moved' = moved + fifo_len /\ left' = left - fifo_len
        /\ spi_pc' = IF left' > 0 THEN "level" ELSE "deselect"
        /\ UNCHANGED <<tx, shifted, spi_mode, total, fifo_len, shift, frames, at, selected, arrived>>
    BY DEF MoveBytes
  <1>4. /\ SubSeq(rx, 1, fifo_len) \in Seq(Nat)
        /\ Len(SubSeq(rx, 1, fifo_len)) = fifo_len
        /\ \A k \in 1 .. fifo_len : SubSeq(rx, 1, fifo_len)[k] = rx[k]
    <2>1. \A k \in 1 .. fifo_len : rx[k] \in Nat
      BY <1>1, <1>2, ElementOfSeq DEF SpiTypeOK
    <2>2. /\ SubSeq(rx, 1, fifo_len) \in Seq(Nat)
          /\ Len(SubSeq(rx, 1, fifo_len)) = IF 1 <= fifo_len THEN fifo_len - 1 + 1 ELSE 0
          /\ \A k \in 1 .. fifo_len - 1 + 1 : SubSeq(rx, 1, fifo_len)[k] = rx[1 + k - 1]
      BY <1>2, <2>1, SubSeqProperties
    <2> QED
      BY <1>2, <2>2
  <1>5. /\ rx' \in Seq(Nat)
        /\ Len(rx') = Len(rx) - fifo_len
        /\ \A k \in 1 .. Len(rx') : rx'[k] = rx[fifo_len + k]
    <2>1. \A k \in fifo_len + 1 .. Len(rx) : rx[k] \in Nat
      BY <1>1, <1>2, ElementOfSeq DEF SpiTypeOK
    <2>2. /\ rx' \in Seq(Nat)
          /\ Len(rx') = IF fifo_len + 1 <= Len(rx) THEN Len(rx) - (fifo_len + 1) + 1 ELSE 0
          /\ \A k \in 1 .. Len(rx) - (fifo_len + 1) + 1 : rx'[k] = rx[fifo_len + 1 + k - 1]
      BY <1>2, <1>3, <2>1, SubSeqProperties
    <2>3. Len(rx') = Len(rx) - fifo_len
      BY <1>1, <1>2, <2>2
    <2>4. ASSUME NEW k \in 1 .. Len(rx') PROVE rx'[k] = rx[fifo_len + k]
      <3>1. k \in 1 .. Len(rx) - (fifo_len + 1) + 1 /\ fifo_len + 1 + k - 1 = fifo_len + k
        BY <1>2, <2>3
      <3> QED
        BY <2>2, <3>1
    <2> QED
      BY <2>2, <2>3, <2>4
  <1>6. /\ got' \in Seq(Nat)
        /\ Len(got') = moved'
        /\ \A k \in 1 .. moved' : got'[k] = k - 1
    <2>1. /\ got' \in Seq(Nat)
          /\ Len(got') = Len(got) + Len(SubSeq(rx, 1, fifo_len))
          /\ \A k \in 1 .. Len(got) + Len(SubSeq(rx, 1, fifo_len)) :
                got'[k] = IF k <= Len(got) THEN got[k] ELSE SubSeq(rx, 1, fifo_len)[k - Len(got)]
      <3>1. got \in Seq(Nat)
        BY <1>1 DEF SpiTypeOK
      <3> QED
        BY <1>3, <1>4, <3>1, ConcatProperties
    <2>2. ASSUME NEW k \in 1 .. moved' PROVE got'[k] = k - 1
      <3>1. CASE k <= moved
        BY <1>1, <1>2, <1>3, <1>4, <2>1, <3>1
      <3>2. CASE ~(k <= moved)
        <4>1. k - moved \in 1 .. fifo_len /\ k - moved \in 1 .. Len(rx)
          BY <1>1, <1>2, <1>3, <3>2
        <4>2. got'[k] = rx[k - moved]
          BY <1>1, <1>2, <1>3, <1>4, <2>1, <3>2, <4>1
        <4>3. rx[k - moved] = moved + (k - moved) - 1
          BY <1>1, <4>1
        <4>4. moved + (k - moved) - 1 = k - 1
          BY <1>2, <1>3
        <4> QED
          BY <4>2, <4>3, <4>4
      <3> QED
        BY <3>1, <3>2
    <2> QED
      BY <1>1, <1>3, <1>4, <2>1, <2>2
  <1>7. SpiTypeOK'
    <2>1. left' \in Nat /\ moved' \in Nat /\ Len(rx') <= Depth
      BY <1>1, <1>2, <1>3, <1>5 DEF SpiTypeOK
    <2>2. spi_pc' \in {"level", "deselect"}
      BY <1>3
    <2> QED
      BY <1>1, <1>3, <1>5, <1>6, <2>1, <2>2 DEF SpiTypeOK
  <1>8. \A k \in 1 .. Len(rx') : rx'[k] = moved' + k - 1
    <2> SUFFICES ASSUME NEW k \in 1 .. Len(rx') PROVE rx'[k] = moved' + k - 1
      OBVIOUS
    <2>1. fifo_len + k \in 1 .. Len(rx)
      BY <1>1, <1>2, <1>5
    <2>2. rx'[k] = moved + (fifo_len + k) - 1
      BY <1>1, <1>5, <2>1
    <2> QED
      BY <1>2, <1>3, <2>2
  <1>9. fifo_len > 0 => Sent /\ tx = <<>> /\ shift = NoFrame
    BY <1>1, <1>2 DEF Sent
  <1>10. /\ left' > 0 => frames' + Len(rx') = left' /\ left' <= Chunk /\ moved' + left' <= total'
         /\ moved' <= total'
         /\ ~(left' > 0) => frames' = 0 /\ Len(rx') = 0 /\ fifo_len > 0
    BY <1>1, <1>2, <1>3, <1>5
  <1>11. Sent' = Sent
    BY <1>3 DEF Sent
  <1>12. IF Sent' THEN at' = moved' + Len(rx') ELSE rx' = <<>>
    <2>1. CASE Sent
      <3>1. at = moved + Len(rx)
        BY <1>1, <2>1
      <3>2. at' = (moved + fifo_len) + (Len(rx) - fifo_len)
        BY <1>2, <1>3, <3>1
      <3> QED
        BY <1>3, <1>5, <1>11, <2>1, <3>2
    <2>2. CASE ~Sent
      <3>1. Len(rx') = 0
        BY <1>1, <1>2, <1>5, <2>2
      <3> QED
        BY <1>5, <1>11, <2>2, <3>1, LenNat
    <2> QED
      BY <2>1, <2>2
  <1>13. /\ \A k \in 1 .. Len(tx') : tx'[k] = <<"cmd", moved'>>
         /\ shift' # NoFrame => shift' = <<"cmd", moved'>>
    <2>1. CASE fifo_len > 0
      <3>1. tx' = <<>> /\ Len(tx') = 0 /\ shift' = NoFrame
        BY <1>3, <1>9, <2>1, EmptySeq
      <3> QED
        BY <3>1
    <2>2. CASE ~(fifo_len > 0)
      <3>1. moved' = moved
        BY <1>2, <1>3, <2>2
      <3> QED
        BY <1>1, <1>3, <3>1
    <2> QED
      BY <2>1, <2>2
  <1>14. ~(left' > 0) => Quiet'
    <2> SUFFICES ASSUME ~(left' > 0) PROVE Quiet'
      OBVIOUS
    <2>1. rx' = <<>>
      BY <1>5, <1>10, LenNat
    <2> QED
      BY <1>3, <1>9, <1>10, <2>1 DEF Quiet
  <1>15. Reading'
    BY <1>1, <1>3, <1>6, <1>8, <1>10, <1>12, <1>13, <1>14 DEF Reading
  <1>16. Sending'
    BY <1>3 DEF Sending
  <1> QED
    BY <1>3, <1>7, <1>15, <1>16 DEF SpiInv

\* The head of the FIFO goes to the shift register.
LEMMA Loaded ==
    ASSUME NEW t \in Seq(Frame), t # <<>>, NEW b \in Nat, NEW m \in Nat,
           Continues(t, b, m)
    PROVE  /\ Head(t) \in Frame /\ Head(t) = FrameAt(b + 1) /\ Head(t) = t[1]
           /\ Tail(t) \in Seq(Frame)
           /\ Len(Tail(t)) = Len(t) - 1
           /\ Continues(Tail(t), b + 1, m)
  <1>1. /\ Head(t) \in Frame
        /\ Tail(t) \in Seq(Frame)
        /\ Len(Tail(t)) = Len(t) - 1
        /\ \A k \in 1 .. Len(Tail(t)) : Tail(t)[k] = t[k + 1]
    BY HeadTailProperties
  <1>2. Head(t) = t[1]
    OBVIOUS
  <1>3. /\ Len(t) \in Nat /\ Len(t) > 0 /\ 1 \in 1 .. Len(t)
    BY LenNat
  <1>4. /\ b + Len(t) = CmdLength + m
        /\ \A k \in 1 .. Len(t) : t[k] = FrameAt(b + k)
    BY DEF Continues
  <1>5. (b + 1) + Len(Tail(t)) = CmdLength + m
    BY <1>1, <1>3, <1>4
  <1>6. ASSUME NEW k \in 1 .. Len(Tail(t)) PROVE Tail(t)[k] = FrameAt((b + 1) + k)
    <2>1. k + 1 \in 1 .. Len(t) /\ b + (k + 1) = (b + 1) + k
      BY <1>1, <1>3
    <2>2. Tail(t)[k] = FrameAt(b + (k + 1))
      BY <1>1, <1>4, <2>1
    <2> QED
      BY <2>1, <2>2
  <1> QED
    BY <1>1, <1>2, <1>3, <1>4, <1>5, <1>6 DEF Continues

LEMMA LoadFrameKeeps == SpiInv /\ LoadFrame => SpiInv'
  <1> SUFFICES ASSUME SpiInv, LoadFrame PROVE SpiInv'
    OBVIOUS
  <1> USE SpiAssumption
  <1>1. /\ SpiTypeOK /\ tx # <<>> /\ shift = NoFrame /\ selected /\ ~Sent /\ ~Quiet
        /\ Len(tx) \in Nat /\ Len(tx) > 0 /\ Len(arrived) \in Nat
        /\ spi_pc \notin {"idle", "command", "done"}
    BY LenNat DEF SpiInv, SpiTypeOK, LoadFrame, Sent, Quiet
  <1>2. /\ shift' = Head(tx) /\ tx' = Tail(tx)
        /\ InStep
        /\ UNCHANGED <<spi_pc, spi_mode, total, got, left, moved, fifo_len, rx, frames, at,
                       selected, arrived>>
    BY DEF LoadFrame, spi_core, spi_loop
  <1>3. /\ tx' \in Seq(Frame) /\ Len(tx') = Len(tx) - 1
        /\ shift' \in Frame /\ shift' = tx[1]
        /\ \A k \in 1 .. Len(tx') : tx'[k] = tx[k + 1]
    BY <1>1, <1>2, HeadTailProperties DEF SpiTypeOK
  <1>4. shift' # NoFrame
    BY <1>3, FrameTypes
  <1>5. shifted' \in 0 .. Slack
    BY <1>1, <1>2 DEF InStep, SpiTypeOK
  <1>6. SpiTypeOK'
    <2>1. Len(tx') <= Depth
      BY <1>1, <1>3 DEF SpiTypeOK
    <2> QED
      BY <1>1, <1>2, <1>3, <1>5, <2>1 DEF SpiTypeOK
  <1>7. CASE spi_mode = "send"
    <2>1. InLine /\ spi_pc \in {"level", "move", "wait"}
      BY <1>1, <1>7 DEF SpiInv, Sending, SpiTypeOK
    <2>2. InLine'
      <3>1. Continues(tx, Len(arrived), moved)
        BY <1>1, <2>1 DEF InLine, InShift
      <3>2. /\ shift' = FrameAt(Len(arrived) + 1)
            /\ Continues(tx', Len(arrived) + 1, moved)
        BY <1>1, <1>2, <3>1, Loaded DEF SpiTypeOK
      <3>3. InShift' = 1
        BY <1>4 DEF InShift
      <3> QED
        BY <1>2, <2>1, <3>2, <3>3 DEF InLine
    <2>3. ASSUME spi_pc \in {"level", "move"}
          PROVE  Len(tx') + shifted' = Len(tx) + shifted
      BY <1>1, <1>2, <1>3, <1>7, <2>3 DEF InStep, SpiTypeOK
    <2>4. ASSUME spi_pc = "move", fifo_len + Len(tx) + shifted >= Depth
          PROVE  fifo_len + Len(tx') + shifted' >= Depth
      <3>1. fifo_len \in Nat /\ shifted \in Nat /\ shifted' \in Nat /\ Len(tx') \in Nat
        BY <1>1, <1>3, <1>5 DEF SpiTypeOK
      <3> QED
        BY <1>1, <2>3, <2>4, <3>1
    <2>5. ASSUME spi_pc = "move", fifo_len + Len(tx) <= Depth
          PROVE  fifo_len + Len(tx') <= Depth
      BY <1>1, <1>3, <2>5 DEF SpiTypeOK
    <2>6. Sending'
      BY <1>1, <1>2, <1>7, <2>1, <2>2, <2>3, <2>4, <2>5 DEF SpiInv, Sending
    <2>7. Reading'
      BY <1>2, <1>7 DEF Reading
    <2> QED
      BY <1>1, <1>2, <1>6, <2>6, <2>7 DEF SpiInv
  <1>8. CASE spi_mode = "receive"
    <2>1. spi_pc \in {"level", "move"}
      BY <1>1, <1>8 DEF SpiInv, Reading, SpiTypeOK
    <2>2. /\ rx = <<>>
          /\ \A k \in 1 .. Len(tx) : tx[k] = <<"cmd", moved>>
      BY <1>1, <1>8, <2>1 DEF SpiInv, Reading
    <2>3. ~Sent'
      BY <1>4 DEF Sent
    <2>4. \A k \in 1 .. Len(tx') : tx'[k] = <<"cmd", moved>>
      <3> SUFFICES ASSUME NEW k \in 1 .. Len(tx') PROVE tx'[k] = <<"cmd", moved>>
        OBVIOUS
      <3>1. k + 1 \in 1 .. Len(tx)
        BY <1>1, <1>3
      <3> QED
        BY <1>3, <2>2, <3>1
    <2>5. shift' = <<"cmd", moved>>
      <3>1. 1 \in 1 .. Len(tx)
        BY <1>1
      <3> QED
        BY <1>3, <2>2, <3>1
    <2>6. Reading'
      BY <1>2, <1>8, <2>1, <2>2, <2>3, <2>4, <2>5 DEF SpiInv, Reading
    <2>7. Sending'
      BY <1>2, <1>8 DEF Sending
    <2> QED
      BY <1>1, <1>2, <1>6, <2>6, <2>7 DEF SpiInv
  <1> QED
    BY <1>1, <1>7, <1>8 DEF SpiTypeOK

LEMMA ShiftFrameKeeps == SpiInv /\ ShiftFrame => SpiInv'
  <1> SUFFICES ASSUME SpiInv, ShiftFrame PROVE SpiInv'
    OBVIOUS
  <1> USE SpiAssumption
  <1>1. /\ SpiTypeOK /\ shift # NoFrame /\ ~Sent /\ ~Quiet
        /\ Len(tx) \in Nat /\ Len(rx) \in Nat /\ Len(arrived) \in Nat
        /\ spi_pc \notin {"idle", "command", "done"}
        /\ shift \in Frame
    BY LenNat DEF SpiInv, SpiTypeOK, ShiftFrame, Sent, Quiet
  <1>2. /\ arrived' = Append(arrived, shift) /\ shift' = NoFrame
        /\ at' = IF shift[1] = "cmd" THEN shift[2] ELSE at
        /\ selected' = (tx # <<>> \/ spi_mode = "receive")
        /\ UNCHANGED <<spi_pc, spi_mode, total, got, left, moved, fifo_len, tx, rx, frames, shifted>>
    BY DEF ShiftFrame, spi_core, spi_loop
  <1>3. /\ arrived' \in Seq(Frame) /\ Len(arrived') = Len(arrived) + 1
        /\ \A k \in 1 .. Len(arrived) : arrived'[k] = arrived[k]
        /\ arrived'[Len(arrived) + 1] = shift
    BY <1>1, <1>2, AppendProperties DEF SpiTypeOK
  <1>4. shift[2] \in Nat
    BY <1>1 DEF Frame
  <1>5. SpiTypeOK'
    <2>1. at' \in Nat /\ selected' \in BOOLEAN
      BY <1>1, <1>2, <1>4 DEF SpiTypeOK
    <2> QED
      BY <1>1, <1>2, <1>3, <2>1 DEF SpiTypeOK
  <1>6. CASE spi_mode = "send"
    <2>1. InLine /\ spi_pc \in {"level", "move", "wait"}
      BY <1>1, <1>6 DEF SpiInv, Sending, SpiTypeOK
    <2>2. InLine'
      <3>1. /\ \A k \in 1 .. Len(arrived) : arrived[k] = FrameAt(k)
            /\ shift = FrameAt(Len(arrived) + 1)
            /\ Continues(tx, Len(arrived) + 1, moved)
        BY <1>1, <2>1 DEF InLine, InShift
      <3>2. InShift' = 0 /\ Len(arrived') + InShift' = Len(arrived) + 1
        BY <1>1, <1>2, <1>3 DEF InShift
      <3>3. ASSUME NEW k \in 1 .. Len(arrived') PROVE arrived'[k] = FrameAt(k)
        <4>1. CASE k = Len(arrived) + 1
          BY <1>3, <3>1, <4>1
        <4>2. CASE k # Len(arrived) + 1
          <5>1. k \in 1 .. Len(arrived)
            BY <1>1, <1>3, <4>2
          <5> QED
            BY <1>3, <3>1, <5>1
        <4> QED
          BY <4>1, <4>2
      <3>4. (\A k \in 1 .. Len(arrived) : arrived[k] = FrameAt(k))'
        BY <3>3 DEF FrameAt
      <3>5. Continues(tx, Len(arrived) + InShift, moved)'
        BY <1>2, <3>1, <3>2 DEF Continues, FrameAt
      <3> QED
        BY <1>2, <3>4, <3>5 DEF InLine
    <2>3. ASSUME spi_pc \in {"level", "move"} PROVE selected'
      <3>1. Len(tx) + shifted >= Depth - Slack
        BY <1>6, <2>3 DEF SpiInv, Sending
      <3>2. Len(tx) > 0
        BY <1>1, <3>1 DEF SpiTypeOK
      <3>3. tx # <<>>
        BY <3>2, EmptySeq
      <3> QED
        BY <1>2, <3>3
    <2>4. Sending'
      BY <1>1, <1>2, <1>6, <2>1, <2>2, <2>3 DEF SpiInv, Sending
    <2>5. Reading'
      BY <1>2, <1>6 DEF Reading
    <2> QED
      BY <1>1, <1>2, <1>5, <2>4, <2>5 DEF SpiInv
  <1>7. CASE spi_mode = "receive"
    <2>1. spi_pc \in {"level", "move"}
      BY <1>1, <1>7 DEF SpiInv, Reading, SpiTypeOK
    <2>2. rx = <<>> /\ shift = <<"cmd", moved>>
      BY <1>1, <1>7, <2>1 DEF SpiInv, Reading
    <2>3. at' = moved' + Len(rx')
      <3>1. shift[1] = "cmd" /\ shift[2] = moved
        BY <2>2
      <3>2. Len(rx) = 0 /\ moved \in Nat
        BY <1>1, <2>2, EmptySeq DEF SpiTypeOK
      <3> QED
        BY <1>2, <3>1, <3>2
    <2>4. Reading'
      BY <1>2, <1>7, <2>1, <2>2, <2>3 DEF SpiInv, Reading
    <2>5. Sending'
      BY <1>2, <1>7 DEF Sending
    <2> QED
      BY <1>1, <1>2, <1>5, <2>4, <2>5 DEF SpiInv
  <1> QED
    BY <1>1, <1>6, <1>7 DEF SpiTypeOK

LEMMA TakeFrameKeeps == SpiInv /\ TakeFrame => SpiInv'
  <1> SUFFICES ASSUME SpiInv, TakeFrame PROVE SpiInv'
    OBVIOUS
  <1> USE SpiAssumption
  <1>1. /\ SpiTypeOK /\ Sent /\ frames > 0 /\ ~Quiet /\ spi_mode = "receive"
        /\ Len(rx) \in Nat
        /\ spi_pc \in {"level", "move"}
    BY LenNat DEF SpiInv, SpiTypeOK, TakeFrame, Sent, Quiet, Reading
  <1>2. /\ left <= Chunk /\ frames + Len(rx) = left /\ at = moved + Len(rx)
        /\ \A k \in 1 .. Len(rx) : rx[k] = moved + k - 1
    BY <1>1 DEF SpiInv, Reading
  <1>3. Len(rx) < Depth
    BY <1>1, <1>2 DEF SpiTypeOK
  <1>4. /\ frames' = frames - 1 /\ at' = at + 1 /\ rx' = Append(rx, at)
        /\ UNCHANGED <<spi_pc, spi_mode, total, got, left, moved, fifo_len, tx, shift,
                       selected, arrived, shifted>>
    BY <1>3 DEF TakeFrame, spi_core, spi_loop
  <1>5. /\ rx' \in Seq(Nat) /\ Len(rx') = Len(rx) + 1
        /\ \A k \in 1 .. Len(rx) : rx'[k] = rx[k]
        /\ rx'[Len(rx) + 1] = at
    BY <1>1, <1>4, AppendProperties DEF SpiTypeOK
  <1>6. SpiTypeOK'
    <2>1. frames' \in 0 .. Chunk /\ at' \in Nat /\ Len(rx') <= Depth
      BY <1>1, <1>3, <1>4, <1>5 DEF SpiTypeOK
    <2> QED
      BY <1>1, <1>4, <1>5, <2>1 DEF SpiTypeOK
  <1>7. /\ frames' + Len(rx') = left' /\ at' = moved' + Len(rx')
        /\ moved \in Nat
    <2>1. frames \in Nat /\ moved \in Nat /\ Len(rx) \in Nat
      BY <1>1 DEF SpiTypeOK
    <2>2. frames - 1 + (Len(rx) + 1) = left /\ at + 1 = moved + (Len(rx) + 1)
      BY <1>2, <2>1
    <2> QED
      BY <1>4, <1>5, <2>1, <2>2
  <1>8. \A k \in 1 .. Len(rx') : rx'[k] = moved' + k - 1
    <2> SUFFICES ASSUME NEW k \in 1 .. Len(rx') PROVE rx'[k] = moved' + k - 1
      OBVIOUS
    <2>1. CASE k = Len(rx) + 1
      <3>1. moved + k - 1 = at
        BY <1>1, <1>2, <1>7, <2>1
      <3> QED
        BY <1>4, <1>5, <2>1, <3>1
    <2>2. CASE k # Len(rx) + 1
      <3>1. k \in 1 .. Len(rx)
        BY <1>1, <1>5, <2>2
      <3> QED
        BY <1>2, <1>4, <1>5, <3>1
    <2> QED
      BY <2>1, <2>2
  <1>9. Sent'
    BY <1>1, <1>4 DEF Sent
  <1>10. spi_pc = "move" => fifo_len <= Len(rx')
    <2>1. spi_pc = "move" => fifo_len <= Len(rx)
      BY <1>1 DEF SpiInv, Reading
    <2> QED
      BY <1>1, <1>5, <2>1 DEF SpiTypeOK
  <1>11. Reading'
    BY <1>1, <1>4, <1>7, <1>8, <1>9, <1>10 DEF SpiInv, Reading
  <1>12. Sending'
    BY <1>1, <1>4 DEF Sending
  <1> QED
    BY <1>1, <1>4, <1>6, <1>11, <1>12 DEF SpiInv

LEMMA SpiStutters == SpiInv /\ UNCHANGED spi_vars => SpiInv'
  <1> SUFFICES ASSUME SpiInv, UNCHANGED spi_vars PROVE SpiInv'
    OBVIOUS
  <1>1. SpiTypeOK'
    BY DEF SpiInv, SpiTypeOK, spi_vars, spi_core, spi_loop, spi
  <1>2. InLine => InLine'
    BY InLineKept DEF spi_vars, spi_loop, spi
  <1>3. Sending'
    BY <1>2 DEF SpiInv, Sending, Sent, FrameAt, spi_vars, spi_core, spi_loop, spi
  <1>4. Reading' /\ (Quiet => Quiet')
    BY DEF SpiInv, Reading, Quiet, Sent, spi_vars, spi_core, spi_loop, spi
  <1> QED
    BY <1>1, <1>3, <1>4 DEF SpiInv, spi_vars

-----------------------------------------------------------------------------

\* The inductive invariant of the transfers, for FIFOs, commands and requests of any size.
THEOREM SpiInvariance == SpiSpec => []SpiInv
  <1>1. SpiInv /\ SpiNext => SpiInv'
    <2> SUFFICES ASSUME SpiInv, SpiNext PROVE SpiInv'
      OBVIOUS
    <2>1. CASE Controller
      BY <2>1, LoadFrameKeeps, ShiftFrameKeeps, TakeFrameKeeps DEF Controller
    <2>2. CASE MoveBytes
      BY <2>2, MoveSendKeeps, MoveReceiveKeeps DEF SpiInv, SpiTypeOK
    <2>3. CASE Core
      BY <2>2, <2>3, ReadCommandKeeps, EndReceiveKeeps, WaitSentKeeps, EndSendKeeps,
         ReadLevelKeeps, SpiReturnKeeps DEF Core
    <2>4. CASE \E n \in SpiLengths : StartRead(n) \/ StartSend(n)
      BY <2>4, StartReadKeeps, StartSendKeeps
    <2> QED
      BY <2>1, <2>3, <2>4 DEF SpiNext
  <1>2. SpiInv /\ [SpiNext]_spi_vars => SpiInv'
    BY <1>1, SpiStutters
  <1> QED
    BY <1>2, SpiStart, PTL DEF SpiSpec

\* Type correctness: neither FIFO overflows, and no count goes below zero.
THEOREM SpiTypes == SpiSpec => []SpiTypeOK
  <1>1. SpiInv => SpiTypeOK
    BY DEF SpiInv
  <1> QED
    BY <1>1, SpiInvariance, PTL

\* A read brings all bytes of the flash in order, and a send reaches the chip in one piece.
THEOREM TransfersAreWhole == SpiSpec => []TransferWhole
  <1>1. SpiInv => TransferWhole
    <2> SUFFICES ASSUME SpiInv, spi_pc = "done" PROVE TransferWhole
      BY DEF TransferWhole
    <2>1. SpiTypeOK
      BY DEF SpiInv
    <2>2. ASSUME spi_mode = "receive"
          PROVE  got = [k \in 1 .. total |-> k - 1]
      <3>1. Len(got) = total /\ \A k \in 1 .. total : got[k] = k - 1
        BY <2>2 DEF SpiInv, Reading
      <3>2. got \in [1 .. total -> Nat]
        BY <2>1, <3>1, LenProperties DEF SpiTypeOK
      <3> QED
        BY <3>1, <3>2
    <2>3. ASSUME spi_mode = "send"
          PROVE  arrived = Command(0) \o DataFrames(0, total)
      <3>1. /\ Len(arrived) = CmdLength + total
            /\ \A k \in 1 .. Len(arrived) : arrived[k] = FrameAt(k)
            /\ arrived \in Seq(Frame) /\ total \in Nat
        BY <2>1, <2>3 DEF SpiInv, Sending, SpiTypeOK
      <3> QED
        BY <3>1, WholeSend
    <2> QED
      BY <2>2, <2>3 DEF TransferWhole
  <1> QED
    BY <1>1, SpiInvariance, PTL
=============================================================================
