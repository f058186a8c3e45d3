------------------------------ MODULE CellStore ------------------------------
(***************************************************************************)
(* The flash as Boot takes it: a request erases its sectors one after the  *)
(* other, and then programs its bytes one after the other; only the sector *)
(* or the bytes of the moment are torn when the power goes.  FlashDriver   *)
(* implements this specification.                                          *)
(***************************************************************************)
EXTENDS Integers

CONSTANTS
    ChipSize,       \* bytes of the chip
    SectorSize,     \* bytes of a sector
    Requests,       \* records of the kind of a request, its offset and its length
    NoRequest       \* no request

VARIABLES
    cells,      \* cells[a]: content of byte a of the chip
    request,    \* the request, or NoRequest
    phase,      \* "none", "erase", "program", or "lost" when the driver gave up on the
                \* chip: from then on any byte of area may change
    done,       \* the sectors erased or the bytes programmed
    cut,        \* a ^C ended the erase
    area        \* the sectors of this request, and of those that were lost before it

vars == <<cells, request, phase, done, cut, area>>

Address == 0 .. ChipSize - 1
SectorOf(a) == a \div SectorSize
Sectors(r) == {SectorOf(a) : a \in r.offset .. r.offset + r.length - 1}

Blank == -1
Junk  == -2
Byte == {Blank, Junk} \cup Nat

\* Programming only clears bits.
Programmed(old, new) == IF old \in {Blank, new} THEN new ELSE Junk

Init ==
    /\ cells \in [Address -> Byte]
    /\ request = NoRequest
    /\ phase = "none"
    /\ done = 0
    /\ cut = FALSE
    /\ area = {}

-----------------------------------------------------------------------------

\* A request begins; after one that was lost it may be lost from the start.
Begin(r) ==
    /\ request = NoRequest
    /\ request' = r
    /\ done' = 0
    /\ cut' = FALSE
    /\ \/ phase' = "erase" /\ area' = Sectors(r)
       \/ phase = "lost" /\ phase' = "lost" /\ area' = Sectors(r) \cup area
    /\ UNCHANGED cells

\* The sector that is next, n bytes that are next, and what a byte is when programmed.
Sector == SectorOf(request.offset) + done
InSector == {a \in Address : SectorOf(a) = Sector}
Run(n) == request.offset + done .. request.offset + done + n - 1
New(a) == Programmed(cells[a], a - request.offset)

EraseSector ==
    /\ phase = "erase"
    /\ Sector \in Sectors(request)
    /\ cells' = [a \in Address |-> IF a \in InSector THEN Blank ELSE cells[a]]
    /\ done' = done + 1
    /\ UNCHANGED <<request, phase, cut, area>>

\* The sectors are erased, or some of them when a ^C came.
EndErase ==
    /\ phase = "erase"
    /\ done > 0
    /\ cut' \in BOOLEAN
    /\ cut' \/ Sector \notin Sectors(request)
    /\ phase' = "program"
    /\ done' = 0
    /\ UNCHANGED <<cells, request, area>>

\* flerase writes nothing, and after a ^C only flash_image_backup does.
Writes == request.kind = "backup" \/ (request.kind = "flwrite" /\ ~cut)

Program ==
    /\ phase = "program"
    /\ Writes
    /\ \E n \in 1 .. request.length - done :
          /\ cells' = [a \in Address |-> IF a \in Run(n) THEN New(a) ELSE cells[a]]
          /\ done' = done + n
    /\ UNCHANGED <<request, phase, cut, area>>

Ends == request' = NoRequest /\ phase' = "none" /\ done' = 0 /\ cut' = FALSE /\ UNCHANGED area

End ==
    /\ phase = "program"
    /\ Writes => done = request.length
    /\ Ends
    /\ UNCHANGED cells

\* The power goes, and may tear what is next; a byte is not torn if it would not change.
TornSector ==
    \A a \in Address :
        cells'[a] \in IF a \in InSector THEN {cells[a], Blank, Junk} ELSE {cells[a]}
TornRun(n) ==
    \A a \in Address :
        cells'[a] \in IF a \in Run(n) /\ New(a) # cells[a] THEN {cells[a], New(a), Junk}
                     ELSE {cells[a]}
PowerLoss ==
    /\ phase \in {"erase", "program"}
    /\ Ends
    /\ cells' \in [Address -> Byte]
    /\ \/ UNCHANGED cells
       \/ phase = "erase" /\ Sector \in Sectors(request) /\ TornSector
       \/ /\ phase = "program" /\ Writes
          /\ \E n \in 1 .. request.length - done : TornRun(n)

\* The driver gives up on the chip.
Lose ==
    /\ phase \in {"erase", "program"}
    /\ phase' = "lost"
    /\ done' = 0
    /\ cut' = FALSE
    /\ UNCHANGED <<cells, request, area>>

Stray ==
    /\ phase = "lost"
    /\ cells' \in [Address -> Byte]
    /\ \A a \in Address : SectorOf(a) \notin area => cells'[a] = cells[a]
    /\ request' \in {request, NoRequest}
    /\ UNCHANGED <<phase, done, cut, area>>

Next ==
    \/ \E r \in Requests : Begin(r)
    \/ EraseSector \/ EndErase \/ Program
    \/ End \/ PowerLoss
    \/ Lose \/ Stray

Spec == Init /\ [][Next]_vars
=============================================================================
