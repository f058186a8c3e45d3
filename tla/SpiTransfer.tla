---------------------------- MODULE SpiTransfer ----------------------------
(***************************************************************************)
(* How drivers/flash.c moves bytes between memory and the chip: it fills   *)
(* and drains the two FIFOs of the SPI controller while the controller     *)
(* shifts.  flash_send_data and flash_send_data_enhanced send a command    *)
(* and its data; flash_receive_data and flash_receive_data_enhanced send a *)
(* command and take a number of bytes; flash_read_data splits a read.      *)
(*                                                                         *)
(* The controller is external.  While the chip is selected it shifts what  *)
(* the transmit FIFO holds and, in a read, the bytes that it was told to   *)
(* take into the receive FIFO, where one that finds no room is lost.  If   *)
(* the transmit FIFO runs empty in the middle of a send, the controller    *)
(* ends the command.                                                       *)
(***************************************************************************)
EXTENDS Integers, Sequences

CONSTANTS
    Depth,          \* entries of each FIFO: the 32 in the code
    Chunk,          \* bytes of one read command: write_len in flash_read_data
    CmdLength,      \* frames of a command with its address
    Slack,          \* frames that are shifted while the core goes round its loop once
    SpiLengths      \* bound: bytes of a request

\* The core is faster than the line: it comes back before half a FIFO is empty.  (Half,
\* for what is shifted between the look at txflr and the refill is only seen in the
\* next round.)
ASSUME SpiAssumption ==
    /\ Depth \in Nat \ {0}
    /\ Chunk \in 1 .. Depth
    /\ CmdLength \in 1 .. Depth
    /\ Slack \in Nat
    /\ 2 * Slack < Depth
    /\ SpiLengths \subseteq Nat

VARIABLES
    spi_pc,         \* what the core does next
    spi_mode,       \* "send" or "receive"
    total,          \* bytes of the request
    left,           \* tx_len, or rx_len of the read command
    moved,          \* how far data_buf, tx_buff or rx_buff is
    fifo_len,       \* bytes to move in this round
    tx, rx,         \* the FIFOs
    shift,          \* the frame that is being shifted out, or None
    frames,         \* bytes that the controller still has to take (from ctrlr1)
    at,             \* the index of the byte that the chip sends next
    selected,       \* the chip is selected
    arrived,        \* what the chip got since it was selected
    got,            \* what is in the buffer of a read
    shifted         \* frames shifted since the core last looked

spi_core == <<spi_mode, total, got>>
spi_loop == <<left, moved, fifo_len>>
spi == <<tx, rx, shift, frames, at, selected, arrived, shifted>>
spi_vars == <<spi_pc, spi_core, spi_loop, spi>>

-----------------------------------------------------------------------------

NoFrame == <<>>

\* The frames of a command for the byte with index i, and data frames.
Command(i) == [k \in 1 .. CmdLength |-> <<"cmd", i>>]
DataFrames(first, n) == [k \in 1 .. n |-> <<"data", first + k - 1>>]
Frame == {"cmd", "data"} \X Nat

AtMost(a, b) == IF a < b THEN a ELSE b

SpiTypeOK ==
    /\ spi_pc \in {"idle", "command", "level", "move", "wait", "deselect", "done"}
    /\ spi_mode \in {"send", "receive"}
    /\ total \in Nat
    /\ left \in Nat
    /\ moved \in Nat
    /\ fifo_len \in 0 .. Depth
    /\ tx \in Seq(Frame) /\ Len(tx) <= Depth
    /\ rx \in Seq(Nat) /\ Len(rx) <= Depth
    /\ shift \in Frame \cup {NoFrame}
    /\ frames \in 0 .. Chunk
    /\ at \in Nat
    /\ selected \in BOOLEAN
    /\ arrived \in Seq(Frame)
    /\ got \in Seq(Nat)
    /\ shifted \in 0 .. Slack

SpiInit ==
    /\ spi_pc = "idle"
    /\ spi_mode = "send"
    /\ total = 0
    /\ left = 0
    /\ moved = 0
    /\ fifo_len = 0
    /\ tx = <<>>
    /\ rx = <<>>
    /\ shift = NoFrame
    /\ frames = 0
    /\ at = 0
    /\ selected = FALSE
    /\ arrived = <<>>
    /\ got = <<>>
    /\ shifted = 0

-----------------------------------------------------------------------------
(***************************************************************************)
(* The controller                                                          *)
(***************************************************************************)

\* The core is not left behind further than Slack, while it has something to do.
InStep ==
    IF spi_mode = "send" /\ spi_pc \in {"level", "move"}
    THEN shifted < Slack /\ shifted' = shifted + 1
    ELSE UNCHANGED shifted

\* A frame goes from the transmit FIFO to the shift register.
LoadFrame ==
    /\ selected
    /\ shift = NoFrame
    /\ tx # <<>>
    /\ shift' = Head(tx)
    /\ tx' = Tail(tx)
    /\ InStep
    /\ UNCHANGED <<spi_pc, spi_core, spi_loop, rx, frames, at, selected, arrived>>

\* The chip has the frame; a command says which byte it sends first.  With nothing to
\* load the controller drops the select line of a send.
ShiftFrame ==
    /\ shift # NoFrame
    /\ arrived' = Append(arrived, shift)
    /\ shift' = NoFrame
    /\ at' = IF shift[1] = "cmd" THEN shift[2] ELSE at
    /\ selected' = (tx # <<>> \/ spi_mode = "receive")
    /\ UNCHANGED <<spi_pc, spi_core, spi_loop, tx, rx, frames, shifted>>

\* A byte comes from the chip.
TakeFrame ==
    /\ selected
    /\ spi_mode = "receive"
    /\ tx = <<>> /\ shift = NoFrame
    /\ frames > 0
    /\ frames' = frames - 1
    /\ at' = at + 1
    /\ rx' = IF Len(rx) < Depth THEN Append(rx, at) ELSE rx
    /\ UNCHANGED <<spi_pc, spi_core, spi_loop, tx, shift, selected, arrived, shifted>>

-----------------------------------------------------------------------------
(***************************************************************************)
(* flash_read_data and flash_receive_data                                  *)
(***************************************************************************)

StartRead(n) ==
    /\ spi_pc = "idle"
    /\ spi_mode' = "receive"
    /\ total' = n
    /\ moved' = 0
    /\ got' = <<>>
    /\ spi_pc' = IF n = 0 THEN "done" ELSE "command"
    /\ UNCHANGED <<left, fifo_len, spi>>

\* The bytes of the next read command.
WriteLenAll == total - moved                       \* mutant: as many as there are
WriteLen == AtMost(total - moved, Chunk)

\* addr, which goes on with the buffer.
NextAddress == moved

ReadCommand ==
    /\ spi_pc = "command"
    /\ left' = WriteLen
    /\ frames' = WriteLen
    /\ tx' = Command(NextAddress)
    /\ selected' = TRUE
    /\ arrived' = <<>>
    /\ spi_pc' = "level"
    /\ UNCHANGED <<spi_core, moved, fifo_len, rx, shift, at, shifted>>

\* fifo_len = rxflr, or what is left if that is less.
RxLevel == AtMost(Len(rx), left)

\* The end of flash_receive_data, and the round of flash_read_data that follows.  The
\* controller is switched off, which empties its FIFOs.
SwitchOff ==
    /\ tx' = <<>> /\ rx' = <<>> /\ shift' = NoFrame
    /\ selected' = FALSE

EndReceive ==
    /\ spi_pc = "deselect"
    /\ spi_mode = "receive"
    /\ SwitchOff
    /\ frames' = 0
    /\ spi_pc' = IF moved < total THEN "command" ELSE "done"
    /\ UNCHANGED <<spi_core, spi_loop, at, arrived, shifted>>

-----------------------------------------------------------------------------
(***************************************************************************)
(* flash_send_data                                                         *)
(***************************************************************************)

\* The command, and as much data as there is room for, before the chip is selected.
StartSend(n) ==
    /\ spi_pc = "idle"
    /\ spi_mode' = "send"
    /\ total' = n
    /\ LET first == AtMost(Depth - CmdLength, n) IN
       /\ tx' = Command(0) \o DataFrames(0, first)
       /\ moved' = first
       /\ left' = n - first
       /\ spi_pc' = IF first < n THEN "level" ELSE "wait"
    /\ selected' = TRUE
    /\ arrived' = <<>>
    /\ got' = <<>>
    /\ shifted' = 0
    /\ UNCHANGED <<fifo_len, rx, shift, frames, at>>

TxLevel == AtMost(Depth - Len(tx), left)

\* The status register: the FIFO is empty and nothing is shifted.
FifoEmpty == tx = <<>>                             \* mutant: sr & 0x04
Sent == tx = <<>> /\ shift = NoFrame

WaitSent ==
    /\ spi_pc = "wait"
    /\ Sent
    /\ spi_pc' = "deselect"
    /\ UNCHANGED <<spi_core, spi_loop, spi>>

EndSend ==
    /\ spi_pc = "deselect"
    /\ spi_mode = "send"
    /\ SwitchOff
    /\ spi_pc' = "done"
    /\ UNCHANGED <<spi_core, spi_loop, frames, at, arrived, shifted>>

-----------------------------------------------------------------------------
(***************************************************************************)
(* The loops                                                               *)
(***************************************************************************)

ReadLevel ==
    /\ spi_pc = "level"
    /\ fifo_len' = IF spi_mode = "send" THEN TxLevel ELSE RxLevel
    /\ spi_pc' = "move"
    /\ UNCHANGED <<spi_core, left, moved, spi>>

MoveBytes ==
    /\ spi_pc = "move"
    /\ IF spi_mode = "send"
       THEN /\ tx' = tx \o DataFrames(moved, fifo_len)
            /\ shifted' = 0
            /\ UNCHANGED <<rx, got>>
       ELSE /\ got' = got \o SubSeq(rx, 1, fifo_len)
            /\ rx' = SubSeq(rx, fifo_len + 1, Len(rx))
            /\ UNCHANGED <<tx, shifted>>
    /\ moved' = moved + fifo_len
    /\ left' = left - fifo_len
    /\ spi_pc' = IF left' > 0 THEN "level" ELSE IF spi_mode = "send" THEN "wait" ELSE "deselect"
    /\ UNCHANGED <<spi_mode, total, fifo_len, shift, frames, at, selected, arrived>>

SpiReturn ==
    /\ spi_pc = "done"
    /\ spi_pc' = "idle"
    /\ UNCHANGED <<spi_core, spi_loop, spi>>

-----------------------------------------------------------------------------

Core == \/ ReadCommand \/ EndReceive \/ WaitSent \/ EndSend
        \/ ReadLevel \/ MoveBytes \/ SpiReturn
Controller == LoadFrame \/ ShiftFrame \/ TakeFrame

SpiNext == Core \/ Controller \/ \E n \in SpiLengths : StartRead(n) \/ StartSend(n)

\* The controller shifts by itself, and core 0 is never preempted for good.
SpiSpec == SpiInit /\ [][SpiNext]_spi_vars /\ WF_spi_vars(Core) /\ WF_spi_vars(Controller)

-----------------------------------------------------------------------------
(***************************************************************************)
(* Properties                                                              *)
(***************************************************************************)

\* A read that is done has filled the buffer with the bytes of the flash, in order and
\* none lost: no command is for more bytes than the receive FIFO has room for, however
\* slow the core is to drain it.  A send that is done has given the chip the command and
\* all of its data: the FIFO never ran dry, and the chip was not deselected before the
\* last frame was out.
TransferWhole ==
    /\ spi_pc = "done" /\ spi_mode = "receive" => got = [k \in 1 .. total |-> k - 1]
    /\ spi_pc = "done" /\ spi_mode = "send" => arrived = Command(0) \o DataFrames(0, total)

\* Every request comes to its end: flash_receive_data never waits for a byte that was
\* lost, and flash_send_data never for room that does not come.
TransferDone == spi_pc # "idle" ~> spi_pc = "done"
=============================================================================
