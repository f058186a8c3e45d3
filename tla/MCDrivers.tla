----------------------------- MODULE MCDrivers -----------------------------
(***************************************************************************)
(* Instances for TLC of the drivers that do not depend on each other.  A   *)
(* behaviour is one of a single unit; the variables of the others stay as  *)
(* they are.                                                               *)
(***************************************************************************)
EXTENDS Sysctl, Pins, SpiTransfer, Aes, Console, Sha256, Crc16, Traps

VARIABLE unit       \* the one that is checked

all == <<unit, vars, pins_vars, spi_vars, aes_vars, cli_vars, sha_vars, crc_vars, trap_vars>>

\* Sysctl: 26 / 1 * 60 / 4 = 390 MHz.
MCResetDividers == [nr |-> 1, nf |-> 60, od |-> 4]

\* What the console tells apart.
MCChars == {"m", " ", ";", "'", "\\"}

\* Lengths around the place in a block from where on the padding takes one more.
MCMessageSizes == {0, 1, 5, 54, 55, 56, 57, 58, 63, 64, 65, 119, 120, 121, 122, 128}

\* Single bits, and bytes at the edges.
MCCrcBytes == {{i} : i \in 0 .. 7} \cup {{}, {0, 7}, 1 .. 7, 0 .. 7}

\* Registers and offsets of every kind.
MCAccesses ==
    {i \in [opcode : {LOAD, FPU_LOAD, STORE, FPU_STORE, AMO}, rd : {0, 2, 5, 31}, funct3 : 0 .. 7,
            rs1 : {0, 2, 10}, rs2 : {0, 2, 7, 31}, funct7 : {0, 1, 63, 64, 96, 127}] :
        i \in Misaligned}

-----------------------------------------------------------------------------

DriversInit ==
    /\ unit \in {"sysctl", "pins", "spi", "aes", "console", "sha", "crc", "trap"}
    /\ Init /\ PinsInit /\ (unit # "pins" => io = [p \in Pads |-> Config(FUNC_RESV0)])
    /\ SpiInit /\ AesBegin /\ ConsoleInit /\ ShaInit /\ CrcInit
    /\ TrapInit

DriversNext ==
    /\ UNCHANGED unit
    /\ \/ /\ unit = "sysctl" /\ Next
          /\ UNCHANGED <<pins_vars, spi_vars, aes_vars, cli_vars, sha_vars, crc_vars, trap_vars>>
       \/ /\ unit = "pins" /\ PinsNext
          /\ UNCHANGED <<vars, spi_vars, aes_vars, cli_vars, sha_vars, crc_vars, trap_vars>>
       \/ /\ unit = "spi" /\ SpiNext
          /\ UNCHANGED <<vars, pins_vars, aes_vars, cli_vars, sha_vars, crc_vars, trap_vars>>
       \/ /\ unit = "aes" /\ AesNext
          /\ UNCHANGED <<vars, pins_vars, spi_vars, cli_vars, sha_vars, crc_vars, trap_vars>>
       \/ /\ unit = "console" /\ ConsoleNext
          /\ UNCHANGED <<vars, pins_vars, spi_vars, aes_vars, sha_vars, crc_vars, trap_vars>>
       \/ /\ unit = "sha" /\ ShaNext
          /\ UNCHANGED <<vars, pins_vars, spi_vars, aes_vars, cli_vars, crc_vars, trap_vars>>
       \/ /\ unit = "crc" /\ CrcNext
          /\ UNCHANGED <<vars, pins_vars, spi_vars, aes_vars, cli_vars, sha_vars, trap_vars>>
       \/ /\ unit = "trap" /\ TrapNext
          /\ UNCHANGED <<vars, pins_vars, spi_vars, aes_vars, cli_vars, sha_vars, crc_vars>>

DriversSpec ==
    /\ DriversInit /\ [][DriversNext]_all
    /\ WF_spi_vars(Core) /\ WF_spi_vars(Controller)
=============================================================================
