# TLA+ models of the K210 guard boot loader

This directory holds TLA+ modules that model the boot loader under `src/`, TLC
configurations that model-check them, and proofs that TLAPS checks. It is meant
for a reader who has the repository open beside it. Paths below are relative to
`src/` of the repository; `main.c:254` stands for `src/main.c`, line 254.

## The system

The loader runs on a Kendryte K210, two RISC-V cores without an operating
system. The mask ROM loads *stage 1* from flash; stage 1 checks two copies of
*stage 2* (the "application" slot APP and the backup slot BAK), repairs one from
the other and jumps; stage 2 is the same program linked to other addresses and
does the same for the user's application. Core 0 does the work. Core 1 waits
until core 0 wakes it, just to be led to the next stage in turn.

| Component | Source | State it keeps | Operations | Interacts with |
|---|---|---|---|---|
| Boot flow of core 0 | `main.c` | `_boot` RAM, `bak_check`, `app_check`, the two slots in flash | `flash_image_check`, `flash_image_compare`, `flash_image_backup`, `main` | flash, SHA-256, AES and OTP drivers, `do_flash_erase`/`do_flash_write` of the console |
| Start and hand-off of the cores | `crt.S`, `bsp/entry_user.c`, `main.c`, `drivers/clint.c`, `bsp/sleep.c` | `env_ready`, `g_wake_up`, `core1_instance`, `jump_flag`, `msip`, `mie` | `_init_bsp`, `register_core1`, `core_enable`, `core1_entry`, `go_boot`, `clint_ipi_*`, `handle_irq_m_soft` | both cores, shared RAM, one inter-processor interrupt |
| Flash driver | `drivers/flash.c`, `drivers/spi.c` | write enable latch, busy and quad-enable bits of the chip, SPI registers | erase, page program, (quad) read, status polling | SPI controller |
| Console | `cli/cli.c`, `cli/command.c`, `cli/crc16.c` | line buffer, command table | line editing, argument parsing, dispatch, commands | UART, flash driver |
| Kermit download | `cli/load.c` | sequence number, checkpoint, escape state, write pointer | `k_recv`, `k_data_*`, `handle_send_packet` | UART, RAM |
| Core-local timer | `drivers/clint.c` | `clint_timer_instance`, `mtimecmp`, `mie` | `clint_timer_*`, `handle_irq_m_timer` | interrupt entry |
| Interrupt controller | `drivers/plic.c`, `bsp/interrupt.c` | priorities, thresholds, enables, callback table | `plic_*`, `handle_irq_m_ext` | interrupt entry, timers |
| Timers | `drivers/timer.c` | channel registers, callback table | `timer_irq_register/unregister`, handlers | PLIC |
| SHA-256, AES | `drivers/sha256.c`, `drivers/aes.c` | buffer, length count, accelerator registers | init/update/final; init, text in chunks | accelerators |
| OTP | `drivers/otp.c` | the array of bits, its repair, write protection, status | `otp_*` | OTP controller |
| System controller, pins | `drivers/sysctl.c`, `drivers/fpioa.c`, `drivers/gpiohs.c` | clock gates, dividers, PLLs, pin functions | `sysctl_*`, `fpioa_*` | registers |
| System calls and traps | `bsp/syscalls.c`, `crt.S` | the frame of saved registers, heap break | emulation of misaligned accesses, `sys_brk` | trap entry |
| Output, parsing, UART, locks | `bsp/printf.c`, `bsp/strto.c`, `bsp/ctype.c`, `drivers/uarths.c`, `freertos/locks.c` | none to speak of | formatting, `strtol`, register access | |

What is hard here is not concurrency of many threads but four other things: a
**copy in flash that the power can cut** at any sector or cell; **two cores
ordered by nothing but sleeps**; **a download that is written to memory before
it is known to be right** and rolled back; and **shared hardware state saved and
written back around a callback**. The properties that make each component correct:

* Boot flow: the last good image survives every step; nothing is started that
  was not checked; equal digests mean equal images; a boot restores redundancy.
* Hand-off: core 1 never reads variables that core 0 has not initialised, its one
  interrupt is not lost, and it never runs code that is being overwritten.
* Kermit: what is acknowledged stays in memory; rolled-back data leaves no trace.
* Flash driver: every page of a write is enabled, programmed and done before the next.
* PLIC, timers, CLINT: a registered source is enabled, an unregistered one is
  not, nesting is by priority, and a handler leaves the mask as it found it.
* Clocks, pins: what is on is clocked, at every step; a function is on one pin.
* OTP: nothing is programmed that was not asked for, and "OK" means all of it was.
* AES: the whole text goes through the engine, without the two waiting for each other.
* Console: what runs is what the screen shows, and takes its arguments from there.
* SHA-256 padding, misaligned access, CRC: equal to a reference definition, or
  exactly where they are not.

`PROJECT.json` lists every component with its state of modelling, and under
`hazards` the places in the code where a test would hardly reach.

## Modules

| Module | Models | Lines |
|---|---|---|
| `ImageStore` | what a stage promises about its slots, in whole images (abstract) | 65 |
| `Boot` | core 0 from the check of the backup to the jump, and the flash, cell by cell | 463 |
| `MCBoot` | three images and a two-sector slot for TLC | 16 |
| `BootProofs` | `IInv` of `Boot` is inductive; the safety properties; `Boot` implements `ImageStore` |  |
| `Handoff` | both cores through both stages, with time | 465 |
| `HandoffProofs` | `IInv` of `Handoff` and `TrapInv` of `Traps` are inductive; their safety properties |  |
| `Kermit` | the receiver of a download, a line that spoils and loses, a sender that repeats | 467 |
| `MCKermit` | the transfers and the kinds of damage for TLC | 32 |
| `KermitProofs` | `IInv` of `Kermit` and `CrcInv` of `Crc16` are inductive; their safety properties |  |
| `FlashDriver` | the flash commands, from `flash_init` to `flash_write_data`, under the requests that write | 424 |
| `CellStore` | the store of cells that `Boot` takes the flash for, request by request (abstract) | 139 |
| `MCFlash` | a chip of two sectors for TLC | 10 |
| `FlashDriverProofs` | `IInv` of `FlashDriver` and `SpiInv` of `SpiTransfer` are inductive; their safety properties; `FlashDriver` implements `CellStore` |  |
| `SpiTransfer` | how a command and its data go through the FIFOs of the SPI controller | 289 |
| `Interrupts` | trap, PLIC, CLINT and timer handlers of one core, nested | 519 |
| `MCInterrupts` | channels, sources and priorities for TLC | 13 |
| `InterruptsProofs` | `IInv` and `OInv` of `Interrupts` are inductive; the safety properties |  |
| `PllSettings` | the search for the dividers of a PLL, on exact fractions | 96 |
| `Sysctl` | PLLs, the CPU's source, clock gates and thresholds, under any calls | 372 |
| `SysctlProofs` | `IInv` and `FreqInv` of `Sysctl` are inductive, the search of `PllSettings` finds; the safety properties |  |
| `FpioaTable` | `function_config`, the 256 functions of the pin multiplexer | 105 |
| `Pins` | `fpioa.c` register by register, and the drive mode of `gpiohs.c` | 276 |
| `PinsProofs` | `IInv` of `Pins` and `CliInv` of `Console` are inductive; their safety properties |  |
| `Aes` | chunks of text through the AES engine, and the engine's flags | 198 |
| `Otp` | writing the one-time memory bit by bit, its repair, timeouts and errors | 343 |
| `MCOtp` | three requests for TLC | 9 |
| `OtpProofs` | `IInv` of `Otp`, `AesInv` of `Aes` and `ShaInv` of `Sha256` are inductive; their safety properties |  |
| `Sha256` | a message in pieces through the buffer of a block; padding and block count | 148 |
| `Crc16` | the table-driven CRC, byte by byte, beside the shift register | 92 |
| `Traps` | a misaligned access from `trap_entry` to `.restore` | 173 |
| `Console` | editing a line, cutting it into commands and words, look-up and call | 259 |
| `MCDrivers` | `Sysctl`, `Pins`, `SpiTransfer`, `Aes`, `Console`, `Sha256`, `Crc16` and `Traps`, one at a time, for TLC | 61 |

`Boot` composes the boot flow with the flash chip as a store of cells; how cells get into
the chip is `FlashDriver`, and how a command gets to it `SpiTransfer`. `Handoff` composes the
two cores; `Interrupts` the trap, the PLIC, the CLINT and the timers. `Sysctl` uses
`PllSettings`, `Pins` uses `FpioaTable`. `MCDrivers` extends the modules of drivers that share
nothing and checks them side by side in one run: a behaviour is one of a single unit. Theorems about
two or three modules may be in one module of proofs, a section for each.

### Boot

*State.* `flash[s][c]` is the content of cell `c` of slot `s`: blank, junk, or a
flag, length, body or digest cell. An image is laid out as `utils/genimg.py` writes
it and `flash_image_backup` copies it: flag, length, body, SHA-256. `pc` is the
place in `main()`; `bakOk` and `appOk` stand for `bak_check == 0` and
`app_check == 0`; `ram` for what lies at `_boot`, deciphered (`plain`) or not
(`raw`); `from`, `cursor` for the copy under way. `tainted` and `mishaps` are
history: the slots whose stored digest may vouch for nothing, and the bound on
what the environment does to the flash.

*Actions.* `CheckBak`, `CheckApp` are the two calls of `flash_image_check`, with
the AES loop that counts an unsigned length down by whole blocks; `Decide` is
`flash_image_compare` and the branches of `main()` (`main.c:325-346`), including
that of `flash_image_backup` which reads the raw image over `_boot`;
`EraseSector` is one round of `do_flash_erase` with its look for a ^C, whose
error `flash_image_backup` ignores; `ProgramCell` is one step of the writes. NOR
flash is modelled as it is: programming only clears bits, so over anything but
erased bits it leaves junk. `PowerLoss` may come at any moment and tears the
sector being erased or the cell being programmed. `Rot` and `Update` are what
happens to the flash while the loader does not run.

*Abstractions.* SHA-256 is ideal: a digest identifies the image it was computed
over. A cell stands for a flag byte, a length word, a digest or a piece of body;
the pages of a write are left to the flash driver. The flash driver's errors
are not looked at by the code and not modelled here.

### Handoff

*State.* `stage[c]` and `pc[c]`: which stage core `c` executes, and where;
`env`, `wake`, `callback`, `jump`: the four words of a stage's `.bss` through
which the cores meet, each `garbage` until `init_bss` clears it; `msip`, `mie`:
core 1's pending and enable bit. `clock[c]` is how long the core has been in its
present stretch of code, in milliseconds.

*Actions.* One per statement that touches shared state, in the order of the code
(`entry_user.c:71-125`, `main.c:67-102`, `267-285`, `294-298`); `Tick` lets
time pass, but not beyond what `Most` allows any core that is not waiting.
`HandleIrqMSoft` is taken before core 1's next instruction as soon as `msip` and
`mie` are both set. A word polled while it is garbage may look zero or not.

*Times.* `Least` and `Most` bound each stretch. The sleeps are the code's: 20 ms
in `main`, 10 ms on core 1 and 100 ms on both in `go_boot`. The others are
constants. At 115200 baud the UART sends 11.5 characters a millisecond behind a
FIFO of 8, so the 39 characters of the line in `go_boot` take less than
`PrintTime` = 5 ms and the banner less than `BannerTime` = 8 ms. Clearing
`.bss` and setting up a core takes well below `InitTime` = `SetupTime` = 2 ms.
That the boot ROM starts core 1 between `EntrySkewMin` = 3 and `EntrySkewMax` = 17
ms after core 0 is an assumption about the ROM: it is the lead that `go_boot`
itself gives core 0 for the next stage. The loader is built with `-O0`
(`CMakeLists.txt:146`), so the polls of the non-volatile `jump_flag` read memory
in every round; the model relies on that.

### Kermit

*State.* The receiver's `pc` is the read in `k_recv` (`cli/load.c:345-479`) that
waits for a character; `mem` is what was stored, `addr`/`escape` the
`os_data_addr` and `k_state` of the code, `saved` their checkpoint, `last_n` the
last sequence number. The rest is the line (the characters of the packet under way, the
answers that come back) and the sender (how far it is, what it thinks was
acknowledged).

*Actions.* One per character that `k_recv` takes: `ReadStart`, `ReadLength`,
`ReadSeq` (which checkpoints or restores), `ReadType`, `ReadData`, `ReadCheck`,
`ReadEnd`, with the error path of each. A control character in the wrong place is
what the code tests for. `Damage`, `LoseAnswer` and the repetitions of the
sender are the environment.

*Abstractions.* The checksum is ideal (any damage to what it covers is noticed). Damage
in what is left of a packet after the receiver gave up on it is not modelled, for
nothing but a start mark is looked at there. `k_state_saved` has
no effect, for `k_state` is set from the type of each packet before it is looked at. What `load_serial_bin` drains after
`k_recv`, and padding, are left out.

*Noted.* A sender that repeats while an answer is on its way (`Patient` is `FALSE`) can lose
data even if length and sequence number are spared: the repetition undoes the packet that
was acknowledged (`cli/load.c:391`), and if it is damaged behind its number the packet stays
undone, while the late answer makes the sender go on. `cli/load.c:249` asks for such a
sender ("don't wait for my ack longer than 1 second").

### FlashDriver

*State.* The chip: content of each byte, quad mode, protection, and the command it
is busy with. The driver: `pc`, and `then`, which is where it goes on after
`flash_check_status`; the cursors of `flash_write_data` and of its callers.

*Actions.* `FlashInit` (with `flash_enable_quad_mode`), `FlashDisableProtect`,
`FlashSectorErase`, `FlashWriteData` (one burst), and the loops of
`do_flash_erase`, `do_flash_write` and `flash_image_backup` above them. After
each command the driver polls: `FlashCheckStatus` goes on when the chip is idle,
`FlashOperationTimeout` when it is not, as the code does, for nobody looks at
`FLASH_BUSY`. The chip (external) ignores what it cannot take and wraps inside a
page. `PowerLoss` and a ^C may come.

What `Boot` takes for granted when it erases sector by sector and programs cell by cell is stated in `CellStore`: a request
erases its sectors in order, all of them or, if a ^C comes, only the first ones; then it programs its bytes in order, over
whatever is there; the power tears only the sector or the bytes of the moment. `FlashDriver` implements it
(`ImplementsCellStore`): `done` is the number of sectors or bytes that the chip is done with, so that enabling,
splitting and polling are steps that `CellStore` does not see. After a polling timed out the
request is `lost`: from then on any byte of its sectors may change, and no other one.

### SpiTransfer

The two FIFOs, the shift register and the select line, with the loops of
`flash_send_data(_enhanced)`, `flash_receive_data(_enhanced)` and
`flash_read_data`. The core reads a level, then moves that many bytes; the controller
shifts in between. In a read the controller takes the bytes whether they are
drained or not. In a send it ends the command when its FIFO runs dry, so `TransferWhole`
and `TransferDone` need an assumption on speed (`SpiAssumption`): while the core goes round its loop once, at most
`Slack` frames are shifted, and `2 * Slack < Depth`. Half, not all, because what
was shifted between the look at `txflr` and the refill shows only in the next
round.

### Interrupts

*State.* `stack` is the handlers that are running, with what each saved (`mie`,
threshold, claimed source, `channel_int_stat`); the PLIC's registers, of one
core; `plic_instance` (`routed`), `timer_instance`, the CLINT's pending bits.

*Actions.* `EnterExt`, `EnterTimer`, `EnterSoft` are the trap and the handler up to where
it turns interrupts on again; `ExitExt`, `ExitTimer`, `ExitSoft` from where it turns
them off until `mret`. Between them, one action per step of
`timer_interrupt_handler`, so that other handlers may come in anywhere. The thread
makes the calls of `plic.c`, `timer.c` and `clint.c`; `timer_irq_register` can be
interrupted before it reaches the PLIC. The loader itself calls none of these
(it uses only the IPI functions, which are in `Handoff`): thread and callbacks are any
program, within the constants.

*Noted.* The loop in `plic_init` that "will clear pending bit on the interrupt
source" (`plic.c:66-70`) claims nothing, for all sources have just been disabled;
`PlicInit` leaves `pending` alone, and what the stage before left pending comes in
when its source is enabled. A callback that calls `clint_timer_stop` in the
handler of the timer or of an external interrupt is undone when that handler
writes back `mie` (`clint.c:239`, `plic.c:201`), against `include/clint.h:180`
("MIP_MTIP will be clear after stop"); `Stops` keeps the run to callbacks for
which it is not, those of the IPI. A callback of the other pair with a higher
priority than this one's would have a channel called twice, from the old
`channel_int_stat` (`timer.c:305`): the run gives both pairs one priority.

### PllSettings and Sysctl

*State.* The registers of the PLLs, `lock` (what the hardware raises), the CPU's source, the
gates, the thresholds; `pc` and `call`, since `sysctl_pll_set_freq` and
`sysctl_pll_fast_enable_pll` wait for locks, and `sysctl_pll_disable` bypasses before it powers off.

*Actions.* `TurnOff` ... `Select` are the nine steps of `sysctl_pll_set_freq` as its comments
number them; `SourceSetFreq` is the search (`drivers/sysctl.c:786-1050`), which
`PllSettings` models round by round: the values that no `continue` drops whatever was
found before (`Rounds`), what each makes of the dividers (`Dividers`), and which one is
kept (`Keep`). Doubles are exact fractions of a MHz; for the crystal and for an input of
780 MHz, and all requests up to 1800 MHz, the module was compared with a
transcription of the code in doubles, and gives the same dividers. `PllDisable` and `PowerOff` are the two
writes of `sysctl_pll_disable`, between which the CPU may run from the PLL. The other calls take no time.

There are two kinds of frequency. `PllGetFreq` and what is returned are what the code tells; `PllClock` and `CpuClock`
are what the hardware then has, where a PLL that is bypassed (`sysctl_pll_disable`, or
`sysctl_clock_set_clock_select`: `SelectBypass`) passes its input on. `SetAsAsked` relates the two.

The loader itself calls only the gates, `SPI0`'s threshold and the resets. So the thread is
any program that does not take away what it needs: it does not switch off or reset PLL0
while the CPU runs from it (`sysctl_pll_disable` it may call: that bypasses the PLL, and it does not lift that bypass before the PLL is locked again), does
not stop a bus under its devices, and sets PLL2 only while its input runs, for the
driver would wait for ever.

*Noted.* `sysctl_clock_get_freq` has no case for `SYSCTL_CLOCK_ACLK`, which
`sysctl_clock_source_get_freq` asks for (`drivers/sysctl.c:528`): SRAM, ROM, the APB buses
and what hangs on them are told to run at 0 Hz. The factor `(sel + 1) * 2` of `sysctl_cpu_set_freq`
differs from the `2 << sel` of `sysctl_clock_get_freq` for the
upper two dividers: `SetAsAsked` promises the CPU's frequency for the lower two. PLL1 and PLL2 count as locked
with one bit, though "All bit enable means PLL lock" (`drivers/sysctl.c:539`). If the
first round of the search that fits is off by exactly one in 64 it keeps out better ones
and then is refused.

### FpioaTable and Pins

*State.* `io` is the register of each pad: its channel and how the pad is set; `tie_en` and
`tie_val` are the tied functions; `output_en`, `input_en` those of GPIOHS. `routed` is history:
the function that `fpioa_set_function` gave to a pad, until a call takes it back.

*Actions.* A call that writes one register is one action; those that write several
(`fpioa_init`, `fpioa_set_function`, `gpiohs_set_drive_mode`) write one of them in a step. After
a reset any pad may have any function, the same one several times. `FpioaTable` is the table of the code,
in groups of functions with the same settings; `fpioa_set_function_raw` writes an entry without its ties.

### Aes and Otp

`Aes` has the driver's loops over `data_in_flag` and `data_out_flag`, and the engine (external): room
for the words of one block, and for `OutRoom` words that were not read, which is what the chunks
of 80 bytes are for. A byte is its place in the text, so that order, padding and what is stored show.
`main.c` deciphers in calls of one block (`NextCall`): `piece` is the length of each call, `rest` what
the calls to come will get.

In `Otp` each bit that goes to the controller may be programmed, be weak, fail, be protected,
or time out, done or not. After the bits comes the repair, which runs by itself and raises
`bisr_finish`, in time or not. `otp_data_block_protect_set` and `otp_func_reg_disable_set` refuse a
number that is too large (`otp.c:437`, `451`), for behind the blocks are the functions and behind those the key. `asked` is history: what calls asked to program; `late`: a repair timed out.

*Noted.* Once a repair timed out, its `bisr_finish` is taken for the end of the next one
(`otp.c:88` clears it only after it was seen), so that `OTP_OK` may come before that repair: `OkMeansWritten`
leaves these behaviours out, and fails with them. `include/otp.h:266-268` gives address and
length in bits; `otp_write_byte` multiplies both by 8.

### Sha256, Crc16, Traps

*State.* `Sha256` has what is left of the piece (`data`, `len`), the buffer, `totalLength`, and the bytes that
the accelerator got. A byte of the message is its index in it, which is enough to tell whether bytes are lost, doubled
or out of order. `Crc16` has the table, the register and what is left of the data; a word is the set of its bits
that are 1. `Traps` has the registers, the frame of `trap_entry` and the access that was made; a value
is told by the register that held it before the instruction and by what was added to it.

*Actions.* `Sha256Init`, `Sha256Update` for a piece of any length, one `UpdateRound` per round of its loop, with
which `sha256_final` also writes the padding and the length, and `Sha256Digest`, the end of its wait. The
accelerator (external) stops after the blocks it was told. `Crc16` makes the table in the first call,
and `Crc16Byte` takes a byte. `TrapEntry`, `HandleMisalignedLoad`, `HandleMisalignedStore`, `OnError` and `Restore`
are the way of one instruction through `crt.S` and `syscalls.c`.

*References.* `Padded` is what FIPS 180 hashes. `crc_bits` is history: the shift register of the polynomial, which takes
the same bytes bit by bit. `RegistersAfter` and `Moves` are the instruction by the RISC-V manual. The build
has no compressed instructions (`CMakeLists.txt:120`), on which the handlers stop.

### Console

*State.* `buffer`, `screen` and `col` of the line that is typed; `cmdbuf`, `str`, `argc`, `argv` of the
line that runs; `ran` is the last command that was called and what it read.

*Actions.* One per kind of key; `Split` is a round of `cli_simple_run_command` up to
`cmd_process`, `Refuse` and `CmdCall` are `cmd_process`. What the quote test reads before the line
is whatever is on the stack, and a command that reads a null pointer goes on or dies.

*Noted.* The comment at `command.c:361` gives the arguments of `flwrite` in the opposite order
of the code and of the usage text. `do_loadb` looks for a size of `~0` to report an aborted download
(`command.c:401`), but `k_recv` returns 0 then (`load.c:364`). `cli_simple_loop` is commented out
in `main.c`; the module is about the console as it would be called.

## Runs

| Run | Module, cfg | Asks | Distinct states |
|---|---|---|---|
| `boot` | `MCBoot`, `Boot.cfg` | does every interleaving of boots, power losses, ^C, rot and updates keep the safety properties? | 996,828 |
| `boot_live` | `MCBoot`, `BootLive.cfg` | does the loader implement `ImageStore`, and does every boot end? | 218,000 |
| `boot_aes` | `MCBoot`, `BootAes.cfg` | is what the loader jumps to always runnable? (no: see Findings) | |
| `handoff` | `Handoff`, `Handoff.cfg` | do the sleeps keep the cores in order through both stages? | 4,440 |
| `kermit` | `MCKermit`, `Kermit.cfg` | does the file arrive, with a patient sender and headers spared? | 19,991 |
| `kermit_noise` | `MCKermit`, `KermitNoise.cfg` | does the transfer end, and stay in its buffers, whatever is damaged? | 58,486 |
| `kermit_length` | `MCKermit`, `KermitLength.cfg` | does the file arrive if a length byte is damaged? (no: see Findings) | |
| `flash` | `MCFlash`, `Flash.cfg` | do write requests reach the chip whole, in order, and inside their sectors? | 286,528 |
| `interrupts` | `MCInterrupts`, `Interrupts.cfg` | do handlers nest by priority, unwind, and serve every channel? | 171,586 |
| `drivers` | `MCDrivers`, `Drivers.cfg` | does each driver keep its promise in any sequence of calls, the console in any line, a trap for any instruction, and where not? | 879,375 |
| `otp` | `MCOtp`, `Otp.cfg` | is nothing programmed that was not asked for, and all of it when the driver says so? | 67,311 |
| `interrupts_pair` | `MCInterrupts`, `InterruptsPair.cfg` | has a registered channel its interrupt? (no: see Findings) | |

**boot** checks

* `LastGoodKept`: no step of the running loader, a torn erase or write included,
  takes a device from one good image to none;
* `GoodAppUntouched`: the loader never writes to a good APP slot;
* `JumpsToChecked`: it jumps only to an image that was checked and is still there;
* `DigestsTell`: two equal stored digests tell the truth of untainted slots,
  whatever power losses left behind (this is what the comparison relies on, and
  it holds because the digest is programmed last);
* `JumpRedundant`: an untainted device is fully redundant when the jump comes;
* `BackupTriedIfDiffers`: the loader gives up only with a bad application, and leaves a good
  backup untried only if the bad application still stores the backup's digest (`main.c:325`,
  `337`) and was tainted: a power loss alone never strands a device, a decayed body under an
  intact digest does, see Findings.

**boot_live** checks `ImplementsStore` (the refinement), `BootEnds` (only an
encrypted image that is not whole AES blocks can make a boot run away; with
`BackupTriedIfDiffers`, an untainted device with a good slot starts it unless the power
goes). **handoff** checks `EntersInitialised`, `RunsOwnCode`, `IpiIsHeard` and
`BothCoresJump`; each is stated with its code in the module.

**kermit** checks `AcknowledgedKept` (what was acknowledged stays in memory),
`Delivered` (when `k_recv` returns, the file is there) and `RolledBack` (between
packets the receiver is at a packet boundary, no escape pending);
**kermit_noise** checks `TypeOK` (`send_parms` is never overrun) and
`TransferEnds`.

**flash** checks `CommandsTaken` (no command meets a chip that would
ignore it, unless the polling timed out), `Written` (a
request appears in order, and whole in the end), `ImplementsCellStore` (the refinement, which also covers a ^C, a torn
command and, after a timeout, that nothing outside the sectors of the requests ever changes) and `JobEnds`.

**interrupts** checks `Unwound` (threshold, claims and `mie` fit the
handlers on the stack), `NestsByPriority`, `CallsAreOwed` (a callback for each
expiry, at most) and `Served`.

**drivers** checks, unit by unit:

* `NothingStarves` (the CPU has a clock in the middle of every call, and a device that is on
  has its bus) and `SetAsAsked` (what a call that sets a frequency returns is what was asked, to 1 in 64, and what the
  PLL puts out, unless a bypass was left on; the CPU has PLL0's frequency divided, or the crystal's if
  PLL0 was left bypassed; the dividers are in range; a failed call leaves them), of `Sysctl`;
* `TransferWhole` (a read brings all bytes in order, and a send reaches the chip as one command) and
  `TransferDone` (every transfer ends), of `SpiTransfer`;
* `RoutedAlone` (a function that was given to a pad is on no other one), `TiedAsTable`
  (values before enables) and `DriveAsAsked`, of `Pins`;
* `Deciphered`: the engine gets the text whole, and neither waits for the other, of `Aes`;
* `ScreenShowsLine` and `RunsAsTyped` (a command reads its own words, or a null pointer if it got too
  few), of `Console`;
* `DigestRight` (the digest comes, and is that of the message however it was cut), of `Sha256`; `CrcRight` (the table gives
  what the polynomial gives, after every byte), of `Crc16`; `Emulated` (the program goes on as if the access had been
  aligned), of `Traps`. The first and the last say "if and only if": they name the inputs on which the
  code is wrong, see Findings.

**otp** checks `OnlyAsked` (nothing else is ever programmed, whatever fails, and no data, block or
function reaches the area behind its own) and `OkMeansWritten`, of `Otp`.

Deadlock is checked in **boot**, **boot_live** and **handoff**. The other
models stop: a Kermit transfer ends, the bounded requests, calls and interrupts of
**flash**, **interrupts**, **otp** and **drivers** are used up, and a command of the console can end the program. (`Deciphered` and
`TransferDone` say that the core does not get stuck in a transfer.)

*Bounds.* Slots of two sectors of three cells are the smallest in which a copy
crosses a sector, the header shares its sector with a body cell, an image ends at,
before, and in the middle of a sector, and stale cells can survive behind a
shorter image. The images are one that fills the slot, one of whole AES blocks,
and one that is not. `MaxMishaps` bounds rot and updates, two in `boot` (two slots
can rot, or one rot and the other be updated), one in `boot_live`; power losses
and ^C are not bounded. `Handoff` is finite as it is.
The transfer of `Kermit` has an S packet with more parameters than the receiver
keeps, two data packets with escapes (one of them of the quote character) and one
extended header, and a B packet; sequence numbers count modulo 2, and there are up
to three damages: enough to lose an answer, spoil the repetition and its
repetition.
`Flash.cfg` scales the chip to two sectors of two pages, with bursts that do not
divide a page and calls of `flash_write_data` that start and end inside one; two
requests, since a command can outlast the polling of the one before, and two
timeouts. `Interrupts.cfg` has a channel of either pair
and a device of higher priority, four calls by the thread and three interrupts:
enough to nest three deep. The bounds of **drivers** are in `Drivers.cfg`. Three calls of `Sysctl`
are enough to set PLL2 behind PLL0 or the CPU's frequency behind its divider; it is asked for frequencies that can
and cannot be had, and writes thresholds that do not fit their field. The FIFOs of `SpiTransfer` have five entries and
requests go up to eleven bytes, two refills and more. `Pins` has three pads, so that a function can be on two others, before and
behind the one that asks, and three calls; `Aes` texts of one and several chunks that
end in a word, a block or neither. `Otp` gets two calls, with a block and a function that there are and one that
there is not, which is enough for a repair that
ends late to meet the next one, with a request across the end of the data. SHA-256 gets 16 lengths, those around the
two places where the padding begins to take another block and around whole blocks, in pieces of 1 to 65 bytes in any order; CRC up to three
bytes, each one of twelve: the single bits, from which all others are made, and the edges; misaligned accesses all kinds of
instruction with offsets and registers of every kind.
A line of the console has at most seven characters, of the five that the code tells apart:
two commands with an argument, or quotes and escapes around a separator.

*Fairness.* `WF(Loader)` in `Boot`: core 0 runs whenever it has power, nothing can
preempt it for good. Nothing is assumed of the environment: the power may stay
off or on. `WF` of each core and of time in `Handoff`: the cores run and time
passes. `Check` may end in `exit` (no image), so `BothCoresJump` starts where
core 0 sends its interrupt. In `Kermit` the receiver runs, the
sender repeats what is not acknowledged, and damage is bounded, as a retry
protocol needs. In `FlashDriver` the chip gets done some time, not necessarily
before the driver gives up. In `SpiTransfer` core and controller run on. In `Interrupts` handlers run on and an interrupt that
is let in comes in; of the thread only that it ends `timer_irq_register`.

Each property also has a mutant in `PROJECT.json`: a plausible bug in a mapped
definition (`\* mutant` in the modules) that makes TLC find it violated.

## Proofs

`BootProofs` assumes `ConstantsAssumption` (slots are whole sectors, images fit)
and proves, for all images, sizes and numbers of mishaps, `TypeCorrect`,
`SourceSafe`, `DigestsHonest`, `JumpsSafe`, `RedundancyRestored`, `GivesUpLate`,
`LastGoodSafe`, `GoodAppSafe` and `Refinement` (`Spec => ImplementsStore`). None
of the invariants is inductive alone. `IInv` adds `Checked` (the verdicts say what
the slots hold), `Copying`, `Erasing` (cells below the cursor are blank and the target
does not show the source's digest any more) and `Programming` (cells below the
cursor are the image's, those above are blank unless a ^C cut the erase short).
The heart of the argument is that the digest cell is the last one programmed and
is erased, or made not to match, before anything else of an old image goes: so
a torn copy never has a digest equal to its source's.

`HandoffProofs` assumes `TimesAssumption` and `SleepsSuffice`, the four
inequalities between times that the sleeps must satisfy, and proves
`HandoffTypes`, `InitialisedBeforeEntry`, `NoCodePulledAway`,
`LeadKept` and `NoLostWakeUp`. Its `IInv` carries, for each phase in which one
core is ahead, bounds on how much later the other will enter the next stage
(`MinLeft`, `MaxLeft`): `Leaves` says core 0 will be first by at least
`EntrySkewMin` and at most `EntrySkewMax`, `Follows` carries that over the jump,
and `SetsUp`, `Waits` turn it into "core 1 is in its `wfi` before the 20 ms are
over". So the proof shows exactly how much slack the sleeps leave: with the times
above, initialisation must take less than 3 ms, and 17 + 2 ms must be below 20.

About `Traps` it proves `EmulatedExactly`: which of all misaligned accesses, of any registers and offset, end as the
aligned one would. `TrapInv` says, for each step of the trap, what registers, frame and access are as a function of the
instruction. What remains is to compare them with the manual: the offset of the code is the sign-extended one just
if it is not negative (`AddressRight`), and each clause of `Faithful` is needed, for where one fails the two
differ in some register or in the access. For this the slot of x0, which nobody stores, has to be a value of its own
(`Unsaved`): with a number for it one of the negative offsets through x0 looked right.

`KermitProofs` assumes `Benign` (a sender that waits for its answers, and no damage to
length and sequence number; see Findings for what happens without either) and proves `KermitTypeOK`, `AcknowledgedSafe`, `FileDelivered` and
`BadPacketsUndone` for any transfer and any number of damages. Its `IInv` ties the receiver to
the sender: `InTurn` (whose packet is next, and that at most one answer is on its
way), `ToBegin` and `Begun` (where the checkpoint is before and after the sequence
number was read), `Following` (inside a packet, memory is that of its undamaged
prefix) and `Accepted`.

About `Crc16` it proves `CrcRight` for data of any length. `CrcInv` says what the table holds, whoever called first. The
argument is that eight steps of the shift register are linear (`Apart`): the register that takes a byte differs
from an empty one that takes the index by the rest of the register, shifted out of the way. Words are sets of bits because the
operators of the library's `Bitwise` are recursive, and the exclusive or of sets is one that the provers can reason about.

`SysctlProofs` proves `NothingEverStarves` for any devices, frequencies and calls. Its `IInv` adds
to the property that the CPU is on the crystal while a call works on PLL0 (`Underway`), and that
PLL0 is powered, locked and let out when the call goes back to it; and that a PLL which is about to be
powered off is bypassed. `FrequencyIsAsAsked` is about
`SetAsAsked`, for any request and threshold, with any bypass. `FreqInv` adds what a call that sets a frequency
was told before the PLL is powered (`WorksOn`, `Told`). It rests on `SearchFinds`: what the search returns is a
round that no `continue` dropped, its dividers fit their fields and give what was asked to within 1/64, or it
returns nothing. The search keeps the best of its rounds one after the other; that it comes to an
end with one of them is the least number principle, which the library has as a theorem on the
order of the natural numbers.

`FlashDriverProofs` assumes `FlashAssumption` (pages fit into sectors and sectors into the chip, requests into
the chip) and proves `NoCommandLost`, `WrittenInOrder` and `NothingElseChanges` for any request and any number of timeouts. `IInv`
has `Staged` (which stage of a request comes after which polling), `Cursors` (the four
cursors add up to the request, and a page write stays in its page), `Aimed` (what the
chip is busy with is for the sectors of a request: this alone survives timeouts),
and, as long as no polling timed out, `Settled` (the chip is idle whenever the driver does not
poll, writable and in the mode that the driver takes it to be in) and `Contents` (up to the cursor the bytes are there, behind it
the sectors are blank). `StoreRefinement` is `Spec => ImplementsCellStore`. It does not need `Contents`, which says nothing after a ^C,
but `Pointed`, inductive with `IInv`: the erase or program command under way is for the sector, or the bytes, at which `CellStore` is.

Below it, about `SpiTransfer`, `TransfersAreWhole` holds for FIFOs, commands and requests of any size
under `SpiAssumption`. `SpiInv` says of a send that what the chip got, the frame being shifted and the
FIFO are the beginning of the frames to send, one behind the other (`InLine`), and that the FIFO and what
was shifted since the core looked are at least `Depth - Slack` frames when the core comes round (`Sending`). So the
FIFO never runs dry before the last frame just if `2 * Slack < Depth`. Of a read it says that
what the controller still takes and what is in the FIFO are together what is left of
the read command (`Reading`), so that the FIFO cannot overflow.

`InterruptsProofs` proves `HandlersNest`, `HandlersUnwind` and `CallbacksAreOwed` for any sources,
priorities, channels and numbers of interrupts, handlers nested to any depth. `IInv` speaks of each handler of the
stack: what it found as the threshold is the priority of the innermost external interrupt below it (`Nested`), what it
found in `mie` lacks what the handlers below have masked (`Masked`), and the lowest one writes
back what was asked for (`Restored`). Two of the theorems state what they need of the
callbacks: `HandlersUnwind` that no callback stops a timer or an IPI whose handler, or one around it,
writes `mie` back (`StopsLast`), and `CallbacksAreOwed` that the two interrupts of the timer have
one priority (`OnePriority`). The section on Interrupts says where the code breaks either; TLC's run
meets both.

`PinsProofs` proves `RoutesAreAlone`, `TiesAreSet` (an action property) and `ModesAreSet`, for any number of pads. `Routed` says
how far `fpioa_set_function` has come: none of the pads that it passed has the
function any more. `TiedFirst` says that the values of a word of ties are there before its
enables, and `Driven` that a drive mode is set on the pad of its GPIO, one bit cleared
before the other is set. About `Console` it proves `ScreenIsTheLine` and `CommandsGetTheirOwn` for lines and
argument lists of any length and any characters, under `ConsoleAssumption`: there is room for more words than any command
reads. `CliInv` adds that a command that is called has words of its own part
of the line, and a null behind them if there is room (`Parsed`): the words of a part are
numbered by how many start before them, so a lemma says that a finite set of numbers has an element
at each place of its order.

`OtpProofs` proves `NothingElseIsProgrammed` and `OkIsWritten` for any requests and calls. `Aimed` says that the bits of
the call that runs were asked for, and `Repairs` and `Through` say how far it has come: which ones are programmed, weak or
not, when the repair starts and when it ends. Both end when a repair has timed out (`late`), and
so does `OkMeansWritten`; `OnlyAsked` does not. About `Aes` it proves `TextIsDeciphered` for texts of any length, and an engine that has
room for a chunk (`AesAssumption`). `AesInv` says how the text is cut (`Cut`), that the words given and those still to
give are those of the text (`InOrder`), that the engine is behind by no more than a block, of
which only the last may be short (`Working`), and that what it gave back is stored (`Stored`). That the core never waits for a word that cannot come
then is a matter of counting: before a chunk everything is read, so that the engine holds fewer words
than it has room for as long as one is still to be written. About `Sha256` it proves `DigestIsRight` for messages of any length, cut
into any pieces. `ShaInv` says that what the accelerator and the buffer hold, one behind the other, is the beginning of one stream, message,
padding and length, and that the accelerator has it in whole blocks (`InBlocks`); and how far the three calls of
`sha256_update` are (`Given`). So the stream ends with a block, and that it is what FIPS 180 says, in as many blocks as the
accelerator was told, is arithmetic on the length modulo 64.

Proved and not model-checked any more, for they say less than what is checked: the `TypeOK` of `Boot`, `Handoff` and the
drivers, `SourceKept` (`SourceSafe`), `CoreZeroLeads` (`LeadKept`) and `Confined` (`NothingElseChanges`).

Only model-checked: `BootEnds`, `BothCoresJump`, `TransferEnds`, `JobEnds`, `TransferDone` and `Served`, which are
liveness under fairness. Every safety property of a passing run is stated by a theorem, for every value of the constants
under the assumptions named above.

## Findings

`boot_aes` (expected violation of `JumpsToRunnable`): `main.c:319` says "TO run
later, we must check APP last", because the check leaves APP deciphered in RAM.
But when the slots differ, `flash_image_backup` reads the raw image over that RAM
(`main.c:254`) before `go_boot` jumps to it (`main.c:346`). An encrypted image is
then started as ciphertext, in the very boot that repairs a slot.

`kermit_length` (expected violation of `Delivered`): a control character in place of
the length byte leads to `k_data_restore` (`cli/load.c:373`, `465`) before the
sequence number was looked at, which goes back over the packet before, although
that was acknowledged. (A sender that is not `Patient` loses data too, as
the section on Kermit notes.)

`interrupts_pair` (expected violation of `RegisteredIsRouted`): `timer.c:408` says
"Combine 0 and 1 to A interrupt, 2 and 3 to B interrupt", but the condition
behind it takes the callback from the channel's own pair when either pair is
free: unregistering channel 0 silences channel 1 if 2 and 3 are not in use.

The next six are not violations of a run but what a property says of the code; the
run passes because the code behaves just so.

`boot`, `BackupTriedIfDiffers`: when the stored digests are equal and the application is bad, the loader gives
up without a look at `bak_check` (`main.c:325`, `337`). So a device with a good backup does not start if the
body, flag or length of APP decayed under an intact digest, or if an update puts into BAK the very image of which
a torn copy in APP still has the digest.

`drivers`, `SetAsAsked`: `sysctl_pll_set_freq` never clears the bypass (`sysctl.c:1402-1438`), and neither its result
nor `sysctl_pll_get_freq` looks at it: after `sysctl_pll_disable(SYSCTL_PLL0)` and `sysctl_cpu_set_freq` the CPU runs at the
crystal's frequency, divided, and the call tells another one. Bypassed or not, `sysctl_cpu_set_freq` returns
the frequency of PLL0, while `include/sysctl.h:980` promises "the actual frequency of CPU after set".

`drivers`, `DigestRight`: `sha256_init` announces `(input_size + 64) / 64` blocks (`sha256.c:55`), one too
few when the length mod 64 is from 56 to 63 and the padding takes another block; for 56 and 57 the stray `0x02` of the
table (`sha256.c:47`) is hashed as well. `utils/genimg.py` never makes images of such a length.

`drivers`, `Emulated`: the offset of a misaligned access is made negative by `-((offset & 0x3FF) + 1)`
(`syscalls.c:476`, `565`), which is right for no negative offset. `trap_entry` stores nothing for x0
and stores sp after it was lowered by the frame (`crt.S:135-138`), so that accesses through them go astray; a load into sp has
all the registers behind it restored from elsewhere; a loaded float is not NaN-boxed.

`drivers`, `DriveAsAsked`: `gpiohs_set_drive_mode` asserts `io_number > 0` (`gpiohs.c:38`), but
`fpioa_get_io_by_function` tells failure by -1 (`include/fpioa.h:988`) and pad 0 is a pad.

`drivers`, `RunsAsTyped`: `cmd_process` refuses too many arguments (`command.c:527`), not too few:
the command reads a null pointer, and behind it words of the command before.

## Not modelled, and the plan

Left, in this order:

1. Refinements that could still be stated and proved: of an abstract transfer, by `SpiTransfer`; of an abstract array,
   by `Otp`; of the cells of `Boot`, each some bytes of `CellStore`.
2. The levels, edges and interrupt handler of the GPIOs, and two cores that share the PLIC.

Not to be modelled: the other system calls (`sys_brk` and the calls for a C library make the
heap and files of programs that the loader is not); the tests and the comparison of keys of the one-time memory, which
read and change nothing that stays; keys, vectors and tags of the AES engine (data it only
takes); formatted output, number parsing and character tables (no state); the lock
stubs (empty); the accelerators' arithmetic (hardware); the host tools. `timer_irq_unregister`
leaves the source enabled (`timer.c:416`): a channel that still runs then interrupts for ever, which
`Interrupts` shows and `Served` leaves out, for it is stated of channels with a callback.
