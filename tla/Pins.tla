-------------------------------- MODULE Pins --------------------------------
(***************************************************************************)
(* The pins under drivers/fpioa.c, which routes functions to them, and     *)
(* drivers/gpiohs.c, which looks up the pin of a GPIO to set its pulls and *)
(* its direction.  One thread makes the calls; a call that writes several  *)
(* registers writes one of them in a step.  A call with an illegal pin or  *)
(* function, and the calls that only read, change nothing and are left     *)
(* out; so are the interrupts of the GPIOs.                                *)
(***************************************************************************)
EXTENDS FpioaTable

CONSTANTS
    FPIOA_NUM_IO,   \* pins: the 48 in the code
    Routes,         \* functions that the calls ask for
    Inputs,         \* functions that the calls tie
    Gpios,          \* GPIOs whose drive mode is set
    MaxPinsCalls    \* bound: calls of the thread

FUNC_RESV0 == 120
FUNC_GPIOHS0 == 24
GPIOHS_MAX_PINNO == 32

Pads == 0 .. FPIOA_NUM_IO - 1
Functions == 0 .. FUNC_MAX - 1
Words == 0 .. FUNC_MAX \div 32 - 1
WordOf(function) == function \div 32

ASSUME PinsAssumption ==
    /\ FPIOA_NUM_IO \in 1 .. 48
    /\ Routes \subseteq Functions
    /\ Inputs \subseteq Functions
    /\ Gpios \subseteq 0 .. GPIOHS_MAX_PINNO - 1
    /\ MaxPinsCalls \in Nat

None == -1

VARIABLES
    pins_pc,        \* "idle", the step of the call that is next, or "assert" for good
    io,             \* fpioa->io: the channel of each pad and how the pad is set
    tie_en, tie_val,            \* fpioa->tie: the functions whose bit is set
    number, function, index,    \* the arguments and the loop of the call
    pin, mode,                  \* the arguments of gpiohs_set_drive_mode
    output_en, input_en,        \* gpiohs: the GPIOs whose bit is set
    routed,         \* ghost: the function that fpioa_set_function last gave to a pad
    pins_calls      \* bound: calls so far

fpioa == <<io, tie_en, tie_val, routed>>
gpiohs == <<output_en, input_en>>
args == <<number, function, index, pin, mode>>
pins_vars == <<pins_pc, fpioa, gpiohs, args, pins_calls>>

-----------------------------------------------------------------------------

\* What fpioa_set_function_raw writes: all of the entry but the ties.
PadFields == DOMAIN Off \ {"tie_en", "tie_val"}
PadOf(f) == [field \in PadFields |-> function_config[f + 1][field]]
Config(f) == [ch_sel |-> f, pad |-> PadOf(f)]

Drive == {"INPUT", "INPUT_PULL_DOWN", "INPUT_PULL_UP", "OUTPUT"}
Pulls == {"NONE", "DOWN", "UP"}

PinsTypeOK ==
    /\ pins_pc \in {"idle", "tie_val", "tie_en", "steal", "give", "pull", "off", "on", "assert"}
    /\ io \in [Pads -> [ch_sel : Functions, pad : [PadFields -> 0 .. 15]]]
    /\ tie_en \subseteq Functions /\ tie_val \subseteq Functions
    /\ number \in Pads \cup {None}
    /\ function \in Functions
    /\ index \in Nat
    /\ pin \in 0 .. GPIOHS_MAX_PINNO - 1
    /\ mode \in Drive
    /\ output_en \subseteq Gpios /\ input_en \subseteq Gpios
    /\ routed \in [Pads -> Functions \cup {None}]
    /\ pins_calls \in 0 .. MaxPinsCalls

\* After a reset any pad may have any function.
PinsInit ==
    /\ pins_pc = "idle"
    /\ io \in [Pads -> {Config(f) : f \in Routes}]
    /\ tie_en = {} /\ tie_val = {}
    /\ number = None /\ function = FUNC_RESV0 /\ index = 0
    /\ pin = 0 /\ mode = "INPUT"
    /\ output_en = {} /\ input_en = {}
    /\ routed = [p \in Pads |-> None]
    /\ pins_calls = 0

PinsCall(step) ==
    /\ pins_pc = "idle"
    /\ pins_calls < MaxPinsCalls
    /\ pins_calls' = pins_calls + 1
    /\ pins_pc' = step

-----------------------------------------------------------------------------
(***************************************************************************)
(* fpioa.c                                                                 *)
(***************************************************************************)

\* fpioa_set_function_raw, and what it means for the pads that had a function for sure.
Without(f) == [p \in Pads |-> IF routed[p] = f THEN None ELSE routed[p]]
SetFunctionRaw(p, f) == io' = [io EXCEPT ![p] = Config(f)]

CallSetFunctionRaw(p, f) ==
    /\ PinsCall("idle")
    /\ SetFunctionRaw(p, f)
    /\ routed' = [Without(f) EXCEPT ![p] = None]
    /\ UNCHANGED <<tie_en, tie_val, gpiohs, args>>

\* fpioa_set_io, with what fpioa_get_io read from another pad.
SetIo(p, q) ==
    /\ PinsCall("idle")
    /\ io' = [io EXCEPT ![p] = io[q]]
    /\ routed' = [Without(io[q].ch_sel) EXCEPT ![p] = None]
    /\ UNCHANGED <<tie_en, tie_val, gpiohs, args>>

PullOf(pull) == [pu |-> IF pull = "UP" THEN 1 ELSE 0, pd |-> IF pull = "DOWN" THEN 1 ELSE 0]
SetIoPull(p, pull) ==
    io' = [io EXCEPT ![p].pad.pu = PullOf(pull).pu, ![p].pad.pd = PullOf(pull).pd]

CallSetIoPull(p, pull) ==
    /\ PinsCall("idle")
    /\ SetIoPull(p, pull)
    /\ UNCHANGED <<tie_en, tie_val, routed, gpiohs, args>>

SetIoDriving(p, driving) ==
    /\ PinsCall("idle")
    /\ io' = [io EXCEPT ![p].pad.ds = driving]
    /\ UNCHANGED <<tie_en, tie_val, routed, gpiohs, args>>

\* fpioa_set_function: FUNC_RESV0 may be on many pads, anything else is taken from the
\* pads that have it.
SetFunction(p, f) ==
    /\ PinsCall(IF f = FUNC_RESV0 THEN "give" ELSE "steal")
    /\ number' = p /\ function' = f /\ index' = 0
    /\ UNCHANGED <<fpioa, gpiohs, pin, mode>>

StealsBefore(i) == io[i].ch_sel = function /\ i < number \* mutant: stops at the pad itself
Steals(i) == io[i].ch_sel = function /\ i # number

Steal ==
    /\ pins_pc = "steal"
    /\ IF Steals(index)
       THEN SetFunctionRaw(index, FUNC_RESV0) /\ routed' = [routed EXCEPT ![index] = None]
       ELSE UNCHANGED <<io, routed>>
    /\ index' = index + 1
    /\ pins_pc' = IF index' = FPIOA_NUM_IO THEN "give" ELSE "steal"
    /\ UNCHANGED <<tie_en, tie_val, gpiohs, number, function, pin, mode, pins_calls>>

Give ==
    /\ pins_pc = "give"
    /\ SetFunctionRaw(number, function)
    /\ routed' = [routed EXCEPT ![number] = IF function = FUNC_RESV0 THEN None ELSE function]
    /\ pins_pc' = "idle"
    /\ UNCHANGED <<tie_en, tie_val, gpiohs, args, pins_calls>>

\* fpioa_get_io_by_function: the first pad, or None.
GetIoByFunction(f) ==
    IF \E p \in Pads : io[p].ch_sel = f
    THEN CHOOSE p \in Pads : io[p].ch_sel = f /\ \A q \in 0 .. p - 1 : io[q].ch_sel # f
    ELSE None

\* fpioa_init: word by word the values, then the enables.
TieInit ==
    /\ PinsCall("tie_val")
    /\ index' = 0
    /\ UNCHANGED <<fpioa, gpiohs, number, function, pin, mode>>

Tied1(field) == {f \in Functions : function_config[f + 1][field] = 1}
InWord(set, w) == {f \in set : WordOf(f) = w}
WordSet(set, w, with) == {f \in set : WordOf(f) # w} \cup InWord(with, w)

\* mutant: the enables first
TieStepEnFirst(step) == IF step = "tie_val" THEN "tie_en" ELSE "tie_val"
TieStep(step) == step

TieWord ==
    /\ pins_pc \in {"tie_val", "tie_en"}
    /\ IF TieStep(pins_pc) = "tie_val"
       THEN /\ tie_val' = WordSet(tie_val, index, Tied1("tie_val"))
            /\ UNCHANGED tie_en
       ELSE /\ tie_en' = WordSet(tie_en, index, Tied1("tie_en"))
            /\ UNCHANGED tie_val
    /\ index' = IF pins_pc = "tie_en" THEN index + 1 ELSE index
    /\ pins_pc' = IF pins_pc = "tie_val" THEN "tie_en"
             ELSE IF index' \in Words THEN "tie_val" ELSE "idle"
    /\ UNCHANGED <<io, routed, gpiohs, number, function, pin, mode, pins_calls>>

Switch(set, f, on) == IF on THEN set \cup {f} ELSE set \ {f}
SetTieEnable(f, enable) ==
    /\ PinsCall("idle")
    /\ tie_en' = Switch(tie_en, f, enable)
    /\ UNCHANGED <<io, tie_val, routed, gpiohs, args>>
SetTieValue(f, value) ==
    /\ PinsCall("idle")
    /\ tie_val' = Switch(tie_val, f, value)
    /\ UNCHANGED <<io, tie_en, routed, gpiohs, args>>

-----------------------------------------------------------------------------
(***************************************************************************)
(* gpiohs_set_drive_mode                                                   *)
(***************************************************************************)

\* configASSERT(io_number > 0)
Accepted(io_number) == io_number > 0

SetDriveMode(g, m) ==
    /\ LET io_number == GetIoByFunction(FUNC_GPIOHS0 + g) IN
       /\ PinsCall(IF Accepted(io_number) THEN "pull" ELSE "assert")
       /\ number' = io_number
    /\ pin' = g /\ mode' = m
    /\ UNCHANGED <<fpioa, gpiohs, function, index>>

ModePull ==
    CASE mode = "INPUT" -> "NONE"
      [] mode = "INPUT_PULL_UP" -> "UP"
      [] OTHER -> "DOWN"

DrivePull ==
    /\ pins_pc = "pull"
    /\ SetIoPull(number, ModePull)
    /\ pins_pc' = "off"
    /\ UNCHANGED <<tie_en, tie_val, routed, gpiohs, args, pins_calls>>

\* The bit of the other direction goes off first.
IsOutputAlways(step) == mode = "OUTPUT"            \* mutant: both writes go to reg
IsOutput(step) == (mode = "OUTPUT") = (step = "on")

DriveBit ==
    /\ pins_pc \in {"off", "on"}
    /\ IF IsOutput(pins_pc)
       THEN output_en' = Switch(output_en, pin, pins_pc = "on") /\ UNCHANGED input_en
       ELSE input_en' = Switch(input_en, pin, pins_pc = "on") /\ UNCHANGED output_en
    /\ pins_pc' = IF pins_pc = "off" THEN "on" ELSE "idle"
    /\ UNCHANGED <<fpioa, args, pins_calls>>

-----------------------------------------------------------------------------

PinsNext ==
    \/ Steal \/ Give \/ TieInit \/ TieWord \/ DrivePull \/ DriveBit
    \/ \E p \in Pads :
           \/ \E f \in Routes : CallSetFunctionRaw(p, f) \/ SetFunction(p, f)
           \/ \E q \in Pads : SetIo(p, q)
           \/ \E pull \in Pulls : CallSetIoPull(p, pull)
           \/ SetIoDriving(p, 7)
    \/ \E f \in Inputs, on \in BOOLEAN : SetTieEnable(f, on) \/ SetTieValue(f, on)
    \/ \E g \in Gpios, m \in Drive : SetDriveMode(g, m)

PinsSpec == PinsInit /\ [][PinsNext]_pins_vars

-----------------------------------------------------------------------------
(***************************************************************************)
(* Properties                                                              *)
(***************************************************************************)

\* A function that fpioa_set_function gave to a pad is on that pad and on no other,
\* whatever pads had it after the reset and whatever is called next, until a call takes
\* the pad, or puts the function on a pad without asking.
RoutedAlone ==
    \A p \in Pads : routed[p] # None =>
        \A q \in Pads : io[q].ch_sel = routed[p] <=> q = p

\* An input that fpioa_init ties is at the level of the table from the start: the value
\* is there before the enable, whatever fpioa_set_tie_value left.
TiedAsTable ==
    [][(pins_pc \in {"tie_val", "tie_en"}) =>
           \A f \in (tie_en' \ tie_en) : (f \in tie_val') = (f \in Tied1("tie_val"))]_pins_vars

\* A GPIO never drives and listens at once, and the end of gpiohs_set_drive_mode finds the
\* pad of the GPIO with the pull of the mode.  The assertion stops a call for a GPIO that
\* is on no pad, and also for one that is on pad 0.
DriveAsAsked ==
    /\ output_en \cap input_en = {}
    /\ pins_pc \in {"off", "on"} =>
           /\ io[number].ch_sel = FUNC_GPIOHS0 + pin
           /\ io[number].pad.pu = PullOf(ModePull).pu
           /\ io[number].pad.pd = PullOf(ModePull).pd
    /\ pins_pc = "assert" => GetIoByFunction(FUNC_GPIOHS0 + pin) \in {None, 0}
=============================================================================
