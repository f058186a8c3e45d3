------------------------------ MODULE Handoff ------------------------------
(***************************************************************************)
(* The two cores of the board on their way through the boot loader stages: *)
(* both enter a stage at its _start, core 0 initialises and boots, core 1  *)
(* waits to be registered, then for an interrupt, and both jump to the     *)
(* next stage: src/crt.S, _init_bsp of src/bsp/entry_user.c, main,         *)
(* core1_entry and go_boot of src/main.c, the IPI part of                  *)
(* src/drivers/clint.c.                                                    *)
(*                                                                         *)
(* Almost nothing in this code synchronises the cores.  What keeps core 1  *)
(* from running on variables that core 0 has not initialised, from missing *)
(* the one interrupt that wakes it, and from executing a stage that core 0 *)
(* is already loading the application over, is how long the cores sleep.   *)
(* So time is modelled: it passes in ticks of a millisecond, and each      *)
(* stretch of code takes at least Least and at most Most of them.          *)
(***************************************************************************)
EXTENDS Integers

CONSTANTS
    InitTime,    \* most time core 0 takes from a stage's entry to its main()
    SetupTime,   \* most time core 1 runs from a stage's entry to its wfi
    BannerTime,  \* most time core 0 takes to print the banner of main()
    PrintTime,   \* most time a core takes to print the line of go_boot
    Quick,       \* most time a core takes for a few instructions
    EntrySkewMin, EntrySkewMax   \* how much later core 1 enters stage 1

ASSUME TimesAssumption ==
    /\ InitTime \in Nat
    /\ SetupTime \in Nat
    /\ BannerTime \in Nat
    /\ BannerTime <= 100
    /\ PrintTime \in Nat
    /\ Quick \in Nat
    /\ EntrySkewMin \in Nat
    /\ EntrySkewMax \in Nat

\* The sleeps of 20 and of 10 ms are long enough, and the boot ROM gives core 0
\* the lead that go_boot gives it for the next stage.
ASSUME SleepsSuffice ==
    /\ InitTime < EntrySkewMin
    /\ EntrySkewMax + SetupTime < 20
    /\ EntrySkewMin <= 10 - (PrintTime + 2 * Quick)
    /\ 10 + (PrintTime + 2 * Quick) <= EntrySkewMax

VARIABLES
    stage,      \* stage[c]: the stage core c executes; App once it left the loader
    pc,         \* pc[c]: where core c is in that stage
    clock,      \* clock[c]: how long core c has been running its stretch of code
    env,        \* env[s]: env_ready of stage s
    wake,       \* wake[s]: g_wake_up[1] of stage s
    callback,   \* callback[s]: core1_instance.callback of stage s
    jump,       \* jump[s]: jump_flag of stage s
    msip,       \* clint->msip[1]: an IPI for core 1 is pending
    mie         \* core 1 has its software interrupt enabled

bss == <<env, wake, callback, jump>>
vars == <<stage, pc, clock, env, wake, callback, jump, msip, mie>>

-----------------------------------------------------------------------------

Core == {0, 1}
Stage == {1, 2}
App == 3

\* The sleeps of main() and of go_boot.
NoRegisterSleep == 0            \* mutant: the cores are not given time to settle
RegisterSleep == 20
NoAckSleep == 0                 \* mutant: core 1 does not let core 0 go first
AckSleep == 10
PrintSleep == 100

Code == {"rom", "bss", "ready", "null", "register", "enable", "sleep20", "check",
         "send", "spin", "env", "thread", "call", "ipi_init", "ipi_clear",
         "ipi_enable", "wfi", "waiting", "woken", "flag", "sleep10", "print",
         "sleep100", "app", "exit", "wild"}

\* The least and the most time from the start of a stretch of code to a step in it.
Least(p) == CASE p = "rom"      -> EntrySkewMin
              [] p = "sleep20"  -> RegisterSleep
              [] p = "sleep10"  -> AckSleep
              [] p = "sleep100" -> PrintSleep
              [] OTHER          -> 0

Most(p) == CASE p = "rom"      -> EntrySkewMax
             [] p \in {"bss", "ready", "null"} -> InitTime
             [] p \in {"register", "enable"} -> BannerTime
             [] p = "print"    -> PrintTime
             [] p \in {"env", "thread", "call", "ipi_init", "ipi_clear",
                       "ipi_enable", "wfi"} -> SetupTime
             [] p = "sleep20"  -> RegisterSleep + Quick
             [] p = "sleep10"  -> AckSleep + Quick
             [] p = "sleep100" -> PrintSleep + Quick
             [] OTHER          -> Quick

\* Nothing bounds how long checking and copying images takes, nor an endless loop.
Untimed == {"check", "app", "exit", "wild"}

\* A word of .bss holds anything until init_bss clears it: whoever reads it then
\* may see zero or not.
Flag == {"garbage", "zero", "one"}

TypeOK ==
    /\ stage \in [Core -> Stage \cup {App}]
    /\ pc \in [Core -> Code]
    /\ clock \in [Core -> 0 .. PrintSleep + Quick]
    /\ env \in [Stage -> Flag]
    /\ wake \in [Stage -> Flag]
    /\ callback \in [Stage -> {"garbage", "null", "core1_entry"}]
    /\ jump \in [Stage -> Flag]
    /\ msip \in BOOLEAN
    /\ mie \in BOOLEAN

\* Core 0 enters stage 1; the boot ROM lets core 1 follow.
Init ==
    /\ stage = [c \in Core |-> 1]
    /\ pc = [c \in Core |-> IF c = 0 THEN "bss" ELSE "rom"]
    /\ clock = [c \in Core |-> 0]
    /\ env = [s \in Stage |-> "garbage"]
    /\ wake = [s \in Stage |-> "garbage"]
    /\ callback = [s \in Stage |-> "garbage"]
    /\ jump = [s \in Stage |-> "garbage"]
    /\ msip = FALSE
    /\ mie = FALSE

-----------------------------------------------------------------------------
(***************************************************************************)
(* Time                                                                    *)
(***************************************************************************)

\* Core 1 takes a software interrupt before its next instruction.
Interrupted(c) == c = 1 /\ msip /\ mie

\* The word that core c polls: it goes on if that is not zero.
Awaited(c) == CASE pc[c] = "env"     -> env[stage[c]]
                [] pc[c] = "thread"  -> wake[stage[c]]
                [] pc[c] = "spin"    -> jump[stage[c]]
                [] pc[c] = "waiting" -> "zero"
                [] OTHER             -> "one"

\* The clock of a core stands while it waits, maybe on garbage, in vain.
Timed(c) == pc[c] \notin Untimed /\ (Interrupted(c) \/ Awaited(c) = "one")

Tick ==
    /\ \A c \in Core : Timed(c) => clock[c] < Most(pc[c])
    /\ clock' = [c \in Core |-> IF Timed(c) THEN clock[c] + 1 ELSE clock[c]]
    /\ UNCHANGED <<stage, pc, bss, msip, mie>>

\* Core c is at p and may take the step there.
At(c, p) ==
    /\ pc[c] = p
    /\ ~Interrupted(c)
    /\ Awaited(c) # "zero"
    /\ clock[c] >= Least(p)

\* It goes on to q in the same stretch of code; or q starts another one.
Continue(c, q) == pc' = [pc EXCEPT ![c] = q] /\ UNCHANGED clock
Goto(c, q) == pc' = [pc EXCEPT ![c] = q] /\ clock' = [clock EXCEPT ![c] = 0]

-----------------------------------------------------------------------------
(***************************************************************************)
(* Core 0                                                                  *)
(***************************************************************************)

InitBss ==
    /\ At(0, "bss")
    /\ env' = [env EXCEPT ![stage[0]] = "zero"]
    /\ wake' = [wake EXCEPT ![stage[0]] = "zero"]
    /\ callback' = [callback EXCEPT ![stage[0]] = "null"]
    /\ jump' = [jump EXCEPT ![stage[0]] = "zero"]
    /\ Continue(0, "ready")
    /\ UNCHANGED <<stage, msip, mie>>

EnvReady ==
    /\ At(0, "ready")
    /\ env' = [env EXCEPT ![stage[0]] = "one"]
    /\ Continue(0, "null")
    /\ UNCHANGED <<stage, wake, callback, jump, msip, mie>>

NullCallback ==
    /\ At(0, "null")
    /\ callback' = [callback EXCEPT ![stage[0]] = "null"]
    /\ Goto(0, "register")
    /\ UNCHANGED <<stage, env, wake, jump, msip, mie>>

\* Mutant: core 1 is released before its callback is stored.
ReleaseCore1First ==
    /\ At(0, "register")
    /\ wake' = [wake EXCEPT ![stage[0]] = "one"]
    /\ Continue(0, "enable")
    /\ UNCHANGED <<stage, env, callback, jump, msip, mie>>

\* register_core1: the callback first, then core_enable.
RegisterCore1 ==
    /\ At(0, "register")
    /\ callback' = [callback EXCEPT ![stage[0]] = "core1_entry"]
    /\ Continue(0, "enable")
    /\ UNCHANGED <<stage, env, wake, jump, msip, mie>>

CoreEnable ==
    /\ At(0, "enable")
    /\ wake' = [wake EXCEPT ![stage[0]] = "one"]
    /\ Goto(0, "sleep20")
    /\ UNCHANGED <<stage, env, callback, jump, msip, mie>>

Sleep20 ==
    /\ At(0, "sleep20")
    /\ Goto(0, "check")
    /\ UNCHANGED <<stage, bss, msip, mie>>

\* Checking and copying images (module Boot) overwrites the RAM of the other
\* stage, and ends in go_boot or in sys_exit.
Check ==
    /\ At(0, "check")
    /\ \E next \in {"send", "exit"} : Goto(0, next)
    /\ UNCHANGED <<stage, bss, msip, mie>>

ClintIpiSend ==
    /\ At(0, "send")
    /\ msip' = TRUE
    /\ Goto(0, "spin")
    /\ UNCHANGED <<stage, bss, mie>>

Spin ==
    /\ At(0, "spin")
    /\ Goto(0, "print")
    /\ UNCHANGED <<stage, bss, msip, mie>>

-----------------------------------------------------------------------------
(***************************************************************************)
(* Core 1                                                                  *)
(***************************************************************************)

\* The boot ROM lets core 1 enter stage 1.
EnterStage1 ==
    /\ At(1, "rom")
    /\ Goto(1, "env")
    /\ UNCHANGED <<stage, bss, msip, mie>>

AwaitEnv ==
    /\ At(1, "env")
    /\ Continue(1, "thread")
    /\ UNCHANGED <<stage, bss, msip, mie>>

ThreadEntry ==
    /\ At(1, "thread")
    /\ Continue(1, "call")
    /\ UNCHANGED <<stage, bss, msip, mie>>

\* No callback: sys_exit.  One that nobody set is a jump to anywhere.
CallCore1Entry ==
    /\ At(1, "call")
    /\ CASE callback[stage[1]] = "core1_entry" -> Continue(1, "ipi_init")
         [] callback[stage[1]] = "null"        -> Continue(1, "exit")
         [] callback[stage[1]] = "garbage"     -> Continue(1, "wild")
    /\ UNCHANGED <<stage, bss, msip, mie>>

ClintIpiInit ==
    /\ At(1, "ipi_init")
    /\ mie' = FALSE
    /\ Continue(1, "ipi_clear")
    /\ UNCHANGED <<stage, bss, msip>>

ClintIpiClear ==
    /\ At(1, "ipi_clear")
    /\ msip' = FALSE
    /\ Continue(1, "ipi_enable")
    /\ UNCHANGED <<stage, bss, mie>>

ClintIpiEnable ==
    /\ At(1, "ipi_enable")
    /\ mie' = TRUE
    /\ Continue(1, "wfi")
    /\ UNCHANGED <<stage, bss, msip>>

Wfi ==
    /\ At(1, "wfi")
    /\ Goto(1, "waiting")
    /\ UNCHANGED <<stage, bss, msip, mie>>

\* Mutant: clint_ipi_clear left out, the interrupt comes back forever.
HandleIrqMSoftKeepsIpi ==
    /\ Interrupted(1)
    /\ IF pc[1] = "waiting" THEN Goto(1, "woken") ELSE UNCHANGED <<pc, clock>>
    /\ UNCHANGED <<stage, bss, msip, mie>>

\* handle_irq_m_soft clears the interrupt and returns.  It ends a wfi; one that
\* comes before the wfi is gone when core 1 gets there.
HandleIrqMSoft ==
    /\ Interrupted(1)
    /\ msip' = FALSE
    /\ IF pc[1] = "waiting" THEN Goto(1, "woken") ELSE UNCHANGED <<pc, clock>>
    /\ UNCHANGED <<stage, bss, mie>>

\* clint_ipi_disable, clint_ipi_clear, clint_ipi_unregister.
ClintIpiDisable ==
    /\ At(1, "woken")
    /\ mie' = FALSE
    /\ msip' = FALSE
    /\ Continue(1, "flag")
    /\ UNCHANGED <<stage, bss>>

JumpFlag ==
    /\ At(1, "flag")
    /\ jump' = [jump EXCEPT ![stage[1]] = "one"]
    /\ Goto(1, "sleep10")
    /\ UNCHANGED <<stage, env, wake, callback, msip, mie>>

Sleep10 ==
    /\ At(1, "sleep10")
    /\ Goto(1, "print")
    /\ UNCHANGED <<stage, bss, msip, mie>>

-----------------------------------------------------------------------------
(***************************************************************************)
(* The end of go_boot, on either core                                      *)
(***************************************************************************)

PrintJumping(c) ==
    /\ At(c, "print")
    /\ Goto(c, "sleep100")
    /\ UNCHANGED <<stage, bss, msip, mie>>

\* Disable the interrupts and jump to the next stage's _start.
JumpToBoot(c) ==
    /\ At(c, "sleep100")
    /\ stage' = [stage EXCEPT ![c] = @ + 1]
    /\ Goto(c, IF stage[c] + 1 = App THEN "app" ELSE IF c = 0 THEN "bss" ELSE "env")
    /\ mie' = IF c = 1 THEN FALSE ELSE mie
    /\ UNCHANGED <<bss, msip>>

GoBoot(c) == PrintJumping(c) \/ JumpToBoot(c)

Core0 == \/ InitBss \/ EnvReady \/ NullCallback \/ RegisterCore1 \/ CoreEnable
         \/ Sleep20 \/ Check \/ ClintIpiSend \/ Spin \/ GoBoot(0)

Core1 == \/ EnterStage1 \/ AwaitEnv \/ ThreadEntry \/ CallCore1Entry
         \/ ClintIpiInit \/ ClintIpiClear \/ ClintIpiEnable \/ Wfi
         \/ HandleIrqMSoft \/ ClintIpiDisable \/ JumpFlag \/ Sleep10 \/ GoBoot(1)

Next == Core0 \/ Core1 \/ Tick

\* Both cores run all the time, and time passes.
Spec == Init /\ [][Next]_vars /\ WF_vars(Core0) /\ WF_vars(Core1) /\ WF_vars(Tick)

-----------------------------------------------------------------------------
(***************************************************************************)
(* Properties                                                              *)
(***************************************************************************)

\* Core 1 enters a stage only when core 0 has cleared the .bss of that stage and
\* set env_ready: _init_bsp never polls, and init_bss never clears, a word that
\* core 1 has already acted on.
EntersInitialised ==
    stage[1] \in Stage /\ pc[1] # "rom" => env[stage[1]] = "one"

\* Core 1 runs nothing but what is meant for it: of what core1_instance may hold it calls
\* only core1_entry; and when stage 2 loads the application over the RAM that stage 1 runs
\* in, core 1 has left stage 1.
RunsOwnCode ==
    /\ pc[1] \notin {"wild", "exit"}
    /\ stage[0] = 2 /\ pc[0] \notin {"bss", "ready", "null", "register", "enable", "sleep20"}
           => stage[1] # 1

\* The one IPI that core 0 sends finds core 1 in its wfi: it is neither cleared
\* by core1_entry nor taken before the wfi.
IpiIsHeard == [][msip' /\ ~msip => pc[1] = "waiting"]_vars

\* The cores leave a stage together: neither is ever a whole stage behind, and
\* core 0 is the first to go.
CoreZeroLeads == stage[0] \in {stage[1], stage[1] + 1}

\* Once core 0 has found an image to start, both cores get out of the stage.
BothCoresJump ==
    \A s \in Stage : (stage[0] = s /\ pc[0] = "send") ~> \A c \in Core : stage[c] > s

-----------------------------------------------------------------------------
(***************************************************************************)
(* The invariant that the proofs are built on                              *)
(***************************************************************************)

Starting == {"bss", "ready", "null"}
SettingUp == {"env", "thread", "call", "ipi_init", "ipi_clear", "ipi_enable", "wfi"}
Leaving == {"sleep10", "print", "sleep100"}

\* The least and the most time until a core that has been at p for t enters the
\* next stage (in the boot ROM: stage 1).
MinLeft(p, t) == CASE p = "rom"      -> EntrySkewMin - t
                   [] p = "sleep10"  -> AckSleep + PrintSleep - t
                   [] p = "sleep100" -> PrintSleep - t
                   [] OTHER          -> PrintSleep

MaxLeft(p, t) == CASE p = "rom"      -> EntrySkewMax - t
                   [] p = "spin"     -> PrintTime + PrintSleep + 2 * Quick - t
                   [] p = "sleep10"  ->
                           AckSleep + PrintTime + PrintSleep + 2 * Quick - t
                   [] p = "print"    -> PrintTime + PrintSleep + Quick - t
                   [] OTHER          -> PrintSleep + Quick - t

\* Which core can be where, and what has been cleared and set by then.
Places ==
    /\ pc[0] \in Starting \cup {"register", "enable", "sleep20", "check", "exit",
                                 "send", "spin", "print", "sleep100", "app"}
    /\ pc[1] \in {"rom", "waiting", "woken", "flag", "app"} \cup SettingUp \cup Leaving
    /\ \A c \in Core : stage[c] = App <=> pc[c] = "app"
    /\ \A c \in Core : pc[c] \notin Untimed => clock[c] <= Most(pc[c])

Words ==
    /\ stage[0] \in Stage /\ pc[0] # "bss" =>
        /\ env[stage[0]] = IF pc[0] = "ready" THEN "zero" ELSE "one"
        /\ wake[stage[0]] = IF pc[0] \in Starting \cup {"register", "enable"}
                           THEN "zero" ELSE "one"
        /\ pc[0] \notin Starting \cup {"register"} => callback[stage[0]] = "core1_entry"
        /\ jump[stage[0]] = IF pc[1] \in Leaving /\ stage[1] = stage[0]
                           THEN "one" ELSE "zero"
    /\ msip => pc[0] = "spin" /\ pc[1] = "waiting"

\* While core 1 is still in the boot ROM or in the stage before: it enters after
\* core 0's initialisation, and before its sleep is over.
Follows ==
    pc[1] = "rom" \/ (stage[0] \in Stage /\ stage[0] # stage[1]) =>
        /\ pc[1] = "rom" => stage[0] = 1 /\ stage[1] = 1
        /\ pc[1] # "rom" => stage[0] = stage[1] + 1 /\ pc[1] \in Leaving
        /\ pc[0] \in Starting \cup {"register", "enable", "sleep20"}
        /\ pc[0] \in Starting => clock[0] + MinLeft(pc[1], clock[1]) >= EntrySkewMin
        /\ clock[0] + MaxLeft(pc[1], clock[1]) <= EntrySkewMax

\* While core 1 sets itself up: core 0 prints its banner or sleeps.
SetsUp ==
    pc[1] \in SettingUp =>
        /\ stage[0] = stage[1]
        /\ pc[0] \in {"register", "enable", "sleep20"}
        /\ pc[0] # "sleep20" => pc[1] \in {"env", "thread"}
        /\ pc[0] = "sleep20" => clock[0] <= EntrySkewMax + clock[1]
        /\ pc[1] = "wfi" => mie

\* While core 1 waits and wakes up: core 0 is heard.
Waits ==
    /\ pc[1] = "waiting" =>
        /\ stage[0] = stage[1]
        /\ pc[0] \in {"sleep20", "check", "exit", "send", "spin"}
        /\ mie
        /\ msip <=> pc[0] = "spin"
    /\ pc[1] \in {"woken", "flag"} => stage[0] = stage[1] /\ pc[0] = "spin"

\* While both leave: core 0 keeps its lead.
Leaves ==
    pc[1] \in Leaving =>
        /\ stage[0] \in {stage[1], stage[1] + 1}
        /\ stage[0] = stage[1] => /\ pc[0] \in {"spin", "print", "sleep100"}
                                 /\ MinLeft(pc[1], clock[1])
                                       >= MaxLeft(pc[0], clock[0]) + EntrySkewMin
                                 /\ MaxLeft(pc[1], clock[1])
                                       <= MinLeft(pc[0], clock[0]) + EntrySkewMax

IInv ==
    /\ TypeOK
    /\ Places
    /\ Words
    /\ Follows
    /\ SetsUp
    /\ Waits
    /\ Leaves
    /\ stage[1] = App => stage[0] = App
    /\ EntersInitialised
=============================================================================
