----------------------------- MODULE Interrupts -----------------------------
(***************************************************************************)
(* The interrupts of one core: the trap (crt.S, bsp/interrupt.c), the      *)
(* handlers of external interrupts (drivers/plic.c), of the core's timer   *)
(* and of inter-processor interrupts (drivers/clint.c), and the timers of  *)
(* drivers/timer.c, whose four channels share two external interrupts.     *)
(* Each handler lets other interrupts in while it runs its callback, so    *)
(* handlers nest.                                                          *)
(*                                                                         *)
(* The loader links this code but registers nothing with it, except        *)
(* core1_entry's interrupt, which is in Handoff.  Here the thread that     *)
(* calls it, and what its callbacks do, is any program, within the bounds. *)
(***************************************************************************)
EXTENDS Integers, Sequences, FiniteSetsExt

CONSTANTS
    Channels,       \* channels of the timer device in use
    Others,         \* other sources of external interrupts
    Priority,       \* Priority[s]: that which the thread sets for source s
    Unregisters,    \* the channels that the thread unregisters
    Stops,          \* Stops[h]: what callbacks of handler h switch off
    Stale,          \* bound: interrupts that the stage before may have left pending
    MaxCalls,       \* bound: calls by the thread
    MaxRaised       \* bound: interrupts from devices

NoSource == 0
TimerA == 1
TimerB == 2
Source == {TimerA, TimerB} \cup Others

ASSUME InterruptsAssumption ==
    /\ Channels \subseteq 0 .. 3
    /\ \A s \in Others : s \in Nat /\ s > TimerB
    /\ Priority \in [Source -> Nat \ {0}]
    /\ Unregisters \subseteq Channels
    /\ Stops \in [{"ext", "timer", "soft"} -> SUBSET {"timer", "soft"}]
    /\ Stale \subseteq Source
    /\ MaxCalls \in Nat
    /\ MaxRaised \in Nat

VARIABLES
    ready,          \* plic_init is over
    enabled,        \* PLIC: sources enabled for this core
    priority,       \* PLIC: source_priorities
    threshold,      \* PLIC: priority_threshold of this core
    pending,        \* PLIC: sources with their pending bit set
    claimed,        \* PLIC: sources claimed and not completed
    routed,         \* the sources that plic_instance has a callback for
    instance,       \* timer_instance: "none", "periodic" or "single_shot"
    running,        \* channels that are enabled
    raised,         \* intr_stat of the timer device
    other,          \* other devices that have their interrupt up
    routing,        \* the channel that timer_irq_register is not done with, or None
    mie,            \* the enable bits of mie
    mtip, msip,     \* the pending bits of the core's timer and of its IPI
    single_shot,    \* of clint_timer_instance
    stack,          \* the handlers that are running
    asked,          \* history: the enable bits that the program asked for
    owed,           \* history: channels that expired since their last callback
    calls, raises   \* history: for the bounds

plic == <<enabled, priority, threshold, pending, claimed, routed>>
timers == <<instance, running, raised>>
clint == <<mie, mtip, msip, single_shot, asked>>
vars == <<ready, plic, timers, other, routing, clint, stack, owed, calls, raises>>

-----------------------------------------------------------------------------

None == -1

\* get_timer_irqn_by_device_and_channel
IrqOf(c) == IF c < 2 THEN TimerA ELSE TimerB

\* What a handler keeps on the stack.  stat is channel_int_stat.
Frame == [cause : {"ext", "timer", "soft"},
          at : {"scan", "loop", "user", "complete", "exit"},
          ie : SUBSET {"ext", "timer", "soft"},
          num : Source \cup {NoSource},
          threshold : Nat,
          stat : SUBSET Channels]

Top == stack[Len(stack)]
Below == SubSeq(stack, 1, Len(stack) - 1)

TypeOK ==
    /\ ready \in BOOLEAN
    /\ enabled \subseteq Source
    /\ priority \in [Source \cup {NoSource} -> Nat]
    /\ threshold \in Nat
    /\ pending \subseteq Source
    /\ claimed \subseteq Source
    /\ routed \subseteq Source
    /\ instance \in [Channels -> {"none", "periodic", "single_shot"}]
    /\ running \subseteq Channels
    /\ raised \subseteq Channels
    /\ other \subseteq Others
    /\ routing \in Channels \cup {None}
    /\ mie \subseteq {"ext", "timer", "soft"}
    /\ mtip \in BOOLEAN
    /\ msip \in BOOLEAN
    /\ single_shot \in BOOLEAN
    /\ stack \in Seq(Frame)
    /\ asked \subseteq {"ext", "timer", "soft"}
    /\ owed \subseteq Channels
    /\ calls \in 0 .. MaxCalls
    /\ raises \in 0 .. MaxRaised

Init ==
    /\ ready = FALSE
    /\ enabled = {}
    /\ priority = [s \in Source \cup {NoSource} |-> 0]
    /\ threshold = 0
    /\ pending \in SUBSET Stale
    /\ claimed = {}
    /\ routed = {}
    /\ instance = [c \in Channels |-> "none"]
    /\ running = {}
    /\ raised = {}
    /\ other = {}
    /\ routing = None
    /\ mie = {}
    /\ mtip = FALSE
    /\ msip = FALSE
    /\ single_shot = FALSE
    /\ stack = <<>>
    /\ asked = {}
    /\ owed = {}
    /\ calls = 0
    /\ raises = 0

-----------------------------------------------------------------------------
(***************************************************************************)
(* The devices and the controller                                          *)
(***************************************************************************)

Raise == raises < MaxRaised /\ raises' = raises + 1

Expire(c) ==
    /\ c \in running
    /\ raised' = raised \cup {c}
    /\ owed' = owed \cup {c}
    /\ Raise
    /\ UNCHANGED <<ready, plic, instance, running, other, routing, clint, stack, calls>>

OtherRaises(s) ==
    /\ s \notin other
    /\ other' = other \cup {s}
    /\ Raise
    /\ UNCHANGED <<ready, plic, timers, routing, clint, stack, owed, calls>>

TimeUp ==
    /\ ~mtip
    /\ mtip' = TRUE
    /\ Raise
    /\ UNCHANGED <<ready, plic, timers, other, routing, mie, msip, single_shot, stack, asked,
                   owed, calls>>

IpiSent ==
    /\ ~msip
    /\ msip' = TRUE
    /\ Raise
    /\ UNCHANGED <<ready, plic, timers, other, routing, mie, mtip, single_shot, stack, asked,
                   owed, calls>>

Line(s) == s \in other \/ \E c \in raised : IrqOf(c) = s

\* A source that was claimed is not looked at until it is completed.
Gateway(s) ==
    /\ Line(s)
    /\ s \notin pending \cup claimed
    /\ pending' = pending \cup {s}
    /\ UNCHANGED <<ready, enabled, priority, threshold, claimed, routed, timers, other, routing,
                   clint, stack, owed, calls, raises>>

\* What a claim may return: the threshold plays no part, and of equals the lowest is first.
Claimable == {s \in pending \cap enabled : priority[s] > 0}
Claims(s) ==
    /\ s \in Claimable
    /\ \A r \in Claimable : priority[r] < priority[s] \/ (priority[r] = priority[s] /\ s <= r)

ExternalPending == \E s \in Claimable : priority[s] > threshold

-----------------------------------------------------------------------------
(***************************************************************************)
(* The thread                                                              *)
(***************************************************************************)

\* The loop that should clear pending interrupts claims none of them, for it has just
\* disabled them all.
PlicInit ==
    /\ ~ready
    /\ ready' = TRUE
    /\ enabled' = {}
    /\ priority' = [s \in Source \cup {NoSource} |-> 0]
    /\ threshold' = 0
    /\ routed' = {}
    /\ mie' = mie \cup {"ext"}
    /\ asked' = asked \cup {"ext"}
    /\ UNCHANGED <<pending, claimed, timers, other, routing, mtip, msip, single_shot, stack,
                   owed, calls, raises>>

Call ==
    /\ ready
    /\ stack = <<>>
    /\ routing = None
    /\ calls < MaxCalls
    /\ calls' = calls + 1

\* plic_set_priority, plic_irq_register and plic_irq_enable
PlicIrqEnable(s) ==
    /\ Call
    /\ s \notin enabled
    /\ priority' = [priority EXCEPT ![s] = Priority[s]]
    /\ routed' = routed \cup {s}
    /\ enabled' = enabled \cup {s}
    /\ UNCHANGED <<ready, threshold, pending, claimed, timers, other, routing, clint, stack,
                   owed, raises>>

PlicIrqDisable(s) ==
    /\ Call
    /\ s \in enabled
    /\ enabled' = enabled \ {s}
    /\ UNCHANGED <<ready, priority, threshold, pending, claimed, routed, timers, other, routing,
                   clint, stack, owed, raises>>

\* timer_irq_register, until plic_set_priority is over, and from then on.
TimerIrqRegister(c, kind) ==
    /\ Call
    /\ instance[c] = "none"
    /\ instance' = [instance EXCEPT ![c] = kind]
    /\ priority' = [priority EXCEPT ![IrqOf(c)] = Priority[IrqOf(c)]]
    /\ routing' = c
    /\ UNCHANGED <<ready, enabled, threshold, pending, claimed, routed, running, raised, other,
                   clint, stack, owed, raises>>

TimerIrqRoute ==
    /\ stack = <<>>
    /\ routing # None
    /\ routed' = routed \cup {IrqOf(routing)}
    /\ enabled' = enabled \cup {IrqOf(routing)}
    /\ routing' = None
    /\ UNCHANGED <<ready, priority, threshold, pending, claimed, timers, other, clint, stack,
                   owed, calls, raises>>

\* timer_irq_unregister: idle is timer_instance after the channel is out of it.
PairsIdle(idle) == \E s \in {TimerA, TimerB} : \A c \in Channels : IrqOf(c) = s => c \in idle
TimerIrqUnregister(c) ==
    /\ Call
    /\ instance[c] # "none"
    /\ instance' = [instance EXCEPT ![c] = "none"]
    /\ routed' = IF PairsIdle({d \in Channels : d = c \/ instance[d] = "none"})
                 THEN routed \ {IrqOf(c)} ELSE routed
    /\ UNCHANGED <<ready, enabled, priority, threshold, pending, claimed, running, raised,
                   other, routing, clint, stack, owed, raises>>

TimerSetEnable(c, enable) ==
    /\ Call
    /\ (c \in running) # enable
    /\ running' = IF enable THEN running \cup {c} ELSE running \ {c}
    /\ UNCHANGED <<ready, plic, instance, raised, other, routing, clint, stack, owed, raises>>

\* clint_timer_start and clint_ipi_enable
ClintTimerStart(single) ==
    /\ Call
    /\ mtip' = FALSE
    /\ single_shot' = single
    /\ mie' = mie \cup {"timer"}
    /\ asked' = asked \cup {"timer"}
    /\ UNCHANGED <<ready, plic, timers, other, routing, msip, stack, owed, raises>>

ClintIpiEnable ==
    /\ Call
    /\ mie' = mie \cup {"soft"}
    /\ asked' = asked \cup {"soft"}
    /\ UNCHANGED <<ready, plic, timers, other, routing, mtip, msip, single_shot, stack, owed,
                   raises>>

\* clint_timer_stop or clint_ipi_disable
SwitchOff(bit) == mie' = mie \ {bit} /\ asked' = asked \ {bit}
ClintStop(bit) ==
    /\ Call
    /\ bit \in mie
    /\ SwitchOff(bit)
    /\ UNCHANGED <<ready, plic, timers, other, routing, mtip, msip, single_shot, stack, owed,
                   raises>>

-----------------------------------------------------------------------------
(***************************************************************************)
(* The handlers.  The core's own interrupts are off until the handler      *)
(* turns them on, and again before it returns.                             *)
(***************************************************************************)

Push(cause, at, num) ==
    stack' = Append(stack, [cause |-> cause, at |-> at, ie |-> mie, num |-> num,
                            threshold |-> threshold, stat |-> {}])
GoTo(at) == stack' = Append(Below, [Top EXCEPT !.at = at])

\* What handle_irq_m_ext finds in plic_instance.
Callback(s) ==
    IF s \notin routed THEN "complete" ELSE IF s \in {TimerA, TimerB} THEN "scan" ELSE "user"

NewThreshold(s) == priority[s]
EnterExt ==
    /\ "ext" \in mie
    /\ ExternalPending
    /\ \E s \in Source :
           /\ Claims(s)
           /\ Push("ext", Callback(s), s)
           /\ pending' = pending \ {s}
           /\ claimed' = claimed \cup {s}
           /\ threshold' = NewThreshold(s)
    /\ mie' = mie \ {"timer", "soft"}
    /\ UNCHANGED <<ready, enabled, priority, routed, timers, other, routing, mtip, msip,
                   single_shot, asked, owed, calls, raises>>

\* handle_irq_m_timer
TimerMasksNothing == {}                    \* mutant: clear_csr(mie, ...) is missing
TimerMasks == {"timer", "soft"}
EnterTimer ==
    /\ "timer" \in mie /\ mtip
    /\ Push("timer", "user", NoSource)
    /\ mie' = mie \ TimerMasks
    /\ UNCHANGED <<ready, plic, timers, other, routing, mtip, msip, single_shot, asked, owed,
                   calls, raises>>

\* handle_irq_m_soft
EnterSoft ==
    /\ "soft" \in mie /\ msip
    /\ Push("soft", "user", NoSource)
    /\ mie' = mie \ {"soft"}
    /\ msip' = FALSE
    /\ UNCHANGED <<ready, plic, timers, other, routing, mtip, single_shot, asked, owed, calls,
                   raises>>

At(at) == stack # <<>> /\ Top.at = at

\* timer_interrupt_handler: intr_stat is read once, and goes through the channels.
ReadIntrStat ==
    /\ At("scan")
    /\ stack' = Append(Below, [Top EXCEPT !.at = "loop", !.stat = raised])
    /\ UNCHANGED <<ready, plic, timers, other, routing, clint, owed, calls, raises>>

CallChannel ==
    /\ At("loop")
    /\ Top.stat # {}
    /\ instance[Min(Top.stat)] # "none"
    /\ owed' = owed \ {Min(Top.stat)}
    /\ GoTo("user")
    /\ UNCHANGED <<ready, plic, timers, other, routing, clint, calls, raises>>

\* On to the next channel, the interrupt of this one is cleared.
EoiMissing(c) == raised                    \* mutant: readl(eoi) is missing
Eoi(c) == raised \ {c}
NextChannel(c) ==
    /\ raised' = Eoi(c)
    /\ stack' = Append(Below, [Top EXCEPT !.at = "loop", !.stat = @ \ {c}])

SkipChannel ==
    /\ At("loop")
    /\ Top.stat # {}
    /\ instance[Min(Top.stat)] = "none"
    /\ NextChannel(Min(Top.stat))
    /\ UNCHANGED <<ready, plic, instance, running, other, routing, clint, owed, calls, raises>>

LoopDone ==
    /\ At("loop")
    /\ Top.stat = {}
    /\ GoTo("complete")
    /\ UNCHANGED <<ready, plic, timers, other, routing, clint, owed, calls, raises>>

\* A callback may switch off the core's own interrupts.
MayStop(handler) ==
    \/ UNCHANGED <<mie, asked>>
    \/ \E bit \in Stops[handler] : SwitchOff(bit)

\* The callback of a channel returns: a single-shot channel is disabled.
ChannelReturns ==
    /\ At("user")
    /\ Top.num \in {TimerA, TimerB}
    /\ MayStop("ext")
    /\ LET c == Min(Top.stat)
       IN  /\ running' = IF instance[c] = "single_shot" THEN running \ {c} ELSE running
           /\ NextChannel(c)
    /\ UNCHANGED <<ready, plic, instance, other, routing, mtip, msip, single_shot, owed, calls,
                   raises>>

\* That of another device, which it has served.
OtherReturns ==
    /\ At("user")
    /\ Top.num \in Others
    /\ MayStop("ext")
    /\ other' = other \ {Top.num}
    /\ GoTo("complete")
    /\ UNCHANGED <<ready, plic, timers, routing, mtip, msip, single_shot, owed, calls, raises>>

ClintReturns ==
    /\ At("user")
    /\ Top.num = NoSource
    /\ MayStop(Top.cause)
    /\ GoTo("exit")
    /\ UNCHANGED <<ready, plic, timers, other, routing, mtip, msip, single_shot, owed, calls,
                   raises>>

NotCompleted == claimed                    \* mutant: claim_complete is not written
Completed == claimed \ {Top.num}
Complete ==
    /\ At("complete")
    /\ claimed' = Completed
    /\ GoTo("exit")
    /\ UNCHANGED <<ready, enabled, priority, threshold, pending, routed, timers, other, routing,
                   clint, owed, calls, raises>>

\* The ends of the three handlers.
ThresholdKept == threshold                 \* mutant: int_threshold is not restored
OldThreshold == Top.threshold
ExitExt ==
    /\ At("exit")
    /\ Top.cause = "ext"
    /\ mie' = Top.ie
    /\ threshold' = OldThreshold
    /\ stack' = Below
    /\ UNCHANGED <<ready, enabled, priority, pending, claimed, routed, timers, other, routing,
                   mtip, msip, single_shot, asked, owed, calls, raises>>

\* A periodic timer has its next time, a single-shot timer is switched off.
ExitTimer ==
    /\ At("exit")
    /\ Top.cause = "timer"
    /\ IF single_shot THEN /\ mie' = Top.ie \ {"timer"}
                           /\ asked' = asked \ {"timer"}
                           /\ UNCHANGED mtip
       ELSE mie' = Top.ie /\ mtip' = FALSE /\ UNCHANGED asked
    /\ stack' = Below
    /\ UNCHANGED <<ready, plic, timers, other, routing, msip, single_shot, owed, calls, raises>>

ExitSoft ==
    /\ At("exit")
    /\ Top.cause = "soft"
    /\ mie' = mie \cup {"soft"}
    /\ stack' = Below
    /\ UNCHANGED <<ready, plic, timers, other, routing, mtip, msip, single_shot, asked, owed,
                   calls, raises>>

-----------------------------------------------------------------------------

Devices == \/ \E c \in Channels : Expire(c)
           \/ \E s \in Others : OtherRaises(s)
           \/ TimeUp \/ IpiSent

Thread == \/ PlicInit
          \/ \E s \in Others : PlicIrqEnable(s) \/ PlicIrqDisable(s)
          \/ \E c \in Channels : \/ \E kind \in {"periodic", "single_shot"} :
                                        TimerIrqRegister(c, kind)
                                 \/ c \in Unregisters /\ TimerIrqUnregister(c)
                                 \/ \E enable \in BOOLEAN : TimerSetEnable(c, enable)
          \/ TimerIrqRoute
          \/ \E single \in BOOLEAN : ClintTimerStart(single)
          \/ ClintIpiEnable
          \/ \E bit \in {"timer", "soft"} : ClintStop(bit)

Handler == \/ ReadIntrStat \/ CallChannel \/ SkipChannel \/ LoopDone
           \/ ChannelReturns \/ OtherReturns \/ ClintReturns
           \/ Complete \/ ExitExt \/ ExitTimer \/ ExitSoft

Next == \/ Devices \/ Thread \/ Handler
        \/ \E s \in Source : Gateway(s)
        \/ EnterExt \/ EnterTimer \/ EnterSoft

\* Handlers and their callbacks go on, and an interrupt that is let in comes in.  Of the
\* thread nothing is assumed but that it ends a call.
Fairness ==
    /\ WF_vars(Handler)
    /\ WF_vars(TimerIrqRoute)
    /\ \A s \in Source : WF_vars(Gateway(s))
    /\ WF_vars(EnterExt)

Spec == Init /\ [][Next]_vars /\ Fairness

-----------------------------------------------------------------------------
(***************************************************************************)
(* Properties                                                              *)
(***************************************************************************)

External == {i \in DOMAIN stack : stack[i].cause = "ext"}

\* However the handlers nest, they unwind: at every depth the threshold is that of the
\* innermost external interrupt, only those in service are claimed, and when all have
\* returned mie is what the program asked for.
Unwound ==
    /\ External = {} => threshold = 0
    /\ \A i \in External :
           (\A j \in External : j <= i) => threshold = priority[stack[i].num]
    /\ claimed = {stack[i].num : i \in {j \in External : stack[j].at # "exit"}}
    /\ ready /\ stack = <<>> => mie = asked

\* Handlers nest by priority only, which bounds the stack: an external interrupt comes
\* into the handler of a lower one, and the core's two own handlers never run twice.
NestsByPriority ==
    \A i, j \in DOMAIN stack :
        i < j /\ stack[i].cause = stack[j].cause =>
            /\ stack[i].cause = "ext"
            /\ priority[stack[i].num] < priority[stack[j].num]

\* The callback of a channel is called only for an expiry that it was not yet called for.
CallsAreOwed ==
    At("loop") /\ Top.stat # {} /\ instance[Min(Top.stat)] # "none" => Min(Top.stat) \in owed

\* Two channels share an interrupt: it has its callback as long as either channel is
\* registered.
RegisteredIsRouted ==
    \A c \in Channels : instance[c] # "none" /\ routing # c => IrqOf(c) \in routed

\* A registered channel that expired is served, whatever else goes on, once its
\* interrupt has its callback.
Served ==
    \A c \in Channels :
        c \in raised /\ instance[c] # "none" /\ IrqOf(c) \in routed
            ~> c \notin raised \/ instance[c] = "none"
=============================================================================
