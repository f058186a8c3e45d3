-------------------------- MODULE InterruptsProofs --------------------------
(***************************************************************************)
(* Proofs about Interrupts, for any sources, priorities, channels, calls   *)
(* and interrupts: handlers nest by priority only, and they unwind; and a  *)
(* callback is only called for an expiry if the two interrupts of the      *)
(* timer have one priority.                                                *)
(***************************************************************************)
EXTENDS Interrupts, SequenceTheorems, TLAPS

\* The callbacks for which clint_timer_stop and clint_ipi_disable last: a handler that
\* writes mie back undoes them.
StopsLast == Stops["ext"] = {} /\ Stops["timer"] = {} /\ Stops["soft"] \subseteq {"timer"}

\* The callbacks of one pair of channels do not interrupt those of the other.
OnePriority == Priority[TimerA] = Priority[TimerB]

-----------------------------------------------------------------------------
(***************************************************************************)
(* The inductive invariant                                                 *)
(***************************************************************************)

\* Before plic_init nothing is enabled.
Unready == ~ready => mie = {} /\ stack = <<>>

TimerSources == {TimerA, TimerB}
IsExt(i) == stack[i].cause = "ext"

\* What a frame may look like.
Framed ==
    \A i \in DOMAIN stack :
        /\ stack[i].cause = "ext" <=> stack[i].num \in Source
        /\ stack[i].cause # "ext" => stack[i].at \in {"user", "exit"}
        /\ stack[i].at \in {"scan", "loop"} => stack[i].num \in TimerSources
        /\ stack[i].cause # "ext" => stack[i].cause \in stack[i].ie

\* The threshold that handler i found; that of today comes after the last handler.
Levels == 1 .. Len(stack) + 1
Found(i) == IF i = Len(stack) + 1 THEN threshold ELSE stack[i].threshold

\* It is that of the innermost external interrupt below i, and no handler below i has a
\* higher one.
FoundRight(i) ==
    /\ (\A j \in 1 .. i - 1 : ~IsExt(j)) => Found(i) = 0
    /\ \A j \in 1 .. i - 1 :
           IsExt(j) =>
               /\ priority[stack[j].num] <= Found(i)
               /\ (\A k \in j + 1 .. i - 1 : ~IsExt(k)) => Found(i) = priority[stack[j].num]

Nested ==
    /\ \A i \in Levels : FoundRight(i)
    /\ \A i \in DOMAIN stack : IsExt(i) => stack[i].threshold < priority[stack[i].num]

\* The enable bits that handler i found: the handlers below have masked theirs.
Enabled(i) == IF i = Len(stack) + 1 THEN mie ELSE stack[i].ie
Masks(cause) == IF cause = "soft" THEN {"soft"} ELSE {"timer", "soft"}
Masked == \A i \in Levels : \A j \in 1 .. i - 1 : Enabled(i) \cap Masks(stack[j].cause) = {}

\* The sources in service.
InService == {stack[i].num : i \in {j \in External : stack[j].at # "exit"}}

\* The bits that the lowest handler writes back are those that were asked for.
Restored ==
    /\ stack = <<>> => mie = asked
    /\ stack # <<>> /\ stack[1].cause # "soft" => stack[1].ie = asked
    /\ stack # <<>> /\ stack[1].cause = "soft" => "soft" \in asked /\ Enabled(2) = asked \ {"soft"}

Unwinding ==
    /\ Unready
    /\ Framed
    /\ Nested
    /\ Masked
    /\ claimed = InService
    /\ StopsLast => Restored

IInv == TypeOK /\ Unwinding

\* A source has its priority or none.
Prioritised == \A s \in Source : priority[s] \in {0, Priority[s]}

\* Of the channels that have their interrupt up, only the one whose callback is running is
\* not owed a callback; those in channel_int_stat have theirs up.
Scanned ==
    \A i \in DOMAIN stack :
        stack[i].num \in TimerSources /\ stack[i].at \in {"loop", "user"} =>
            /\ stack[i].stat \subseteq raised
            /\ stack[i].at = "user" => stack[i].stat # {}
Owing ==
    \A c \in raised \ owed :
        \E i \in DOMAIN stack :
            stack[i].num \in TimerSources /\ stack[i].at = "user" /\ c = Min(stack[i].stat)

OInv == IInv /\ Prioritised /\ (OnePriority => Scanned /\ Owing)

-----------------------------------------------------------------------------
(***************************************************************************)
(* The stack                                                               *)
(***************************************************************************)

Cause == {"ext", "timer", "soft"}

\* What the type invariant says of the handlers that run.
LEMMA Frames ==
    ASSUME TypeOK
    PROVE  /\ Len(stack) \in Nat
           /\ DOMAIN stack = 1 .. Len(stack)
           /\ stack = <<>> <=> Len(stack) = 0
           /\ \A i \in 1 .. Len(stack) :
                  /\ stack[i] \in Frame
                  /\ stack[i].cause \in Cause
                  /\ stack[i].ie \subseteq Cause
                  /\ stack[i].num \in Source \cup {NoSource}
                  /\ stack[i].threshold \in Nat
                  /\ stack[i].stat \subseteq Channels
<1>1. stack \in Seq(Frame)
  BY DEF TypeOK
<1>2. Len(stack) \in Nat /\ DOMAIN stack = 1 .. Len(stack)
  BY <1>1, LenProperties
<1>3. \A i \in 1 .. Len(stack) : stack[i] \in Frame
  BY <1>1, ElementOfSeq
<1>4. stack = <<>> <=> Len(stack) = 0
  BY <1>1, EmptySeq
<1>5. \A f \in Frame :
          /\ f.cause \in Cause
          /\ f.ie \subseteq Cause
          /\ f.num \in Source \cup {NoSource}
          /\ f.threshold \in Nat
          /\ f.stat \subseteq Channels
  BY DEF Frame, Cause
<1>6. QED
  BY <1>2, <1>3, <1>4, <1>5

\* A handler comes in.
Grown(f) ==
    /\ f \in Frame
    /\ stack' \in Seq(Frame)
    /\ Len(stack') = Len(stack) + 1
    /\ DOMAIN stack' = 1 .. Len(stack) + 1
    /\ \A i \in 1 .. Len(stack) : stack'[i] = stack[i]
    /\ stack'[Len(stack) + 1] = f

LEMMA PushGrows ==
    ASSUME TypeOK, NEW f \in Frame, stack' = Append(stack, f)
    PROVE  Grown(f)
<1>1. stack \in Seq(Frame)
  BY DEF TypeOK
<1>2. /\ stack' \in Seq(Frame)
      /\ Len(stack') = Len(stack) + 1
      /\ \A i \in 1 .. Len(stack) : stack'[i] = stack[i]
      /\ stack'[Len(stack) + 1] = f
  BY <1>1, AppendProperties
<1>3. DOMAIN stack' = 1 .. Len(stack')
  BY <1>2, LenProperties
<1>4. QED
  BY <1>2, <1>3 DEF Grown

\* What is below the last handler.
LEMMA BelowFacts ==
    ASSUME TypeOK, stack # <<>>
    PROVE  /\ Below \in Seq(Frame)
           /\ Len(Below) = Len(stack) - 1
           /\ \A i \in 1 .. Len(stack) - 1 : Below[i] = stack[i]
<1>1. /\ Len(stack) \in Nat \ {0}
      /\ \A i \in 1 .. Len(stack) - 1 : stack[i] \in Frame
  BY Frames
<1> DEFINE n == Len(stack) - 1
<1>2. 1 \in Int /\ n \in Int /\ \A i \in 1 .. n : stack[i] \in Frame
  BY <1>1
<1>3. /\ SubSeq(stack, 1, n) \in Seq(Frame)
      /\ Len(SubSeq(stack, 1, n)) = IF 1 <= n THEN n - 1 + 1 ELSE 0
      /\ \A i \in 1 .. n - 1 + 1 : SubSeq(stack, 1, n)[i] = stack[1 + i - 1]
  BY <1>2, SubSeqProperties
<1>4. n \in Nat /\ n - 1 + 1 = n /\ \A i \in 1 .. n : 1 + i - 1 = i
  BY <1>1
<1>5. Below = SubSeq(stack, 1, n)
  BY DEF Below
<1> HIDE DEF n
<1>6. Len(Below) = n /\ \A i \in 1 .. n : Below[i] = stack[i]
  BY <1>3, <1>4, <1>5
<1>7. QED
  BY <1>3, <1>5, <1>6 DEF n

\* The last handler goes on, and f is its frame.
Moved(f) ==
    /\ f \in Frame
    /\ stack # <<>>
    /\ f.cause = Top.cause /\ f.ie = Top.ie /\ f.num = Top.num /\ f.threshold = Top.threshold
    /\ stack' \in Seq(Frame)
    /\ Len(stack') = Len(stack)
    /\ DOMAIN stack' = 1 .. Len(stack)
    /\ \A i \in 1 .. Len(stack) - 1 : stack'[i] = stack[i]
    /\ stack'[Len(stack)] = f

LEMMA TopMoves ==
    ASSUME TypeOK, stack # <<>>, NEW f \in Frame, stack' = Append(Below, f),
           f.cause = Top.cause, f.ie = Top.ie, f.num = Top.num, f.threshold = Top.threshold
    PROVE  Moved(f)
<1>1. Len(stack) \in Nat \ {0}
  BY Frames
<1>2. /\ Below \in Seq(Frame)
      /\ Len(Below) = Len(stack) - 1
      /\ \A i \in 1 .. Len(stack) - 1 : Below[i] = stack[i]
  BY BelowFacts
<1>3. /\ stack' \in Seq(Frame)
      /\ Len(stack') = Len(Below) + 1
      /\ \A i \in 1 .. Len(Below) : stack'[i] = Below[i]
      /\ stack'[Len(Below) + 1] = f
  BY <1>2, AppendProperties
<1>4. DOMAIN stack' = 1 .. Len(stack')
  BY <1>3, LenProperties
<1>5. QED
  BY <1>1, <1>2, <1>3, <1>4 DEF Moved

\* The last handler ends.
Shrunk ==
    /\ stack # <<>>
    /\ stack' \in Seq(Frame)
    /\ Len(stack') = Len(stack) - 1
    /\ DOMAIN stack' = 1 .. Len(stack) - 1
    /\ \A i \in 1 .. Len(stack) - 1 : stack'[i] = stack[i]

LEMMA PopShrinks ==
    ASSUME TypeOK, stack # <<>>, stack' = Below
    PROVE  Shrunk
<1>1. /\ Below \in Seq(Frame)
      /\ Len(Below) = Len(stack) - 1
      /\ \A i \in 1 .. Len(stack) - 1 : Below[i] = stack[i]
  BY BelowFacts
<1>2. DOMAIN Below = 1 .. Len(Below)
  BY <1>1, LenProperties
<1>3. QED
  BY <1>1, <1>2 DEF Shrunk

-----------------------------------------------------------------------------
(***************************************************************************)
(* The frames that the actions write                                       *)
(***************************************************************************)

LEMMA TopIsFrame ==
    ASSUME TypeOK, stack # <<>>
    PROVE  Top \in Frame /\ Len(stack) \in 1 .. Len(stack)
<1>1. Len(stack) \in Nat \ {0} /\ \A i \in 1 .. Len(stack) : stack[i] \in Frame
  BY Frames
<1>2. QED
  BY <1>1 DEF Top

Entering(cause, at, num) ==
    [cause |-> cause, at |-> at, ie |-> mie, num |-> num, threshold |-> threshold, stat |-> {}]

LEMMA Pushes ==
    ASSUME TypeOK, NEW cause \in Cause, NEW at \in {"scan", "loop", "user", "complete", "exit"},
           NEW num \in Source \cup {NoSource}, Push(cause, at, num)
    PROVE  Grown(Entering(cause, at, num))
<1>1. mie \subseteq Cause /\ threshold \in Nat
  BY DEF TypeOK, Cause
<1>2. Entering(cause, at, num) \in Frame
  BY <1>1 DEF Entering, Frame, Cause
<1>3. stack' = Append(stack, Entering(cause, at, num))
  BY DEF Push, Entering
<1>4. QED
  BY <1>2, <1>3, PushGrows

Going(at) == [Top EXCEPT !.at = at]

LEMMA Goes ==
    ASSUME TypeOK, stack # <<>>, NEW at \in {"scan", "loop", "user", "complete", "exit"}, GoTo(at)
    PROVE  Moved(Going(at)) /\ Going(at).at = at /\ Going(at).stat = Top.stat
<1>1. Top \in Frame
  BY TopIsFrame
<1>2. /\ Going(at) \in Frame
      /\ Going(at).at = at
      /\ Going(at).stat = Top.stat
      /\ Going(at).cause = Top.cause
      /\ Going(at).ie = Top.ie
      /\ Going(at).num = Top.num
      /\ Going(at).threshold = Top.threshold
  BY <1>1 DEF Going, Frame
<1>3. stack' = Append(Below, Going(at))
  BY DEF GoTo, Going
<1>4. QED
  BY <1>2, <1>3, TopMoves

Looping(stat) == [Top EXCEPT !.at = "loop", !.stat = stat]

LEMMA Loops ==
    ASSUME TypeOK, stack # <<>>, NEW stat \in SUBSET Channels,
           stack' = Append(Below, [Top EXCEPT !.at = "loop", !.stat = stat])
    PROVE  Moved(Looping(stat)) /\ Looping(stat).at = "loop" /\ Looping(stat).stat = stat
<1>1. Top \in Frame
  BY TopIsFrame
<1>2. /\ Looping(stat) \in Frame
      /\ Looping(stat).at = "loop"
      /\ Looping(stat).stat = stat
      /\ Looping(stat).cause = Top.cause
      /\ Looping(stat).ie = Top.ie
      /\ Looping(stat).num = Top.num
      /\ Looping(stat).threshold = Top.threshold
  BY <1>1 DEF Looping, Frame
<1>3. stack' = Append(Below, Looping(stat))
  BY DEF Looping
<1>4. QED
  BY <1>2, <1>3, TopMoves

LEMMA LoopsOn ==
    ASSUME TypeOK, stack # <<>>, NEW c, NextChannel(c)
    PROVE  LET f == Looping(Top.stat \ {c})
           IN  Moved(f) /\ f.at = "loop" /\ f.stat = Top.stat \ {c}
<1>1. Top \in Frame
  BY TopIsFrame
<1>2. Top.stat \ {c} \in SUBSET Channels
  BY <1>1 DEF Frame
<1>3. stack' = Append(Below, [Top EXCEPT !.at = "loop", !.stat = Top.stat \ {c}])
  BY <1>1 DEF NextChannel, Frame
<1>4. QED
  BY <1>2, <1>3, Loops

-----------------------------------------------------------------------------
(***************************************************************************)
(* The variables have their types                                          *)
(***************************************************************************)

LEMMA SourceTypes ==
    /\ TimerA \in Source /\ TimerB \in Source /\ TimerA # TimerB
    /\ NoSource \notin Source
    /\ \A s \in Others : s \in Source /\ s \notin TimerSources
    /\ \A c : IrqOf(c) \in TimerSources
    /\ TimerSources \subseteq Source
    /\ \A s \in Source : s \in Nat /\ s > 0 /\ Priority[s] \in Nat
    /\ \A s \in Source : s \in Others \/ s \in TimerSources
  BY InterruptsAssumption DEF Source, TimerA, TimerB, NoSource, IrqOf, TimerSources

LEMMA DeviceTypes ==
    ASSUME TypeOK, Devices \/ \E s \in Source : Gateway(s)
    PROVE  TypeOK'
<1>1. ASSUME Raise PROVE raises' \in 0 .. MaxRaised
  BY <1>1, InterruptsAssumption DEF Raise, TypeOK
<1>2. ASSUME NEW c \in Channels, Expire(c) PROVE TypeOK'
  BY <1>1, <1>2 DEF Expire, TypeOK, plic, clint
<1>3. ASSUME NEW s \in Others, OtherRaises(s) PROVE TypeOK'
  BY <1>1, <1>3 DEF OtherRaises, TypeOK, plic, timers, clint
<1>4. CASE TimeUp
  BY <1>1, <1>4 DEF TimeUp, TypeOK, plic, timers
<1>5. CASE IpiSent
  BY <1>1, <1>5 DEF IpiSent, TypeOK, plic, timers
<1>6. ASSUME NEW s \in Source, Gateway(s) PROVE TypeOK'
  BY <1>6 DEF Gateway, TypeOK, timers, clint
<1>7. QED
  BY <1>2, <1>3, <1>4, <1>5, <1>6 DEF Devices

LEMMA ThreadTypes ==
    ASSUME TypeOK, Thread
    PROVE  TypeOK'
<1>1. ASSUME Call PROVE calls' \in 0 .. MaxCalls
  BY <1>1, InterruptsAssumption DEF Call, TypeOK
<1>2. CASE PlicInit
  <2>1. [s \in Source \cup {NoSource} |-> 0] \in [Source \cup {NoSource} -> Nat]
    OBVIOUS
  <2>2. QED
    BY <1>2, <2>1 DEF PlicInit, TypeOK, timers
<1>3. ASSUME NEW s \in Source
      PROVE  [priority EXCEPT ![s] = Priority[s]] \in [Source \cup {NoSource} -> Nat]
             \/ ~TypeOK
  BY SourceTypes DEF TypeOK
<1>4. ASSUME NEW s \in Others, PlicIrqEnable(s) PROVE TypeOK'
  BY <1>1, <1>3, <1>4, SourceTypes DEF PlicIrqEnable, TypeOK, timers, clint
<1>5. ASSUME NEW s \in Others, PlicIrqDisable(s) PROVE TypeOK'
  BY <1>1, <1>5 DEF PlicIrqDisable, TypeOK, timers, clint
<1>6. ASSUME NEW c \in Channels, NEW kind \in {"periodic", "single_shot"}, TimerIrqRegister(c, kind)
      PROVE  TypeOK'
  <2>1. IrqOf(c) \in Source
    BY SourceTypes
  <2>2. QED
    BY <1>1, <1>3, <1>6, <2>1 DEF TimerIrqRegister, TypeOK, clint
<1>7. ASSUME NEW c \in Channels, TimerIrqUnregister(c) PROVE TypeOK'
  BY <1>1, <1>7 DEF TimerIrqUnregister, TypeOK, clint
<1>8. ASSUME NEW c \in Channels, NEW enable \in BOOLEAN, TimerSetEnable(c, enable) PROVE TypeOK'
  BY <1>1, <1>8 DEF TimerSetEnable, TypeOK, plic, clint
<1>9. CASE TimerIrqRoute
  <2>1. IrqOf(routing) \in Source
    BY SourceTypes
  <2>2. QED
    BY <1>9, <2>1 DEF TimerIrqRoute, TypeOK, timers, clint
<1>10. ASSUME NEW single \in BOOLEAN, ClintTimerStart(single) PROVE TypeOK'
  BY <1>1, <1>10 DEF ClintTimerStart, TypeOK, plic, timers
<1>11. CASE ClintIpiEnable
  BY <1>1, <1>11 DEF ClintIpiEnable, TypeOK, plic, timers
<1>12. ASSUME NEW bit \in {"timer", "soft"}, ClintStop(bit) PROVE TypeOK'
  BY <1>1, <1>12 DEF ClintStop, SwitchOff, TypeOK, plic, timers
<1>13. QED
  BY <1>2, <1>4, <1>5, <1>6, <1>7, <1>8, <1>9, <1>10, <1>11, <1>12 DEF Thread

LEMMA EntryTypes ==
    ASSUME TypeOK, EnterExt \/ EnterTimer \/ EnterSoft
    PROVE  TypeOK'
<1>1. CASE EnterExt
  <2>1. PICK s \in Source : /\ Push("ext", Callback(s), s)
                            /\ pending' = pending \ {s}
                            /\ claimed' = claimed \cup {s}
                            /\ threshold' = priority[s]
    BY <1>1 DEF EnterExt, NewThreshold
  <2>2. Callback(s) \in {"scan", "loop", "user", "complete", "exit"}
    BY DEF Callback
  <2>3. stack' \in Seq(Frame)
    BY <2>1, <2>2, Pushes DEF Grown, Cause
  <2>4. QED
    BY <1>1, <2>1, <2>3 DEF EnterExt, TypeOK, timers
<1>2. CASE EnterTimer
  <2>1. stack' \in Seq(Frame)
    BY <1>2, Pushes DEF EnterTimer, Grown, Cause
  <2>2. QED
    BY <1>2, <2>1 DEF EnterTimer, TypeOK, plic, timers
<1>3. CASE EnterSoft
  <2>1. stack' \in Seq(Frame)
    BY <1>3, Pushes DEF EnterSoft, Grown, Cause
  <2>2. QED
    BY <1>3, <2>1 DEF EnterSoft, TypeOK, plic, timers
<1>4. QED
  BY <1>1, <1>2, <1>3

LEMMA StopTypes ==
    ASSUME TypeOK, NEW h \in Cause, MayStop(h)
    PROVE  /\ mie' \subseteq mie /\ asked' \subseteq asked
           /\ mie' \subseteq Cause /\ asked' \subseteq Cause
  BY DEF MayStop, SwitchOff, TypeOK, Cause

LEMMA HandlerTypes ==
    ASSUME TypeOK, Handler
    PROVE  TypeOK'
<1>1. stack # <<>>
  BY DEF Handler, At, ReadIntrStat, CallChannel, SkipChannel, LoopDone, ChannelReturns,
         OtherReturns, ClintReturns, Complete, ExitExt, ExitTimer, ExitSoft
<1>2. /\ Top.cause \in Cause /\ Top.ie \subseteq Cause /\ Top.threshold \in Nat
      /\ Top.stat \subseteq Channels
  BY <1>1, TopIsFrame DEF Frame, Cause
<1>3. CASE ReadIntrStat
  <2>1. stack' \in Seq(Frame)
    BY <1>1, <1>3, Loops DEF ReadIntrStat, Moved, TypeOK
  <2>2. QED
    BY <1>3, <2>1 DEF ReadIntrStat, TypeOK, plic, timers, clint
<1>4. CASE CallChannel
  <2>1. stack' \in Seq(Frame)
    BY <1>1, <1>4, Goes DEF CallChannel, Moved
  <2>2. QED
    BY <1>4, <2>1 DEF CallChannel, TypeOK, plic, timers, clint
<1>5. ASSUME NEW c, NextChannel(c) PROVE stack' \in Seq(Frame) /\ raised' \subseteq raised
  BY <1>1, <1>5, LoopsOn DEF NextChannel, Moved, Eoi
<1>6. CASE SkipChannel
  BY <1>5, <1>6 DEF SkipChannel, TypeOK, plic, clint
<1>7. CASE LoopDone
  <2>1. stack' \in Seq(Frame)
    BY <1>1, <1>7, Goes DEF LoopDone, Moved
  <2>2. QED
    BY <1>7, <2>1 DEF LoopDone, TypeOK, plic, timers, clint
<1>8. CASE ChannelReturns
  <2>1. mie' \subseteq Cause /\ asked' \subseteq Cause
    BY <1>8, StopTypes DEF ChannelReturns, Cause
  <2>2. /\ NextChannel(Min(Top.stat))
        /\ running' \subseteq running
    BY <1>8 DEF ChannelReturns
  <2>3. QED
    BY <1>5, <1>8, <2>1, <2>2 DEF ChannelReturns, TypeOK, plic, Cause
<1>9. CASE OtherReturns
  <2>1. mie' \subseteq Cause /\ asked' \subseteq Cause
    BY <1>9, StopTypes DEF OtherReturns, Cause
  <2>2. stack' \in Seq(Frame)
    BY <1>1, <1>9, Goes DEF OtherReturns, Moved
  <2>3. QED
    BY <1>9, <2>1, <2>2 DEF OtherReturns, TypeOK, plic, timers, Cause
<1>10. CASE ClintReturns
  <2>1. mie' \subseteq Cause /\ asked' \subseteq Cause
    BY <1>2, <1>10, StopTypes DEF ClintReturns
  <2>2. stack' \in Seq(Frame)
    BY <1>1, <1>10, Goes DEF ClintReturns, Moved
  <2>3. QED
    BY <1>10, <2>1, <2>2 DEF ClintReturns, TypeOK, plic, timers, Cause
<1>11. CASE Complete
  <2>1. stack' \in Seq(Frame)
    BY <1>1, <1>11, Goes DEF Complete, Moved
  <2>2. QED
    BY <1>11, <2>1 DEF Complete, Completed, TypeOK, timers, clint
<1>12. ASSUME stack' = Below PROVE stack' \in Seq(Frame)
  BY <1>1, <1>12, PopShrinks DEF Shrunk
<1>13. CASE ExitExt
  BY <1>2, <1>12, <1>13 DEF ExitExt, OldThreshold, TypeOK, timers, Cause
<1>14. CASE ExitTimer
  <2>1. mie' \subseteq Cause /\ asked' \subseteq asked /\ mtip' \in BOOLEAN
    BY <1>2, <1>14 DEF ExitTimer, TypeOK
  <2>2. QED
    BY <1>12, <1>14, <2>1 DEF ExitTimer, TypeOK, plic, timers, Cause
<1>15. CASE ExitSoft
  BY <1>12, <1>15 DEF ExitSoft, TypeOK, plic, timers
<1>16. QED
  BY <1>3, <1>4, <1>6, <1>7, <1>8, <1>9, <1>10, <1>11, <1>13, <1>14, <1>15 DEF Handler

LEMMA TypeInvariance == TypeOK /\ [Next]_vars => TypeOK'
<1> SUFFICES ASSUME TypeOK, [Next]_vars
             PROVE  TypeOK'
  OBVIOUS
<1>1. CASE UNCHANGED vars
  BY <1>1 DEF vars, plic, timers, clint, TypeOK
<1>2. CASE Next
  BY <1>2, DeviceTypes, ThreadTypes, EntryTypes, HandlerTypes DEF Next
<1>3. QED
  BY <1>1, <1>2

-----------------------------------------------------------------------------
(***************************************************************************)
(* What the invariant says of a stack that changes in one of these ways    *)
(***************************************************************************)

\* No handler comes in or ends.
SameShape ==
    /\ Len(stack') = Len(stack)
    /\ DOMAIN stack' = 1 .. Len(stack)
    /\ \A i \in 1 .. Len(stack) :
           /\ stack'[i].cause = stack[i].cause
           /\ stack'[i].ie = stack[i].ie
           /\ stack'[i].num = stack[i].num
           /\ stack'[i].threshold = stack[i].threshold

LEMMA StillSameShape ==
    ASSUME TypeOK, UNCHANGED stack
    PROVE  SameShape
  BY Frames DEF SameShape

LEMMA MovedSameShape ==
    ASSUME TypeOK, NEW f, Moved(f)
    PROVE  SameShape
<1>1. Len(stack) \in Nat
  BY Frames
<1>2. \A i \in 1 .. Len(stack) : i \in 1 .. Len(stack) - 1 \/ i = Len(stack)
  BY <1>1
<1>3. QED
  BY <1>2 DEF Moved, SameShape, Top

LEMMA NestedSame ==
    ASSUME TypeOK, SameShape, UNCHANGED <<priority, threshold>>, Nested
    PROVE  Nested'
<1>1. Len(stack) \in Nat /\ DOMAIN stack = 1 .. Len(stack)
  BY Frames
<1>2. ASSUME NEW i \in Levels PROVE Found(i)' = Found(i)
  BY <1>1, <1>2 DEF SameShape, Found, Levels
<1>3. ASSUME NEW i \in 1 .. Len(stack) PROVE IsExt(i)' <=> IsExt(i)
  BY <1>3 DEF SameShape, IsExt
<1>4. ASSUME NEW i \in Levels PROVE FoundRight(i)'
  <2>1. FoundRight(i)
    BY DEF Nested
  <2>2. \A j \in 1 .. i - 1 : j \in 1 .. Len(stack)
    BY <1>1 DEF Levels
  <2>3. \A j \in 1 .. i - 1 : stack'[j].num = stack[j].num /\ (IsExt(j)' <=> IsExt(j))
    BY <1>3, <2>2 DEF SameShape
  <2>4. \A j \in 1 .. i - 1 : \A k \in j + 1 .. i - 1 : k \in 1 .. i - 1
    BY <1>1 DEF Levels
  <2>5. QED
    BY <1>2, <2>1, <2>3, <2>4 DEF FoundRight
<1>5. Levels' = Levels
  BY DEF Levels, SameShape
<1>6. \A i \in (DOMAIN stack)' : IsExt(i)' => stack'[i].threshold < priority[stack'[i].num]
  BY <1>1, <1>3 DEF SameShape, Nested
<1>7. QED
  BY <1>4, <1>5, <1>6 DEF Nested

LEMMA MaskedSame ==
    ASSUME TypeOK, SameShape, mie' \subseteq mie, Masked
    PROVE  Masked'
<1>1. Len(stack) \in Nat
  BY Frames
<1>2. ASSUME NEW i \in Levels PROVE Enabled(i)' \subseteq Enabled(i)
  BY <1>1, <1>2 DEF SameShape, Enabled, Levels
<1>3. \A i \in Levels : \A j \in 1 .. i - 1 : stack'[j].cause = stack[j].cause
  BY <1>1 DEF SameShape, Levels
<1>4. Levels' = Levels
  BY DEF Levels, SameShape
<1>5. QED
  BY <1>2, <1>3, <1>4 DEF Masked

\* A handler comes in, and lets in no interrupt of its own kind.
LEMMA NestedGrown ==
    ASSUME TypeOK, NEW f, Grown(f), f.cause # "ext", f.threshold = threshold,
           UNCHANGED <<priority, threshold>>, Nested
    PROVE  Nested'
<1>1. PICK n \in Nat : n = Len(stack) /\ DOMAIN stack = 1 .. n
  BY Frames
<1>2. ASSUME NEW i \in Levels PROVE Found(i)' = Found(i)
  BY <1>1, <1>2 DEF Grown, Found, Levels
<1>3. Found(n + 2)' = threshold /\ Found(n + 1) = threshold
  BY <1>1 DEF Grown, Found
<1>4. \A i \in 1 .. n : (IsExt(i)' <=> IsExt(i)) /\ stack'[i] = stack[i]
  BY <1>1 DEF Grown, IsExt
<1>5. ~IsExt(n + 1)'
  BY <1>1 DEF Grown, IsExt
<1>6. ASSUME NEW i \in Levels PROVE FoundRight(i)'
  <2>1. FoundRight(i)
    BY DEF Nested
  <2>2. \A j \in 1 .. i - 1 : j \in 1 .. n
    BY <1>1 DEF Levels
  <2>3. \A j \in 1 .. i - 1 : \A k \in j + 1 .. i - 1 : k \in 1 .. i - 1
    BY <1>1 DEF Levels
  <2>4. QED
    BY <1>2, <1>4, <2>1, <2>2, <2>3 DEF FoundRight
<1>7. FoundRight(n + 2)'
  <2>1. FoundRight(n + 1)
    BY <1>1 DEF Nested, Levels
  <2>2. \A j \in 1 .. (n + 2) - 1 : j \in 1 .. n \/ j = n + 1
    BY <1>1
  <2>3. 1 .. (n + 1) - 1 = 1 .. n /\ \A j \in 1 .. n : j \in 1 .. (n + 2) - 1
    BY <1>1
  <2>4. \A j \in 1 .. n : \A k \in j + 1 .. (n + 1) - 1 : k \in 1 .. n /\ k \in j + 1 .. (n + 2) - 1
    BY <1>1
  <2>5. (\A j \in 1 .. (n + 2) - 1 : ~IsExt(j)') => Found(n + 2)' = 0
    BY <1>3, <1>4, <2>1, <2>3 DEF FoundRight
  <2>6. \A j \in 1 .. (n + 2) - 1 :
            IsExt(j)' =>
               /\ priority[stack'[j].num] <= Found(n + 2)'
               /\ (\A k \in j + 1 .. (n + 2) - 1 : ~IsExt(k)') =>
                      Found(n + 2)' = priority[stack'[j].num]
    BY <1>3, <1>4, <1>5, <2>1, <2>2, <2>3, <2>4 DEF FoundRight
  <2>7. QED
    BY <2>5, <2>6 DEF FoundRight
<1>8. \A i \in Levels' : i \in Levels \/ i = n + 2
  BY <1>1 DEF Levels, Grown
<1>9. \A i \in (DOMAIN stack)' : IsExt(i)' => stack'[i].threshold < priority[stack'[i].num]
  <2>1. \A i \in (DOMAIN stack)' : i \in 1 .. n \/ i = n + 1
    BY <1>1 DEF Grown
  <2>2. QED
    BY <1>1, <1>4, <1>5, <2>1 DEF Nested
<1>10. QED
  BY <1>6, <1>7, <1>8, <1>9 DEF Nested

\* An external interrupt comes in: its priority is above the threshold.
LEMMA NestedGrownExt ==
    ASSUME TypeOK, NEW f, Grown(f), f.cause = "ext", f.threshold = threshold,
           threshold < priority[f.num], threshold' = priority[f.num], UNCHANGED priority, Nested
    PROVE  Nested'
<1>1. PICK n \in Nat : n = Len(stack) /\ DOMAIN stack = 1 .. n
  BY Frames
<1>2. ASSUME NEW i \in Levels PROVE Found(i)' = Found(i)
  BY <1>1, <1>2 DEF Grown, Found, Levels
<1>3. Found(n + 2)' = priority[f.num] /\ Found(n + 1) = threshold
  BY <1>1 DEF Grown, Found
<1>4. \A i \in 1 .. n : (IsExt(i)' <=> IsExt(i)) /\ stack'[i] = stack[i]
  BY <1>1 DEF Grown, IsExt
<1>5. IsExt(n + 1)' /\ stack'[n + 1] = f
  BY <1>1 DEF Grown, IsExt
<1>6. ASSUME NEW i \in Levels PROVE FoundRight(i)'
  <2>1. FoundRight(i)
    BY DEF Nested
  <2>2. \A j \in 1 .. i - 1 : j \in 1 .. n
    BY <1>1 DEF Levels
  <2>3. \A j \in 1 .. i - 1 : \A k \in j + 1 .. i - 1 : k \in 1 .. i - 1
    BY <1>1 DEF Levels
  <2>4. QED
    BY <1>2, <1>4, <2>1, <2>2, <2>3 DEF FoundRight
<1>7. FoundRight(n + 2)'
  <2>1. FoundRight(n + 1)
    BY <1>1 DEF Nested, Levels
  <2>2. \A j \in 1 .. (n + 2) - 1 : j \in 1 .. n \/ j = n + 1
    BY <1>1
  <2>3. n + 1 \in 1 .. (n + 2) - 1 /\ 1 .. (n + 1) - 1 = 1 .. n
    BY <1>1
  <2>4. \A j \in 1 .. n : n + 1 \in j + 1 .. (n + 2) - 1
    BY <1>1
  <2>5. \A j \in 1 .. n : IsExt(j) => priority[stack[j].num] <= priority[f.num]
    <3>1. ASSUME NEW j \in 1 .. n, IsExt(j) PROVE priority[stack[j].num] <= threshold
      BY <1>3, <2>1, <2>3, <3>1 DEF FoundRight
    <3>2. \A j \in 1 .. n : priority[stack[j].num] \in Nat
      BY <1>1, Frames DEF TypeOK
    <3>3. threshold \in Nat
      BY DEF TypeOK
    <3>4. priority[f.num] \in Nat
      BY DEF TypeOK, Grown, Frame
    <3>5. QED
      BY <3>1, <3>2, <3>3, <3>4
  <2>6. priority[f.num] <= priority[f.num]
    BY DEF TypeOK, Grown, Frame
  <2>7. \A j \in 1 .. (n + 2) - 1 :
            IsExt(j)' =>
               /\ priority[stack'[j].num] <= Found(n + 2)'
               /\ (\A k \in j + 1 .. (n + 2) - 1 : ~IsExt(k)') =>
                      Found(n + 2)' = priority[stack'[j].num]
    BY <1>3, <1>4, <1>5, <2>2, <2>4, <2>5, <2>6
  <2>8. QED
    BY <1>5, <2>3, <2>7 DEF FoundRight
<1>8. \A i \in Levels' : i \in Levels \/ i = n + 2
  BY <1>1 DEF Levels, Grown
<1>9. \A i \in (DOMAIN stack)' : IsExt(i)' => stack'[i].threshold < priority[stack'[i].num]
  <2>1. \A i \in (DOMAIN stack)' : i \in 1 .. n \/ i = n + 1
    BY <1>1 DEF Grown
  <2>2. QED
    BY <1>1, <1>4, <1>5, <2>1 DEF Nested
<1>10. QED
  BY <1>6, <1>7, <1>8, <1>9 DEF Nested

LEMMA MaskedGrown ==
    ASSUME TypeOK, NEW f, Grown(f), f.ie = mie, mie' \subseteq mie \ Masks(f.cause), Masked
    PROVE  Masked'
<1>1. PICK n \in Nat : n = Len(stack)
  BY Frames
<1>2. ASSUME NEW i \in Levels PROVE Enabled(i)' = Enabled(i)
  BY <1>1, <1>2 DEF Grown, Enabled, Levels
<1>3. Enabled(n + 2)' = mie' /\ Enabled(n + 1) = mie
  BY <1>1 DEF Grown, Enabled
<1>4. \A i \in 1 .. n : stack'[i] = stack[i]
  BY <1>1 DEF Grown
<1>5. stack'[n + 1] = f
  BY <1>1 DEF Grown
<1>6. ASSUME NEW i \in Levels, NEW j \in 1 .. i - 1
      PROVE  Enabled(i)' \cap Masks(stack'[j].cause) = {}
  <2>1. j \in 1 .. n
    BY <1>1 DEF Levels
  <2>2. QED
    BY <1>2, <1>4, <2>1 DEF Masked
<1>7. ASSUME NEW j \in 1 .. (n + 2) - 1
      PROVE  Enabled(n + 2)' \cap Masks(stack'[j].cause) = {}
  <2>1. CASE j \in 1 .. n
    <3>1. n + 1 \in Levels /\ j \in 1 .. (n + 1) - 1
      BY <1>1, <2>1 DEF Levels
    <3>2. mie \cap Masks(stack[j].cause) = {}
      BY <1>3, <3>1 DEF Masked
    <3>3. QED
      BY <1>3, <1>4, <2>1, <3>2
  <2>2. CASE j = n + 1
    BY <1>3, <1>5, <2>2
  <2>3. QED
    BY <1>1, <2>1, <2>2
<1>8. \A i \in Levels' : i \in Levels \/ i = n + 2
  BY <1>1 DEF Levels, Grown
<1>9. QED
  BY <1>6, <1>7, <1>8 DEF Masked

\* The last handler ends.
LEMMA NestedShrunk ==
    ASSUME TypeOK, Shrunk, UNCHANGED priority, Nested,
           threshold' = (IF IsExt(Len(stack)) THEN Top.threshold ELSE threshold)
    PROVE  Nested'
<1>1. PICK n \in Nat \ {0} : n = Len(stack) /\ DOMAIN stack = 1 .. n
  BY Frames DEF Shrunk
<1>2. \A i \in 1 .. n - 1 : (IsExt(i)' <=> IsExt(i)) /\ stack'[i] = stack[i]
  BY <1>1 DEF Shrunk, IsExt
<1>3. ASSUME NEW i \in 1 .. n - 1 PROVE Found(i)' = Found(i)
  BY <1>1, <1>2 DEF Shrunk, Found
<1>4. Found(n)' = threshold' /\ Found(n + 1) = threshold /\ Found(n) = Top.threshold
  BY <1>1 DEF Shrunk, Found, Top
<1>5. ASSUME NEW i \in 1 .. n - 1 PROVE FoundRight(i)'
  <2>1. FoundRight(i)
    BY <1>1 DEF Nested, Levels
  <2>2. \A j \in 1 .. i - 1 : j \in 1 .. n - 1
    BY <1>1
  <2>3. \A j \in 1 .. i - 1 : \A k \in j + 1 .. i - 1 : k \in 1 .. i - 1
    BY <1>1
  <2>4. QED
    BY <1>2, <1>3, <2>1, <2>2, <2>3 DEF FoundRight
<1>6. FoundRight(n)'
  <2>1. FoundRight(n) /\ FoundRight(n + 1)
    BY <1>1 DEF Nested, Levels
  <2>2. \A j \in 1 .. n - 1 : \A k \in j + 1 .. n - 1 : k \in 1 .. n - 1
    BY <1>1
  <2>3. CASE IsExt(n)
    <3>1. threshold' = Top.threshold
      BY <1>1, <2>3
    <3>2. QED
      BY <1>2, <1>4, <2>1, <2>2, <3>1 DEF FoundRight
  <2>4. CASE ~IsExt(n)
    <3>1. \A j \in 1 .. (n + 1) - 1 : j \in 1 .. n - 1 \/ j = n
      BY <1>1
    <3>2. \A j \in 1 .. n - 1 : j \in 1 .. (n + 1) - 1
      BY <1>1
    <3>3. \A j \in 1 .. n - 1 : \A k \in j + 1 .. (n + 1) - 1 : k = n \/ k \in j + 1 .. n - 1
      BY <1>1
    <3>4. (\A j \in 1 .. n - 1 : ~IsExt(j)') => Found(n)' = 0
      BY <1>2, <1>4, <2>1, <2>4, <3>1 DEF FoundRight
    <3>5. Found(n)' = Found(n + 1)
      BY <1>1, <1>4, <2>4
    <3>6. ASSUME NEW j \in 1 .. n - 1, IsExt(j)
          PROVE  /\ priority[stack[j].num] <= Found(n + 1)
                 /\ (\A k \in j + 1 .. n - 1 : ~IsExt(k)) => Found(n + 1) = priority[stack[j].num]
      BY <2>1, <2>4, <3>2, <3>3, <3>6 DEF FoundRight
    <3>7. QED
      BY <1>2, <2>2, <3>4, <3>5, <3>6 DEF FoundRight
  <2>5. QED
    BY <2>3, <2>4
<1>7. \A i \in Levels' : i \in 1 .. n - 1 \/ i = n
  BY <1>1 DEF Levels, Shrunk
<1>8. \A i \in (DOMAIN stack)' : IsExt(i)' => stack'[i].threshold < priority[stack'[i].num]
  <2>1. (DOMAIN stack)' = 1 .. n - 1 /\ \A i \in 1 .. n - 1 : i \in DOMAIN stack
    BY <1>1 DEF Shrunk
  <2>2. QED
    BY <1>2, <2>1 DEF Nested
<1>9. QED
  BY <1>5, <1>6, <1>7, <1>8 DEF Nested

LEMMA MaskedShrunk ==
    ASSUME TypeOK, Shrunk, Masked,
           mie' \subseteq Top.ie \/ (Len(stack) = 1)
    PROVE  Masked'
<1>1. PICK n \in Nat \ {0} : n = Len(stack)
  BY Frames DEF Shrunk
<1>2. \A i \in 1 .. n - 1 : stack'[i] = stack[i]
  BY <1>1 DEF Shrunk
<1>3. ASSUME NEW i \in 1 .. n - 1 PROVE Enabled(i)' = Enabled(i)
  BY <1>1, <1>2 DEF Shrunk, Enabled
<1>4. Enabled(n)' = mie' /\ Enabled(n) = Top.ie
  BY <1>1 DEF Shrunk, Enabled, Top
<1>5. ASSUME NEW i \in 1 .. n, NEW j \in 1 .. i - 1
      PROVE  Enabled(i)' \cap Masks(stack'[j].cause) = {}
  <2>1. i \in Levels /\ j \in 1 .. n - 1 /\ (i \in 1 .. n - 1 \/ i = n) /\ n # 1
    BY <1>1 DEF Levels
  <2>2. Enabled(i) \cap Masks(stack[j].cause) = {}
    BY <2>1 DEF Masked
  <2>3. Enabled(i)' \subseteq Enabled(i)
    BY <1>1, <1>3, <1>4, <2>1
  <2>4. QED
    BY <1>2, <2>1, <2>2, <2>3
<1>6. Levels' = 1 .. n
  BY <1>1 DEF Levels, Shrunk
<1>7. QED
  BY <1>5, <1>6 DEF Masked

-----------------------------------------------------------------------------
(***************************************************************************)
(* The steps keep the invariant                                            *)
(***************************************************************************)

LEMMA InitInvariant == Init => IInv
<1> SUFFICES ASSUME Init PROVE IInv
  OBVIOUS
<1>1. stack = <<>> /\ Len(stack) = 0 /\ DOMAIN stack = {}
  BY DEF Init
<1>2. TypeOK
  <2>1. stack \in Seq(Frame)
    BY <1>1
  <2>2. Stale \subseteq Source /\ 0 \in 0 .. MaxCalls /\ 0 \in 0 .. MaxRaised
    BY InterruptsAssumption
  <2>3. priority \in [Source \cup {NoSource} -> Nat]
    BY DEF Init
  <2>4. QED
    BY <2>1, <2>2, <2>3 DEF Init, TypeOK
<1>3. Levels = {1} /\ 1 .. 1 - 1 = {}
  BY <1>1 DEF Levels
<1>4. Found(1) = 0
  BY <1>1 DEF Found, Init
<1>5. Nested
  BY <1>1, <1>3, <1>4 DEF Nested, FoundRight
<1>6. Masked
  BY <1>3 DEF Masked
<1>7. claimed = InService
  BY <1>1 DEF Init, InService, External
<1>8. Unready /\ Framed /\ Restored
  BY <1>1 DEF Init, Unready, Framed, Restored
<1>9. QED
  BY <1>2, <1>5, <1>6, <1>7, <1>8 DEF IInv, Unwinding

\* A step that touches nothing of this.
LEMMA QuietKeeps ==
    ASSUME IInv, UNCHANGED <<ready, priority, threshold, claimed, mie, asked, stack>>
    PROVE  Unwinding'
<1>1. TypeOK /\ Unwinding
  BY DEF IInv
<1>2. SameShape
  BY <1>1, StillSameShape
<1>3. Unready'
  BY <1>1 DEF Unwinding, Unready
<1>4. Framed'
  BY <1>1 DEF Unwinding, Framed
<1>5. Nested'
  BY <1>1, <1>2, NestedSame DEF Unwinding
<1>6. Masked'
  BY <1>1, <1>2, MaskedSame DEF Unwinding
<1>7. (claimed = InService)'
  BY <1>1 DEF Unwinding, InService, External
<1>8. StopsLast => Restored'
  BY <1>1 DEF Unwinding, Restored, Enabled
<1>9. QED
  BY <1>3, <1>4, <1>5, <1>6, <1>7, <1>8 DEF Unwinding, StopsLast

LEMMA DevicesKeep ==
    ASSUME IInv, Devices \/ \E s \in Source : Gateway(s)
    PROVE  Unwinding'
<1>1. UNCHANGED <<ready, priority, threshold, claimed, mie, asked, stack>>
  BY DEF Devices, Expire, OtherRaises, TimeUp, IpiSent, Gateway, plic, clint
<1>2. QED
  BY <1>1, QuietKeeps

\* When no handler runs.
LEMMA ThreadKeeps ==
    ASSUME IInv, Thread
    PROVE  Unwinding'
<1>1. TypeOK /\ Unwinding
  BY DEF IInv
<1>2. stack = <<>>
  BY <1>1 DEF Thread, PlicInit, PlicIrqEnable, PlicIrqDisable, TimerIrqRegister, TimerIrqRoute,
              TimerIrqUnregister, TimerSetEnable, ClintTimerStart, ClintIpiEnable, ClintStop,
              Call, Unwinding, Unready
<1>3. Len(stack) = 0 /\ DOMAIN stack = {}
  BY <1>2
<1>4. threshold = 0
  <2>1. 1 \in Levels /\ 1 .. 1 - 1 = {} /\ Found(1) = threshold
    BY <1>3 DEF Levels, Found
  <2>2. FoundRight(1)
    BY <1>1, <2>1 DEF Unwinding, Nested
  <2>3. QED
    BY <2>1, <2>2 DEF FoundRight
<1>5. claimed = {}
  BY <1>1, <1>3 DEF Unwinding, InService, External
<1>6. StopsLast => mie = asked
  BY <1>1, <1>2 DEF Unwinding, Restored
<1>7. ~ready => mie = {}
  BY <1>1 DEF Unwinding, Unready
<1>8. UNCHANGED stack /\ threshold' = 0 /\ UNCHANGED claimed
  BY <1>4 DEF Thread, PlicInit, PlicIrqEnable, PlicIrqDisable, TimerIrqRegister, TimerIrqRoute,
              TimerIrqUnregister, TimerSetEnable, ClintTimerStart, ClintIpiEnable, ClintStop,
              plic, timers
<1>9. \/ PlicInit
      \/ /\ ready
         /\ \E b \in Cause : ClintTimerStart(TRUE) \/ ClintTimerStart(FALSE)
                              \/ ClintIpiEnable \/ ClintStop(b)
      \/ UNCHANGED <<ready, mie, asked>>
  BY DEF Thread, PlicIrqEnable, PlicIrqDisable, TimerIrqRegister, TimerIrqRoute,
         TimerIrqUnregister, TimerSetEnable, ClintTimerStart, ClintIpiEnable, ClintStop,
         Call, clint, Cause
<1>10. (~ready' => mie' = {}) /\ (mie = asked => mie' = asked')
  BY <1>7, <1>9 DEF PlicInit, ClintTimerStart, ClintIpiEnable, ClintStop, SwitchOff
<1>11. stack' = <<>> /\ Len(stack') = 0 /\ DOMAIN stack' = {}
  BY <1>2, <1>3, <1>8
<1>12. Levels' = {1} /\ 1 .. 1 - 1 = {} /\ Found(1)' = 0
  BY <1>8, <1>11 DEF Levels, Found
<1>13. Nested'
  BY <1>11, <1>12 DEF Nested, FoundRight
<1>14. Masked'
  BY <1>12 DEF Masked
<1>15. (claimed = InService)'
  BY <1>5, <1>8, <1>11 DEF InService, External
<1>16. Unready' /\ Framed' /\ (StopsLast => Restored')
  BY <1>6, <1>10, <1>11 DEF Unready, Framed, Restored
<1>17. QED
  BY <1>13, <1>14, <1>15, <1>16 DEF Unwinding, StopsLast

\* A handler comes in.
LEMMA FramedGrown ==
    ASSUME TypeOK, NEW f, Grown(f), Framed,
           f.cause = "ext" <=> f.num \in Source,
           f.cause # "ext" => f.at \in {"user", "exit"} /\ f.cause \in f.ie,
           f.at \in {"scan", "loop"} => f.num \in TimerSources
    PROVE  Framed'
<1>1. PICK n \in Nat : n = Len(stack) /\ DOMAIN stack = 1 .. n
  BY Frames
<1>2. \A i \in (DOMAIN stack)' : (i \in 1 .. n /\ stack'[i] = stack[i]) \/ stack'[i] = f
  BY <1>1 DEF Grown
<1>3. QED
  BY <1>1, <1>2 DEF Framed

LEMMA ServiceGrown ==
    ASSUME TypeOK, NEW f, Grown(f), f.at # "exit"
    PROVE  InService' = IF f.cause = "ext" THEN InService \cup {f.num} ELSE InService
<1>1. PICK n \in Nat : n = Len(stack) /\ DOMAIN stack = 1 .. n
  BY Frames
<1>2. /\ (DOMAIN stack)' = 1 .. n + 1
      /\ \A i \in 1 .. n : i \in 1 .. n + 1 /\ stack'[i] = stack[i]
      /\ n + 1 \in 1 .. n + 1 /\ stack'[n + 1] = f
      /\ \A i \in 1 .. n + 1 : i \in 1 .. n \/ i = n + 1
  BY <1>1 DEF Grown
<1>3. \A s : s \in InService <=>
                 \E i \in 1 .. n : stack[i].cause = "ext" /\ stack[i].at # "exit" /\ s = stack[i].num
  BY <1>1 DEF InService, External
<1>4. \A s : s \in InService' <=>
                 \E i \in 1 .. n + 1 :
                     stack'[i].cause = "ext" /\ stack'[i].at # "exit" /\ s = stack'[i].num
  BY <1>2 DEF InService, External
<1>5. ASSUME NEW s
      PROVE  s \in InService' <=> s \in InService \/ (f.cause = "ext" /\ s = f.num)
  BY <1>2, <1>3, <1>4
<1>6. QED
  BY <1>5

LEMMA RestoredGrown ==
    ASSUME TypeOK, NEW f, Grown(f), Restored, f.cause \in mie, f.ie = mie,
           mie' = mie \ {"soft"} \/ f.cause # "soft", UNCHANGED asked
    PROVE  Restored'
<1>1. PICK n \in Nat : n = Len(stack) /\ (stack = <<>> <=> n = 0)
  BY Frames
<1>2. stack' # <<>>
  BY <1>1, EmptySeq DEF Grown
<1>3. CASE n = 0
  <2>1. stack'[1] = f /\ (n + 1) + 1 = 2 /\ Enabled(2)' = mie'
    BY <1>1, <1>3 DEF Grown, Enabled
  <2>2. mie = asked
    BY <1>1, <1>3 DEF Restored
  <2>3. QED
    BY <1>2, <2>1, <2>2 DEF Restored
<1>4. CASE n # 0
  <2>1. stack'[1] = stack[1]
    BY <1>1, <1>4 DEF Grown
  <2>2. Enabled(2)' = Enabled(2)
    BY <1>1, <1>4 DEF Grown, Enabled
  <2>3. QED
    BY <1>1, <1>2, <1>4, <2>1, <2>2 DEF Restored
<1>5. QED
  BY <1>3, <1>4

LEMMA EntriesKeep ==
    ASSUME IInv, EnterExt \/ EnterTimer \/ EnterSoft
    PROVE  Unwinding'
<1>1. TypeOK /\ Unwinding
  BY DEF IInv
<1>2. ready /\ UNCHANGED ready
  <2>1. mie # {}
    BY DEF EnterExt, EnterTimer, EnterSoft
  <2>2. UNCHANGED ready
    BY DEF EnterExt, EnterTimer, EnterSoft
  <2>3. QED
    BY <1>1, <2>1, <2>2 DEF Unwinding, Unready
<1>3. Unready'
  BY <1>2 DEF Unready
<1>4. CASE EnterExt
  <2>1. PICK s \in Source : /\ Claims(s)
                            /\ Push("ext", Callback(s), s)
                            /\ claimed' = claimed \cup {s}
                            /\ threshold' = priority[s]
    BY <1>4 DEF EnterExt, NewThreshold
  <2> DEFINE f == Entering("ext", Callback(s), s)
  <2>2. /\ Callback(s) \in {"scan", "loop", "user", "complete", "exit"}
        /\ Callback(s) # "exit"
        /\ Callback(s) # "loop"
        /\ Callback(s) = "scan" => s \in TimerSources
    BY DEF Callback, TimerSources
  <2>3. Grown(f)
    BY <1>1, <2>1, <2>2, Pushes DEF Cause
  <2>4. /\ f.cause = "ext" /\ f.at = Callback(s) /\ f.ie = mie
        /\ f.num = s /\ f.threshold = threshold
    BY DEF Entering
  <2> HIDE DEF f
  <2>5. /\ UNCHANGED <<priority, asked>>
        /\ mie' = mie \ {"timer", "soft"}
        /\ "ext" \in mie
    BY <1>4 DEF EnterExt
  <2>6. threshold < priority[s]
    <3>1. PICK r \in Claimable : priority[r] > threshold
      BY <1>4 DEF EnterExt, ExternalPending
    <3>2. priority[r] <= priority[s]
      <4>1. priority[r] < priority[s] \/ (priority[r] = priority[s] /\ s <= r)
        BY <2>1 DEF Claims
      <4>2. r \in Source
        BY <1>1 DEF Claimable, TypeOK
      <4>3. priority[r] \in Nat /\ priority[s] \in Nat
        BY <1>1, <4>2 DEF TypeOK
      <4>4. QED
        BY <4>1, <4>3
    <3>3. r \in Source
      BY <1>1 DEF Claimable, TypeOK
    <3>4. priority[r] \in Nat /\ priority[s] \in Nat /\ threshold \in Nat
      BY <1>1, <3>3 DEF TypeOK
    <3>5. QED
      BY <3>1, <3>2, <3>4
  <2>7. Framed'
    BY <1>1, <2>2, <2>3, <2>4, FramedGrown DEF Unwinding
  <2>8. Nested'
    BY <1>1, <2>1, <2>3, <2>4, <2>5, <2>6, NestedGrownExt DEF Unwinding
  <2>9. Masked'
    <3>1. mie' \subseteq mie \ Masks(f.cause)
      BY <2>4, <2>5 DEF Masks
    <3>2. QED
      BY <1>1, <2>3, <2>4, <3>1, MaskedGrown DEF Unwinding
  <2>10. (claimed = InService)'
    BY <1>1, <2>1, <2>2, <2>3, <2>4, ServiceGrown DEF Unwinding
  <2>11. StopsLast => Restored'
    BY <1>1, <2>3, <2>4, <2>5, RestoredGrown DEF Unwinding
  <2>12. QED
    BY <1>3, <2>7, <2>8, <2>9, <2>10, <2>11 DEF Unwinding, StopsLast
<1>5. ASSUME NEW cause \in {"timer", "soft"}, cause \in mie, Push(cause, "user", NoSource),
             mie' = mie \ Masks(cause), UNCHANGED <<priority, threshold, claimed, asked>>
      PROVE  Unwinding'
  <2> DEFINE f == Entering(cause, "user", NoSource)
  <2>1. Grown(f)
    BY <1>1, <1>5, Pushes DEF Cause
  <2>2. /\ f.cause = cause /\ f.at = "user" /\ f.ie = mie
        /\ f.num = NoSource /\ f.threshold = threshold
    BY DEF Entering
  <2> HIDE DEF f
  <2>3. Framed'
    BY <1>1, <1>5, <2>1, <2>2, SourceTypes, FramedGrown DEF Unwinding
  <2>4. Nested'
    BY <1>1, <1>5, <2>1, <2>2, NestedGrown DEF Unwinding
  <2>5. Masked'
    BY <1>1, <1>5, <2>1, <2>2, MaskedGrown DEF Unwinding
  <2>6. (claimed = InService)'
    BY <1>1, <1>5, <2>1, <2>2, ServiceGrown DEF Unwinding
  <2>7. StopsLast => Restored'
    <3>1. mie' = mie \ {"soft"} \/ cause # "soft"
      BY <1>5 DEF Masks
    <3>2. QED
      BY <1>1, <1>5, <2>1, <2>2, <3>1, RestoredGrown DEF Unwinding
  <2>8. QED
    BY <1>3, <2>3, <2>4, <2>5, <2>6, <2>7 DEF Unwinding, StopsLast
<1>6. CASE EnterTimer
  BY <1>5, <1>6 DEF EnterTimer, TimerMasks, Masks, plic
<1>7. CASE EnterSoft
  BY <1>5, <1>7 DEF EnterSoft, Masks, plic
<1>8. QED
  BY <1>4, <1>6, <1>7

\* An external interrupt has a higher priority than those whose handlers it is in.
LEMMA ExternalNest ==
    ASSUME TypeOK, Nested, NEW i \in DOMAIN stack, NEW j \in DOMAIN stack, i < j,
           IsExt(i), IsExt(j)
    PROVE  /\ priority[stack[i].num] < priority[stack[j].num]
           /\ stack[i].num # stack[j].num
<1>1. PICK n \in Nat : n = Len(stack) /\ DOMAIN stack = 1 .. n
  BY Frames
<1>2. j \in Levels /\ i \in 1 .. j - 1 /\ j # n + 1
  BY <1>1 DEF Levels
<1>3. Found(j) = stack[j].threshold
  BY <1>1, <1>2 DEF Found
<1>4. FoundRight(j)
  BY <1>2 DEF Nested
<1>5. priority[stack[i].num] <= stack[j].threshold
  BY <1>2, <1>3, <1>4 DEF FoundRight
<1>6. stack[j].threshold < priority[stack[j].num]
  BY DEF Nested
<1>7. /\ stack[i].num \in Source \cup {NoSource} /\ stack[j].num \in Source \cup {NoSource}
      /\ stack[j].threshold \in Nat
  BY <1>1, Frames
<1>8. priority[stack[i].num] \in Nat /\ priority[stack[j].num] \in Nat
  BY <1>7 DEF TypeOK
<1>9. QED
  BY <1>5, <1>6, <1>7, <1>8

\* The core's own interrupts come in at the bottom: a timer's in that of an IPI at most.
LEMMA OwnNest ==
    ASSUME TypeOK, Framed, Masked, NEW i \in DOMAIN stack, NEW j \in DOMAIN stack, i < j, ~IsExt(j)
    PROVE  stack[i].cause = "soft" /\ stack[j].cause = "timer"
<1>1. PICK n \in Nat : n = Len(stack) /\ DOMAIN stack = 1 .. n
  BY Frames
<1>2. j \in Levels /\ i \in 1 .. j - 1 /\ j # n + 1
  BY <1>1 DEF Levels
<1>3. Enabled(j) = stack[j].ie
  BY <1>1, <1>2 DEF Enabled
<1>4. stack[j].cause \in stack[j].ie
  BY DEF Framed, IsExt
<1>5. stack[j].ie \cap Masks(stack[i].cause) = {}
  BY <1>2, <1>3 DEF Masked
<1>6. stack[i].cause \in Cause /\ stack[j].cause \in {"timer", "soft"}
  BY <1>1, Frames DEF Cause, IsExt
<1>7. stack[j].cause \notin Masks(stack[i].cause)
  BY <1>4, <1>5
<1>8. QED
  BY <1>6, <1>7 DEF Masks, Cause

\* A handler goes on.
LEMMA ServiceMoved ==
    ASSUME TypeOK, Nested, NEW f, Moved(f)
    PROVE  /\ Top.cause # "ext" \/ (Top.at # "exit" /\ f.at # "exit") => InService' = InService
           /\ Top.cause = "ext" /\ f.at = "exit" => InService' = InService \ {Top.num}
<1>1. PICK n \in Nat \ {0} : n = Len(stack) /\ DOMAIN stack = 1 .. n
  BY Frames DEF Moved
<1>i. /\ n \in 1 .. n
      /\ \A i \in 1 .. n - 1 : i \in 1 .. n
      /\ \A i \in 1 .. n : i \in 1 .. n - 1 \/ i = n
  OBVIOUS
<1>2. /\ (DOMAIN stack)' = 1 .. n
      /\ \A i \in 1 .. n - 1 : stack'[i] = stack[i]
      /\ stack'[n] = f /\ f.cause = stack[n].cause /\ f.num = stack[n].num
  BY <1>1 DEF Moved, Top
<1>3. \A s : s \in InService <=>
                 \E i \in 1 .. n : stack[i].cause = "ext" /\ stack[i].at # "exit" /\ s = stack[i].num
  BY <1>1 DEF InService, External
<1>4. \A s : s \in InService' <=>
                 \E i \in 1 .. n :
                     stack'[i].cause = "ext" /\ stack'[i].at # "exit" /\ s = stack'[i].num
  BY <1>2 DEF InService, External
<1>5. Top = stack[n]
  BY <1>1 DEF Top
<1>6. ASSUME Top.cause # "ext" \/ (Top.at # "exit" /\ f.at # "exit")
      PROVE  \A s : s \in InService' <=> s \in InService
  BY <1>i, <1>2, <1>3, <1>4, <1>5, <1>6
<1>7. ASSUME Top.cause = "ext", f.at = "exit"
      PROVE  \A s : s \in InService' <=> s \in InService /\ s # Top.num
  <2>1. \A i \in 1 .. n - 1 : stack[i].cause = "ext" => stack[i].num # Top.num
    <3>1. ASSUME NEW i \in 1 .. n - 1, IsExt(i) PROVE stack[i].num # stack[n].num
      <4>1. i \in DOMAIN stack /\ n \in DOMAIN stack /\ i < n
        BY <1>1
      <4>2. IsExt(n)
        BY <1>5, <1>7 DEF IsExt
      <4>3. QED
        BY <3>1, <4>1, <4>2, ExternalNest
    <3>2. QED
      BY <1>5, <3>1 DEF IsExt
  <2>2. QED
    BY <1>i, <1>2, <1>3, <1>4, <1>5, <1>7, <2>1
<1>8. QED
  BY <1>6, <1>7

LEMMA FramedMoved ==
    ASSUME TypeOK, NEW f, Moved(f), Framed,
           f.cause # "ext" => f.at \in {"user", "exit"},
           f.at \in {"scan", "loop"} => f.num \in TimerSources
    PROVE  Framed'
<1>1. PICK n \in Nat \ {0} : n = Len(stack) /\ DOMAIN stack = 1 .. n
  BY Frames DEF Moved
<1>2. \A i \in (DOMAIN stack)' : (i \in 1 .. n /\ stack'[i] = stack[i]) \/ stack'[i] = f
  BY <1>1 DEF Moved
<1>3. /\ n \in DOMAIN stack /\ Top = stack[n]
      /\ f.cause = Top.cause /\ f.ie = Top.ie /\ f.num = Top.num
  BY <1>1 DEF Top, Moved
<1>4. /\ f.cause = "ext" <=> f.num \in Source
      /\ f.cause # "ext" => f.cause \in f.ie
  BY <1>3 DEF Framed
<1>5. QED
  BY <1>1, <1>2, <1>4 DEF Framed

LEMMA RestoredMoved ==
    ASSUME IInv, NEW f, Moved(f), MayStop(Top.cause), StopsLast
    PROVE  Restored'
<1>1. TypeOK /\ Framed /\ Masked /\ Restored
  BY DEF IInv, Unwinding
<1>2. PICK n \in Nat \ {0} : n = Len(stack) /\ DOMAIN stack = 1 .. n
  BY <1>1, Frames DEF Moved
<1>3. stack' # <<>> /\ stack # <<>>
  BY <1>2, EmptySeq DEF Moved
<1>4. stack'[1].cause = stack[1].cause /\ stack'[1].ie = stack[1].ie
  BY <1>1, <1>2, MovedSameShape DEF SameShape
<1>5. Top.cause \in Cause /\ n \in DOMAIN stack /\ Top = stack[n]
  BY <1>1, <1>2, Frames DEF Top
<1>6. CASE UNCHANGED <<mie, asked>>
  <2>1. Enabled(2)' = Enabled(2)
    <3>1. CASE n = 1
      BY <1>2, <1>6, <3>1 DEF Moved, Enabled
    <3>2. CASE n # 1
      <4>1. 2 \in 1 .. Len(stack) /\ 2 # Len(stack) + 1
        BY <1>2, <3>2
      <4>2. stack'[2].ie = stack[2].ie /\ Len(stack') = Len(stack)
        BY <1>1, <4>1, MovedSameShape DEF SameShape
      <4>3. QED
        BY <4>1, <4>2 DEF Enabled
    <3>3. QED
      BY <3>1, <3>2
  <2>2. QED
    BY <1>1, <1>3, <1>4, <1>6, <2>1 DEF Restored
<1>7. CASE \E bit \in Stops[Top.cause] : SwitchOff(bit)
  <2>1. Top.cause = "soft" /\ SwitchOff("timer")
    BY <1>5, <1>7 DEF StopsLast, Cause
  <2>2. n = 1
    <3>1. CASE n # 1
      <4>1. 1 \in DOMAIN stack /\ 1 < n
        BY <1>2, <3>1
      <4>2. stack[n].cause = "timer"
        BY <1>1, <1>5, <2>1, <4>1, OwnNest DEF IsExt
      <4>3. QED
        BY <1>5, <2>1, <4>2
    <3>2. QED
      BY <3>1
  <2>3. Enabled(2) = mie /\ Enabled(2)' = mie'
    BY <1>2, <2>2 DEF Enabled, Moved
  <2>4. "soft" \in asked /\ mie = asked \ {"soft"} /\ stack[1].cause = "soft"
    BY <1>1, <1>3, <1>5, <2>1, <2>2, <2>3 DEF Restored
  <2>5. mie' = asked' \ {"soft"} /\ "soft" \in asked'
    BY <2>1, <2>4 DEF SwitchOff
  <2>6. QED
    BY <1>3, <1>4, <2>3, <2>4, <2>5 DEF Restored
<1>8. QED
  BY <1>6, <1>7 DEF MayStop

LEMMA MovesKeep ==
    ASSUME IInv, NEW f, Moved(f), MayStop(Top.cause), UNCHANGED <<ready, priority, threshold>>,
           f.cause # "ext" => f.at \in {"user", "exit"},
           f.at \in {"scan", "loop"} => f.num \in TimerSources,
           (claimed = InService)'
    PROVE  Unwinding'
<1>1. TypeOK /\ Unwinding /\ stack # <<>>
  BY DEF IInv, Moved
<1>2. SameShape
  BY <1>1, MovedSameShape
<1>3. Unready'
  BY <1>1 DEF Unwinding, Unready
<1>4. Framed'
  BY <1>1, FramedMoved DEF Unwinding
<1>5. Nested'
  BY <1>1, <1>2, NestedSame DEF Unwinding
<1>6. mie' \subseteq mie
  BY DEF MayStop, SwitchOff
<1>7. Masked'
  BY <1>1, <1>2, <1>6, MaskedSame DEF Unwinding
<1>8. StopsLast => Restored'
  BY RestoredMoved
<1>9. QED
  BY <1>3, <1>4, <1>5, <1>7, <1>8 DEF Unwinding, StopsLast

\* The last handler ends.
LEMMA FramedShrunk ==
    ASSUME TypeOK, Shrunk, Framed
    PROVE  Framed'
<1>1. PICK n \in Nat \ {0} : n = Len(stack) /\ DOMAIN stack = 1 .. n
  BY Frames DEF Shrunk
<1>2. \A i \in (DOMAIN stack)' : i \in DOMAIN stack /\ stack'[i] = stack[i]
  BY <1>1 DEF Shrunk
<1>3. QED
  BY <1>2 DEF Framed

LEMMA ServiceShrunk ==
    ASSUME TypeOK, Shrunk, Top.at = "exit"
    PROVE  InService' = InService
<1>1. PICK n \in Nat \ {0} : n = Len(stack) /\ DOMAIN stack = 1 .. n
  BY Frames DEF Shrunk
<1>2. /\ (DOMAIN stack)' = 1 .. n - 1
      /\ \A i \in 1 .. n - 1 : i \in 1 .. n /\ stack'[i] = stack[i]
      /\ \A i \in 1 .. n : i \in 1 .. n - 1 \/ i = n
  BY <1>1 DEF Shrunk
<1>3. stack[n].at = "exit"
  BY <1>1 DEF Top
<1>4. \A s : s \in InService <=>
                 \E i \in 1 .. n : stack[i].cause = "ext" /\ stack[i].at # "exit" /\ s = stack[i].num
  BY <1>1 DEF InService, External
<1>5. \A s : s \in InService' <=>
                 \E i \in 1 .. n - 1 :
                     stack'[i].cause = "ext" /\ stack'[i].at # "exit" /\ s = stack'[i].num
  BY <1>2 DEF InService, External
<1>6. \A s : s \in InService' <=> s \in InService
  BY <1>2, <1>3, <1>4, <1>5
<1>7. QED
  BY <1>6

\* What the last handler writes to mie, and what is left.
LEMMA RestoredShrunk ==
    ASSUME IInv, Shrunk, StopsLast,
           \/ Top.cause = "ext" /\ mie' = Top.ie /\ UNCHANGED asked
           \/ /\ Top.cause = "timer"
              /\ \/ mie' = Top.ie \ {"timer"} /\ asked' = asked \ {"timer"}
                 \/ mie' = Top.ie /\ UNCHANGED asked
           \/ Top.cause = "soft" /\ mie' = mie \cup {"soft"} /\ UNCHANGED asked
    PROVE  Restored'
<1>1. TypeOK /\ Framed /\ Masked /\ Restored
  BY DEF IInv, Unwinding
<1>2. PICK n \in Nat \ {0} : n = Len(stack) /\ DOMAIN stack = 1 .. n
  BY <1>1, Frames DEF Shrunk
<1>3. stack # <<>> /\ Top = stack[n] /\ Len(stack') = n - 1 /\ Enabled(n) = Top.ie
  BY <1>2 DEF Shrunk, Top, Enabled
<1>4. CASE n = 1
  <2>1. stack' = <<>>
    BY <1>3, <1>4, EmptySeq DEF Shrunk
  <2>2. mie' = asked'
    <3>1. CASE Top.cause = "soft"
      <4>1. "soft" \in asked /\ Enabled(2) = asked \ {"soft"}
        BY <1>1, <1>3, <1>4, <3>1 DEF Restored
      <4>2. Enabled(2) = mie
        BY <1>2, <1>4 DEF Enabled
      <4>3. QED
        BY <3>1, <4>1, <4>2
    <3>2. CASE Top.cause # "soft"
      <4>1. Top.ie = asked
        BY <1>1, <1>3, <1>4, <3>2 DEF Restored
      <4>2. QED
        BY <3>2, <4>1
    <3>3. QED
      BY <3>1, <3>2
  <2>3. QED
    BY <2>1, <2>2 DEF Restored
<1>5. CASE n # 1
  <2>1. 1 \in 1 .. n - 1 /\ 1 \in DOMAIN stack /\ n \in DOMAIN stack /\ 1 < n
    BY <1>2, <1>5
  <2>2. stack' # <<>> /\ stack'[1] = stack[1]
    BY <1>2, <2>1, EmptySeq DEF Shrunk
  <2>3. Top.cause # "soft"
    BY <1>1, <1>3, <2>1, OwnNest DEF IsExt
  <2>4. CASE n = 2
    <3>1. Enabled(2)' = mie' /\ Enabled(2) = Top.ie
      BY <1>3, <2>4 DEF Enabled
    <3>2. Top.cause = "timer" => stack[1].cause = "soft"
      BY <1>1, <1>3, <2>1, OwnNest DEF IsExt
    <3>3. CASE stack[1].cause = "soft"
      <4>1. "soft" \in asked /\ Top.ie = asked \ {"soft"}
        BY <1>1, <1>3, <3>1, <3>3 DEF Restored
      <4>2. "soft" \in asked' /\ mie' = asked' \ {"soft"}
        BY <2>3, <4>1
      <4>3. QED
        BY <2>2, <3>1, <3>3, <4>2 DEF Restored
    <3>4. CASE stack[1].cause # "soft"
      <4>1. UNCHANGED asked
        BY <2>3, <3>2, <3>4
      <4>2. stack[1].ie = asked
        BY <1>1, <1>3, <3>4 DEF Restored
      <4>3. QED
        BY <2>2, <3>4, <4>1, <4>2 DEF Restored
    <3>5. QED
      BY <3>3, <3>4
  <2>5. CASE n # 2
    <3>1. 2 \in 1 .. n - 1 /\ 2 \in DOMAIN stack /\ 2 < n /\ 2 # n + 1 /\ 2 # (n - 1) + 1
      BY <1>2, <1>5, <2>5
    <3>2. Top.cause = "ext"
      <4>1. CASE ~IsExt(n)
        <5>1. stack[2].cause = "soft"
          BY <1>1, <2>1, <3>1, <4>1, OwnNest
        <5>2. 1 < 2 /\ ~IsExt(2)
          BY <5>1 DEF IsExt
        <5>3. stack[2].cause = "timer"
          BY <1>1, <2>1, <3>1, <5>2, OwnNest
        <5>4. QED
          BY <5>1, <5>3
      <4>2. QED
        BY <1>3, <4>1 DEF IsExt
    <3>3. UNCHANGED asked
      BY <3>2
    <3>4. Enabled(2)' = Enabled(2)
      BY <1>2, <1>3, <3>1 DEF Enabled, Shrunk
    <3>5. QED
      BY <1>1, <1>3, <2>2, <3>3, <3>4 DEF Restored
  <2>6. QED
    BY <2>4, <2>5
<1>6. QED
  BY <1>4, <1>5

LEMMA ExitsKeep ==
    ASSUME IInv, ExitExt \/ ExitTimer \/ ExitSoft
    PROVE  Unwinding'
<1>1. TypeOK /\ Unwinding
  BY DEF IInv
<1>2. stack # <<>> /\ Top.at = "exit" /\ stack' = Below
  BY DEF ExitExt, ExitTimer, ExitSoft, At
<1>3. Shrunk
  BY <1>1, <1>2, PopShrinks
<1>4. PICK n \in Nat \ {0} : n = Len(stack) /\ DOMAIN stack = 1 .. n
  BY <1>1, <1>2, Frames
<1>5. Top = stack[n] /\ n \in DOMAIN stack
  BY <1>4 DEF Top
<1>6. /\ UNCHANGED <<ready, priority, claimed>>
      /\ \/ Top.cause = "ext" /\ mie' = Top.ie /\ threshold' = Top.threshold /\ UNCHANGED asked
         \/ /\ Top.cause = "timer"
            /\ \/ mie' = Top.ie \ {"timer"} /\ asked' = asked \ {"timer"}
               \/ mie' = Top.ie /\ UNCHANGED asked
            /\ UNCHANGED threshold
         \/ Top.cause = "soft" /\ mie' = mie \cup {"soft"} /\ UNCHANGED <<asked, threshold>>
  BY DEF ExitExt, ExitTimer, ExitSoft, OldThreshold, plic
<1>7. Unready'
  BY <1>1, <1>2, <1>6 DEF Unwinding, Unready
<1>8. Framed'
  BY <1>1, <1>3, FramedShrunk DEF Unwinding
<1>9. Nested'
  <2>1. IsExt(n) <=> Top.cause = "ext"
    BY <1>5 DEF IsExt
  <2>2. threshold' = IF IsExt(Len(stack)) THEN Top.threshold ELSE threshold
    BY <1>4, <1>6, <2>1
  <2>3. QED
    BY <1>1, <1>3, <1>6, <2>2, NestedShrunk DEF Unwinding
<1>10. Masked'
  <2>1. mie' \subseteq Top.ie \/ Top.cause = "soft"
    BY <1>6
  <2>2. ASSUME Top.cause = "soft", n # 1 PROVE FALSE
    <3>1. 1 \in DOMAIN stack /\ 1 < n
      BY <1>4, <2>2
    <3>2. QED
      BY <1>1, <1>5, <2>2, <3>1, OwnNest DEF IsExt, Unwinding
  <2>3. QED
    BY <1>1, <1>3, <1>4, <2>1, <2>2, MaskedShrunk DEF Unwinding
<1>11. (claimed = InService)'
  BY <1>1, <1>2, <1>3, <1>6, ServiceShrunk DEF Unwinding
<1>12. StopsLast => Restored'
  BY <1>3, <1>6, RestoredShrunk
<1>13. QED
  BY <1>7, <1>8, <1>9, <1>10, <1>11, <1>12 DEF Unwinding, StopsLast

LEMMA HandlersKeep ==
    ASSUME IInv, Handler
    PROVE  Unwinding'
<1>1. TypeOK /\ Unwinding
  BY DEF IInv
<1>2. ASSUME stack # <<>>
      PROVE  /\ Top.cause = "ext" <=> Top.num \in Source
             /\ Top.cause # "ext" => Top.at \in {"user", "exit"}
             /\ Top.at \in {"scan", "loop"} => Top.num \in TimerSources
             /\ Top.stat \subseteq Channels
             /\ Top.cause \in Cause
  <2>1. Len(stack) \in DOMAIN stack
    BY <1>1, <1>2, Frames
  <2>2. QED
    BY <1>1, <1>2, <2>1, TopIsFrame DEF Framed, Unwinding, Top, Frame, Cause
<1>3. ASSUME stack # <<>>, NEW f, Moved(f), f.at # "exit", Top.at # "exit",
             UNCHANGED <<ready, priority, threshold, claimed>>, MayStop("ext"),
             Top.num \in Source, f.at \in {"scan", "loop"} => Top.num \in TimerSources
      PROVE  Unwinding'
  <2>1. Top.cause = "ext" /\ f.cause = "ext" /\ f.num = Top.num
    BY <1>2, <1>3 DEF Moved
  <2>2. (claimed = InService)'
    BY <1>1, <1>3, ServiceMoved DEF Unwinding
  <2>3. QED
    BY <1>3, <2>1, <2>2, MovesKeep
<1>4. ASSUME stack # <<>>, NEW c, NextChannel(c), Top.at # "exit", Top.num \in TimerSources,
             UNCHANGED <<ready, priority, threshold, claimed>>, MayStop("ext")
      PROVE  Unwinding'
  <2> DEFINE f == Looping(Top.stat \ {c})
  <2>1. Moved(f) /\ f.at = "loop"
    BY <1>1, <1>4, LoopsOn
  <2> HIDE DEF f
  <2>2. QED
    BY <1>3, <1>4, <2>1, SourceTypes
<1>5. UNCHANGED <<mie, asked>> => MayStop("ext")
  BY DEF MayStop
<1>6. CASE ReadIntrStat
  <2> DEFINE f == Looping(raised)
  <2>1. /\ stack # <<>> /\ Top.at = "scan"
        /\ UNCHANGED <<ready, priority, threshold, claimed, mie, asked>>
        /\ stack' = Append(Below, [Top EXCEPT !.at = "loop", !.stat = raised])
    BY <1>6 DEF ReadIntrStat, At, plic, clint
  <2>2. Top.num \in TimerSources
    BY <1>2, <2>1
  <2>3. Moved(f) /\ f.at = "loop"
    BY <1>1, <2>1, Loops DEF TypeOK
  <2> HIDE DEF f
  <2>4. QED
    BY <1>3, <1>5, <2>1, <2>2, <2>3, SourceTypes
<1>7. ASSUME NEW at \in {"user", "complete"}, stack # <<>>, GoTo(at), Top.at # "exit", Top.num \in Source,
             UNCHANGED <<ready, priority, threshold, claimed>>, MayStop("ext")
      PROVE  Unwinding'
  <2> DEFINE f == Going(at)
  <2>1. Moved(f) /\ f.at = at
    BY <1>1, <1>7, Goes
  <2> HIDE DEF f
  <2>2. QED
    BY <1>3, <1>7, <2>1
<1>8. CASE CallChannel
  <2>1. /\ stack # <<>> /\ Top.at = "loop" /\ GoTo("user")
        /\ UNCHANGED <<ready, priority, threshold, claimed, mie, asked>>
    BY <1>8 DEF CallChannel, At, plic, clint
  <2>2. Top.num \in Source
    BY <1>2, <2>1, SourceTypes
  <2>3. QED
    BY <1>5, <1>7, <2>1, <2>2
<1>9. CASE SkipChannel
  <2>1. /\ stack # <<>> /\ Top.at = "loop" /\ NextChannel(Min(Top.stat))
        /\ UNCHANGED <<ready, priority, threshold, claimed, mie, asked>>
    BY <1>9 DEF SkipChannel, At, plic, clint
  <2>2. QED
    BY <1>2, <1>4, <1>5, <2>1
<1>10. CASE LoopDone
  <2>1. /\ stack # <<>> /\ Top.at = "loop" /\ GoTo("complete")
        /\ UNCHANGED <<ready, priority, threshold, claimed, mie, asked>>
    BY <1>10 DEF LoopDone, At, plic, clint
  <2>2. Top.num \in Source
    BY <1>2, <2>1, SourceTypes
  <2>3. QED
    BY <1>5, <1>7, <2>1, <2>2
<1>11. CASE ChannelReturns
  <2>1. /\ stack # <<>> /\ Top.at = "user" /\ Top.num \in TimerSources
        /\ NextChannel(Min(Top.stat)) /\ MayStop("ext")
        /\ UNCHANGED <<ready, priority, threshold, claimed>>
    BY <1>11 DEF ChannelReturns, At, plic, TimerSources
  <2>2. QED
    BY <1>4, <2>1
<1>12. CASE OtherReturns
  <2>1. /\ stack # <<>> /\ Top.at = "user" /\ Top.num \in Others
        /\ GoTo("complete") /\ MayStop("ext")
        /\ UNCHANGED <<ready, priority, threshold, claimed>>
    BY <1>12 DEF OtherReturns, At, plic
  <2>2. QED
    BY <1>7, <2>1, SourceTypes
<1>13. CASE ClintReturns
  <2> DEFINE f == Going("exit")
  <2>1. /\ stack # <<>> /\ Top.num = NoSource /\ GoTo("exit") /\ MayStop(Top.cause)
        /\ UNCHANGED <<ready, priority, threshold, claimed>>
    BY <1>13 DEF ClintReturns, At, plic
  <2>2. Moved(f) /\ f.at = "exit"
    BY <1>1, <2>1, Goes
  <2> HIDE DEF f
  <2>3. Top.cause # "ext"
    BY <1>2, <2>1, SourceTypes
  <2>4. (claimed = InService)'
    BY <1>1, <2>1, <2>2, <2>3, ServiceMoved DEF Unwinding
  <2>5. QED
    BY <2>1, <2>2, <2>4, MovesKeep
<1>14. CASE Complete
  <2> DEFINE f == Going("exit")
  <2>1. /\ stack # <<>> /\ Top.at = "complete" /\ GoTo("exit") /\ claimed' = claimed \ {Top.num}
        /\ UNCHANGED <<ready, priority, threshold, mie, asked>>
    BY <1>14 DEF Complete, Completed, At, clint
  <2>2. Moved(f) /\ f.at = "exit"
    BY <1>1, <2>1, Goes
  <2> HIDE DEF f
  <2>3. Top.cause = "ext"
    BY <1>2, <2>1
  <2>4. (claimed = InService)'
    BY <1>1, <2>1, <2>2, <2>3, ServiceMoved DEF Unwinding
  <2>5. MayStop(Top.cause)
    BY <1>5, <2>1, <2>3
  <2>6. QED
    BY <2>1, <2>2, <2>4, <2>5, MovesKeep
<1>15. QED
  BY <1>6, <1>8, <1>9, <1>10, <1>11, <1>12, <1>13, <1>14, ExitsKeep DEF Handler

LEMMA StepInvariant == IInv /\ [Next]_vars => IInv'
<1> SUFFICES ASSUME IInv, [Next]_vars
             PROVE  IInv'
  OBVIOUS
<1>1. TypeOK'
  BY TypeInvariance DEF IInv
<1>2. CASE UNCHANGED vars
  <2>1. UNCHANGED <<ready, priority, threshold, claimed, mie, asked, stack>>
    BY <1>2 DEF vars, plic, clint
  <2>2. QED
    BY <1>1, <2>1, QuietKeeps DEF IInv
<1>3. CASE Next
  BY <1>1, <1>3, DevicesKeep, ThreadKeeps, EntriesKeep, HandlersKeep DEF Next, IInv
<1>4. QED
  BY <1>2, <1>3

-----------------------------------------------------------------------------
(***************************************************************************)
(* Handlers nest and unwind                                                *)
(***************************************************************************)

\* The invariant holds of every behaviour: crt.S, handle_irq_m_ext and the handlers of
\* the core's own two interrupts, in any order and at any depth.
THEOREM InterruptsInvariance == Spec => []IInv
<1>1. Init => IInv
  BY InitInvariant
<1>2. IInv /\ [Next]_vars => IInv'
  BY StepInvariant
<1>3. QED
  BY <1>1, <1>2, PTL DEF Spec

\* The variables keep their types.
THEOREM InterruptsTypes == Spec => []TypeOK
<1>1. IInv => TypeOK
  BY DEF IInv
<1>2. QED
  BY <1>1, InterruptsInvariance, PTL

\* Handlers nest by priority only, whatever the priorities and the callbacks.
THEOREM HandlersNest == Spec => []NestsByPriority
<1>1. IInv => NestsByPriority
  <2> SUFFICES ASSUME IInv, NEW i \in DOMAIN stack, NEW j \in DOMAIN stack,
                      i < j, stack[i].cause = stack[j].cause
               PROVE  /\ stack[i].cause = "ext"
                      /\ priority[stack[i].num] < priority[stack[j].num]
    BY DEF NestsByPriority
  <2>1. TypeOK /\ Framed /\ Nested /\ Masked
    BY DEF IInv, Unwinding
  <2>2. IsExt(j)
    BY <2>1, OwnNest
  <2>3. IsExt(i)
    BY <2>2 DEF IsExt
  <2>4. QED
    BY <2>1, <2>2, <2>3, ExternalNest DEF IsExt
<1>2. QED
  BY <1>1, InterruptsInvariance, PTL

\* However the handlers nest, they unwind: the threshold, the claims and the enable bits
\* are at every depth what they should be.  Only of callbacks that switch the core's own
\* interrupts off where that lasts.
THEOREM HandlersUnwind == StopsLast => (Spec => []Unwound)
<1> SUFFICES ASSUME StopsLast PROVE Spec => []Unwound
  OBVIOUS
<1>1. IInv => Unwound
  <2> SUFFICES ASSUME IInv PROVE Unwound
    OBVIOUS
  <2>1. TypeOK /\ Nested /\ claimed = InService /\ Restored
    BY DEF IInv, Unwinding
  <2>2. PICK n \in Nat : n = Len(stack) /\ DOMAIN stack = 1 .. n
    BY <2>1, Frames
  <2>3. n + 1 \in Levels /\ 1 .. (n + 1) - 1 = 1 .. n /\ Found(n + 1) = threshold
    BY <2>2 DEF Levels, Found
  <2>4. FoundRight(n + 1)
    BY <2>1, <2>3 DEF Nested
  <2>5. External = {} => threshold = 0
    BY <2>2, <2>3, <2>4 DEF FoundRight, External, IsExt
  <2>6. ASSUME NEW i \in External, \A j \in External : j <= i
        PROVE  threshold = priority[stack[i].num]
    <3>1. i \in 1 .. n /\ IsExt(i)
      BY <2>2 DEF External, IsExt
    <3>2. ASSUME NEW k \in i + 1 .. (n + 1) - 1 PROVE ~IsExt(k)
      <4>1. k \in 1 .. n /\ ~(k <= i)
        BY <3>1
      <4>2. QED
        BY <2>2, <2>6, <4>1 DEF External, IsExt
    <3>3. QED
      BY <2>3, <2>4, <3>1, <3>2 DEF FoundRight
  <2>7. ready /\ stack = <<>> => mie = asked
    BY <2>1 DEF Restored
  <2>8. QED
    BY <2>1, <2>5, <2>6, <2>7 DEF Unwound, InService
<1>2. QED
  BY <1>1, InterruptsInvariance, PTL

-----------------------------------------------------------------------------
(***************************************************************************)
(* Callbacks are for an expiry                                             *)
(***************************************************************************)

LEMMA MinIsIn ==
    ASSUME NEW S \in SUBSET Channels, S # {}
    PROVE  Min(S) \in S
<1>1. S \subseteq 0 .. 3
  BY InterruptsAssumption
<1>2. \E x \in S : \A y \in S : x <= y
  <2>1. \A x \in S : x = 0 \/ x = 1 \/ x = 2 \/ x = 3
    BY <1>1
  <2>2. QED
    BY <2>1
<1>3. QED
  BY <1>2 DEF Min

\* The timer has the stack once only.
LEMMA OneTimer ==
    ASSUME IInv, Prioritised, OnePriority, NEW i \in DOMAIN stack, NEW j \in DOMAIN stack,
           stack[i].num \in TimerSources, stack[j].num \in TimerSources
    PROVE  i = j
<1>1. TypeOK /\ Framed /\ Nested
  BY DEF IInv, Unwinding
<1>2. PICK n \in Nat : n = Len(stack) /\ DOMAIN stack = 1 .. n
  BY <1>1, Frames
<1>3. ASSUME NEW k \in DOMAIN stack, stack[k].num \in TimerSources
      PROVE  IsExt(k) /\ priority[stack[k].num] = Priority[TimerA]
  <2>1. IsExt(k)
    BY <1>1, <1>3, SourceTypes DEF Framed, IsExt
  <2>2. stack[k].threshold < priority[stack[k].num]
    BY <1>1, <2>1 DEF Nested
  <2>3. stack[k].threshold \in Nat
    BY <1>1, <1>2, Frames
  <2>4. priority[stack[k].num] \in {0, Priority[stack[k].num]}
    BY <1>3, SourceTypes DEF Prioritised
  <2>5. Priority[stack[k].num] = Priority[TimerA]
    BY <1>3 DEF OnePriority, TimerSources
  <2>6. priority[stack[k].num] # 0
    BY <2>2, <2>3
  <2>7. QED
    BY <2>1, <2>4, <2>5, <2>6
<1>4. ASSUME NEW k \in DOMAIN stack, NEW l \in DOMAIN stack, k < l,
             stack[k].num \in TimerSources, stack[l].num \in TimerSources
      PROVE  FALSE
  <2>1. priority[stack[k].num] < priority[stack[l].num]
    BY <1>1, <1>3, <1>4, ExternalNest
  <2>2. priority[stack[k].num] = Priority[TimerA] /\ priority[stack[l].num] = Priority[TimerA]
    BY <1>3, <1>4
  <2>3. Priority[TimerA] \in Nat
    BY SourceTypes
  <2>4. QED
    BY <2>1, <2>2, <2>3
<1>5. i < j \/ j < i \/ i = j
  BY <1>2
<1>6. QED
  BY <1>4, <1>5

LEMMA PrioritiesKept ==
    ASSUME TypeOK, Prioritised, [Next]_vars
    PROVE  Prioritised'
<1>1. ASSUME UNCHANGED priority PROVE Prioritised'
  BY <1>1 DEF Prioritised
<1>2. ASSUME NEW s \in Source, priority' = [priority EXCEPT ![s] = Priority[s]]
      PROVE  Prioritised'
  BY <1>2 DEF Prioritised, TypeOK
<1>3. CASE PlicInit
  BY <1>3 DEF PlicInit, Prioritised
<1>4. CASE \E s \in Others : PlicIrqEnable(s)
  BY <1>2, <1>4, SourceTypes DEF PlicIrqEnable
<1>5. CASE \E c \in Channels : \E kind \in {"periodic", "single_shot"} : TimerIrqRegister(c, kind)
  BY <1>2, <1>5, SourceTypes DEF TimerIrqRegister
<1>6. CASE Thread
  <2>1. UNCHANGED priority \/ PlicInit \/ (\E s \in Others : PlicIrqEnable(s))
        \/ \E c \in Channels : \E kind \in {"periodic", "single_shot"} : TimerIrqRegister(c, kind)
    BY <1>6 DEF Thread, PlicIrqDisable, TimerIrqRoute, TimerIrqUnregister, TimerSetEnable,
                ClintTimerStart, ClintIpiEnable, ClintStop, plic
  <2>2. QED
    BY <1>1, <1>3, <1>4, <1>5, <2>1
<1>7. CASE ~Thread
  <2>1. ASSUME UNCHANGED vars PROVE UNCHANGED priority
    BY <2>1 DEF vars, plic
  <2>2. ASSUME Devices \/ \E s \in Source : Gateway(s) PROVE UNCHANGED priority
    BY <2>2 DEF Devices, Expire, OtherRaises, TimeUp, IpiSent, Gateway, plic
  <2>3. ASSUME EnterExt \/ EnterTimer \/ EnterSoft PROVE UNCHANGED priority
    BY <2>3 DEF EnterExt, EnterTimer, EnterSoft, plic
  <2>4. ASSUME Handler PROVE UNCHANGED priority
    BY <2>4 DEF Handler, ReadIntrStat, CallChannel, SkipChannel, LoopDone, ChannelReturns,
                OtherReturns, ClintReturns, Complete, ExitExt, ExitTimer, ExitSoft, plic
  <2>5. UNCHANGED priority
    BY <1>7, <2>1, <2>2, <2>3, <2>4 DEF Next
  <2>6. QED
    BY <1>1, <2>5
<1>8. QED
  BY <1>6, <1>7

\* The two parts, of the handlers that go on or come in.
LEMMA ScannedKept ==
    ASSUME Scanned, raised \subseteq raised',
           \A i \in (DOMAIN stack)' :
               \/ i \in DOMAIN stack /\ stack'[i] = stack[i]
               \/ stack'[i].num \notin TimerSources
               \/ stack'[i].at \notin {"loop", "user"}
    PROVE  Scanned'
<1> SUFFICES ASSUME NEW i \in (DOMAIN stack)', stack'[i].num \in TimerSources,
                    stack'[i].at \in {"loop", "user"}
             PROVE  /\ stack'[i].stat \subseteq raised'
                    /\ stack'[i].at = "user" => stack'[i].stat # {}
  BY DEF Scanned
<1>1. i \in DOMAIN stack /\ stack'[i] = stack[i]
  OBVIOUS
<1>2. QED
  BY <1>1 DEF Scanned

LEMMA OwingKept ==
    ASSUME Owing, raised' \ owed' \subseteq raised \ owed,
           \A i \in DOMAIN stack :
               \/ i \in (DOMAIN stack)' /\ stack'[i] = stack[i]
               \/ stack[i].at # "user"
    PROVE  Owing'
<1> SUFFICES ASSUME NEW c \in raised' \ owed'
             PROVE  \E i \in (DOMAIN stack)' :
                        /\ stack'[i].num \in TimerSources
                        /\ stack'[i].at = "user"
                        /\ c = Min(stack'[i].stat)
  BY DEF Owing
<1>1. PICK i \in DOMAIN stack :
          stack[i].num \in TimerSources /\ stack[i].at = "user" /\ c = Min(stack[i].stat)
  BY DEF Owing
<1>2. i \in (DOMAIN stack)' /\ stack'[i] = stack[i]
  BY <1>1
<1>3. QED
  BY <1>1, <1>2

LEMMA ScannedMoved ==
    ASSUME IInv, Prioritised, OnePriority, Scanned, NEW f, Moved(f),
           raised \subseteq raised' \/ Top.num \in TimerSources,
           f.num \in TimerSources /\ f.at \in {"loop", "user"} =>
               f.stat \subseteq raised' /\ (f.at = "user" => f.stat # {})
    PROVE  Scanned'
<1>1. TypeOK
  BY DEF IInv
<1>2. PICK n \in Nat \ {0} : n = Len(stack) /\ DOMAIN stack = 1 .. n
  BY <1>1, Frames DEF Moved
<1>3. /\ (DOMAIN stack)' = 1 .. n /\ Top = stack[n] /\ stack'[n] = f
      /\ \A i \in 1 .. n - 1 : stack'[i] = stack[i]
  BY <1>2 DEF Moved, Top
<1>4. \A i \in 1 .. n : i = n \/ i \in 1 .. n - 1
  OBVIOUS
<1>5. ASSUME NEW i \in 1 .. n - 1, stack[i].num \in TimerSources, stack[i].at \in {"loop", "user"}
      PROVE  stack[i].stat \subseteq raised' /\ (stack[i].at = "user" => stack[i].stat # {})
  <2>1. i \in DOMAIN stack /\ n \in DOMAIN stack /\ i # n
    BY <1>2
  <2>2. Top.num \notin TimerSources
    BY <1>3, <1>5, <2>1, OneTimer
  <2>3. QED
    BY <1>5, <2>1, <2>2 DEF Scanned
<1>6. QED
  BY <1>3, <1>4, <1>5 DEF Scanned

LEMMA OwingMoved ==
    ASSUME TypeOK, Owing, NEW f, Moved(f), raised' \subseteq raised,
           \A c \in raised' \ owed' :
               \/ c \notin owed /\ ~(Top.num \in TimerSources /\ Top.at = "user" /\ c = Min(Top.stat))
               \/ f.num \in TimerSources /\ f.at = "user" /\ c = Min(f.stat)
    PROVE  Owing'
<1>1. PICK n \in Nat \ {0} : n = Len(stack) /\ DOMAIN stack = 1 .. n
  BY Frames DEF Moved
<1>2. /\ (DOMAIN stack)' = 1 .. n /\ Top = stack[n] /\ stack'[n] = f
      /\ \A i \in 1 .. n - 1 : stack'[i] = stack[i]
  BY <1>1 DEF Moved, Top
<1>3. n \in 1 .. n /\ \A i \in 1 .. n : i = n \/ i \in 1 .. n - 1
  OBVIOUS
<1> SUFFICES ASSUME NEW c \in raised' \ owed'
             PROVE  \E i \in (DOMAIN stack)' :
                        /\ stack'[i].num \in TimerSources
                        /\ stack'[i].at = "user"
                        /\ c = Min(stack'[i].stat)
  BY DEF Owing
<1>4. CASE f.num \in TimerSources /\ f.at = "user" /\ c = Min(f.stat)
  BY <1>2, <1>3, <1>4
<1>5. CASE c \notin owed /\ ~(Top.num \in TimerSources /\ Top.at = "user" /\ c = Min(Top.stat))
  <2>1. PICK i \in DOMAIN stack :
            stack[i].num \in TimerSources /\ stack[i].at = "user" /\ c = Min(stack[i].stat)
    BY <1>5 DEF Owing
  <2>2. i \in 1 .. n - 1
    BY <1>1, <1>2, <1>3, <1>5, <2>1
  <2>3. QED
    BY <1>1, <1>2, <2>1, <2>2
<1>6. QED
  BY <1>4, <1>5

LEMMA OwedByHandlers ==
    ASSUME IInv, Prioritised, OnePriority, Scanned, Owing, Handler
    PROVE  Scanned' /\ Owing'
<1>1. TypeOK /\ Framed
  BY DEF IInv, Unwinding
<1>2. ASSUME stack # <<>>
      PROVE  /\ Top.at \in {"scan", "loop"} => Top.num \in TimerSources
             /\ Top.num \in TimerSources /\ Top.at \in {"loop", "user"} =>
                    Top.stat \subseteq raised /\ (Top.at = "user" => Top.stat # {})
             /\ Top.stat \subseteq Channels
  <2>1. Len(stack) \in DOMAIN stack
    BY <1>1, <1>2, Frames
  <2>2. QED
    BY <1>1, <1>2, <2>1, TopIsFrame DEF Framed, Scanned, Top, Frame
<1>3. ASSUME stack # <<>>, NEW at \in {"complete", "exit"}, GoTo(at), UNCHANGED <<raised, owed>>,
             Top.at # "user" \/ Top.num \notin TimerSources
      PROVE  Scanned' /\ Owing'
  <2> DEFINE f == Going(at)
  <2>1. Moved(f) /\ f.at = at
    BY <1>1, <1>3, Goes
  <2> HIDE DEF f
  <2>2. Scanned'
    BY <1>3, <2>1, ScannedMoved
  <2>3. Owing'
    BY <1>1, <1>3, <2>1, OwingMoved
  <2>4. QED
    BY <2>2, <2>3
<1>4. ASSUME stack # <<>>, Top.num \in TimerSources, Top.at \in {"loop", "user"}, Top.stat # {},
             NextChannel(Min(Top.stat)), UNCHANGED owed
      PROVE  Scanned' /\ Owing'
  <2> DEFINE c == Min(Top.stat)
             f == Looping(Top.stat \ {c})
  <2>1. Moved(f) /\ f.at = "loop" /\ f.stat = Top.stat \ {c}
    BY <1>1, <1>4, LoopsOn
  <2>2. raised' = raised \ {c}
    BY <1>4 DEF NextChannel, Eoi
  <2> HIDE DEF f
  <2>3. Scanned'
    <3>1. f.stat \subseteq raised'
      BY <1>2, <1>4, <2>1, <2>2
    <3>2. QED
      BY <1>4, <2>1, <3>1, ScannedMoved
  <2>4. Owing'
    BY <1>1, <1>4, <2>1, <2>2, OwingMoved
  <2>5. QED
    BY <2>3, <2>4
<1>5. CASE ReadIntrStat
  <2> DEFINE f == Looping(raised)
  <2>1. /\ stack # <<>> /\ Top.at = "scan" /\ UNCHANGED <<raised, owed>>
        /\ stack' = Append(Below, [Top EXCEPT !.at = "loop", !.stat = raised])
    BY <1>5 DEF ReadIntrStat, At, timers
  <2>2. Moved(f) /\ f.at = "loop" /\ f.stat = raised
    BY <1>1, <2>1, Loops DEF TypeOK
  <2> HIDE DEF f
  <2>3. Scanned'
    BY <2>1, <2>2, ScannedMoved
  <2>4. Owing'
    BY <1>1, <2>1, <2>2, OwingMoved
  <2>5. QED
    BY <2>3, <2>4
<1>6. CASE CallChannel
  <2> DEFINE f == Going("user")
  <2>1. /\ stack # <<>> /\ Top.at = "loop" /\ GoTo("user") /\ Top.stat # {}
        /\ UNCHANGED raised /\ owed' = owed \ {Min(Top.stat)}
    BY <1>6 DEF CallChannel, At, timers
  <2>2. Moved(f) /\ f.at = "user" /\ f.stat = Top.stat
    BY <1>1, <2>1, Goes
  <2>3. Top.num \in TimerSources /\ Top.stat \subseteq raised /\ f.num = Top.num
    BY <1>2, <2>1, <2>2 DEF Moved
  <2> HIDE DEF f
  <2>4. Scanned'
    BY <2>1, <2>2, <2>3, ScannedMoved
  <2>5. Owing'
    BY <1>1, <2>1, <2>2, <2>3, OwingMoved
  <2>6. QED
    BY <2>4, <2>5
<1>7. CASE SkipChannel
  <2>1. /\ stack # <<>> /\ Top.at = "loop" /\ Top.stat # {} /\ NextChannel(Min(Top.stat))
        /\ UNCHANGED owed
    BY <1>7 DEF SkipChannel, At
  <2>2. QED
    BY <1>2, <1>4, <2>1
<1>8. CASE LoopDone
  BY <1>3, <1>8 DEF LoopDone, At, timers
<1>9. CASE ChannelReturns
  <2>1. /\ stack # <<>> /\ Top.at = "user" /\ Top.num \in TimerSources
        /\ NextChannel(Min(Top.stat)) /\ UNCHANGED owed
    BY <1>9 DEF ChannelReturns, At, TimerSources
  <2>2. Top.stat # {}
    BY <1>2, <2>1
  <2>3. QED
    BY <1>4, <2>1, <2>2
<1>10. CASE OtherReturns
  <2>1. /\ stack # <<>> /\ Top.num \in Others /\ GoTo("complete") /\ UNCHANGED <<raised, owed>>
    BY <1>10 DEF OtherReturns, At, timers
  <2>2. QED
    BY <1>3, <2>1, SourceTypes
<1>11. CASE ClintReturns
  <2>1. /\ stack # <<>> /\ Top.num = NoSource /\ GoTo("exit") /\ UNCHANGED <<raised, owed>>
    BY <1>11 DEF ClintReturns, At, timers
  <2>2. QED
    BY <1>3, <2>1, SourceTypes
<1>12. CASE Complete
  BY <1>3, <1>12 DEF Complete, At, timers
<1>13. CASE ExitExt \/ ExitTimer \/ ExitSoft
  <2>1. stack # <<>> /\ Top.at = "exit" /\ stack' = Below /\ UNCHANGED <<raised, owed>>
    BY <1>13 DEF ExitExt, ExitTimer, ExitSoft, At, timers
  <2>2. PICK n \in Nat \ {0} : n = Len(stack) /\ DOMAIN stack = 1 .. n
    BY <1>1, <2>1, Frames
  <2>3. /\ (DOMAIN stack)' = 1 .. n - 1 /\ stack[n].at = "exit"
        /\ \A i \in 1 .. n - 1 : stack'[i] = stack[i]
    BY <1>1, <2>1, <2>2, PopShrinks DEF Shrunk, Top
  <2>4. Scanned'
    BY <2>1, <2>2, <2>3, ScannedKept
  <2>5. Owing'
    BY <2>1, <2>2, <2>3, OwingKept
  <2>6. QED
    BY <2>4, <2>5
<1>14. QED
  BY <1>5, <1>6, <1>7, <1>8, <1>9, <1>10, <1>11, <1>12, <1>13 DEF Handler

LEMMA OwedByOthers ==
    ASSUME IInv, Prioritised, OnePriority, Scanned, Owing,
           \/ UNCHANGED vars \/ Thread \/ Devices \/ (\E s \in Source : Gateway(s))
           \/ EnterExt \/ EnterTimer \/ EnterSoft
    PROVE  Scanned' /\ Owing'
<1>1. TypeOK
  BY DEF IInv
<1>2. CASE UNCHANGED vars \/ Thread \/ Devices \/ \E s \in Source : Gateway(s)
  <2>1. UNCHANGED stack
    BY <1>2 DEF vars, Devices, Expire, OtherRaises, TimeUp, IpiSent, Gateway, Thread, PlicInit,
                PlicIrqEnable, PlicIrqDisable, TimerIrqRegister, TimerIrqRoute,
                TimerIrqUnregister, TimerSetEnable, ClintTimerStart, ClintIpiEnable, ClintStop
  <2>2. raised \subseteq raised' /\ raised' \ owed' \subseteq raised \ owed
    <3>1. CASE UNCHANGED vars \/ Thread
      BY <3>1 DEF vars, Thread, PlicInit,
                PlicIrqEnable, PlicIrqDisable, TimerIrqRegister, TimerIrqRoute,
                TimerIrqUnregister, TimerSetEnable, ClintTimerStart, ClintIpiEnable, ClintStop,
                timers
    <3>2. CASE Devices \/ \E s \in Source : Gateway(s)
      BY <3>2 DEF Devices, Expire, OtherRaises, TimeUp, IpiSent, Gateway, timers
    <3>3. QED
      BY <1>2, <3>1, <3>2
  <2>3. QED
    BY <2>1, <2>2, ScannedKept, OwingKept
<1>3. ASSUME NEW cause \in Cause, NEW at \in {"scan", "user", "complete"},
             NEW num \in Source \cup {NoSource}, Push(cause, at, num), UNCHANGED <<raised, owed>>,
             num \in TimerSources => at # "user"
      PROVE  Scanned' /\ Owing'
  <2> DEFINE f == Entering(cause, at, num)
  <2>1. Grown(f)
    BY <1>1, <1>3, Pushes
  <2>2. f.num = num /\ f.at = at
    BY DEF Entering
  <2> HIDE DEF f
  <2>3. PICK n \in Nat : n = Len(stack) /\ DOMAIN stack = 1 .. n
    BY <1>1, Frames
  <2>4. /\ (DOMAIN stack)' = 1 .. n + 1 /\ stack'[n + 1] = f
        /\ \A i \in 1 .. n : i \in 1 .. n + 1 /\ stack'[i] = stack[i]
        /\ \A i \in 1 .. n + 1 : i \in 1 .. n \/ i = n + 1
    BY <2>1, <2>3 DEF Grown
  <2>5. Scanned'
    BY <1>3, <2>2, <2>3, <2>4, ScannedKept
  <2>6. Owing'
    BY <1>3, <2>3, <2>4, OwingKept
  <2>7. QED
    BY <2>5, <2>6
<1>4. CASE EnterExt
  <2>1. PICK s \in Source : Push("ext", Callback(s), s)
    BY <1>4 DEF EnterExt
  <2>2. Callback(s) \in {"scan", "user", "complete"} /\ (s \in TimerSources => Callback(s) # "user")
    BY DEF Callback, TimerSources
  <2>3. QED
    BY <1>3, <1>4, <2>1, <2>2 DEF EnterExt, timers, Cause
<1>5. CASE EnterTimer
  BY <1>3, <1>5, SourceTypes DEF EnterTimer, timers, Cause
<1>6. CASE EnterSoft
  BY <1>3, <1>6, SourceTypes DEF EnterSoft, timers, Cause
<1>7. QED
  BY <1>2, <1>4, <1>5, <1>6

\* The callback of a channel is called only for an expiry that it was not called for, if
\* the two interrupts of the timer have one priority: plic_set_priority(irq, priority) of
\* timer_irq_register is given that of the last channel to register.
THEOREM CallbacksAreOwed == OnePriority => (Spec => []CallsAreOwed)
<1> SUFFICES ASSUME OnePriority PROVE Spec => []CallsAreOwed
  OBVIOUS
<1>1. Init => OInv
  <2> SUFFICES ASSUME Init PROVE OInv
    OBVIOUS
  <2>1. DOMAIN stack = {} /\ raised = {} /\ \A s \in Source : priority[s] = 0
    BY DEF Init
  <2>2. QED
    BY <2>1, InitInvariant DEF OInv, Prioritised, Scanned, Owing
<1>2. OInv /\ [Next]_vars => OInv'
  <2> SUFFICES ASSUME OInv, [Next]_vars PROVE OInv'
    OBVIOUS
  <2>1. IInv /\ Prioritised /\ Scanned /\ Owing /\ TypeOK
    BY DEF OInv, IInv
  <2>2. Scanned' /\ Owing'
    BY <2>1, OwedByHandlers, OwedByOthers DEF Next
  <2>3. QED
    BY <2>1, <2>2, StepInvariant, PrioritiesKept DEF OInv, OnePriority
<1>3. OInv => CallsAreOwed
  <2> DEFINE c == Min(Top.stat)
  <2> SUFFICES ASSUME OInv, At("loop"), Top.stat # {} PROVE c \in owed
    BY DEF CallsAreOwed
  <2>1. IInv /\ Prioritised /\ Scanned /\ Owing /\ TypeOK /\ Framed
    BY DEF OInv, IInv, Unwinding
  <2>2. PICK n \in Nat \ {0} : n = Len(stack) /\ DOMAIN stack = 1 .. n /\ Top = stack[n]
    BY <2>1, Frames DEF At, Top
  <2>3. n \in DOMAIN stack /\ Top.at = "loop" /\ Top.stat \subseteq Channels
    BY <2>1, <2>2, Frames DEF At
  <2>4. Top.num \in TimerSources /\ Top.stat \subseteq raised
    BY <2>1, <2>2, <2>3 DEF Framed, Scanned
  <2>5. c \in raised
    BY <2>3, <2>4, MinIsIn
  <2> HIDE DEF c
  <2>6. ASSUME c \notin owed PROVE FALSE
    <3>1. PICK i \in DOMAIN stack : stack[i].num \in TimerSources /\ stack[i].at = "user"
      BY <2>1, <2>5, <2>6 DEF Owing
    <3>2. i = n
      BY <2>1, <2>2, <2>3, <2>4, <3>1, OneTimer
    <3>3. QED
      BY <2>2, <2>3, <3>1, <3>2
  <2>7. QED
    BY <2>6
<1>4. QED
  BY <1>1, <1>2, <1>3, PTL DEF Spec

=============================================================================
