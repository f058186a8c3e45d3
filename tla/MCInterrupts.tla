---------------------------- MODULE MCInterrupts ----------------------------
(***************************************************************************)
(* Three channels for Interrupts, two of which share an interrupt, and one *)
(* other device.                                                           *)
(***************************************************************************)
EXTENDS Interrupts

\* The two interrupts of the timer have one priority, the other device a higher one.
Priorities == [s \in {1, 2, 4} |-> IF s = 4 THEN 2 ELSE 1]

\* A callback may stop the core's timer when this was not its own doing.
StopsOfIpi == [ext |-> {}, timer |-> {}, soft |-> {"timer"}]
=============================================================================
