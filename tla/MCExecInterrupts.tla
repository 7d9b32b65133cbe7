------------------------ MODULE MCExecInterrupts ------------------------
(* Two software interrupts of the lowest priority and one of the highest. *)
EXTENDS ExecInterrupts

CONSTANTS a, b, c

Priorities == [i \in SoftInts |-> IF i = c THEN 32 ELSE -32]
=========================================================================
