-------------------------- MODULE MCExecSemaphore --------------------------
(* TLC instances of ExecSemaphore. *)
EXTENDS ExecSemaphore, TLC

CONSTANTS s1, s2

TwoSems == <<s1, s2>>

\* The tasks are interchangeable in the safety runs.
TaskSymmetry == Permutations(Tasks)
=============================================================================
