--------------------------- MODULE MCTimerDevice ---------------------------
(* TLC instances of TimerDevice. *)
EXTENDS TimerDevice

CONSTANTS t1, t2, r1, r2

\* The second task owns r2, the first whatever else there is.
OwnersOf == [r \in Requests |-> IF r = r2 /\ t2 \in Tasks THEN t2 ELSE t1]
=============================================================================
