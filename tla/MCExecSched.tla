---------------------------- MODULE MCExecSched ----------------------------
EXTENDS ExecSched

CONSTANTS t1, t2, t3

\* One task of the high priority, the boot task and any others of the low one.
OneHigh == [t \in Tasks |-> IF t = t2 THEN 1 ELSE 0]
=============================================================================
