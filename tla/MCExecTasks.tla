---------------------------- MODULE MCExecTasks ----------------------------
(* ExecTasks for TLC: constants. *)
EXTENDS ExecTasks

CONSTANTS t1, t2, t3

MCTasks == {t1, t2, t3}
MCNotify == {t2, t3}
MCSync == {t3}
=============================================================================
