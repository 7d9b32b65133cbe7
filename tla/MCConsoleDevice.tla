-------------------------- MODULE MCConsoleDevice --------------------------
EXTENDS ConsoleDevice

CONSTANTS t1, t2, r1, r2

\* The first task owns r1, the second r2 if there is one.
OwnersOf == [r \in Requests |-> IF r = r2 /\ t2 \in Tasks THEN t2 ELSE t1]

\* r1 reads more than one character at a time.
Lengths == [r \in Requests |-> IF r = r1 THEN 2 ELSE 1]

\* What waitio.c:25 says of a reply ("it doesn't wait but just removes the message") takes
\* it to be on the reply port.  Not so where a task may run while the console task is inside
\* ReplyMsg() (Below = FALSE); no run checks it, StrayOnlyInWindow says when it fails.
NoStrayRemove == strays = {}
=============================================================================
