------------------------------- MODULE RWLock -------------------------------
(***************************************************************************)
(* What a signal semaphore promises, without the counters, signals and     *)
(* messages it is made of: a lock that its clients use together (shared)   *)
(* or on behalf of one user (exclusive).  Who may not come in at once goes *)
(* to the end of a line.  The last one to leave lets in the head of the    *)
(* line, together with everybody in the line who shares if the head does.  *)
(***************************************************************************)
EXTENDS Integers

CONSTANTS Clients,  \* who uses the lock
          Users,    \* on whose behalf
          Null

VARIABLES
  uses,   \* how often each client is inside
  alone,  \* the clients inside that came in to be there for one user only
  user,   \* the user the lock is reserved for, Null when idle or shared
  acts,   \* the user each client acts for; a client that is a user acts for itself
  line,   \* the clients in the line
  wants,  \* the user for which a client in the line asks, Null to share
  before  \* the order of the line

vars == <<uses, alone, user, acts, line, wants, before>>

Init ==
  /\ uses = [c \in Clients |-> 0]
  /\ alone = {} /\ user = Null
  /\ acts = [c \in Clients |-> IF c \in Users THEN c ELSE Null]
  /\ line = {} /\ before = {}
  /\ wants = [c \in Clients |-> Null]

Idle == \A c \in Clients : uses[c] = 0

\* Who may come in at once: anybody while the lock is idle, sharers while it is
\* shared, and nobody but the user it is reserved for, which may also share its own
\* use; a client that only acts for that user may not share it, but come in alone.
MayEnter(c, u, exclusive) ==
  \/ Idle
  \/ user = Null /\ ~exclusive
  \/ user = u /\ (exclusive \/ c \in Users)

\* c acts for u: it did before, or takes up with u while it has no business here.
ActsFor(c, u) ==
  /\ acts[c] = u \/ (c \notin Users /\ uses[c] = 0 /\ c \notin line)
  /\ acts' = [acts EXCEPT ![c] = u]

\* c takes up with a user for another lock.
Engage(c) ==
  /\ \E u \in Users : ActsFor(c, u)
  /\ UNCHANGED <<uses, alone, user, line, wants, before>>

\* c comes in for the user it acts for: alone, or to share.
Enter(c) ==
  /\ uses' = [uses EXCEPT ![c] = @ + 1]
  /\ \E u \in Users, exclusive \in BOOLEAN :
       /\ ActsFor(c, u) /\ MayEnter(c, u, exclusive)
       /\ user' = IF ~Idle THEN user ELSE IF exclusive THEN u ELSE Null
       /\ alone' = IF exclusive THEN alone \cup {c} ELSE alone
  /\ UNCHANGED <<line, wants, before>>

\* c may not come in at once, and waits.
Join(c) ==
  /\ c \notin line
  /\ line' = line \cup {c}
  /\ before' = before \cup (line \X {c})
  /\ \E u \in Users, exclusive \in BOOLEAN :
       /\ ActsFor(c, u) /\ ~MayEnter(c, u, exclusive)
       /\ wants' = [wants EXCEPT ![c] = IF exclusive THEN u ELSE Null]
  /\ UNCHANGED <<uses, alone, user>>

First == CHOOSE c \in line : \A d \in line : <<d, c>> \notin before

\* Who comes in when the lock becomes idle.
Admitted ==
  IF line = {} THEN {}
  ELSE IF wants[First] = Null THEN {c \in line : wants[c] = Null} ELSE {First}

OutOfLine(C) ==
  /\ line' = line \ C
  /\ wants' = [c \in Clients |-> IF c \in C THEN Null ELSE wants[c]]
  /\ before' = before \cap ((line \ C) \X (line \ C))

IsLast(c) == uses[c] = 1 /\ \A d \in Clients \ {c} : uses[d] = 0

\* c leaves, once.
Leave(c) ==
  /\ uses[c] > 0 /\ acts' = acts
  /\ \/ /\ ~IsLast(c)
        /\ uses' = [uses EXCEPT ![c] = @ - 1]
        /\ alone' = IF uses[c] = 1 THEN alone \ {c} ELSE alone
        /\ UNCHANGED <<user, line, wants, before>>
     \/ /\ IsLast(c)
        /\ uses' = [d \in Clients |-> IF d \in Admitted THEN 1 ELSE 0]
        /\ user' = IF line = {} THEN Null ELSE wants[First]
        /\ alone' = {d \in Admitted : wants[d] # Null}
        /\ OutOfLine(Admitted)

\* c no longer wants to come in.
Withdraw(c) ==
  /\ c \in line
  /\ OutOfLine({c})
  /\ UNCHANGED <<uses, alone, user, acts>>

Next == \E c \in Clients : Engage(c) \/ Enter(c) \/ Join(c) \/ Leave(c) \/ Withdraw(c)

Spec == Init /\ [][Next]_vars
=============================================================================
