----------------------------- MODULE FreeStore -----------------------------
(***************************************************************************)
(* What a memory allocator promises, without lists of chunks and indexes:  *)
(* a request is granted somewhere where nothing is, and refused only if    *)
(* there is no such place.                                                 *)
(***************************************************************************)
EXTENDS Integers

CONSTANTS Clients,    \* who asks
          Cells,      \* the numbers of the cells of memory
          MaxRequest  \* the largest number of cells asked for

VARIABLES
  taken,   \* the intervals of cells in use
  request  \* how many cells a client is asking for, 0 for none

vars == <<taken, request>>

Init == taken = {} /\ request = [t \in Clients |-> 0]

Interval(c, n) == c .. c + n - 1

Unused == Cells \ UNION taken

\* Where n cells are free.
Room(n) == {c \in Cells : Interval(c, n) \subseteq Unused}

Ask(t) ==
  /\ request[t] = 0
  /\ \E n \in 1 .. MaxRequest : request' = [request EXCEPT ![t] = n]
  /\ UNCHANGED taken

Grant(t) ==
  /\ request[t] > 0
  /\ \E c \in Room(request[t]) : taken' = taken \cup {Interval(c, request[t])}
  /\ request' = [request EXCEPT ![t] = 0]

Refuse(t) ==
  /\ request[t] > 0 /\ Room(request[t]) = {}
  /\ request' = [request EXCEPT ![t] = 0]
  /\ UNCHANGED taken

\* A client takes cells it knows to be free.
Take ==
  /\ \E c, d \in Unused : c <= d /\ taken' = taken \cup {c .. d} /\ c .. d \subseteq Unused
  /\ UNCHANGED request

GiveBack ==
  /\ \E p \in taken : taken' = taken \ {p}
  /\ UNCHANGED request

Next == GiveBack \/ (\E t \in Clients : Ask(t) \/ Grant(t) \/ Refuse(t)) \/ Take

Spec == Init /\ [][Next]_vars
=============================================================================
