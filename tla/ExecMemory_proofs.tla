------------------------- MODULE ExecMemory_proofs -------------------------
(***************************************************************************)
(* Proofs about AllocMem(), AllocAbs() and FreeMem(), for any tasks, sizes *)
(* and addresses, any handlers and priorities, and any region and unit.    *)
(*                                                                         *)
(* The allocator.  The inductive invariant HeapInv says that the chunks    *)
(* and the blocks share the memory out among them, address by address,     *)
(* that the list is in order and without two chunks that touch, and that   *)
(* the index names only what is on the list.  It says nothing of sequences *)
(* or units; that what the runs check follows is shown once, and so is     *)
(* that each step is one of FreeStore.                                     *)
(*                                                                         *)
(* The walk over the low-memory handlers.  It may stand on a handler that  *)
(* has been removed, whose links are those it had then.  The idea of IInv  *)
(* is a set of handlers that the links do not lead out of, which holds the *)
(* list and where the walk stands, and in which no link passes a handler   *)
(* the call is owed: who fails has asked all.  Handlers of one priority    *)
(* stand in the order in which they were added, by an age that IInv says   *)
(* exists; an added handler gets an age above all others.                  *)
(***************************************************************************)
EXTENDS ExecMemory, FiniteSetTheorems, WellFoundedInduction, TLAPS

(* The low-memory handlers. *)

\* x stands in front of the place of h, y behind it: by priority, and among equals by age.
Before(x, h, age) ==
  \/ x = ListHead
  \/ x \in Handlers /\ (Pri[x] > Pri[h] \/ (Pri[x] = Pri[h] /\ age[x] < age[h]))
Behind(y, h, age) ==
  \/ y = ListTail
  \/ y \in Handlers /\ (Pri[y] < Pri[h] \/ (Pri[y] = Pri[h] /\ age[y] > age[h]))

\* A link from x to y passes nobody of S.
NoGap(x, y, S, age) == \A h \in S : ~(Before(x, h, age) /\ Behind(y, h, age))

\* The list is linked and sorted.
ListInv(age) ==
  \A x \in listed \cup {ListHead} :
    /\ succ[x] \in listed \cup {ListTail}
    /\ x \in listed => Behind(succ[x], x, age)
    /\ NoGap(x, succ[x], listed, age)

\* The handlers that were ever added, no two at the same time, and all of them before now.
Added == {h \in Handlers : succ[h] # None}
AgesInv(age, now) ==
  /\ \A h \in Handlers : age[h] < now
  /\ \A x, y \in Added : age[x] = age[y] => x = y

\* The links of the handlers G, which are on the list or were removed during the call, lead t
\* past nobody it owes a question.
Leads(t, G, age) ==
  /\ listed \subseteq G /\ G \ listed \subseteq gone[t]
  /\ curNode[t] \in G \cup {ListTail}
  /\ \A x \in G : succ[x] \in G \cup {ListTail} /\ NoGap(x, succ[x], owed[t], age)
  /\ pc[t] = "handler" => upNext \in G \cup {ListTail} /\ NoGap(curNode[t], upNext, owed[t], age)

\* Whom the walk of t has passed is owed nothing.
WalkInv(t, age) ==
  /\ owed[t] \subseteq listed
  /\ \A h \in owed[t] : curNode[t] = h \/ Before(curNode[t], h, age)
  /\ pc[t] \in {"walk", "handler"} => lowMemSem = t
  /\ pc[t] = "handler" => curNode[t] \in Handlers
  /\ \E G \in SUBSET Handlers : Leads(t, G, age)

HandlersInv(age, now) ==
  /\ TypesKept /\ AgesInv(age, now) /\ ListInv(age)
  /\ \A t \in Tasks : pc[t] # "run" => WalkInv(t, age)

IInv == TypesKept /\ \E age \in [Handlers -> Nat], now \in Nat : HandlersInv(age, now)
-----------------------------------------------------------------------------
(* The parts of the state. *)

\* The types, which every action keeps.
LEMMA TypesStep ==
  ASSUME IInv, [Next]_vars
  PROVE  TypesKept'
<1> USE MemoryConstantsOK DEF TypesKept, Nodes
<1>0. TypesKept
  BY DEF IInv
<1>1. ASSUME NEW t \in Tasks, NEW n \in Sizes, NEW f \in Flags, AllocMem(t, n, f)
      PROVE  TypesKept'
  BY <1>0, <1>1 DEF AllocMem, listVars
<1>2. ASSUME NEW t \in Tasks, TryAlloc(t) PROVE TypesKept'
  BY <1>0, <1>2 DEF TryAlloc, Return, listVars
<1>3. ASSUME NEW t \in Tasks, LockHandlers(t) PROVE TypesKept'
  BY <1>0, <1>3 DEF LockHandlers
<1>4. ASSUME NEW t \in Tasks, WalkHandlers(t) PROVE TypesKept'
<2>1. curNode[t] \in Handlers \cup {ListTail}
  BY <1>0, <1>4 DEF WalkHandlers, WalkInv, Leads, IInv, HandlersInv
<2> QED
  BY <2>1, <1>0, <1>4 DEF WalkHandlers, Return
<1>5. ASSUME NEW t \in Tasks, TryAgain(t) PROVE TypesKept'
  BY <1>0, <1>5 DEF TryAgain, CurAfterRetry
<1>6. ASSUME NEW t \in Tasks, NothingToFree(t) PROVE TypesKept'
  BY <1>0, <1>6 DEF NothingToFree
<1>7. ASSUME NEW h \in Handlers, AddMemHandler(h) PROVE TypesKept'
  BY <1>0, <1>7 DEF AddMemHandler
<1>8. ASSUME NEW h \in Handlers, RemMemHandler(h) PROVE TypesKept'
  BY <1>0, <1>8 DEF RemMemHandler
<1>9. ASSUME UNCHANGED <<callVars, listVars>> PROVE TypesKept'
  BY <1>0, <1>9 DEF callVars, listVars
<1> QED
  BY <1>1, <1>2, <1>3, <1>4, <1>5, <1>6, <1>7, <1>8, <1>9
  DEF Next, TaskStep, FreeMem, AllocAbs, vars

\* Priorities and ages order the handlers, the ends of the list stand at its ends.
LEMMA Order ==
  ASSUME NEW age \in [Handlers -> Nat], NEW x \in Handlers, NEW y \in Handlers
  PROVE  /\ (age[x] = age[y] => x = y) => x = y \/ Before(x, y, age) \/ Before(y, x, age)
         /\ Before(x, y, age) <=> Behind(y, x, age)
         /\ ~(Before(x, y, age) /\ Before(y, x, age))
         /\ ~Before(x, x, age)
<1>1. /\ Pri[x] \in Int /\ Pri[y] \in Int /\ age[x] \in Nat /\ age[y] \in Nat
      /\ x # ListHead /\ x # ListTail /\ y # ListHead /\ y # ListTail
  BY MemoryConstantsOK
<1> QED
  BY <1>1 DEF Before, Behind

\* The order of the handlers is transitive,
LEMMA OrderChain ==
  ASSUME NEW age \in [Handlers -> Nat],
         NEW x \in Handlers \cup {ListHead}, NEW y \in Handlers, NEW z \in Handlers,
         Before(x, y, age), Before(y, z, age)
  PROVE  Before(x, z, age)
<1>1. /\ Pri[y] \in Int /\ Pri[z] \in Int /\ age[y] \in Nat /\ age[z] \in Nat
      /\ y # ListHead /\ (x \in Handlers => Pri[x] \in Int /\ age[x] \in Nat)
  BY MemoryConstantsOK
<1> QED
  BY <1>1 DEF Before

\* total, and between the ends of the list.
LEMMA OrderEnds ==
  ASSUME NEW age \in [Handlers -> Nat], NEW x \in Handlers, NEW z \in Handlers \cup {ListTail},
         z \in Handlers /\ age[z] = age[x] /\ Pri[z] = Pri[x] => z = x
  PROVE  /\ Before(ListHead, x, age) /\ Behind(ListTail, x, age)
         /\ ~Behind(ListHead, x, age) /\ ~Before(ListTail, x, age)
         /\ ListHead # ListTail /\ x # ListHead /\ x # ListTail
         /\ Behind(z, x, age) \/ z = x \/ (z \in Handlers /\ Before(z, x, age))
<1>1. {ListHead, ListTail} \cap Handlers = {} /\ ListHead # ListTail
  BY MemoryConstantsOK DEF ListHead, ListTail
<1>2. z \in Handlers => Behind(z, x, age) \/ z = x \/ Before(z, x, age)
  <2>1. Pri[x] \in Int /\ age[x] \in Nat /\ (z \in Handlers => Pri[z] \in Int /\ age[z] \in Nat)
    BY MemoryConstantsOK
  <2> QED
    BY <2>1 DEF Before, Behind
<1> QED
  BY <1>1, <1>2 DEF Before, Behind

\* Who stands behind y stands behind all in front of y.
LEMMA BehindChain ==
  ASSUME NEW age \in [Handlers -> Nat],
         NEW x \in Handlers, NEW y \in Handlers, NEW z \in Handlers \cup {ListTail},
         Before(x, y, age), Behind(z, y, age)
  PROVE  Behind(z, x, age)
<1>1. CASE z \in Handlers
  BY <1>1, Order, OrderChain
<1>2. CASE z = ListTail
  BY <1>2 DEF Behind
<1> QED
  BY <1>1, <1>2

\* The age of h decides only about h and its equals.
LEMMA OtherAge ==
  ASSUME NEW age \in [Handlers -> Nat], NEW now \in Nat, NEW h \in Handlers,
         NEW x \in Nodes, NEW g \in Handlers, g # h, x = h => Pri[g] # Pri[h]
  PROVE  /\ Before(x, g, [age EXCEPT ![h] = now]) <=> Before(x, g, age)
         /\ Behind(x, g, [age EXCEPT ![h] = now]) <=> Behind(x, g, age)
<1> DEFINE b == [age EXCEPT ![h] = now]
<1>1. b[g] = age[g] /\ (x \in Handlers /\ x # h => b[x] = age[x])
  OBVIOUS
<1>2. x = h => Pri[x] # Pri[g]
  OBVIOUS
<1> HIDE DEF b
<1>3. Before(x, g, b) <=> Before(x, g, age)
  BY <1>1, <1>2 DEF Before
<1>4. Behind(x, g, b) <=> Behind(x, g, age)
  BY <1>1, <1>2 DEF Behind
<1> QED
  BY <1>3, <1>4 DEF b

\* Ages tell the handlers that were added.
LEMMA Ages ==
  ASSUME NEW age \in [Handlers -> Nat], NEW now \in Nat, HandlersInv(age, now)
  PROVE  /\ listed \subseteq Added
         /\ \A x, y \in listed : age[x] = age[y] => x = y
<1>1. listed \subseteq Handlers /\ \A x \in listed : succ[x] \in listed \cup {ListTail}
  BY DEF HandlersInv, ListInv, TypesKept
<1>2. listed \subseteq Added
  BY <1>1, MemoryConstantsOK DEF Added, Nodes
<1> QED
  BY <1>2 DEF HandlersInv, AgesInv

\* An added handler is where it belongs: who stands in front of its place and points
\* behind it is the one node it is linked to.
LEMMA ListAdd ==
  ASSUME NEW age \in [Handlers -> Nat], NEW now \in Nat, HandlersInv(age, now),
         NEW h \in Handlers, AddMemHandler(h)
  PROVE  ListInv([age EXCEPT ![h] = now])'
<1> DEFINE b == [age EXCEPT ![h] = now]
<1>0. b \in [Handlers -> Nat] /\ b[h] = now /\ \A x \in Handlers : x # h => b[x] = age[x]
  OBVIOUS
<1>a. /\ listed \subseteq Handlers /\ h \notin listed /\ listed' = listed \cup {h}
      /\ succ \in [Nodes -> Nodes \cup {None}]
      /\ \A x \in listed : age[x] < now
      /\ \A x \in listed : age[x] \in Nat
      /\ h # ListHead /\ ListHead \notin listed /\ ListTail \notin listed /\ h # ListTail
  BY MemoryConstantsOK DEF AddMemHandler, HandlersInv, AgesInv, TypesKept
<1>b. \A x \in listed \cup {ListHead}, g \in listed : Before(x, g, b) <=> Before(x, g, age)
  BY <1>a, OtherAge DEF Nodes, b
<1>c. \A x \in listed \cup {ListTail}, g \in listed : Behind(x, g, b) <=> Behind(x, g, age)
  BY <1>a, OtherAge DEF Nodes, b
<1>d. \A x \in listed \cup {ListHead} :
        /\ succ[x] \in listed \cup {ListTail}
        /\ x \in listed => Behind(succ[x], x, b)
        /\ NoGap(x, succ[x], listed, b)
  BY <1>b, <1>c DEF HandlersInv, ListInv, NoGap
<1>e. \A x, y \in listed : x = y \/ Before(x, y, b) \/ Before(y, x, b)
  <2>1. ASSUME NEW x \in listed, NEW y \in listed
        PROVE  x = y \/ Before(x, y, b) \/ Before(y, x, b)
    <3>1. b[x] = b[y] => x = y
      BY <1>a, <1>0, Ages
    <3> HIDE DEF b
    <3> QED
      BY <3>1, <1>0, <1>a, Order
  <2> QED
    BY <2>1
<1> HIDE DEF b
<1>1. PICK p \in listed \cup {ListHead} :
        /\ Before(p, h, b) /\ Behind(succ[p], h, b)
        /\ succ' = [succ EXCEPT ![p] = h, ![h] = succ[p]]
  <2>1. PICK p \in listed \cup {ListHead} :
          /\ p # ListHead => Pri[p] >= Pri[h]
          /\ succ[p] # ListTail => Pri[succ[p]] < Pri[h]
          /\ succ' = [succ EXCEPT ![p] = h, ![h] = succ[p]]
    BY DEF AddMemHandler
  <2>2. Before(p, h, b)
    <3>1. CASE p = ListHead
      BY <3>1 DEF Before
    <3>2. CASE p # ListHead
      <4>1. p \in Handlers /\ b[p] < b[h] /\ Pri[p] \in Int /\ Pri[h] \in Int
        BY <3>2, <1>a, <1>0, MemoryConstantsOK
      <4> QED
        BY <4>1, <3>2, <2>1 DEF Before
    <3> QED
      BY <3>1, <3>2
  <2>3. Behind(succ[p], h, b)
    BY <2>1, <1>a, <1>d DEF Behind
  <2> QED
    BY <2>1, <2>2, <2>3
<1>2. /\ succ'[p] = h /\ succ'[h] = succ[p] /\ p # h
      /\ \A x \in listed \cup {ListHead} : x # p => succ'[x] = succ[x]
  BY <1>1, <1>a, MemoryConstantsOK DEF Nodes
<1>3. ASSUME NEW x \in listed \cup {ListHead}, Before(x, h, b), Behind(succ[x], h, b) PROVE x = p
  <2>1. CASE x \in listed /\ p \in listed
    <3>2. Behind(succ[x], p, b) /\ Behind(succ[p], x, b)
      BY <2>1, <1>0, <1>1, <1>a, <1>d, <1>3, BehindChain
    <3> QED
      BY <2>1, <3>2, <1>d, <1>e DEF NoGap
  <2>2. CASE x = ListHead /\ p \in listed
    <3>1. Before(x, p, b) /\ Behind(succ[x], p, b)
      BY <2>2, <1>0, <1>1, <1>a, <1>d, <1>3, BehindChain DEF Before
    <3> QED
      BY <2>2, <3>1, <1>d DEF NoGap
  <2>3. CASE x \in listed /\ p = ListHead
    <3>1. Before(p, x, b) /\ Behind(succ[p], x, b)
      BY <2>3, <1>0, <1>1, <1>a, <1>d, <1>3, BehindChain DEF Before
    <3> QED
      BY <2>3, <3>1, <1>d DEF NoGap
  <2> QED
    BY <2>1, <2>2, <2>3
<1>4. ASSUME NEW x \in listed' \cup {ListHead}
      PROVE  /\ succ'[x] \in listed' \cup {ListTail}
             /\ x \in listed' => Behind(succ'[x], x, b)
             /\ NoGap(x, succ'[x], listed', b)
  <2>1. CASE x = h
    <3>1. ASSUME NEW g \in listed, Before(h, g, b) PROVE ~Behind(succ[p], g, b)
      BY <3>1, <1>0, <1>1, <1>a, <1>d, OrderChain DEF NoGap
    <3>2. ~Before(h, h, b)
      BY <1>0, Order
    <3>3. NoGap(x, succ'[x], listed', b)
      BY <3>1, <3>2, <2>1, <1>2, <1>a DEF NoGap
    <3> QED
      BY <3>3, <2>1, <1>1, <1>2, <1>a, <1>d
  <2>2. CASE x = p
    <3>1. ASSUME NEW g \in listed, Before(p, g, b) PROVE ~Behind(h, g, b)
      <4>1. Behind(h, g, b) => Before(g, h, b)
        BY <1>0, <1>a, Order
      <4>2. Before(g, h, b) => Behind(succ[p], g, b)
        BY <1>0, <1>1, <1>a, <1>d, BehindChain
      <4> QED
        BY <3>1, <4>1, <4>2, <1>d DEF NoGap
    <3>2. x \in listed => Behind(h, x, b)
      BY <2>2, <1>0, <1>1, <1>a, Order
    <3>3. ~Behind(h, h, b)
      BY <1>0, Order
    <3> QED
      BY <3>1, <3>2, <3>3, <2>2, <1>2, <1>a DEF NoGap
  <2>3. CASE x # h /\ x # p
    <3>1. /\ x \in listed \cup {ListHead} /\ succ'[x] = succ[x]
          /\ ~(Before(x, h, b) /\ Behind(succ[x], h, b))
      BY <2>3, <1>2, <1>3, <1>a
    <3> QED
      BY <3>1, <2>3, <1>a, <1>d DEF NoGap
  <2> QED
    BY <2>1, <2>2, <2>3
<1> QED
  BY <1>4 DEF ListInv, Behind, NoGap, Before, b

\* The node in front of a removed handler is the only one linked to it.
LEMMA ListRemove ==
  ASSUME NEW age \in [Handlers -> Nat], NEW now \in Nat, HandlersInv(age, now),
         NEW h \in Handlers, RemMemHandler(h)
  PROVE  ListInv(age)'
<1>1. PICK p \in listed \cup {ListHead} :
        succ[p] = h /\ succ' = [succ EXCEPT ![p] = succ[h]]
  BY DEF RemMemHandler
<1>2. /\ listed \subseteq Handlers /\ h \in listed /\ listed' = listed \ {h}
      /\ succ'[p] = succ[h] /\ h # ListHead /\ h # ListTail
      /\ \A x \in listed \cup {ListHead} : x # p => succ'[x] = succ[x]
  BY <1>1, MemoryConstantsOK DEF RemMemHandler, HandlersInv, TypesKept, Nodes
<1>3. /\ \A x \in listed \cup {ListHead} :
           succ[x] \in listed \cup {ListTail} /\ NoGap(x, succ[x], listed, age)
      /\ \A x \in listed : Behind(succ[x], x, age)
  BY DEF HandlersInv, ListInv
<1>4. \A x \in Handlers :
        ~Behind(x, x, age) /\ ~Before(x, x, age) /\ Before(ListHead, x, age)
  BY Order DEF Before
<1>0. \A x, y \in listed : age[x] = age[y] => x = y
  BY Ages
<1>5. p # h /\ succ[h] # h /\ Before(p, h, age)
  BY <1>1, <1>2, <1>3, <1>4, Order
<1>6. ASSUME NEW x \in listed \cup {ListHead}, succ[x] = h PROVE x = p
  <2>1. Before(x, h, age)
    BY <1>2, <1>3, <1>4, <1>6, Order
  <2>2. CASE x \in listed /\ p \in listed
    <3>1. x = p \/ Before(x, p, age) \/ Before(p, x, age)
      BY <2>2, <1>0, <1>2, Order
    <3>2. Behind(h, x, age) /\ Behind(h, p, age)
      BY <2>2, <1>1, <1>3, <1>6
    <3> QED
      BY <2>2, <3>1, <3>2, <1>1, <1>3, <1>6 DEF NoGap
  <2>3. CASE x = ListHead /\ p \in listed
    BY <2>3, <1>1, <1>2, <1>3, <1>4, <1>6 DEF NoGap
  <2>4. CASE x \in listed /\ p = ListHead
    BY <2>4, <1>1, <1>2, <1>3, <1>4, <1>6 DEF NoGap
  <2> QED
    BY <2>2, <2>3, <2>4
<1>7. ASSUME NEW x \in listed' \cup {ListHead}
      PROVE  /\ succ'[x] \in listed' \cup {ListTail}
             /\ x \in listed' => Behind(succ'[x], x, age)
             /\ NoGap(x, succ'[x], listed', age)
  <2>1. CASE x = p
    <3>1. x \in listed => Behind(succ[h], x, age)
      BY <2>1, <1>2, <1>3, <1>5, BehindChain
    <3>2. ASSUME NEW g \in listed, g # h, Before(p, g, age) PROVE ~Behind(succ[h], g, age)
      <4>1. Before(h, g, age) => ~Behind(succ[h], g, age)
        BY <1>2, <1>3 DEF NoGap
      <4>2. ~Before(g, h, age)
        BY <3>2, <1>1, <1>2, <1>3, Order DEF NoGap
      <4>3. Before(h, g, age)
        BY <3>2, <4>2, <1>0, <1>2, Order
      <4> QED
        BY <4>1, <4>3
    <3>3. NoGap(x, succ'[x], listed', age)
      BY <3>2, <2>1, <1>2 DEF NoGap
    <3> QED
      BY <3>1, <3>3, <2>1, <1>2, <1>3, <1>5
  <2>2. CASE x # p
    BY <2>2, <1>2, <1>3, <1>6 DEF NoGap
  <2> QED
    BY <2>1, <2>2
<1> QED
  BY <1>7 DEF ListInv, Behind, NoGap, Before

\* A handler is added after all others,
LEMMA AgesAdd ==
  ASSUME NEW age \in [Handlers -> Nat], NEW now \in Nat, HandlersInv(age, now),
         NEW h \in Handlers, AddMemHandler(h)
  PROVE  AgesInv([age EXCEPT ![h] = now], now + 1)'
<1>1. PICK p \in listed \cup {ListHead} : succ' = [succ EXCEPT ![p] = h, ![h] = succ[p]]
  BY DEF AddMemHandler
<1>2. \A x \in Added' : x # h => x \in Added
  BY <1>1, Ages, MemoryConstantsOK DEF Added, HandlersInv, TypesKept, Nodes
<1>3. /\ \A x \in Handlers : age[x] < now /\ age[x] \in Nat
      /\ \A x, y \in Added : age[x] = age[y] => x = y
  BY DEF HandlersInv, AgesInv
<1>4. Added' \subseteq Handlers
  BY DEF Added
<1>5. \A x \in Handlers : [age EXCEPT ![h] = now][x] = IF x = h THEN now ELSE age[x]
  OBVIOUS
<1>6. \A x \in Handlers : [age EXCEPT ![h] = now][x] < now + 1
  BY <1>3, <1>5
<1>7. \A x, y \in Added' : [age EXCEPT ![h] = now][x] = [age EXCEPT ![h] = now][y] => x = y
  BY <1>2, <1>3, <1>4, <1>5
<1> QED
  BY <1>6, <1>7 DEF AgesInv

\* and nobody else ever is.
LEMMA AgesRemove ==
  ASSUME NEW age \in [Handlers -> Nat], NEW now \in Nat, HandlersInv(age, now),
         NEW h \in Handlers, RemMemHandler(h)
  PROVE  AgesInv(age, now)'
<1>1. PICK p \in listed \cup {ListHead} : succ' = [succ EXCEPT ![p] = succ[h]]
  BY DEF RemMemHandler
<1>2. \A x \in Added' : x \in Added
  BY <1>1, Ages, MemoryConstantsOK DEF Added, HandlersInv, TypesKept, Nodes
<1> QED
  BY <1>2 DEF AgesInv, HandlersInv
-----------------------------------------------------------------------------
(* The walk. *)

\* The walk begins at the head of the list, where nobody was passed.
LEMMA WalkBegins ==
  ASSUME NEW age \in [Handlers -> Nat], NEW now \in Nat, HandlersInv(age, now),
         NEW t \in Tasks, NEW n \in Sizes, NEW f \in Flags, AllocMem(t, n, f)
  PROVE  WalkInv(t, age)'
<1>1. /\ pc'[t] = "try" /\ curNode'[t] = succ[ListHead] /\ owed'[t] = listed
      /\ UNCHANGED <<succ, listed, lowMemSem, upNext>>
  BY DEF AllocMem, HandlersInv, TypesKept, listVars
<1>2. /\ listed \subseteq Handlers
      /\ \A x \in listed \cup {ListHead} :
           succ[x] \in listed \cup {ListTail} /\ NoGap(x, succ[x], listed, age)
  BY DEF HandlersInv, ListInv, TypesKept
<1>3. ASSUME NEW h \in listed PROVE succ[ListHead] = h \/ Before(succ[ListHead], h, age)
  <2>1. /\ succ[ListHead] \in Handlers \cup {ListTail} /\ h \in Handlers
        /\ succ[ListHead] \in Handlers /\ age[succ[ListHead]] = age[h] => succ[ListHead] = h
    BY <1>2, Ages, MemoryConstantsOK
  <2> QED
    BY <2>1, <1>2, <1>3, OrderEnds DEF NoGap
<1>4. Leads(t, listed, age)'
  BY <1>1, <1>2 DEF Leads, NoGap, Before, Behind
<1> QED
  BY <1>1, <1>2, <1>3, <1>4 DEF WalkInv, Before

\* A walk goes on as it was when nothing it looks at changes.
LEMMA Untouched ==
  ASSUME NEW age \in [Handlers -> Nat],
         NEW u \in Tasks, WalkInv(u, age), UNCHANGED <<succ, listed>>,
         pc'[u] = pc[u], curNode'[u] = curNode[u], owed'[u] = owed[u], gone'[u] = gone[u],
         pc[u] \in {"walk", "handler"} => UNCHANGED <<lowMemSem, upNext>>
  PROVE  WalkInv(u, age)'
<1>1. ASSUME NEW G \in SUBSET Handlers, Leads(u, G, age) PROVE Leads(u, G, age)'
  BY <1>1 DEF Leads, NoGap, Before, Behind
<1> QED
  BY <1>1 DEF WalkInv, Before

\* A step of t that leaves its place in the list leaves its walk in order.
LEMMA SamePlace ==
  ASSUME NEW age \in [Handlers -> Nat],
         NEW t \in Tasks, WalkInv(t, age), UNCHANGED <<succ, listed>>,
         curNode'[t] = curNode[t], owed'[t] = owed[t], gone'[t] = gone[t],
         pc'[t] # "handler", pc'[t] = "walk" => lowMemSem' = t
  PROVE  WalkInv(t, age)'
<1>1. ASSUME NEW G \in SUBSET Handlers, Leads(t, G, age) PROVE Leads(t, G, age)'
  BY <1>1 DEF Leads, NoGap, Before, Behind
<1> QED
  BY <1>1 DEF WalkInv, Before

\* A handler that is on the list and will be asked again is owed to the call; from it the
\* list leads to the others.
LEMMA AgainPlace ==
  ASSUME NEW age \in [Handlers -> Nat], NEW now \in Nat, HandlersInv(age, now),
         NEW t \in Tasks, WalkInv(t, age), TryAgain(t)
  PROVE  WalkInv(t, age)'
<1>1. /\ pc[t] = "handler" /\ pc'[t] = "try" /\ curNode'[t] = curNode[t]
      /\ owed'[t] = owed[t] \cup ({curNode[t]} \cap listed)
      /\ UNCHANGED <<succ, listed, gone>>
  BY DEF TryAgain, CurAfterRetry, HandlersInv, TypesKept
<1>2. CASE curNode[t] \in listed
  <2>1. /\ listed \subseteq Handlers /\ owed'[t] \subseteq listed
        /\ \A x \in listed : succ[x] \in listed \cup {ListTail} /\ NoGap(x, succ[x], listed, age)
    BY <1>1 DEF HandlersInv, ListInv, TypesKept, WalkInv
  <2>2. Leads(t, listed, age)'
    BY <1>1, <1>2, <2>1 DEF Leads, NoGap, Before, Behind
  <2>3. \A h \in owed'[t] : curNode[t] = h \/ Before(curNode[t], h, age)
    BY <1>1 DEF WalkInv
  <2> QED
    BY <1>1, <2>1, <2>2, <2>3 DEF WalkInv, Before
<1>3. CASE curNode[t] \notin listed
  <2>1. owed'[t] = owed[t]
    BY <1>1, <1>3
  <2> QED
    BY <2>1, <1>1, SamePlace
<1> QED
  BY <1>2, <1>3

\* The step to the next handler passes nobody who is owed a question.
LEMMA NextPlace ==
  ASSUME NEW age \in [Handlers -> Nat], NEW now \in Nat, HandlersInv(age, now),
         NEW t \in Tasks, WalkInv(t, age), NothingToFree(t)
  PROVE  WalkInv(t, age)'
<1>1. /\ pc[t] = "handler" /\ pc'[t] = "walk" /\ curNode'[t] = upNext
      /\ owed'[t] = owed[t] \ {curNode[t]}
      /\ UNCHANGED <<succ, listed, lowMemSem, gone>>
  BY DEF NothingToFree, HandlersInv, TypesKept
<1>2. PICK G \in SUBSET Handlers : Leads(t, G, age)
  BY DEF WalkInv
<1>3. Leads(t, G, age)'
  BY <1>1, <1>2 DEF Leads, NoGap, Before, Behind
<1>4. ASSUME NEW h \in owed'[t] PROVE upNext = h \/ Before(upNext, h, age)
  <2>1. Before(curNode[t], h, age) /\ h \in Handlers /\ h \in listed
    BY <1>1, <1>4 DEF WalkInv, HandlersInv, TypesKept
  <2>2. ~Behind(upNext, h, age) /\ upNext \in G \cup {ListTail}
    BY <2>1, <1>1, <1>2, <1>4 DEF Leads, NoGap
  <2>3. upNext \in Handlers => upNext \in Added
    <3>1. upNext \in G => succ[upNext] \in G \cup {ListTail}
      BY <1>2 DEF Leads
    <3> QED
      BY <3>1, <2>2, MemoryConstantsOK DEF Added, Nodes
  <2>4. upNext \in Handlers /\ age[upNext] = age[h] => upNext = h
    BY <2>1, <2>3, Ages DEF HandlersInv, AgesInv
  <2> QED
    BY <2>1, <2>2, <2>4, OrderEnds
<1> QED
  BY <1>1, <1>3, <1>4 DEF WalkInv, Before

\* The call of a handler notes whom its links lead to.
LEMMA CallPlace ==
  ASSUME NEW age \in [Handlers -> Nat], NEW now \in Nat, HandlersInv(age, now),
         NEW t \in Tasks, WalkInv(t, age), WalkHandlers(t), pc'[t] # "run"
  PROVE  WalkInv(t, age)'
<1>1. /\ pc[t] = "walk" /\ pc'[t] = "handler" /\ curNode[t] # ListTail
      /\ upNext' = succ[curNode[t]]
      /\ UNCHANGED <<succ, listed, lowMemSem, curNode, owed, gone>>
  BY DEF WalkHandlers, Return, HandlersInv, TypesKept
<1>2. PICK G \in SUBSET Handlers : Leads(t, G, age)
  BY DEF WalkInv
<1>3. Leads(t, G, age)'
  BY <1>1, <1>2 DEF Leads, NoGap, Before, Behind
<1> QED
  BY <1>1, <1>2, <1>3 DEF WalkInv, Before, Leads

\* The links to and from an added handler pass nobody that those of the list did not pass;
\* if a link of a removed one leads to it, it has changed places with nobody who is owed.
LEMMA AddPlace ==
  ASSUME NEW age \in [Handlers -> Nat], NEW now \in Nat, HandlersInv(age, now),
         NEW h \in Handlers, AddMemHandler(h), NEW u \in Tasks, WalkInv(u, age)
  PROVE  WalkInv(u, [age EXCEPT ![h] = now])'
<1> DEFINE b == [age EXCEPT ![h] = now]
<1>1. PICK p \in listed \cup {ListHead} : succ' = [succ EXCEPT ![p] = h, ![h] = succ[p]]
  BY DEF AddMemHandler
<1>2. /\ listed' = listed \cup {h} /\ h \notin listed /\ p # h
      /\ \A x \in Handlers : x # p /\ x # h => succ'[x] = succ[x]
      /\ owed'[u] = {g \in owed[u] : h \in gone[u] => Pri[g] # Pri[h]}
      /\ UNCHANGED <<pc, size, flags, curNode, gone, lowMemSem, upNext>>
  BY <1>1, MemoryConstantsOK DEF AddMemHandler, HandlersInv, TypesKept, Nodes
<1>3. ListInv(b)' /\ owed[u] \subseteq listed /\ listed \subseteq Handlers
  BY ListAdd DEF WalkInv, HandlersInv, TypesKept
<1>4. PICK G \in SUBSET Handlers : Leads(u, G, age)
  BY DEF WalkInv
<1>5. ASSUME NEW x \in G \cup {ListTail}, NEW g \in owed'[u]
      PROVE  /\ Before(x, g, b) <=> Before(x, g, age)
             /\ Behind(x, g, b) <=> Behind(x, g, age)
  <2>1. g \in Handlers /\ g # h
    BY <1>2, <1>3, <1>5
  <2>2. x = h => Pri[g] # Pri[h]
    BY <1>2, <1>4, <1>5, MemoryConstantsOK DEF Leads
  <2> QED
    BY <2>1, <2>2, OtherAge DEF Nodes
<1> HIDE DEF b
<1>6. ASSUME NEW x \in G \cup {ListTail}, NEW y \in G \cup {ListTail}, NoGap(x, y, owed[u], age)
      PROVE  NoGap(x, y, owed'[u], b)
  BY <1>2, <1>5, <1>6 DEF NoGap
<1>7. ASSUME NEW x \in G \cup {h}
      PROVE  succ'[x] \in G \cup {h, ListTail} /\ NoGap(x, succ'[x], owed'[u], b)
  <2>1. CASE x \in listed \cup {h}
    <3>1. succ'[x] \in listed' \cup {ListTail} /\ NoGap(x, succ'[x], listed', b)
      BY <2>1, <1>2, <1>3 DEF ListInv, NoGap, Before, Behind
    <3> QED
      BY <3>1, <1>2, <1>3, <1>4 DEF NoGap, Leads
  <2>2. CASE x \notin listed \cup {h}
    <3>1. x # p
      BY <2>2, <1>7, MemoryConstantsOK
    <3> QED
      BY <3>1, <2>2, <1>2, <1>4, <1>6, <1>7 DEF Leads
  <2> QED
    BY <2>1, <2>2
<1>8. pc'[u] = "handler" =>
        upNext' \in G \cup {h, ListTail} /\ NoGap(curNode'[u], upNext', owed'[u], b)
  BY <1>2, <1>4, <1>6 DEF Leads
<1>9. Leads(u, G \cup {h}, b)'
  <2>1. /\ listed' \subseteq G \cup {h} /\ (G \cup {h}) \ listed' \subseteq gone'[u]
        /\ curNode'[u] \in G \cup {h, ListTail}
    BY <1>2, <1>4 DEF Leads
  <2> QED
    BY <2>1, <1>7, <1>8 DEF Leads, NoGap, Before, Behind
<1>10. \A g \in owed'[u] : curNode[u] = g \/ Before(curNode[u], g, b)
  BY <1>2, <1>4, <1>5 DEF WalkInv, Leads
<1>11. G \cup {h} \in SUBSET Handlers
  OBVIOUS
<1>12. WalkInv(u, b)'
  BY <1>2, <1>9, <1>10, <1>11 DEF WalkInv, Before
<1> QED
  BY <1>12 DEF b

\* A removed handler is owed nothing, and nobody else changes place.
LEMMA RemovePlace ==
  ASSUME NEW age \in [Handlers -> Nat], NEW now \in Nat, HandlersInv(age, now),
         NEW h \in Handlers, RemMemHandler(h), NEW u \in Tasks, pc[u] # "run", WalkInv(u, age)
  PROVE  WalkInv(u, age)'
<1>1. PICK p \in listed \cup {ListHead} : succ' = [succ EXCEPT ![p] = succ[h]]
  BY DEF RemMemHandler
<1>2. /\ listed' = listed \ {h} /\ owed'[u] = owed[u] \ {h} /\ gone'[u] = gone[u] \cup {h}
      /\ \A x \in Handlers : x # p => succ'[x] = succ[x]
      /\ UNCHANGED <<pc, size, flags, curNode, lowMemSem, upNext>>
  BY <1>1, MemoryConstantsOK DEF RemMemHandler, HandlersInv, TypesKept, Nodes
<1>3. ListInv(age)' /\ owed[u] \subseteq listed /\ listed \subseteq Handlers
  BY ListRemove DEF WalkInv, HandlersInv, TypesKept
<1>4. PICK G \in SUBSET Handlers : Leads(u, G, age)
  BY DEF WalkInv
<1>5. ASSUME NEW x \in G
      PROVE  succ'[x] \in G \cup {ListTail} /\ NoGap(x, succ'[x], owed'[u], age)
  <2>1. CASE x \in listed'
    <3>1. succ'[x] \in listed' \cup {ListTail} /\ NoGap(x, succ'[x], listed', age)
      BY <2>1, <1>3 DEF ListInv, NoGap, Before, Behind
    <3> QED
      BY <3>1, <1>2, <1>3, <1>4 DEF NoGap, Leads
  <2>2. CASE x = p /\ x \notin listed'
    <3>1. x = h /\ succ'[x] = succ[h]
      BY <2>2, <1>1, <1>2, <1>5, MemoryConstantsOK DEF HandlersInv, TypesKept, Nodes
    <3> QED
      BY <3>1, <1>2, <1>4, <1>5 DEF Leads, NoGap
  <2>3. CASE x # p
    BY <2>3, <1>2, <1>4, <1>5 DEF Leads, NoGap
  <2> QED
    BY <2>1, <2>2, <2>3, <1>2
<1>6. Leads(u, G, age)'
  BY <1>2, <1>4, <1>5 DEF Leads, NoGap, Before, Behind
<1> QED
  BY <1>2, <1>3, <1>6 DEF WalkInv, Before
-----------------------------------------------------------------------------
(* The theorem. *)

\* Every walk stays in order, whatever step is taken; an added handler gets its age.
LEMMA WalksStep ==
  ASSUME NEW age \in [Handlers -> Nat], NEW now \in Nat, HandlersInv(age, now),
         [Next]_vars, NEW u \in Tasks, pc'[u] # "run"
  PROVE  /\ WalkInv(u, age)' \/ \E h \in Handlers : AddMemHandler(h)
         /\ \A h \in Handlers : AddMemHandler(h) => WalkInv(u, [age EXCEPT ![h] = now])'
<1>1. pc[u] # "run" => WalkInv(u, age)
  BY DEF HandlersInv
<1>0. TypesKept
  BY DEF HandlersInv
<1> USE <1>0 DEF TypesKept
<1>2. ASSUME NEW t \in Tasks, NEW n \in Sizes, NEW f \in Flags, AllocMem(t, n, f)
      PROVE  WalkInv(u, age)'
  <2>1. CASE t = u
    BY <2>1, <1>2, WalkBegins
  <2>2. CASE t # u
    BY <2>2, <1>1, <1>2, Untouched DEF AllocMem, listVars
  <2> QED
    BY <2>1, <2>2
<1>3. ASSUME NEW t \in Tasks, TryAlloc(t) PROVE WalkInv(u, age)'
  <2>1. CASE t = u
    BY <2>1, <1>1, <1>3, SamePlace DEF TryAlloc, Return, listVars
  <2>2. CASE t # u
    BY <2>2, <1>1, <1>3, Untouched DEF TryAlloc, Return, listVars
  <2> QED
    BY <2>1, <2>2
<1>4. ASSUME NEW t \in Tasks, LockHandlers(t) PROVE WalkInv(u, age)'
  <2>1. CASE t = u
    BY <2>1, <1>1, <1>4, SamePlace DEF LockHandlers
  <2>2. CASE t # u
    <3>1. pc[u] \notin {"walk", "handler"}
      BY <2>2, <1>1, <1>4, MemoryConstantsOK DEF LockHandlers, WalkInv
    <3> QED
      BY <3>1, <2>2, <1>1, <1>4, Untouched DEF LockHandlers
  <2> QED
    BY <2>1, <2>2
<1>5. ASSUME NEW t \in Tasks, pc[t] \in {"walk", "handler"}, t # u
      PROVE  pc[u] \notin {"walk", "handler"}
  BY <1>1, <1>5 DEF WalkInv, HandlersInv
<1>6. ASSUME NEW t \in Tasks, WalkHandlers(t) PROVE WalkInv(u, age)'
  <2>1. CASE t = u
    BY <2>1, <1>1, <1>6, CallPlace DEF WalkHandlers
  <2>2. CASE t # u
    BY <2>2, <1>1, <1>5, <1>6, Untouched DEF WalkHandlers, Return
  <2> QED
    BY <2>1, <2>2
<1>7. ASSUME NEW t \in Tasks, TryAgain(t) PROVE WalkInv(u, age)'
  <2>1. CASE t = u
    BY <2>1, <1>1, <1>7, AgainPlace DEF TryAgain
  <2>2. CASE t # u
    BY <2>2, <1>1, <1>5, <1>7, Untouched DEF TryAgain, CurAfterRetry
  <2> QED
    BY <2>1, <2>2
<1>8. ASSUME NEW t \in Tasks, NothingToFree(t) PROVE WalkInv(u, age)'
  <2>1. CASE t = u
    BY <2>1, <1>1, <1>8, NextPlace DEF NothingToFree
  <2>2. CASE t # u
    BY <2>2, <1>1, <1>5, <1>8, Untouched DEF NothingToFree
  <2> QED
    BY <2>1, <2>2
<1>9. ASSUME NEW h \in Handlers, AddMemHandler(h)
      PROVE  WalkInv(u, [age EXCEPT ![h] = now])'
  BY <1>1, <1>9, AddPlace DEF AddMemHandler
<1>10. ASSUME NEW h \in Handlers, RemMemHandler(h) PROVE WalkInv(u, age)'
  BY <1>1, <1>10, RemovePlace DEF RemMemHandler
<1>11. ASSUME UNCHANGED <<callVars, listVars>> PROVE WalkInv(u, age)'
  BY <1>1, <1>11, Untouched DEF callVars, listVars
<1>12. WalkInv(u, age)' \/ \E h \in Handlers : AddMemHandler(h)
  BY <1>2, <1>3, <1>4, <1>6, <1>7, <1>8, <1>10, <1>11
  DEF Next, TaskStep, FreeMem, AllocAbs, vars
<1> QED
  BY <1>9, <1>12

\* The list of handlers stays linked and sorted, and the handlers keep their ages, but for
\* one that is added.
LEMMA ListStep ==
  ASSUME NEW age \in [Handlers -> Nat], NEW now \in Nat, HandlersInv(age, now), [Next]_vars
  PROVE  (ListInv(age)' /\ AgesInv(age, now)') \/ \E h \in Handlers : AddMemHandler(h)
<1>1. ASSUME UNCHANGED <<succ, listed>> PROVE ListInv(age)' /\ AgesInv(age, now)'
  BY <1>1 DEF HandlersInv, ListInv, NoGap, Before, Behind, AgesInv, Added
<1>2. ASSUME NEW t \in Tasks, TaskStep(t) PROVE UNCHANGED <<succ, listed>>
  BY <1>2 DEF TaskStep, AllocMem, TryAlloc, LockHandlers, WalkHandlers, TryAgain,
     NothingToFree, listVars
<1> QED
  BY <1>1, <1>2, ListRemove, AgesRemove DEF Next, FreeMem, AllocAbs, vars, listVars

\* A step keeps the invariant, with an age for an added handler.
LEMMA HandlersStep ==
  ASSUME IInv, [Next]_vars
  PROVE  IInv'
<1>1. PICK age \in [Handlers -> Nat], now \in Nat : HandlersInv(age, now)
  BY DEF IInv
<1>2. TypesKept'
  BY TypesStep
<1>3. ASSUME NEW h \in Handlers, AddMemHandler(h) PROVE IInv'
  <2> DEFINE b == [age EXCEPT ![h] = now]
  <2>1. b \in [Handlers -> Nat] /\ now + 1 \in Nat
    OBVIOUS
  <2>2. ListInv(b)' /\ AgesInv(b, now + 1)'
    BY <1>1, <1>3, ListAdd, AgesAdd
  <2>3. \A t \in Tasks : pc'[t] # "run" => WalkInv(t, b)'
    BY <1>1, <1>3, WalksStep
  <2> HIDE DEF b
  <2>4. HandlersInv(b, now + 1)'
    BY <2>2, <2>3, <1>2 DEF HandlersInv
  <2> QED
    BY <2>1, <2>4, <1>2 DEF IInv
<1>4. CASE ~\E h \in Handlers : AddMemHandler(h)
  <2>1. ListInv(age)' /\ AgesInv(age, now)'
    BY <1>1, <1>4, ListStep
  <2>2. \A t \in Tasks : pc'[t] # "run" => WalkInv(t, age)'
    BY <1>1, <1>4, WalksStep
  <2>3. HandlersInv(age, now)'
    BY <2>1, <2>2, <1>2 DEF HandlersInv
  <2> QED
    BY <2>3, <1>2 DEF IInv
<1> QED
  BY <1>3, <1>4

\* The types of the variables are kept, the list is sorted, equals in the order in which they
\* were added, and every walk is in order, in every state of the specification.
THEOREM Invariance == Spec => []IInv
<1>1. Init => IInv
  <2> SUFFICES ASSUME Init PROVE IInv
    OBVIOUS
  <2>1. TypesKept
    BY MemoryConstantsOK DEF Init, TypesKept, Nodes
  <2> DEFINE age == [h \in Handlers |-> 0]
  <2>2. age \in [Handlers -> Nat] /\ 1 \in Nat
    OBVIOUS
  <2>3. ListInv(age)
    BY MemoryConstantsOK DEF Init, ListInv, NoGap, Nodes
  <2>4. Added = {}
    BY MemoryConstantsOK DEF Init, Added, Nodes
  <2>5. AgesInv(age, 1)
    BY <2>4 DEF AgesInv
  <2>6. \A t \in Tasks : pc[t] = "run"
    BY DEF Init
  <2> HIDE DEF age
  <2>7. HandlersInv(age, 1)
    BY <2>1, <2>3, <2>5, <2>6 DEF HandlersInv
  <2> QED
    BY <2>1, <2>2, <2>7 DEF IInv
<1>2. IInv /\ [Next]_vars => IInv'
  BY HandlersStep
<1> QED
  BY <1>1, <1>2, PTL DEF Spec

\* AllocMem() fails only when it owes no handler a question, for any number of tasks and
\* handlers that come and go, of whatever priorities.
THEOREM AllAsked == Spec => WhoFailsAskedAll
<1>1. ASSUME IInv, [Next]_vars, NEW t \in Tasks, pc[t] = "walk", pc'[t] = "run"
      PROVE  owed[t] = {}
  <2>1. curNode[t] = ListTail
    BY <1>1 DEF Next, TaskStep, AllocMem, TryAlloc, FreeMem, AllocAbs, LockHandlers,
       WalkHandlers, TryAgain, NothingToFree, AddMemHandler, RemMemHandler, Return, vars,
       callVars, IInv, TypesKept
  <2>2. \A h \in Handlers : ListTail # h /\ ListTail \notin Handlers /\ ListTail # ListHead
    BY MemoryConstantsOK DEF ListHead, ListTail
  <2>3. owed[t] \in SUBSET Handlers
    BY <1>1 DEF IInv, TypesKept
  <2>4. PICK age \in [Handlers -> Nat], now \in Nat : HandlersInv(age, now)
    BY <1>1 DEF IInv
  <2>5. \A h \in owed[t] : curNode[t] = h \/ Before(curNode[t], h, age)
    BY <2>4, <1>1 DEF HandlersInv, WalkInv
  <2> QED
    BY <2>1, <2>2, <2>3, <2>5 DEF Before
<1>2. IInv /\ [Next]_vars =>
        [\A t \in Tasks : pc[t] = "walk" /\ pc'[t] = "run" => owed[t] = {}]_vars
  BY <1>1
<1> QED
  BY <1>2, Invariance, PTL DEF Spec, WhoFailsAskedAll
-----------------------------------------------------------------------------
(* Addresses and sizes in units. *)

Aligned(a) == a % Unit = 0

\* The unit is a number to divide by.
LEMMA UnitType == Unit \in Nat /\ Unit > 0
  BY HeaderConstantsOK

\* What is aligned is so many units.
LEMMA Multiple ==
  ASSUME NEW a \in Int
  PROVE  /\ a \div Unit \in Int
         /\ Aligned(a) <=> a = Unit * (a \div Unit)
<1>1. \A u \in Nat : u > 0 => a \div u \in Int /\ a % u = a - u * (a \div u)
  OBVIOUS
<1>2. a \div Unit \in Int /\ a % Unit = a - Unit * (a \div Unit)
  BY <1>1, UnitType
<1>3. \A m \in Int : a - m = 0 <=> a = m
  OBVIOUS
<1>4. Unit * (a \div Unit) \in Int
  BY <1>2, UnitType
<1> QED  BY <1>2, <1>3, <1>4 DEF Aligned

\* So many units are aligned.
LEMMA MultipleIsAligned ==
  ASSUME NEW k \in Int
  PROVE  Unit * k \in Int /\ Aligned(Unit * k) /\ (Unit * k) \div Unit = k
<1>1. \A u \in Nat : u > 0 => u * k \in Int /\ (u * k) % u = 0 /\ (u * k) \div u = k
  OBVIOUS
<1> QED  BY <1>1, UnitType DEF Aligned

\* Units compare as their numbers do.
LEMMA TimesLess ==
  ASSUME NEW k \in Int, NEW m \in Int
  PROVE  /\ k < m <=> Unit * k < Unit * m
         /\ k < m => Unit * k + Unit <= Unit * m
         /\ k <= m <=> Unit * k <= Unit * m
<1>1. Unit * (m - k) = Unit * m - Unit * k
  BY UnitType
<1>2. k < m => Unit * (m - k) >= Unit
  BY UnitType
<1>3. k >= m => Unit * (m - k) <= 0
  BY UnitType
<1>4. Unit * (m - k) \in Int /\ Unit * m \in Int /\ Unit * k \in Int
  BY UnitType
<1>5. k = m => Unit * k = Unit * m
  OBVIOUS
<1> QED  BY <1>1, <1>2, <1>3, <1>4, <1>5, UnitType

\* Sums and differences of what is aligned are aligned,
LEMMA AlignedSum ==
  ASSUME NEW a \in Int, NEW b \in Int, Aligned(a), Aligned(b)
  PROVE  Aligned(a + b) /\ Aligned(a - b)
<1> DEFINE k == a \div Unit
           m == b \div Unit
<1>1. k \in Int /\ m \in Int /\ a = Unit * k /\ b = Unit * m
  BY Multiple
<1> HIDE DEF k, m
<1>2. a + b = Unit * (k + m) /\ a - b = Unit * (k - m)
  BY <1>1, UnitType
<1> QED  BY <1>1, <1>2, MultipleIsAligned

\* also under a name of their own.
LEMMA AlignedTerm ==
  ASSUME NEW a \in Int, NEW b \in Int, Aligned(a), Aligned(b), NEW c, c = a + b \/ c = a - b
  PROVE  Aligned(c)
  BY AlignedSum

\* Between two aligned addresses lies a unit.
LEMMA AlignedGap ==
  ASSUME NEW a \in Int, NEW b \in Int, Aligned(a), Aligned(b), a < b
  PROVE  a + Unit <= b
<1>1. a \div Unit \in Int /\ b \div Unit \in Int /\ a = Unit * (a \div Unit) /\ b = Unit * (b \div Unit)
  BY Multiple
<1>2. a \div Unit < b \div Unit
  BY <1>1, TimesLess
<1> QED  BY <1>1, <1>2, TimesLess

\* RoundDown finds the unit of an address.
LEMMA RoundDownIs ==
  ASSUME NEW a \in Int
  PROVE  /\ RoundDown(a) \in Int /\ Aligned(RoundDown(a))
         /\ RoundDown(a) = Unit * (a \div Unit) /\ RoundDown(a) = a - (a % Unit)
         /\ RoundDown(a) <= a /\ a < RoundDown(a) + Unit
         /\ a % Unit \in 0 .. Unit - 1 /\ a \div Unit \in Int
<1>1. \A u \in Nat : u > 0 => /\ a \div u \in Int /\ a % u = a - u * (a \div u)
                              /\ a % u \in 0 .. u - 1
  OBVIOUS
<1>2. /\ a \div Unit \in Int /\ a % Unit = a - Unit * (a \div Unit)
      /\ a % Unit \in 0 .. Unit - 1
  BY <1>1, UnitType
<1>3. Unit * (a \div Unit) \in Int /\ Aligned(Unit * (a \div Unit))
  BY <1>2, MultipleIsAligned
<1>4. RoundDown(a) = Unit * (a \div Unit)
  BY <1>2, <1>3 DEF RoundDown
<1> QED  BY <1>2, <1>3, <1>4, UnitType DEF RoundDown

\* RoundUp adds less than a unit.
LEMMA RoundUpIs ==
  ASSUME NEW n \in Int
  PROVE  /\ RoundUp(n) \in Int /\ Aligned(RoundUp(n))
         /\ n <= RoundUp(n) /\ RoundUp(n) < n + Unit
<1> DEFINE m == n + Unit - 1
<1>1. m \in Int
  BY UnitType
<1> HIDE DEF m
<1>2. RoundDown(m) = Unit * (m \div Unit) /\ m \div Unit \in Int /\ RoundDown(m) \in Int
      /\ Aligned(RoundDown(m)) /\ RoundDown(m) <= m /\ m < RoundDown(m) + Unit
  BY <1>1, RoundDownIs
<1>3. RoundUp(n) = (m \div Unit) * Unit
  BY DEF RoundUp, m
<1>4. RoundUp(n) = RoundDown(m)
  BY <1>2, <1>3, UnitType
<1> QED  BY <1>2, <1>4, UnitType DEF m

\* The region begins and ends with a unit.
LEMMA AlignedConstants ==
  /\ Lower \in Nat \ {0} /\ Upper \in Nat \ {0} /\ Aligned(Lower) /\ Aligned(Upper) /\ Lower < Upper
  /\ Addresses = {a \in Lower .. Upper - 1 : Aligned(a)}
  /\ \A a \in Addresses : a \in Int /\ a >= Lower /\ a < Upper /\ a > 0 /\ Aligned(a)
  BY HeaderConstantsOK DEF Aligned, Addresses
-----------------------------------------------------------------------------
(* Least and greatest numbers. *)

\* A set of natural numbers has a least one.
LEMMA LeastNatural ==
  ASSUME NEW S \in SUBSET Nat, S # {}
  PROVE  \E m \in S : \A n \in S : m <= n
<1> DEFINE R == OpToRel(<, Nat)
<1>1. IsWellFoundedOn(R, Nat)
  BY NatLessThanWellFounded
<1>2. \A m, n \in Nat : <<n, m>> \in R <=> n < m
  BY DEF OpToRel
<1> HIDE DEF R
<1>3. PICK m \in S : \A n \in S : ~(<<n, m>> \in R)
  BY <1>1, WFMin
<1>4. \A n \in S : m \in Nat /\ n \in Nat /\ ~(n < m)
  BY <1>2, <1>3
<1>5. \A n \in S : m <= n
  BY <1>4
<1> QED  BY <1>5

\* Min and Max of a set of numbers between two bounds.
LEMMA MinMax ==
  ASSUME NEW lo \in Int, NEW hi \in Int, NEW S \in SUBSET (lo .. hi), S # {}
  PROVE  /\ Min(S) \in S /\ \A y \in S : Min(S) <= y
         /\ Max(S) \in S /\ \A y \in S : Max(S) >= y
<1>1. \E x \in S : \A y \in S : x <= y
  <2> DEFINE T == {n \in Nat : lo + n \in S}
  <2>1. T \in SUBSET Nat /\ \A x \in S : x \in Int /\ x - lo \in T
    OBVIOUS
  <2>2. PICK m \in T : \A n \in T : m <= n
    BY <2>1, LeastNatural
  <2>3. \A y \in S : m <= y - lo
    BY <2>1, <2>2
  <2> QED  BY <2>1, <2>2, <2>3
<1>2. \E x \in S : \A y \in S : x >= y
  <2> DEFINE T == {n \in Nat : hi - n \in S}
  <2>1. T \in SUBSET Nat /\ \A x \in S : x \in Int /\ hi - x \in T
    OBVIOUS
  <2>2. PICK m \in T : \A n \in T : m <= n
    BY <2>1, LeastNatural
  <2>3. \A y \in S : m <= hi - y
    BY <2>1, <2>2
  <2> QED  BY <2>1, <2>2, <2>3
<1> QED  BY <1>1, <1>2 DEF Min, Max
-----------------------------------------------------------------------------
(* The header. *)

\* The links N and the sizes B make a list: the chunks are in the region, at aligned addresses
\* and of aligned sizes, and each leads to the next one by address, which it does not touch.
Links(N, B) ==
  /\ DOMAIN B \subseteq Addresses
  /\ B \in [DOMAIN B -> Nat \ {0}]
  /\ \A c \in DOMAIN B : Aligned(B[c]) /\ c + B[c] <= Upper
  /\ N \in [DOMAIN B \cup {First} -> DOMAIN B \cup {Nil}]
  /\ \A p \in DOMAIN N :
       /\ N[p] # Nil => N[p] > p
       /\ \A c \in DOMAIN B : c > p => N[p] # Nil /\ N[p] <= c
       /\ p # First /\ N[p] # Nil => p + B[p] < N[p]

\* What the index I names is in the list and leads to a chunk.
Known(I, N) ==
  /\ I \in [Levels -> DOMAIN N \cup {Nil}]
  /\ \A i \in Levels : I[i] # Nil => N[I[i]] # Nil

\* A header has these fields.
IsHeader(h) == h = [next |-> h.next, bytes |-> h.bytes, free |-> h.free, index |-> h.index]

\* The list, the index and mh_Free are what they should be.
HeaderOK(h) ==
  /\ IsHeader(h)
  /\ Links(h.next, h.bytes) /\ Known(h.index, h.next) /\ h.free \in Int

\* What the provers need to know of the numbers in a list.
Numeric(N, B) ==
  /\ DOMAIN N = DOMAIN B \cup {First} /\ Nil \notin DOMAIN N /\ First \notin DOMAIN B
  /\ \A c \in DOMAIN B : c \in Int /\ c >= Lower /\ c > 0 /\ c < Upper /\ Aligned(c)
  /\ \A p \in DOMAIN N : p \in Int /\ p >= -1 /\ p < Upper /\ N[p] \in Int
  /\ \A p \in DOMAIN N : N[p] # Nil => N[p] \in DOMAIN B
  /\ \A c \in DOMAIN B : B[c] \in Int /\ B[c] > 0
  /\ Upper \in Int /\ Lower \in Int /\ Lower > 0

\* The list consists of numbers.
LEMMA Numbers ==
  ASSUME NEW N, NEW B, Links(N, B)
  PROVE  Numeric(N, B)
<1>1. \A c \in DOMAIN B : c \in Int /\ c >= Lower /\ c > 0 /\ c < Upper /\ Aligned(c)
  BY AlignedConstants DEF Links
<1>2. DOMAIN N = DOMAIN B \cup {First}
  BY DEF Links
<1>3. \A p \in DOMAIN N : N[p] \in DOMAIN B \cup {Nil}
  BY DEF Links
<1>4. \A c \in DOMAIN B : B[c] \in Nat /\ B[c] > 0
  BY DEF Links
<1> QED  BY <1>1, <1>2, <1>3, <1>4, AlignedConstants DEF Nil, First, Numeric

\* The recursion of Walk() ends, as addresses grow.
LEMMA WalkUnfolds ==
  ASSUME NEW h, Links(h.next, h.bytes), NEW p \in DOMAIN h.next
  PROVE  Walk(h, p) = IF h.next[p] = Nil THEN <<>> ELSE <<h.next[p]>> \o Walk(h, h.next[p])
<1>0. Numeric(h.next, h.bytes)
  BY Numbers
<1> DEFINE D == DOMAIN h.next
           Above(d) == {x \in D : x >= d}
           Step(f, q) == IF h.next[q] = Nil THEN <<>> ELSE <<h.next[q]>> \o f[h.next[q]]
           Defined(d) == \E f : f = [q \in Above(d) |-> Step(f, q)]
           T == {n \in Nat : \E d \in D : n = Upper - d /\ ~Defined(d)}
<1>1. /\ \A d \in D : d \in Int /\ d >= -1 /\ Upper - d \in Nat
      /\ \A d \in D : h.next[d] # Nil => h.next[d] \in D /\ h.next[d] > d
      /\ \A d \in D : \A q \in D : q > d => q # First
      /\ Upper \in Int
  BY <1>0, AlignedConstants DEF Numeric, Links, First
<1>2. \A d \in D : \A q \in D : q > d => h.next[d] # Nil /\ q >= h.next[d]
  <2> SUFFICES ASSUME NEW d \in D, NEW q \in D, q > d PROVE h.next[d] # Nil /\ q >= h.next[d]
    OBVIOUS
  <2>1. q \in DOMAIN h.bytes
    <3>1. D = DOMAIN h.bytes \cup {First} /\ q # First
      BY <1>1, <1>0 DEF Numeric
    <3> HIDE DEF D
    <3> QED  BY <3>1
  <2>2. h.next[d] # Nil /\ h.next[d] <= q
    BY <2>1 DEF Links
  <2> QED  BY <2>2, <1>0 DEF Numeric
<1>3. T = {}
  <2> SUFFICES ASSUME T # {} PROVE FALSE
    OBVIOUS
  <2>1. PICK m \in T : \A n \in T : m <= n
    BY LeastNatural
  <2>2. PICK d \in D : m = Upper - d /\ ~Defined(d)
    OBVIOUS
  <2>3. \A e \in D : e > d => Defined(e)
    <3> SUFFICES ASSUME NEW e \in D, e > d, ~Defined(e) PROVE FALSE
      OBVIOUS
    <3>1. Upper - e \in T
      BY <1>1
    <3> HIDE DEF T
    <3> QED  BY <1>1, <2>1, <2>2, <3>1
  <2> HIDE DEF T
  <2>4. CASE h.next[d] = Nil
    <3>1. Above(d) = {d}
      BY <1>1, <1>2, <2>4
    <3> DEFINE f == [q \in Above(d) |-> <<>>]
    <3>2. f = [q \in Above(d) |-> Step(f, q)]
      BY <2>4, <3>1
    <3> HIDE DEF f
    <3> QED  BY <2>2, <3>2
  <2>5. CASE h.next[d] # Nil
    <3> DEFINE n == h.next[d]
    <3>1. n \in D /\ n > d
      BY <1>1, <2>5
    <3>2. PICK g : g = [q \in Above(n) |-> Step(g, q)]
      BY <2>3, <3>1
    <3>3. /\ Above(d) = {d} \cup Above(n) /\ d \notin Above(n) /\ n \in Above(n)
          /\ \A q \in Above(n) : h.next[q] # Nil => h.next[q] \in Above(n)
      BY <1>1, <1>2, <2>5, <3>1
    <3> DEFINE f == [q \in Above(d) |-> IF q = d THEN <<n>> \o g[n] ELSE g[q]]
    <3>4. f[d] = Step(f, d)
      BY <2>5, <3>3
    <3>5. \A q \in Above(n) : f[q] = Step(f, q)
      <4> SUFFICES ASSUME NEW q \in Above(n) PROVE f[q] = Step(f, q)
        OBVIOUS
      <4>1. f[q] = g[q] /\ g[q] = Step(g, q)
        BY <3>2, <3>3
      <4>2. h.next[q] # Nil => f[h.next[q]] = g[h.next[q]]
        BY <3>3
      <4> HIDE DEF f
      <4> QED  BY <4>1, <4>2
    <3>6. f = [q \in Above(d) |-> f[q]]
      OBVIOUS
    <3> HIDE DEF f
    <3>7. f = [q \in Above(d) |-> Step(f, q)]
      BY <3>3, <3>4, <3>5, <3>6
    <3> QED  BY <2>2, <3>7
  <2> QED  BY <2>4, <2>5
<1>4. Defined(First)
  <2>1. First \in D
    BY <1>0 DEF Numeric
  <2>2. Upper - First \in Nat
    BY <1>1, <2>1
  <2> HIDE DEF Defined, D
  <2> QED  BY <1>3, <2>1, <2>2
<1>5. Above(First) = D
  BY <1>1 DEF First
<1> DEFINE W == CHOOSE f : f = [q \in D |-> Step(f, q)]
<1>6. W = [q \in D |-> Step(W, q)]
  BY <1>4, <1>5
<1>7. \A q : Walk(h, q) = W[q]
  BY DEF Walk
<1> HIDE DEF W
<1> QED  BY <1>6, <1>7

\* The chunk p and all behind it.
Trail(h, p) == <<p>> \o Walk(h, p)

\* v leads from p along the links to the end of the list.
LeadsOn(h, p, v) ==
  /\ v \in Seq(DOMAIN h.next) /\ Len(v) >= 1 /\ v[1] = p
  /\ \A i \in 1 .. Len(v) - 1 : h.next[v[i]] = v[i + 1]
  /\ h.next[v[Len(v)]] = Nil
  /\ \A c \in DOMAIN h.bytes : c > p => \E i \in 2 .. Len(v) : v[i] = c

\* A sequence with one more in front.
LEMMA OneMore ==
  ASSUME NEW S, NEW x \in S, NEW s \in Seq(S)
  PROVE  /\ <<x>> \o s \in Seq(S) /\ Len(<<x>> \o s) = Len(s) + 1 /\ Len(s) \in Nat
         /\ (<<x>> \o s)[1] = x
         /\ \A i \in 1 .. Len(s) : (<<x>> \o s)[i + 1] = s[i]
  OBVIOUS

\* The sequence of one.
LEMMA JustOne ==
  ASSUME NEW S, NEW x \in S
  PROVE  <<x>> \in Seq(S) /\ Len(<<x>>) = 1 /\ <<x>>[1] = x
  OBVIOUS

\* Walk goes to the next chunk, and so on.
LEMMA TrailUnfolds ==
  ASSUME NEW h, Links(h.next, h.bytes), NEW p \in DOMAIN h.next
  PROVE  /\ h.next[p] = Nil => Walk(h, p) = <<>>
         /\ h.next[p] # Nil => Walk(h, p) = Trail(h, h.next[p])
  BY WalkUnfolds DEF Trail

\* Walk follows the links to the end: by induction on the distance to the end of the region.
LEMMA TrailLeadsOn ==
  ASSUME NEW h, Links(h.next, h.bytes), NEW p \in DOMAIN h.next
  PROVE  LeadsOn(h, p, Trail(h, p))
<1>0. Numeric(h.next, h.bytes)
  BY Numbers
<1> DEFINE D == DOMAIN h.next
           T == {n \in Nat : \E d \in D : n = Upper - d /\ ~LeadsOn(h, d, Trail(h, d))}
<1>1. /\ \A d \in D : d \in Int /\ Upper - d \in Nat
      /\ \A d \in D : h.next[d] # Nil => h.next[d] \in D /\ h.next[d] > d
      /\ Upper \in Int
  BY <1>0, AlignedConstants DEF Numeric, Links, First
<1>2. T = {}
  <2> SUFFICES ASSUME T # {} PROVE FALSE
    OBVIOUS
  <2>1. PICK m \in T : \A n \in T : m <= n
    BY LeastNatural
  <2>2. PICK d \in D : m = Upper - d /\ ~LeadsOn(h, d, Trail(h, d))
    OBVIOUS
  <2>3. \A e \in D : e > d => LeadsOn(h, e, Trail(h, e))
    <3> SUFFICES ASSUME NEW e \in D, e > d, ~LeadsOn(h, e, Trail(h, e)) PROVE FALSE
      OBVIOUS
    <3>1. Upper - e \in T
      BY <1>1
    <3> HIDE DEF T
    <3> QED  BY <1>1, <2>1, <2>2, <3>1
  <2> HIDE DEF T
  <2>4. CASE h.next[d] = Nil
    <3>1. Walk(h, d) = <<>>
      BY <2>4, TrailUnfolds
    <3>2. Trail(h, d) = <<d>>
      BY <3>1 DEF Trail
    <3>3. \A c \in DOMAIN h.bytes : ~(c > d)
      BY <2>4 DEF Links
    <3> DEFINE v == <<d>>
    <3>4. v = Trail(h, d) /\ v \in Seq(DOMAIN h.next) /\ Len(v) = 1 /\ v[1] = d
      BY <3>2, JustOne
    <3> HIDE DEF v
    <3>5. LeadsOn(h, d, v)
      BY <2>4, <3>3, <3>4 DEF LeadsOn
    <3> QED  BY <2>2, <3>4, <3>5
  <2>5. CASE h.next[d] # Nil
    <3> DEFINE n == h.next[d]
               w == Trail(h, n)
               v == Trail(h, d)
    <3>1. n \in D /\ n > d /\ n # Nil /\ h.next[d] = n
      BY <1>1, <2>5
    <3>2. LeadsOn(h, n, w)
      BY <2>3, <3>1
    <3>3. v = <<d>> \o w
      BY <2>5, TrailUnfolds DEF Trail
    <3> HIDE DEF n, w, v
    <3>4. /\ w \in Seq(D) /\ Len(w) \in Nat /\ Len(w) >= 1 /\ w[1] = n
          /\ v \in Seq(D) /\ Len(v) = Len(w) + 1 /\ v[1] = d
          /\ \A i \in 1 .. Len(w) : v[i + 1] = w[i]
      <4>1. w \in Seq(D) /\ Len(w) >= 1 /\ w[1] = n
        BY <3>2 DEF LeadsOn
      <4> HIDE DEF D
      <4>2. /\ <<d>> \o w \in Seq(D) /\ Len(<<d>> \o w) = Len(w) + 1 /\ Len(w) \in Nat
            /\ (<<d>> \o w)[1] = d
            /\ \A i \in 1 .. Len(w) : (<<d>> \o w)[i + 1] = w[i]
        BY <4>1, OneMore
      <4> QED  BY <3>3, <4>1, <4>2
    <3>5. ASSUME NEW i \in 1 .. Len(v) - 1 PROVE h.next[v[i]] = v[i + 1]
      <4>1. CASE i = 1
        BY <3>1, <3>4, <4>1
      <4>2. CASE i # 1
        <5> DEFINE j == i - 1
        <5>1. j \in 1 .. Len(w) - 1 /\ i = j + 1
          BY <3>4, <4>2
        <5> HIDE DEF j
        <5>2. h.next[w[j]] = w[j + 1]
          BY <3>2, <5>1 DEF LeadsOn
        <5>3. v[j + 1] = w[j] /\ v[(j + 1) + 1] = w[j + 1]
          BY <3>4, <5>1
        <5> QED  BY <5>1, <5>2, <5>3
      <4> QED  BY <4>1, <4>2
    <3>6. h.next[v[Len(v)]] = Nil
      BY <3>2, <3>4 DEF LeadsOn
    <3>7. ASSUME NEW c \in DOMAIN h.bytes, c > d PROVE \E i \in 2 .. Len(v) : v[i] = c
      <4>1. c \in Int /\ n <= c /\ n \in Int
        BY <3>1, <3>7, <1>0 DEF Numeric, Links, n
      <4>2. CASE c = n
        BY <3>4, <4>2
      <4>3. CASE c # n
        <5>1. c > n
          BY <4>1, <4>3
        <5>2. PICK i \in 2 .. Len(w) : w[i] = c
          BY <3>2, <5>1 DEF LeadsOn
        <5>3. i \in 1 .. Len(w) /\ i + 1 \in 2 .. Len(v)
          BY <3>4
        <5> QED  BY <3>4, <5>2, <5>3
      <4> QED  BY <4>2, <4>3
    <3> QED  BY <2>2, <3>4, <3>5, <3>6, <3>7 DEF LeadsOn, v
  <2> QED  BY <2>4, <2>5
<1>3. Upper - p \in Nat
  BY <1>1
<1> QED  BY <1>2, <1>3
-----------------------------------------------------------------------------
(* What becomes of the list when one chunk changes. *)

\* The addresses of the n bytes from a on.
Within(a, n) == {x \in Addresses : a <= x /\ x < a + n}

\* The addresses in chunks.
Covered(B) == {x \in Addresses : \E c \in DOMAIN B : c <= x /\ x < c + B[c]}

\* A function, which its values determine.
IsFcn(F) == F = [x \in DOMAIN F |-> F[x]]

\* A chunk has one predecessor, and ends before the next begins.
LEMMA OnePredecessor ==
  ASSUME NEW N, NEW B, Links(N, B), NEW p \in DOMAIN N, NEW q \in DOMAIN N, N[p] = N[q], N[p] # Nil
  PROVE  p = q
<1>0. Numeric(N, B)
  BY Numbers
<1>1. /\ p \in Int /\ q \in Int /\ N[p] \in Int /\ p >= -1 /\ q >= -1
      /\ p \in DOMAIN B \/ p = First
      /\ q \in DOMAIN B \/ q = First
  BY <1>0 DEF Numeric
<1>2. N[p] > p /\ N[p] > q
  BY DEF Links
<1>3. p < q => q # First
  BY <1>1 DEF First
<1>4. q < p => p # First
  BY <1>1 DEF First
<1>5. p < q => N[p] <= q
  BY <1>1, <1>3 DEF Links
<1>6. q < p => N[q] <= p
  BY <1>1, <1>4 DEF Links
<1> QED  BY <1>1, <1>2, <1>5, <1>6

\* Two chunks do not touch.
LEMMA Apart ==
  ASSUME NEW N, NEW B, Links(N, B), NEW c \in DOMAIN B, NEW d \in DOMAIN B, c < d
  PROVE  c + B[c] < d
<1>0. Numeric(N, B)
  BY Numbers
<1>1. c \in DOMAIN N /\ c # First /\ c \in Int /\ d \in Int /\ B[c] \in Int
  BY <1>0 DEF Numeric
<1>3. N[c] \in Int
  BY <1>1, <1>0 DEF Numeric
<1>2. N[c] # Nil /\ N[c] <= d /\ c + B[c] < N[c]
  BY <1>1 DEF Links
<1> QED  BY <1>1, <1>2, <1>3

\* Nothing is in two chunks.
LEMMA OneChunk ==
  ASSUME NEW N, NEW B, Links(N, B), NEW c \in DOMAIN B, NEW d \in DOMAIN B, d # c, NEW x \in Int,
         c <= x, x < c + B[c], d <= x, x < d + B[d]
  PROVE  FALSE
<1>1. c \in Int /\ d \in Int /\ B[c] \in Int /\ B[d] \in Int
  BY Numbers DEF Numeric
<1>2. c < d \/ d < c
  BY <1>1
<1>3. c < d => c + B[c] < d
  BY <1>1, Apart
<1>4. d < c => d + B[d] < c
  BY <1>1, Apart
<1> QED  BY <1>1, <1>2, <1>3, <1>4

\* Of the list of N and B, the list of M and C lacks the chunk c behind p.
Removes(N, B, p, c, M, C) ==
  /\ Links(N, B) /\ p \in DOMAIN N /\ c = N[p] /\ c # Nil
  /\ IsFcn(M) /\ DOMAIN M = DOMAIN N \ {c}
  /\ \A x \in DOMAIN M : M[x] = IF x = p THEN N[c] ELSE N[x]
  /\ IsFcn(C) /\ DOMAIN C = DOMAIN B \ {c}
  /\ \A x \in DOMAIN C : C[x] = B[x]

\* It has a chunk of n bytes at a more, behind p, where there is room for it.
Inserts(N, B, p, a, n, M, C) ==
  /\ Links(N, B) /\ p \in DOMAIN N
  /\ a \in Addresses /\ n \in Nat \ {0} /\ Aligned(n) /\ a + n <= Upper
  /\ a > p /\ (p # First => p + B[p] < a) /\ (N[p] # Nil => a + n < N[p])
  /\ IsFcn(M) /\ DOMAIN M = DOMAIN N \cup {a}
  /\ \A x \in DOMAIN M : M[x] = IF x = p THEN a ELSE IF x = a THEN N[p] ELSE N[x]
  /\ IsFcn(C) /\ DOMAIN C = DOMAIN B \cup {a}
  /\ \A x \in DOMAIN C : C[x] = IF x = a THEN n ELSE B[x]

\* Its chunk c has n bytes.
Resizes(N, B, c, n, C) ==
  /\ Links(N, B) /\ c \in DOMAIN B
  /\ n \in Nat \ {0} /\ Aligned(n) /\ c + n <= Upper /\ (N[c] # Nil => c + n < N[c])
  /\ IsFcn(C) /\ DOMAIN C = DOMAIN B
  /\ \A x \in DOMAIN C : C[x] = IF x = c THEN n ELSE B[x]

\* Without the chunk it is a list, which covers less by the chunk.
LEMMA RemoveChunk ==
  ASSUME NEW N, NEW B, NEW p, NEW c, NEW M, NEW C, Removes(N, B, p, c, M, C)
  PROVE  Links(M, C) /\ Covered(C) = Covered(B) \ Within(c, B[c])
<1> USE DEF Removes
<1>0. Numeric(N, B)
  BY Numbers
<1>1. /\ DOMAIN N = DOMAIN B \cup {First} /\ Nil \notin DOMAIN N /\ First \notin DOMAIN B
      /\ \A x \in DOMAIN B : x \in Int /\ B[x] \in Int
      /\ \A x \in DOMAIN N : x \in Int /\ N[x] \in Int
      /\ \A x \in DOMAIN N : N[x] # Nil => N[x] \in DOMAIN B
      /\ c \in DOMAIN B /\ c \in DOMAIN N /\ c > p /\ p # c
  <2>1. c \in DOMAIN B
    BY <1>0 DEF Numeric
  <2>2. c > p
    BY DEF Links
  <2>3. /\ DOMAIN N = DOMAIN B \cup {First} /\ Nil \notin DOMAIN N /\ First \notin DOMAIN B
        /\ \A x \in DOMAIN B : x \in Int /\ B[x] \in Int
    BY <1>0 DEF Numeric
  <2>4. /\ \A x \in DOMAIN N : x \in Int /\ N[x] \in Int
        /\ \A x \in DOMAIN N : N[x] # Nil => N[x] \in DOMAIN B
    BY <1>0 DEF Numeric
  <2>5. p # c
    BY <2>1, <2>2, <2>3
  <2> QED  BY <2>1, <2>2, <2>3, <2>4, <2>5
<1>2. DOMAIN M = DOMAIN C \cup {First}
  BY <1>1
<1>3. C \in [DOMAIN C -> Nat \ {0}] /\ DOMAIN C \subseteq Addresses
  <2>1. \A x \in DOMAIN C : C[x] \in Nat \ {0}
    BY DEF Links
  <2> QED  BY <2>1 DEF IsFcn, Links
<1>4. ASSUME NEW x \in DOMAIN M PROVE M[x] \in DOMAIN C \cup {Nil}
  <2>1. CASE x = p
    BY <1>1, <2>1 DEF Links
  <2>2. CASE x # p
    <3>1. M[x] = N[x] /\ x \in DOMAIN N
      BY <2>2
    <3>2. N[x] # c
      BY <1>1, <2>2, <3>1, OnePredecessor
    <3> QED  BY <1>1, <3>1, <3>2
  <2> QED  BY <2>1, <2>2
<1>5. M \in [DOMAIN C \cup {First} -> DOMAIN C \cup {Nil}]
  BY <1>2, <1>4 DEF IsFcn
<1>6. ASSUME NEW x \in DOMAIN M
      PROVE  /\ M[x] # Nil => M[x] > x
             /\ \A d \in DOMAIN C : d > x => M[x] # Nil /\ M[x] <= d
             /\ x # First /\ M[x] # Nil => x + C[x] < M[x]
  <2>1. CASE x = p
    <3>1. M[x] = N[c]
      BY <2>1
    <3>2. N[c] # Nil => N[c] > c
      BY <1>1 DEF Links
    <3>3. \A d \in DOMAIN C : d > p => d > c
      <4> SUFFICES ASSUME NEW d \in DOMAIN C, d > p PROVE d > c
        OBVIOUS
      <4>1. N[p] <= d /\ d # c
        BY DEF Links
      <4> QED  BY <1>1, <4>1
    <3>4. \A d \in DOMAIN C : d > c => N[c] # Nil /\ N[c] <= d
      BY <1>1 DEF Links
    <3>5. p # First => p + B[p] < c /\ C[p] = B[p] /\ p \in DOMAIN B
      BY <1>1 DEF Links
    <3> QED  BY <1>1, <2>1, <3>1, <3>2, <3>3, <3>4, <3>5
  <2>2. CASE x # p
    <3>1. M[x] = N[x] /\ x \in DOMAIN N
      BY <2>2
    <3>2. x # First => C[x] = B[x]
      BY <1>1
    <3> QED  BY <1>1, <3>1, <3>2 DEF Links
  <2> QED  BY <2>1, <2>2
<1>7. Links(M, C)
  BY <1>2, <1>3, <1>5, <1>6 DEF Links
<1>8. \A d \in DOMAIN B : d # c => \A x \in Int : ~(c <= x /\ x < c + B[c] /\ d <= x /\ x < d + B[d])
  BY <1>1, OneChunk
<1>9. \A x \in Addresses : x \in Covered(C) <=> x \in Covered(B) \ Within(c, B[c])
  BY <1>1, <1>8, AlignedConstants DEF Covered, Within
<1> QED  BY <1>7, <1>9 DEF Covered

\* With the chunk it is a list, which covers more by the chunk.
LEMMA InsertChunk ==
  ASSUME NEW N, NEW B, NEW p, NEW a, NEW n, NEW M, NEW C, Inserts(N, B, p, a, n, M, C)
  PROVE  Links(M, C) /\ Covered(C) = Covered(B) \cup Within(a, n) /\ a \notin DOMAIN N
<1> USE DEF Inserts
<1>0. Numeric(N, B)
  BY Numbers
<1>1. a \in Int /\ n \in Int /\ n > 0 /\ a > 0 /\ a # First /\ a # Nil /\ p # a /\ p \in Int
  BY <1>0, AlignedConstants DEF Numeric, First, Nil
<1>2. a \notin DOMAIN B
  <2> SUFFICES ASSUME a \in DOMAIN B PROVE FALSE
    OBVIOUS
  <2>1. N[p] # Nil /\ N[p] <= a /\ N[p] \in Int
    BY <1>0 DEF Links, Numeric
  <2> QED  BY <1>1, <2>1
<1>3. DOMAIN M = DOMAIN C \cup {First} /\ a \notin DOMAIN N
  BY <1>0, <1>1, <1>2 DEF Numeric
<1>4. /\ C \in [DOMAIN C -> Nat \ {0}] /\ DOMAIN C \subseteq Addresses
      /\ \A c \in DOMAIN C : Aligned(C[c]) /\ c + C[c] <= Upper
  <2>1. \A x \in DOMAIN C : C[x] \in Nat \ {0} /\ Aligned(C[x]) /\ x + C[x] <= Upper
    BY DEF Links
  <2> QED  BY <2>1 DEF IsFcn, Links
<1>5. ASSUME NEW x \in DOMAIN M PROVE M[x] \in DOMAIN C \cup {Nil}
  BY <1>0 DEF Numeric
<1>6. M \in [DOMAIN C \cup {First} -> DOMAIN C \cup {Nil}]
  BY <1>3, <1>5 DEF IsFcn
<1>7. ASSUME NEW x \in DOMAIN M
      PROVE  /\ M[x] # Nil => M[x] > x
             /\ \A d \in DOMAIN C : d > x => M[x] # Nil /\ M[x] <= d
             /\ x # First /\ M[x] # Nil => x + C[x] < M[x]
  <2>1. /\ \A d \in DOMAIN B : d > p => N[p] # Nil /\ N[p] <= d /\ d > a
        /\ N[p] # Nil => N[p] > a /\ N[p] \in Int
    <3>1. \A d \in DOMAIN B : d > p => N[p] # Nil /\ N[p] <= d /\ d \in Int /\ N[p] \in Int
      BY <1>0 DEF Links, Numeric
    <3>2. N[p] \in Int
      BY <1>0 DEF Numeric
    <3> QED  BY <1>1, <3>1, <3>2
  <2>2. CASE x = p
    <3>1. M[x] = a
      BY <2>2
    <3>2. p # First => C[p] = B[p]
      BY <1>0, <1>1 DEF Numeric
    <3>3. \A d \in DOMAIN C : d > p => a <= d
      BY <1>0, <1>1, <2>1 DEF Numeric
    <3> QED  BY <1>1, <2>2, <3>1, <3>2, <3>3
  <2>3. CASE x = a
    <3>1. M[x] = N[p] /\ C[x] = n
      BY <1>1, <2>3
    <3>2. \A d \in DOMAIN C : d > a => N[p] # Nil /\ N[p] <= d
      <4> SUFFICES ASSUME NEW d \in DOMAIN C, d > a PROVE N[p] # Nil /\ N[p] <= d
        OBVIOUS
      <4>1. d \in DOMAIN B
        BY <1>1
      <4>2. d > p
        BY <1>0, <1>1, <4>1 DEF Numeric
      <4> QED  BY <2>1, <4>1, <4>2
    <3> QED  BY <2>1, <2>3, <3>1, <3>2
  <2>4. CASE x # p /\ x # a
    <3>1. M[x] = N[x] /\ x \in DOMAIN N /\ (x # First => C[x] = B[x])
      BY <1>0, <2>4 DEF Numeric
    <3>2. a > x => N[x] # Nil /\ N[x] <= a
      <4> SUFFICES ASSUME a > x PROVE N[x] # Nil /\ N[x] <= a
        OBVIOUS
      <4>1. x \in Int /\ N[x] \in Int /\ N[p] \in Int
        BY <1>0, <3>1 DEF Numeric
      <4>2. CASE x < p
        <5>1. p # First
          BY <1>0, <3>1, <4>2 DEF Numeric, First
        <5>2. p \in DOMAIN B
          BY <1>0, <5>1 DEF Numeric
        <5>3. N[x] # Nil /\ N[x] <= p
          BY <3>1, <4>2, <5>2 DEF Links
        <5> QED  BY <1>1, <4>1, <5>3
      <4>3. CASE x > p
        <5>1. x # First
          BY <1>0, <3>1, <4>3 DEF Numeric, First
        <5>2. x \in DOMAIN B
          BY <1>0, <3>1, <5>1 DEF Numeric
        <5>3. x > a
          BY <2>1, <4>3, <5>2
        <5> QED  BY <1>1, <4>1, <5>3
      <4> QED  BY <1>1, <2>4, <4>1, <4>2, <4>3
    <3>3. /\ N[x] # Nil => N[x] > x
          /\ \A d \in DOMAIN B : d > x => N[x] # Nil /\ N[x] <= d
          /\ x # First /\ N[x] # Nil => x + B[x] < N[x]
      BY <3>1 DEF Links
    <3> QED  BY <3>1, <3>2, <3>3
  <2> QED  BY <2>2, <2>3, <2>4
<1>8. Links(M, C)
  BY <1>3, <1>4, <1>6, <1>7 DEF Links
<1>9. \A x \in Addresses : x \in Covered(C) <=> x \in Covered(B) \cup Within(a, n)
  BY <1>2 DEF Covered, Within
<1>10. Within(a, n) \subseteq Addresses
  BY DEF Within
<1> QED  BY <1>3, <1>8, <1>9, <1>10 DEF Covered

\* With the new size it is a list, which covers what the chunk covers now.
LEMMA ResizeChunk ==
  ASSUME NEW N, NEW B, NEW c, NEW n, NEW C, Resizes(N, B, c, n, C)
  PROVE  Links(N, C) /\ Covered(C) = (Covered(B) \ Within(c, B[c])) \cup Within(c, n)
<1> USE DEF Resizes
<1>0. Numeric(N, B)
  BY Numbers
<1>1. /\ C \in [DOMAIN C -> Nat \ {0}] /\ DOMAIN C \subseteq Addresses
      /\ \A x \in DOMAIN C : Aligned(C[x]) /\ x + C[x] <= Upper
  <2>1. \A x \in DOMAIN C : C[x] \in Nat \ {0} /\ Aligned(C[x]) /\ x + C[x] <= Upper
    BY DEF Links
  <2> QED  BY <2>1 DEF IsFcn, Links
<1>2. \A x \in DOMAIN N : x # First /\ N[x] # Nil => x + C[x] < N[x]
  BY <1>0 DEF Links, Numeric
<1>3. Links(N, C)
  BY <1>1, <1>2 DEF Links
<1>4. \A d \in DOMAIN B : d # c => \A x \in Int : ~(c <= x /\ x < c + B[c] /\ d <= x /\ x < d + B[d])
  BY OneChunk
<1>5. \A x \in Addresses : x \in Covered(C) <=> x \in (Covered(B) \ Within(c, B[c])) \cup Within(c, n)
  BY <1>4, AlignedConstants DEF Covered, Within
<1>6. Within(c, n) \subseteq Addresses
  BY DEF Within
<1> QED  BY <1>3, <1>5, <1>6 DEF Covered
-----------------------------------------------------------------------------
(* The index. *)

\* The index has a size.
LEMMA LevelsFinite == IndexSize \in Nat
<1>1. IsFiniteSet(1 .. MaxLevels)
  BY FS_Interval, HeaderConstantsOK
<1>2. {i \in 1 .. MaxLevels : (Upper - Lower) \div FirstPot >= 2 ^ i} \in SUBSET (1 .. MaxLevels)
  OBVIOUS
<1> QED  BY <1>1, <1>2, FS_Subset, FS_CardinalityType DEF IndexSize

\* What mhac_MemChunkClaimed leaves leads neither to c nor from it.
LEMMA ClaimedIs ==
  ASSUME NEW h, IsHeader(h), NEW c
  PROVE  LET k == Claimed(h, c) IN
         /\ IsHeader(k) /\ k.next = h.next /\ k.bytes = h.bytes /\ k.free = h.free
         /\ k.index = [i \in Levels |-> k.index[i]]
         /\ \A i \in Levels : k.index[i] # Nil =>
              k.index[i] = h.index[i] /\ h.index[i] # c /\ h.next[h.index[i]] # c
<1> DEFINE J == [i \in Levels |-> IF h.index[i] # Nil /\ (h.index[i] = c \/ h.next[h.index[i]] = c)
                                  THEN Nil ELSE h.index[i]]
<1>1. Claimed(h, c) = [h EXCEPT !.index = J]
  BY DEF Claimed
<1>2. /\ J = [i \in Levels |-> J[i]]
      /\ \A i \in Levels : J[i] # Nil => J[i] = h.index[i] /\ h.index[i] # c /\ h.next[h.index[i]] # c
  OBVIOUS
<1> HIDE DEF J
<1>3. [h EXCEPT !.index = J] = [next |-> h.next, bytes |-> h.bytes, free |-> h.free, index |-> J]
  BY DEF IsHeader
<1> QED  BY <1>1, <1>2, <1>3 DEF IsHeader

\* mhac_MemChunkCreated changes the index only, and names only the predecessor it is given.
LEMMA CreatedIs ==
  ASSUME NEW h, IsHeader(h), NEW c, NEW p
  PROVE  LET k == Created(h, c, p) IN
         /\ IsHeader(k) /\ k.next = h.next /\ k.bytes = h.bytes /\ k.free = h.free
         /\ k.index = [i \in Levels |-> k.index[i]]
         /\ \A i \in Levels : k.index[i] = p \/ k.index[i] = h.index[i]
<1> DEFINE J == [i \in Levels |-> IF h.bytes[c] >= LevelBytes(i)
                                       /\ (h.index[i] = Nil \/ h.next[h.index[i]] > c)
                                  THEN p ELSE h.index[i]]
<1>1. Created(h, c, p) = [h EXCEPT !.index = J]
  BY DEF Created
<1>2. J = [i \in Levels |-> J[i]] /\ \A i \in Levels : J[i] = p \/ J[i] = h.index[i]
  OBVIOUS
<1> HIDE DEF J
<1>3. [h EXCEPT !.index = J] = [next |-> h.next, bytes |-> h.bytes, free |-> h.free, index |-> J]
  BY DEF IsHeader
<1> QED  BY <1>1, <1>2, <1>3 DEF IsHeader

\* A search starts in the list, and in front of the place it is for.
LEMMA BetterIs ==
  ASSUME NEW h, HeaderOK(h), NEW n
  PROVE  Better(h, n) \in DOMAIN h.next
<1> DEFINE known == {i \in Levels : LevelBytes(i) <= n /\ h.index[i] # Nil}
<1>0. Numeric(h.next, h.bytes)
  BY Numbers DEF HeaderOK
<1>1. First \in DOMAIN h.next
  BY <1>0 DEF Numeric
<1>2. IndexSize \in Int
  BY LevelsFinite
<1>3. CASE known # {}
  <2>1. known \in SUBSET (0 .. IndexSize - 1)
    BY DEF Levels
  <2>2. Max(known) \in known
    <3> HIDE DEF known
    <3>1. 0 \in Int /\ IndexSize - 1 \in Int
      BY <1>2
    <3> QED  BY <1>3, <2>1, <3>1, MinMax
  <2>3. h.index[Max(known)] \in DOMAIN h.next
    BY <2>2 DEF HeaderOK, Known
  <2> QED  BY <1>3, <2>3 DEF Better
<1>4. CASE known = {}
  BY <1>1, <1>4 DEF Better
<1> QED  BY <1>3, <1>4

\* mhac_GetCloserPrevMemChunk answers the head of the list, or a chunk that another one
\* follows in front of the address.
LEMMA CloserIs ==
  ASSUME NEW h, HeaderOK(h), NEW addr \in Nat
  PROVE  /\ Closer(h, addr) \in DOMAIN h.next
         /\ Closer(h, addr) # First => h.next[Closer(h, addr)] \in DOMAIN h.bytes
                                      /\ h.next[Closer(h, addr)] < addr
<1> DEFINE near == {i \in Levels : h.index[i] # Nil /\ h.next[h.index[i]] < addr
                                                    /\ h.next[h.index[i]] > h.next[First]}
           firsts == {h.next[h.index[i]] : i \in near}
           best == {i \in near : h.next[h.index[i]] = Max(firsts)}
<1>0. Numeric(h.next, h.bytes)
  BY Numbers DEF HeaderOK
<1>1. First \in DOMAIN h.next
  BY <1>0 DEF Numeric
<1>2. IndexSize \in Int
  BY LevelsFinite
<1>3. CASE near # {}
  <2>1. \A i \in near : h.index[i] \in DOMAIN h.next /\ h.next[h.index[i]] \in DOMAIN h.bytes
    BY <1>0 DEF HeaderOK, Known, Numeric
  <2>2. firsts \in SUBSET (Lower .. Upper) /\ firsts # {}
    BY <1>0, <1>3, <2>1 DEF Numeric
  <2>3. Max(firsts) \in firsts
    <3> HIDE DEF firsts
    <3>1. Lower \in Int /\ Upper \in Int
      BY AlignedConstants
    <3> QED  BY <2>2, <3>1, MinMax
  <2>4. best # {} /\ best \in SUBSET (0 .. IndexSize - 1)
    BY <2>3 DEF Levels
  <2>5. Min(best) \in best
    <3> HIDE DEF best
    <3>1. 0 \in Int /\ IndexSize - 1 \in Int
      BY <1>2
    <3> QED  BY <2>4, <3>1, MinMax
  <2>6. Closer(h, addr) = h.index[Min(best)]
    BY <1>3 DEF Closer
  <2> QED  BY <2>1, <2>5, <2>6
<1>4. CASE near = {}
  BY <1>1, <1>4 DEF Closer
<1> QED  BY <1>3, <1>4

\* Its chunk c behind p has become the n bytes at a, which are a part of c.
Replaces(N, B, p, c, a, n, M, C) ==
  /\ Links(N, B) /\ p \in DOMAIN N /\ c = N[p] /\ c # Nil
  /\ a \in Addresses /\ n \in Nat \ {0} /\ Aligned(n) /\ c <= a /\ a + n <= c + B[c]
  /\ IsFcn(M) /\ DOMAIN M = (DOMAIN N \ {c}) \cup {a}
  /\ \A x \in DOMAIN M : M[x] = IF x = p THEN a ELSE IF x = a THEN N[c] ELSE N[x]
  /\ IsFcn(C) /\ DOMAIN C = (DOMAIN B \ {c}) \cup {a}
  /\ \A x \in DOMAIN C : C[x] = IF x = a THEN n ELSE B[x]

\* With what is left of the chunk it is a list.
LEMMA ReplaceChunk ==
  ASSUME NEW N, NEW B, NEW p, NEW c, NEW a, NEW n, NEW M, NEW C,
         Replaces(N, B, p, c, a, n, M, C)
  PROVE  Links(M, C) /\ Covered(C) = (Covered(B) \ Within(c, B[c])) \cup Within(a, n)
<1> USE DEF Replaces
<1> DEFINE K == With(Without(N, {c}), p, N[c])
           D == Without(B, {c})
<1>0. Numeric(N, B)
  BY Numbers
<1>1. c \in DOMAIN B /\ c \in DOMAIN N /\ c > p /\ p # c /\ c \in Int /\ p \in Int
      /\ B[c] \in Int /\ a \in Int /\ N[c] \in Int
  BY <1>0, AlignedConstants DEF Numeric, Links
<1>2. /\ IsFcn(K) /\ DOMAIN K = DOMAIN N \ {c}
      /\ \A x \in DOMAIN K : K[x] = IF x = p THEN N[c] ELSE N[x]
  BY <1>1 DEF With, Without, Restrict, IsFcn
<1>3. IsFcn(D) /\ DOMAIN D = DOMAIN B \ {c} /\ \A x \in DOMAIN D : D[x] = B[x]
  BY DEF Without, Restrict, IsFcn
<1> HIDE DEF K, D
<1>4. Removes(N, B, p, c, K, D)
  BY <1>2, <1>3 DEF Removes
<1>5. Links(K, D) /\ Covered(D) = Covered(B) \ Within(c, B[c])
  BY <1>4, RemoveChunk
<1>6. p \in DOMAIN K /\ K[p] = N[c]
  BY <1>1, <1>2
<1>7. a > p /\ a + n <= Upper
  BY <1>1, AlignedConstants DEF Links
<1>8. p # First => p + D[p] < a
  <2> SUFFICES ASSUME p # First PROVE p + D[p] < a
    OBVIOUS
  <2>1. p \in DOMAIN B /\ p \in DOMAIN D /\ B[p] \in Int
    BY <1>0, <1>1, <1>3 DEF Numeric
  <2>2. p + B[p] < c
    BY DEF Links
  <2> QED  BY <1>1, <1>3, <2>1, <2>2
<1>9. K[p] # Nil => a + n < K[p]
  <2>1. c # First /\ N[c] # Nil => c + B[c] < N[c]
    BY <1>1 DEF Links
  <2>2. c # First
    BY <1>0, <1>1 DEF Numeric
  <2> QED  BY <1>1, <1>6, <2>1, <2>2
<1>10. /\ DOMAIN M = DOMAIN K \cup {a} /\ DOMAIN C = DOMAIN D \cup {a}
       /\ \A x \in DOMAIN M : M[x] = IF x = p THEN a ELSE IF x = a THEN K[p] ELSE K[x]
       /\ \A x \in DOMAIN C : C[x] = IF x = a THEN n ELSE D[x]
  BY <1>2, <1>3, <1>6
<1>11. Inserts(K, D, p, a, n, M, C)
  BY <1>5, <1>6, <1>7, <1>8, <1>9, <1>10 DEF Inserts
<1>12. Links(M, C) /\ Covered(C) = Covered(D) \cup Within(a, n)
  BY <1>11, InsertChunk
<1> QED  BY <1>5, <1>12
-----------------------------------------------------------------------------
(* What stdAlloc takes. *)

\* The header k is h after n bytes at b have been taken from a chunk.
Took(h, n, k, b) ==
  /\ HeaderOK(k) /\ b \in Addresses /\ b + n <= Upper
  /\ Within(b, n) \subseteq Covered(h.bytes)
  /\ Covered(k.bytes) = Covered(h.bytes) \ Within(b, n)
  /\ k.free = h.free - n

\* A header with another mh_Free.
LEMMA NewFree ==
  ASSUME NEW g, IsHeader(g), NEW n, NEW k, k = [g EXCEPT !.free = n]
  PROVE  IsHeader(k) /\ k.next = g.next /\ k.bytes = g.bytes /\ k.index = g.index /\ k.free = n
<1>1. k = [next |-> g.next, bytes |-> g.bytes, free |-> n, index |-> g.index]
  BY DEF IsHeader
<1> QED  BY <1>1 DEF IsHeader

\* What stdAlloc does once it has found a chunk takes the bytes from it and nothing else,
\* from either end, and leaves list and index sound.
LEMMA TakenIs ==
  ASSUME NEW h, HeaderOK(h), NEW p \in DOMAIN h.next, NEW c, c = h.next[p], c # Nil,
         NEW n \in Nat \ {0}, Aligned(n), h.bytes[c] >= n, NEW reverse \in BOOLEAN
  PROVE  LET answer == Taken(h, p, c, n, reverse) IN Took(h, n, answer.mh, answer.block)
<1> DEFINE N == h.next
           B == h.bytes
           e == [h EXCEPT !.free = @ - n]
           g == Claimed(e, c)
           rest == B[c] - n
           left == IF reverse THEN c ELSE c + n
           block == IF reverse THEN c + rest ELSE c
<1>0. Numeric(N, B)
  BY Numbers DEF HeaderOK
<1>1. /\ c \in DOMAIN B /\ c \in DOMAIN N /\ p # c /\ B[c] \in Int /\ c \in Int
      /\ Aligned(c) /\ Aligned(B[c]) /\ c + B[c] <= Upper /\ c >= Lower /\ Links(N, B)
  BY <1>0 DEF Numeric, Links, HeaderOK
<1>2. Upper \in Int /\ Lower \in Int
  BY AlignedConstants
<1>3. IsHeader(e) /\ e.next = N /\ e.bytes = B /\ e.index = h.index /\ e.free = h.free - n
  BY NewFree DEF HeaderOK
<1> HIDE DEF e
<1>4. /\ IsHeader(g) /\ g.next = N /\ g.bytes = B /\ g.free = h.free - n
      /\ g.index = [i \in Levels |-> g.index[i]]
      /\ \A i \in Levels : g.index[i] # Nil =>
              g.index[i] = h.index[i] /\ h.index[i] # c /\ N[h.index[i]] # c
  BY <1>3, ClaimedIs
<1> HIDE DEF g
<1>5. \A i \in Levels : g.index[i] # Nil => g.index[i] \in DOMAIN N \ {c, p} /\ N[g.index[i]] # Nil
  BY <1>4 DEF HeaderOK, Known
<1>6. h.free - n \in Int
  BY DEF HeaderOK
<1>7. /\ rest \in Nat /\ Aligned(rest)
      /\ block \in Addresses /\ block + n <= Upper /\ Within(block, n) \subseteq Within(c, B[c])
      /\ Within(c, B[c]) \subseteq Covered(B)
  <2>1. rest \in Nat
    BY <1>1
  <2>2. Aligned(rest)
    BY <1>1, AlignedTerm
  <2>3. block \in Int /\ Aligned(block)
    BY <1>1, <2>1, <2>2, AlignedTerm
  <2>4. c <= block /\ block + n <= c + B[c]
    BY <1>1
  <2>5. block \in Lower .. Upper - 1
    BY <1>1, <1>2, <2>3, <2>4
  <2>6. block \in Addresses
    BY <2>3, <2>5, AlignedConstants
  <2> HIDE DEF block
  <2>7. block + n <= Upper
    BY <1>1, <1>2, <2>3, <2>4
  <2>8. \A x \in Addresses : block <= x /\ x < block + n => c <= x /\ x < c + B[c]
    BY <1>1, <2>3, <2>4, AlignedConstants
  <2>9. Within(c, B[c]) \subseteq Covered(B)
    BY <1>1 DEF Within, Covered
  <2> QED  BY <2>1, <2>2, <2>6, <2>7, <2>8, <2>9 DEF Within
<1>8. CASE rest = 0
  <2> DEFINE M == Without(With(N, p, N[c]), {c})
             C == Without(B, {c})
             k == [g EXCEPT !.next = M, !.bytes = C]
  <2>1. Taken(h, p, c, n, reverse) = Answer(k, c)
    BY <1>8, <1>4 DEF Taken, e, g
  <2>2. /\ IsFcn(M) /\ DOMAIN M = DOMAIN N \ {c}
        /\ \A x \in DOMAIN M : M[x] = IF x = p THEN N[c] ELSE N[x]
        /\ IsFcn(C) /\ DOMAIN C = DOMAIN B \ {c}
        /\ \A x \in DOMAIN C : C[x] = B[x]
    BY DEF With, Without, Restrict, IsFcn
  <2> HIDE DEF M, C
  <2>3. Removes(N, B, p, c, M, C)
    BY <1>1, <2>2 DEF Removes
  <2>4. Links(M, C) /\ Covered(C) = Covered(B) \ Within(c, B[c])
    BY <2>3, RemoveChunk
  <2>5. IsHeader(k) /\ k.next = M /\ k.bytes = C /\ k.index = g.index /\ k.free = g.free
    <3>1. [g EXCEPT !.next = M] = [next |-> M, bytes |-> B, free |-> g.free, index |-> g.index]
      BY <1>4 DEF IsHeader
    <3>2. k = [[g EXCEPT !.next = M] EXCEPT !.bytes = C]
      OBVIOUS
    <3> HIDE DEF k
    <3>3. k = [next |-> M, bytes |-> C, free |-> g.free, index |-> g.index]
      BY <3>1, <3>2
    <3> QED  BY <3>3 DEF IsHeader
  <2> HIDE DEF k
  <2>6. Known(g.index, M)
    BY <1>4, <1>5, <2>2 DEF Known
  <2>7. HeaderOK(k)
    BY <1>4, <1>6, <2>4, <2>5, <2>6 DEF HeaderOK
  <2>8. n = B[c] /\ block = c
    <3>1. \A x, y \in Int : x - y = 0 => y = x
      OBVIOUS
    <3>2. n = B[c]
      BY <1>1, <1>8, <3>1
    <3> QED  BY <1>1, <1>8, <3>2
  <2> QED  BY <1>4, <1>7, <2>1, <2>4, <2>5, <2>7, <2>8 DEF Took, Answer
<1>9. CASE rest # 0
  <2> DEFINE M == With(With(Without(N, {c}), left, N[c]), p, left)
             C == With(Without(B, {c}), left, rest)
             s == [g EXCEPT !.next = M, !.bytes = C]
             k == Created(s, left, p)
  <2>1. Taken(h, p, c, n, reverse) = Answer(k, block)
    BY <1>9, <1>4 DEF Taken, e, g
  <2>2. left \in Int /\ Aligned(left) /\ c <= left /\ left + rest <= c + B[c] /\ left # p
    <3>1. left \in Int /\ c <= left /\ left + rest <= c + B[c] /\ Aligned(left)
      BY <1>1, <1>7, AlignedTerm
    <3>2. p \in Int /\ p < c
      BY <1>0 DEF Numeric, HeaderOK, Links
    <3> QED  BY <1>1, <3>1, <3>2
  <2>3. left \in Addresses
    <3>1. left \in Lower .. Upper - 1
      BY <1>1, <1>2, <1>7, <1>9, <2>2
    <3> QED  BY <2>2, <3>1, AlignedConstants
  <2>4. Within(left, rest) = Within(c, B[c]) \ Within(block, n)
    <3>1. \A x \in Addresses : left <= x /\ x < left + rest <=> (c <= x /\ x < c + B[c] /\ ~(block <= x /\ x < block + n))
      BY <1>1, <1>7, AlignedConstants
    <3> QED  BY <3>1 DEF Within
  <2> HIDE DEF left, block, rest
  <2>5. /\ IsFcn(M) /\ DOMAIN M = (DOMAIN N \ {c}) \cup {left}
        /\ \A x \in DOMAIN M : M[x] = IF x = p THEN left ELSE IF x = left THEN N[c] ELSE N[x]
        /\ IsFcn(C) /\ DOMAIN C = (DOMAIN B \ {c}) \cup {left}
        /\ \A x \in DOMAIN C : C[x] = IF x = left THEN rest ELSE B[x]
    BY <1>1, <2>2 DEF With, Without, Restrict, IsFcn
  <2> HIDE DEF M, C
  <2>6. Replaces(N, B, p, c, left, rest, M, C)
    BY <1>1, <1>7, <1>9, <2>2, <2>3, <2>5 DEF Replaces
  <2>7. Links(M, C) /\ Covered(C) = (Covered(B) \ Within(c, B[c])) \cup Within(left, rest)
    BY <2>6, ReplaceChunk
  <2>8. IsHeader(s) /\ s.next = M /\ s.bytes = C /\ s.index = g.index /\ s.free = g.free
    <3>1. [g EXCEPT !.next = M] = [next |-> M, bytes |-> B, free |-> g.free, index |-> g.index]
      BY <1>4 DEF IsHeader
    <3>2. s = [[g EXCEPT !.next = M] EXCEPT !.bytes = C]
      OBVIOUS
    <3> HIDE DEF s
    <3>3. s = [next |-> M, bytes |-> C, free |-> g.free, index |-> g.index]
      BY <3>1, <3>2
    <3> QED  BY <3>3 DEF IsHeader
  <2> HIDE DEF s
  <2>9. /\ IsHeader(k) /\ k.next = M /\ k.bytes = C /\ k.free = g.free
        /\ k.index = [i \in Levels |-> k.index[i]]
        /\ \A i \in Levels : k.index[i] = p \/ k.index[i] = g.index[i]
    BY <2>8, CreatedIs
  <2> HIDE DEF k
  <2>10. p \in DOMAIN M /\ M[p] # Nil
    BY <1>0, <1>1, <2>2, <2>3, <2>5, AlignedConstants DEF Nil
  <2>11. \A i \in Levels : g.index[i] # Nil => g.index[i] \in DOMAIN M /\ M[g.index[i]] # Nil
    <3> SUFFICES ASSUME NEW i \in Levels, g.index[i] # Nil
                 PROVE  g.index[i] \in DOMAIN M /\ M[g.index[i]] # Nil
      OBVIOUS
    <3> DEFINE x == g.index[i]
    <3>1. x \in DOMAIN N \ {c, p} /\ N[x] # Nil
      BY <1>5
    <3> HIDE DEF x
    <3>2. x \in DOMAIN M /\ M[x] = IF x = left THEN N[c] ELSE N[x]
      BY <2>5, <3>1
    <3>3. x # left
      <4>1. SUFFICES ASSUME x = left PROVE FALSE
        OBVIOUS
      <4>2. x \in DOMAIN B
        BY <1>0, <2>3, <3>1, <4>1, AlignedConstants DEF Numeric, First
      <4>3. c < x
        BY <1>1, <2>2, <3>1, <4>1
      <4>4. c + B[c] < x
        BY <1>1, <4>2, <4>3, Apart
      <4> QED  BY <1>1, <1>7, <2>2, <4>1, <4>4
    <3> QED  BY <3>1, <3>2, <3>3 DEF x
  <2>12. Known(k.index, M)
    BY <2>9, <2>10, <2>11 DEF Known
  <2>13. HeaderOK(k)
    BY <1>4, <1>6, <2>7, <2>9, <2>12 DEF HeaderOK
  <2> QED  BY <1>4, <1>7, <2>1, <2>4, <2>7, <2>9, <2>13 DEF Took, Answer
<1> QED  BY <1>8, <1>9

\* A search takes from a chunk behind p, if one is big enough.
LEMMA SearchIs ==
  ASSUME NEW h, HeaderOK(h), NEW p \in DOMAIN h.next, NEW n \in Nat \ {0}, Aligned(n),
         NEW reverse \in BOOLEAN, NEW answer, answer = SearchFrom(h, p, n, reverse)
  PROVE  \/ Took(h, n, answer.mh, answer.block)
         \/ /\ answer = Answer(h, Nil)
            /\ \A c \in DOMAIN h.bytes : c > p => h.bytes[c] < n
<1> DEFINE walk == Trail(h, p)
           fits == {i \in 2 .. Len(walk) : h.bytes[walk[i]] >= n}
           i == IF reverse THEN Max(fits) ELSE Min(fits)
<1>0. Numeric(h.next, h.bytes) /\ Links(h.next, h.bytes)
  BY Numbers DEF HeaderOK
<1>1. LeadsOn(h, p, walk)
  BY <1>0, TrailLeadsOn
<1>2. answer = IF fits = {} THEN Answer(h, Nil) ELSE Taken(h, walk[i - 1], walk[i], n, reverse)
  BY DEF SearchFrom, Trail
<1> HIDE DEF walk
<1>3. Len(walk) \in Int /\ Len(walk) >= 1
  BY <1>1 DEF LeadsOn
<1>4. CASE fits = {}
  <2>1. ASSUME NEW c \in DOMAIN h.bytes, c > p PROVE h.bytes[c] < n
    <3>1. PICK j \in 2 .. Len(walk) : walk[j] = c
      BY <1>1, <2>1 DEF LeadsOn
    <3>2. ~(h.bytes[c] >= n)
      BY <1>4, <3>1
    <3>3. h.bytes[c] \in Int
      BY <1>0 DEF Numeric
    <3> QED  BY <3>2, <3>3
  <2> QED  BY <1>2, <1>4, <2>1
<1>5. CASE fits # {}
  <2>1. fits \in SUBSET (2 .. Len(walk))
    OBVIOUS
  <2>2. i \in fits
    <3> HIDE DEF fits
    <3>1. 2 \in Int /\ Len(walk) \in Int
      BY <1>3
    <3>2. Min(fits) \in fits
      BY <1>5, <2>1, <3>1, MinMax
    <3>3. Max(fits) \in fits
      BY <1>5, <2>1, <3>1, MinMax
    <3> QED  BY <3>2, <3>3
  <2>3. i \in 2 .. Len(walk) /\ h.bytes[walk[i]] >= n
    BY <2>2
  <2> HIDE DEF i, fits
  <2>4. i - 1 \in 1 .. Len(walk) - 1 /\ (i - 1) + 1 = i /\ i - 1 \in 1 .. Len(walk)
    BY <1>3, <2>3
  <2>5. h.next[walk[i - 1]] = walk[i] /\ walk \in Seq(DOMAIN h.next)
    BY <1>1, <2>4 DEF LeadsOn
  <2>6. walk[i - 1] \in DOMAIN h.next /\ walk[i] \in DOMAIN h.next
    BY <2>3, <2>4, <2>5
  <2>7. walk[i] # Nil
    BY <1>0, <2>6 DEF Numeric
  <2> DEFINE q == walk[i - 1]
             c == walk[i]
             taken == Taken(h, q, c, n, reverse)
  <2>8. q \in DOMAIN h.next /\ c = h.next[q] /\ c # Nil /\ h.bytes[c] >= n
    BY <2>3, <2>5, <2>6, <2>7
  <2>9. answer = taken
    BY <1>2, <1>5
  <2> HIDE DEF q, c
  <2>10. Took(h, n, taken.mh, taken.block)
    BY <2>8, TakenIs
  <2> QED  BY <2>9, <2>10
<1> QED  BY <1>4, <1>5

\* stdAlloc takes a block, or no chunk is big enough: then the index may be empty now.
LEMMA AllocIs ==
  ASSUME NEW h, HeaderOK(h), NEW byteSize \in Nat \ {0}, NEW reverse \in BOOLEAN,
         NEW answer, answer = stdAlloc(h, byteSize, reverse)
  PROVE  \/ Took(h, RoundUp(byteSize), answer.mh, answer.block)
         \/ /\ answer.block = Nil
            /\ HeaderOK(answer.mh) /\ answer.mh.next = h.next /\ answer.mh.bytes = h.bytes
            /\ answer.mh.free = h.free
            /\ h.free < RoundUp(byteSize) \/ \A c \in DOMAIN h.bytes : h.bytes[c] < RoundUp(byteSize)
<1> DEFINE n == RoundUp(byteSize)
           p == Better(h, byteSize)
           a1 == SearchFrom(h, p, n, reverse)
           k == [h EXCEPT !.index = NoIndex]
           a2 == SearchFrom(k, First, n, reverse)
<1>0. Numeric(h.next, h.bytes) /\ Links(h.next, h.bytes)
  BY Numbers DEF HeaderOK
<1>1. n \in Nat \ {0} /\ Aligned(n)
  BY RoundUpIs
<1>2. answer = IF h.free < n THEN Answer(h, Nil)
               ELSE IF a1.block # Nil \/ h.index = NoIndex THEN a1 ELSE a2
  BY DEF stdAlloc
<1>3. p \in DOMAIN h.next
  BY BetterIs
<1>4. /\ IsHeader(k) /\ k.next = h.next /\ k.bytes = h.bytes /\ k.free = h.free
      /\ k.index = NoIndex
  <2>1. k = [next |-> h.next, bytes |-> h.bytes, free |-> h.free, index |-> NoIndex]
    BY DEF HeaderOK, IsHeader
  <2> QED  BY <2>1 DEF IsHeader
<1>5. Known(NoIndex, h.next)
  BY DEF Known, NoIndex
<1> HIDE DEF k
<1>6. HeaderOK(k)
  BY <1>4, <1>5 DEF HeaderOK
<1>7. /\ First \in DOMAIN h.next /\ \A c \in DOMAIN h.bytes : c > First
  BY <1>0 DEF Numeric, First
<1> HIDE DEF n, p
<1>8. \/ Took(h, n, a1.mh, a1.block)
      \/ a1 = Answer(h, Nil) /\ \A c \in DOMAIN h.bytes : c > p => h.bytes[c] < n
  BY <1>1, <1>3, SearchIs
<1>9. \/ Took(k, n, a2.mh, a2.block)
      \/ a2 = Answer(k, Nil) /\ \A c \in DOMAIN k.bytes : c > First => k.bytes[c] < n
  BY <1>1, <1>4, <1>6, <1>7, SearchIs
<1>10. Took(k, n, a2.mh, a2.block) => Took(h, n, a2.mh, a2.block)
  BY <1>4 DEF Took
<1>11. h.index = NoIndex => p = First
  BY DEF Better, NoIndex, p
<1> HIDE DEF a1, a2
<1>12. CASE answer = Answer(h, Nil) /\ h.free < n
  BY <1>12 DEF Answer, n
<1>13. CASE answer = a1 /\ a1.block # Nil
  BY <1>8, <1>13 DEF Answer, n
<1>14. CASE answer = a1 /\ a1.block = Nil /\ h.index = NoIndex
  <2>1. Took(h, n, a1.mh, a1.block) \/ \A c \in DOMAIN h.bytes : h.bytes[c] < n
    BY <1>7, <1>8, <1>11, <1>14
  <2> QED  BY <1>8, <1>14, <2>1 DEF Answer, n
<1>15. CASE answer = a2
  <2>1. CASE Took(k, n, a2.mh, a2.block)
    BY <1>10, <1>15, <2>1 DEF n
  <2>2. CASE a2 = Answer(k, Nil)
    <3>1. Took(h, n, a2.mh, a2.block) \/ \A c \in DOMAIN h.bytes : h.bytes[c] < n
      BY <1>4, <1>7, <1>9, <1>10
    <3> QED  BY <1>4, <1>6, <1>15, <2>2, <3>1 DEF Answer, n
  <2> QED  BY <1>9, <2>1, <2>2
<1> QED  BY <1>2, <1>12, <1>13, <1>14, <1>15
-----------------------------------------------------------------------------
(* What stdDealloc gives back. *)

\* RoundUp finds the least aligned number.
LEMMA RoundUpLeast ==
  ASSUME NEW m \in Int, NEW n \in Int, Aligned(m), n <= m
  PROVE  RoundUp(n) <= m
<1>1. RoundUp(n) \in Int /\ Aligned(RoundUp(n)) /\ RoundUp(n) < n + Unit
  BY RoundUpIs
<1>2. m < RoundUp(n) => m + Unit <= RoundUp(n)
  BY <1>1, AlignedGap
<1> QED  BY <1>1, <1>2, UnitType

\* The units of memory that a call for size bytes at addr is about.
LEMMA BlockIs ==
  ASSUME NEW addr \in Nat, NEW byteSize \in Nat, byteSize > 0, Lower <= addr, addr + byteSize <= Upper,
         NEW a, a = RoundDown(addr), NEW n, n = RoundUp(byteSize + (addr % Unit))
  PROVE  /\ a \in Addresses /\ n \in Nat \ {0} /\ Aligned(n) /\ a + n <= Upper
         /\ a <= addr /\ addr + byteSize <= a + n
         /\ Within(a, n) = {x \in Addresses : a <= x /\ x < addr + byteSize}
<1>1. a \in Int /\ Aligned(a) /\ a = addr - (addr % Unit) /\ a <= addr /\ addr < a + Unit
      /\ addr % Unit \in Nat
  BY RoundDownIs, UnitType
<1>2. Lower \in Int /\ Upper \in Int /\ Aligned(Lower) /\ Aligned(Upper)
  BY AlignedConstants
<1>3. Lower <= a
  <2>1. a < Lower => a + Unit <= Lower
    BY <1>1, <1>2, AlignedGap
  <2> QED  BY <1>1, <1>2, <2>1, UnitType
<1> DEFINE s == byteSize + (addr % Unit)
<1>4. s \in Int /\ s > 0 /\ a + s = addr + byteSize
  BY <1>1
<1> HIDE DEF s
<1>5. n \in Int /\ Aligned(n) /\ s <= n /\ \A m \in Int : Aligned(m) /\ s <= m => n <= m
  <2>1. n = RoundUp(s)
    BY DEF s
  <2> QED  BY <2>1, <1>4, RoundUpIs, RoundUpLeast
<1>6. a + n <= Upper
  <2>1. Aligned(Upper - a) /\ Upper - a \in Int
    BY <1>1, <1>2, AlignedTerm
  <2>2. s <= Upper - a
    BY <1>1, <1>2, <1>4
  <2> QED  BY <1>1, <1>2, <1>5, <2>1, <2>2
<1>7. a \in Addresses
  <2>1. a \in Lower .. Upper - 1
    BY <1>1, <1>2, <1>3, <1>4, <1>5, <1>6
  <2> QED  BY <1>1, <2>1, AlignedConstants
<1>8. ASSUME NEW x \in Addresses, a <= x, x < a + n PROVE x < addr + byteSize
  <2>1. SUFFICES ASSUME x >= a + s PROVE FALSE
    BY <1>1, <1>4, <1>8, AlignedConstants
  <2>2. x \in Int /\ Aligned(x)
    BY AlignedConstants
  <2>3. Aligned(x - a) /\ x - a \in Int
    BY <1>1, <2>2, AlignedTerm
  <2> QED  BY <1>1, <1>4, <1>5, <1>8, <2>1, <2>2, <2>3
<1>9. \A x \in Addresses : a <= x /\ x < a + n <=> a <= x /\ x < addr + byteSize
  BY <1>1, <1>4, <1>5, <1>8, AlignedConstants
<1>10. Within(a, n) = {x \in Addresses : a <= x /\ x < addr + byteSize}
  BY <1>9 DEF Within
<1>11. n > 0 /\ addr + byteSize <= a + n
  BY <1>1, <1>4, <1>5
<1> QED  BY <1>1, <1>5, <1>6, <1>7, <1>10, <1>11

\* Behind the chunk p, or First, and in front of the next one there is room for n bytes at a.
Room(N, B, p, a, n) ==
  /\ Links(N, B) /\ p \in DOMAIN N
  /\ a \in Addresses /\ n \in Nat \ {0} /\ Aligned(n) /\ a + n <= Upper
  /\ p < a /\ (p # First => p + B[p] <= a) /\ (N[p] # Nil => a + n <= N[p])

\* A block that no chunk overlaps fits in front of the first chunk behind it.
LEMMA RoomIs ==
  ASSUME NEW N, NEW B, Links(N, B), NEW p \in DOMAIN N,
         NEW a \in Addresses, NEW n \in Nat \ {0}, Aligned(n), a + n <= Upper,
         p < a, N[p] = Nil \/ N[p] >= a, Within(a, n) \cap Covered(B) = {}
  PROVE  Room(N, B, p, a, n) /\ a \notin DOMAIN N
<1>0. Numeric(N, B)
  BY Numbers
<1>1. a \in Int /\ a >= Lower /\ a > 0
  BY AlignedConstants
<1>2. \A x \in Addresses : x \in Int
  BY AlignedConstants
<1>3. a \in Within(a, n)
  BY <1>1 DEF Within
<1>4. p # First => p + B[p] <= a
  <2>1. SUFFICES ASSUME p # First, ~(p + B[p] <= a) PROVE FALSE
    OBVIOUS
  <2>2. p \in DOMAIN B /\ p \in Int /\ B[p] \in Int
    BY <1>0, <2>1 DEF Numeric
  <2>3. p <= a /\ a < p + B[p]
    BY <1>1, <2>1, <2>2
  <2>4. a \in Covered(B)
    BY <2>2, <2>3 DEF Covered
  <2> QED  BY <1>3, <2>4
<1>5. N[p] # Nil => a + n <= N[p]
  <2>1. SUFFICES ASSUME N[p] # Nil, ~(a + n <= N[p]) PROVE FALSE
    OBVIOUS
  <2> DEFINE q == N[p]
  <2>2. q \in DOMAIN B /\ q \in Addresses /\ q \in Int /\ B[q] \in Int /\ B[q] > 0
    BY <1>0, <2>1 DEF Numeric, Links
  <2>3. q \in Covered(B)
    BY <2>2 DEF Covered
  <2>4. q \in Within(a, n)
    BY <1>1, <2>1, <2>2 DEF Within
  <2> QED  BY <2>3, <2>4
<1>6. a \notin DOMAIN B
  <2>1. SUFFICES ASSUME a \in DOMAIN B PROVE FALSE
    OBVIOUS
  <2>2. B[a] \in Int /\ B[a] > 0
    BY <1>0, <2>1 DEF Numeric
  <2>3. a \in Covered(B)
    BY <1>1, <2>1, <2>2 DEF Covered
  <2> QED  BY <1>3, <2>3
<1> QED  BY <1>0, <1>1, <1>4, <1>5, <1>6 DEF Room, Numeric, First

\* The numbers of such a place.
LEMMA RoomNumbers ==
  ASSUME NEW N, NEW B, NEW p, NEW a, NEW n, Room(N, B, p, a, n)
  PROVE  /\ Numeric(N, B) /\ a \in Int /\ a > 0 /\ p \in Int /\ n \in Int /\ n > 0 /\ p # a
         /\ Aligned(a) /\ Aligned(n) /\ Links(N, B) /\ p \in DOMAIN N
<1>1. Links(N, B) /\ p \in DOMAIN N /\ a \in Addresses /\ Aligned(n) /\ n \in Nat \ {0} /\ p < a
  BY DEF Room
<1>2. Numeric(N, B)
  BY <1>1, Numbers
<1>3. a \in Int /\ a > 0 /\ Aligned(a)
  BY <1>1, AlignedConstants
<1>4. p \in Int
  BY <1>1, <1>2 DEF Numeric
<1> QED  BY <1>1, <1>2, <1>3, <1>4

\* The chunk p ends at a.
Touches(B, p, a) == p # First /\ p + B[p] = a

\* The list of M and C is that of N and B after the block joined it.
Joins(N, B, p, a, n, M, C) ==
  LET q == N[p]
      joinsPrev == p # First /\ p + B[p] = a
      joinsNext == a + n = q
      c == IF joinsPrev THEN p ELSE a
      eaten == IF joinsNext THEN {q} ELSE {}
      end == IF joinsNext THEN q + B[q] ELSE a + n
  IN /\ Room(N, B, p, a, n) /\ a \notin DOMAIN N
     /\ IsFcn(M) /\ DOMAIN M = (DOMAIN N \ eaten) \cup {c}
     /\ \A x \in DOMAIN M : M[x] = IF x = c THEN IF joinsNext THEN N[q] ELSE q
                                   ELSE IF x = p THEN a ELSE N[x]
     /\ IsFcn(C) /\ DOMAIN C = (DOMAIN B \ eaten) \cup {c}
     /\ \A x \in DOMAIN C : C[x] = IF x = c THEN end - c ELSE B[x]

\* The block becomes a chunk, touching no other.
LEMMA JoinNone ==
  ASSUME NEW N, NEW B, NEW p, NEW a, NEW n, NEW M, NEW C, Joins(N, B, p, a, n, M, C),
         p # First => p + B[p] # a, a + n # N[p]
  PROVE  Links(M, C) /\ Covered(C) = Covered(B) \cup Within(a, n)
<1> DEFINE joinsPrev == p # First /\ p + B[p] = a
           joinsNext == a + n = N[p]
           c0 == IF joinsPrev THEN p ELSE a
           eaten == IF joinsNext THEN {N[p]} ELSE {}
           end == IF joinsNext THEN N[p] + B[N[p]] ELSE a + n
           r == IF joinsNext THEN N[N[p]] ELSE N[p]
           s == end - c0
<1>a. /\ Room(N, B, p, a, n) /\ a \notin DOMAIN N /\ IsFcn(M) /\ IsFcn(C)
      /\ DOMAIN M = (DOMAIN N \ eaten) \cup {c0} /\ DOMAIN C = (DOMAIN B \ eaten) \cup {c0}
      /\ \A x \in DOMAIN M : M[x] = IF x = c0 THEN r ELSE IF x = p THEN a ELSE N[x]
      /\ \A x \in DOMAIN C : C[x] = IF x = c0 THEN s ELSE B[x]
  BY DEF Joins
<1>b. eaten = {} /\ c0 = a /\ r = N[p] /\ s = (a + n) - a
  OBVIOUS
<1> HIDE DEF joinsPrev, joinsNext, c0, eaten, end, r, s
<1>c. /\ Room(N, B, p, a, n) /\ a \notin DOMAIN N /\ IsFcn(M) /\ IsFcn(C)
      /\ DOMAIN M = DOMAIN N \cup {a} /\ DOMAIN C = DOMAIN B \cup {a}
      /\ \A x \in DOMAIN M : M[x] = IF x = a THEN N[p] ELSE IF x = p THEN a ELSE N[x]
      /\ \A x \in DOMAIN C : C[x] = IF x = a THEN (a + n) - a ELSE B[x]
  <2>1. DOMAIN M = DOMAIN N \cup {a}
    BY <1>a, <1>b
  <2>2. DOMAIN C = DOMAIN B \cup {a}
    BY <1>a, <1>b
  <2>3. \A x \in DOMAIN M : M[x] = IF x = a THEN N[p] ELSE IF x = p THEN a ELSE N[x]
    BY <1>a, <1>b
  <2>4. \A x \in DOMAIN C : C[x] = IF x = a THEN (a + n) - a ELSE B[x]
    BY <1>a, <1>b
  <2> QED  BY <1>a, <2>1, <2>2, <2>3, <2>4
<1>0. Numeric(N, B) /\ a \in Int /\ p \in Int /\ p # a
  BY <1>c, RoomNumbers
<1>1. /\ p # First => p + B[p] \in Int
      /\ N[p] \in Int
  BY <1>0, <1>c DEF Numeric, Room
<1>2. Inserts(N, B, p, a, n, M, C)
  BY <1>0, <1>1, <1>c DEF Room, Inserts
<1> QED  BY <1>2, InsertChunk

\* The chunk in front of the block grows.
LEMMA JoinPrevious ==
  ASSUME NEW N, NEW B, NEW p, NEW a, NEW n, NEW M, NEW C, Joins(N, B, p, a, n, M, C),
         Touches(B, p, a), a + n # N[p]
  PROVE  Links(M, C) /\ Covered(C) = Covered(B) \cup Within(a, n)
<1> USE DEF Touches
<1> DEFINE joinsPrev == p # First /\ p + B[p] = a
           joinsNext == a + n = N[p]
           c0 == IF joinsPrev THEN p ELSE a
           eaten == IF joinsNext THEN {N[p]} ELSE {}
           end == IF joinsNext THEN N[p] + B[N[p]] ELSE a + n
           r == IF joinsNext THEN N[N[p]] ELSE N[p]
           s == end - c0
<1>a. /\ Room(N, B, p, a, n) /\ a \notin DOMAIN N /\ IsFcn(M) /\ IsFcn(C)
      /\ DOMAIN M = (DOMAIN N \ eaten) \cup {c0} /\ DOMAIN C = (DOMAIN B \ eaten) \cup {c0}
      /\ \A x \in DOMAIN M : M[x] = IF x = c0 THEN r ELSE IF x = p THEN a ELSE N[x]
      /\ \A x \in DOMAIN C : C[x] = IF x = c0 THEN s ELSE B[x]
  BY DEF Joins
<1>b. eaten = {} /\ c0 = p /\ r = N[p] /\ s = (a + n) - p
  OBVIOUS
<1> HIDE DEF joinsPrev, joinsNext, c0, eaten, end, r, s
<1>c. /\ Room(N, B, p, a, n) /\ a \notin DOMAIN N /\ IsFcn(M) /\ IsFcn(C)
      /\ DOMAIN M = DOMAIN N \cup {p} /\ DOMAIN C = DOMAIN B \cup {p}
      /\ \A x \in DOMAIN M : M[x] = IF x = p THEN N[p] ELSE N[x]
      /\ \A x \in DOMAIN C : C[x] = IF x = p THEN (a + n) - p ELSE B[x]
  <2>1. DOMAIN M = DOMAIN N \cup {p}
    BY <1>a, <1>b
  <2>2. DOMAIN C = DOMAIN B \cup {p}
    BY <1>a, <1>b
  <2>3. \A x \in DOMAIN M : M[x] = IF x = p THEN N[p] ELSE N[x]
    BY <1>a, <1>b
  <2>4. \A x \in DOMAIN C : C[x] = IF x = p THEN (a + n) - p ELSE B[x]
    BY <1>a, <1>b
  <2> QED  BY <1>a, <2>1, <2>2, <2>3, <2>4
<1>0. Numeric(N, B) /\ a \in Int /\ p \in Int /\ n \in Int /\ n > 0
  BY <1>c, RoomNumbers
<1>1. p \in DOMAIN B /\ B[p] \in Int /\ B[p] > 0 /\ N[p] \in Int /\ Aligned(B[p]) /\ Aligned(n)
  BY <1>0, <1>c DEF Numeric, Room, Links
<1> DEFINE m == (a + n) - p
<1>2. m \in Nat \ {0} /\ m = B[p] + n
  BY <1>0, <1>1
<1>3. Aligned(m)
  BY <1>0, <1>1, <1>2, AlignedTerm
<1>4. p + m <= Upper /\ (N[p] # Nil => p + m < N[p])
  BY <1>0, <1>1, <1>c DEF Room
<1> HIDE DEF m
<1>5. Resizes(N, B, p, m, C)
  BY <1>1, <1>2, <1>3, <1>4, <1>c DEF Room, Resizes, m
<1>6. Links(N, C) /\ Covered(C) = (Covered(B) \ Within(p, B[p])) \cup Within(p, m)
  BY <1>5, ResizeChunk
<1>7. \A x \in Addresses : x \in Within(p, m) <=> x \in Within(p, B[p]) \cup Within(a, n)
  BY <1>0, <1>1, <1>2, AlignedConstants DEF Within
<1>8. Within(p, m) = Within(p, B[p]) \cup Within(a, n)
  BY <1>7 DEF Within
<1>9. Within(p, B[p]) \subseteq Covered(B)
  BY <1>1 DEF Within, Covered
<1>10. M = N
  BY <1>0, <1>1, <1>c DEF Numeric, Room, Links, IsFcn
<1> QED  BY <1>6, <1>8, <1>9, <1>10

\* The chunk behind the block begins earlier.
LEMMA JoinNext ==
  ASSUME NEW N, NEW B, NEW p, NEW a, NEW n, NEW M, NEW C, Joins(N, B, p, a, n, M, C),
         p # First => p + B[p] # a, a + n = N[p]
  PROVE  Links(M, C) /\ Covered(C) = Covered(B) \cup Within(a, n)
<1> DEFINE joinsPrev == p # First /\ p + B[p] = a
           joinsNext == a + n = N[p]
           c0 == IF joinsPrev THEN p ELSE a
           eaten == IF joinsNext THEN {N[p]} ELSE {}
           end == IF joinsNext THEN N[p] + B[N[p]] ELSE a + n
           r == IF joinsNext THEN N[N[p]] ELSE N[p]
           s == end - c0
<1>a. /\ Room(N, B, p, a, n) /\ a \notin DOMAIN N /\ IsFcn(M) /\ IsFcn(C)
      /\ DOMAIN M = (DOMAIN N \ eaten) \cup {c0} /\ DOMAIN C = (DOMAIN B \ eaten) \cup {c0}
      /\ \A x \in DOMAIN M : M[x] = IF x = c0 THEN r ELSE IF x = p THEN a ELSE N[x]
      /\ \A x \in DOMAIN C : C[x] = IF x = c0 THEN s ELSE B[x]
  BY DEF Joins
<1>b. eaten = {N[p]} /\ c0 = a /\ r = N[N[p]] /\ s = (N[p] + B[N[p]]) - a
  OBVIOUS
<1> HIDE DEF joinsPrev, joinsNext, c0, eaten, end, r, s
<1>c. /\ Room(N, B, p, a, n) /\ a \notin DOMAIN N /\ IsFcn(M) /\ IsFcn(C)
      /\ DOMAIN M = (DOMAIN N \ {N[p]}) \cup {a} /\ DOMAIN C = (DOMAIN B \ {N[p]}) \cup {a}
      /\ \A x \in DOMAIN M : M[x] = IF x = a THEN N[N[p]] ELSE IF x = p THEN a ELSE N[x]
      /\ \A x \in DOMAIN C : C[x] = IF x = a THEN (N[p] + B[N[p]]) - a ELSE B[x]
  <2>1. DOMAIN M = (DOMAIN N \ {N[p]}) \cup {a}
    BY <1>a, <1>b
  <2>2. DOMAIN C = (DOMAIN B \ {N[p]}) \cup {a}
    BY <1>a, <1>b
  <2>3. \A x \in DOMAIN M : M[x] = IF x = a THEN N[N[p]] ELSE IF x = p THEN a ELSE N[x]
    BY <1>a, <1>b
  <2>4. \A x \in DOMAIN C : C[x] = IF x = a THEN (N[p] + B[N[p]]) - a ELSE B[x]
    BY <1>a, <1>b
  <2> QED  BY <1>a, <2>1, <2>2, <2>3, <2>4
<1> DEFINE q == N[p]
           K == With(Without(N, {q}), p, N[q])
           D == Without(B, {q})
           m == (q + B[q]) - a
<1>0. /\ Numeric(N, B) /\ a \in Int /\ a > 0 /\ p \in Int /\ n \in Int /\ n > 0 /\ p # a
      /\ Aligned(a) /\ Aligned(n) /\ Links(N, B) /\ p \in DOMAIN N
  BY <1>c, RoomNumbers
<1>1. q # Nil
  BY <1>0 DEF Nil
<1>2. /\ q \in DOMAIN B /\ q \in DOMAIN N /\ B[q] \in Int /\ B[q] > 0 /\ N[q] \in Int /\ Aligned(B[q])
      /\ q \in Int /\ q # p /\ q + B[q] <= Upper /\ Upper \in Int
      /\ N[q] # Nil => q + B[q] < N[q]
  BY <1>0, <1>1, AlignedConstants DEF Numeric, Links
<1>3. /\ IsFcn(K) /\ DOMAIN K = DOMAIN N \ {q}
      /\ \A x \in DOMAIN K : K[x] = IF x = p THEN N[q] ELSE N[x]
  BY <1>0, <1>2 DEF With, Without, Restrict, IsFcn
<1>4. IsFcn(D) /\ DOMAIN D = DOMAIN B \ {q} /\ \A x \in DOMAIN D : D[x] = B[x]
  BY DEF Without, Restrict, IsFcn
<1> HIDE DEF K, D
<1>5. Removes(N, B, p, q, K, D)
  BY <1>0, <1>1, <1>3, <1>4 DEF Removes
<1>6. Links(K, D) /\ Covered(D) = Covered(B) \ Within(q, B[q])
  BY <1>5, RemoveChunk
<1>7. m \in Nat \ {0} /\ m = n + B[q] /\ a + m = q + B[q]
  BY <1>0, <1>2
<1>8. Aligned(m)
  BY <1>0, <1>2, <1>7, AlignedTerm
<1> HIDE DEF m
<1>9. p \in DOMAIN K /\ K[p] = N[q]
  BY <1>0, <1>2, <1>3
<1>10. p # First => p + D[p] < a
  <2>1. SUFFICES ASSUME p # First PROVE p + D[p] < a
    OBVIOUS
  <2>2. p \in DOMAIN B /\ B[p] \in Int
    BY <1>0, <2>1 DEF Numeric
  <2>3. D[p] = B[p]
    BY <1>2, <1>4, <2>2
  <2> QED  BY <1>0, <2>1, <2>2, <2>3, <1>c DEF Room
<1>11. /\ a \in Addresses /\ a + m <= Upper /\ a > p
       /\ K[p] # Nil => a + m < K[p]
  BY <1>0, <1>2, <1>7, <1>9, <1>c DEF Room
<1>12. /\ DOMAIN M = DOMAIN K \cup {a} /\ DOMAIN C = DOMAIN D \cup {a}
       /\ \A x \in DOMAIN M : M[x] = IF x = p THEN a ELSE IF x = a THEN K[p] ELSE K[x]
       /\ \A x \in DOMAIN C : C[x] = IF x = a THEN m ELSE D[x]
  BY <1>0, <1>3, <1>4, <1>9, <1>c DEF m
<1>13. Inserts(K, D, p, a, m, M, C)
  BY <1>6, <1>7, <1>8, <1>9, <1>10, <1>11, <1>12, <1>c DEF Inserts
<1>14. Links(M, C) /\ Covered(C) = Covered(D) \cup Within(a, m)
  BY <1>13, InsertChunk
<1>15. \A x \in Addresses : x \in Within(a, m) <=> x \in Within(q, B[q]) \cup Within(a, n)
  BY <1>0, <1>2, <1>7, AlignedConstants DEF Within
<1>16. Within(a, m) = Within(q, B[q]) \cup Within(a, n)
  BY <1>15 DEF Within
<1>17. Within(q, B[q]) \subseteq Covered(B)
  BY <1>2 DEF Within, Covered
<1> QED  BY <1>6, <1>14, <1>16, <1>17

\* The block closes the gap between two chunks.
LEMMA JoinBoth ==
  ASSUME NEW N, NEW B, NEW p, NEW a, NEW n, NEW M, NEW C, Joins(N, B, p, a, n, M, C),
         Touches(B, p, a), a + n = N[p]
  PROVE  Links(M, C) /\ Covered(C) = Covered(B) \cup Within(a, n)
<1> USE DEF Touches
<1> DEFINE joinsPrev == p # First /\ p + B[p] = a
           joinsNext == a + n = N[p]
           c0 == IF joinsPrev THEN p ELSE a
           eaten == IF joinsNext THEN {N[p]} ELSE {}
           end == IF joinsNext THEN N[p] + B[N[p]] ELSE a + n
           r == IF joinsNext THEN N[N[p]] ELSE N[p]
           s == end - c0
<1>a. /\ Room(N, B, p, a, n) /\ a \notin DOMAIN N /\ IsFcn(M) /\ IsFcn(C)
      /\ DOMAIN M = (DOMAIN N \ eaten) \cup {c0} /\ DOMAIN C = (DOMAIN B \ eaten) \cup {c0}
      /\ \A x \in DOMAIN M : M[x] = IF x = c0 THEN r ELSE IF x = p THEN a ELSE N[x]
      /\ \A x \in DOMAIN C : C[x] = IF x = c0 THEN s ELSE B[x]
  BY DEF Joins
<1>b. eaten = {N[p]} /\ c0 = p /\ r = N[N[p]] /\ s = (N[p] + B[N[p]]) - p
  OBVIOUS
<1> HIDE DEF joinsPrev, joinsNext, c0, eaten, end, r, s
<1>c. /\ Room(N, B, p, a, n) /\ a \notin DOMAIN N /\ IsFcn(M) /\ IsFcn(C)
      /\ DOMAIN M = (DOMAIN N \ {N[p]}) \cup {p} /\ DOMAIN C = (DOMAIN B \ {N[p]}) \cup {p}
      /\ \A x \in DOMAIN M : M[x] = IF x = p THEN N[N[p]] ELSE N[x]
      /\ \A x \in DOMAIN C : C[x] = IF x = p THEN (N[p] + B[N[p]]) - p ELSE B[x]
  <2>1. DOMAIN M = (DOMAIN N \ {N[p]}) \cup {p}
    BY <1>a, <1>b
  <2>2. DOMAIN C = (DOMAIN B \ {N[p]}) \cup {p}
    BY <1>a, <1>b
  <2>3. \A x \in DOMAIN M : M[x] = IF x = p THEN N[N[p]] ELSE N[x]
    BY <1>a, <1>b
  <2>4. \A x \in DOMAIN C : C[x] = IF x = p THEN (N[p] + B[N[p]]) - p ELSE B[x]
    BY <1>a, <1>b
  <2> QED  BY <1>a, <2>1, <2>2, <2>3, <2>4
<1> DEFINE q == N[p]
           D == Without(B, {q})
           m == (q + B[q]) - p
<1>0. /\ Numeric(N, B) /\ a \in Int /\ a > 0 /\ p \in Int /\ n \in Int /\ n > 0 /\ p # a
      /\ Aligned(a) /\ Aligned(n) /\ Links(N, B) /\ p \in DOMAIN N
  BY <1>c, RoomNumbers
<1>1. q # Nil
  BY <1>0 DEF Nil
<1>2. /\ q \in DOMAIN B /\ q \in DOMAIN N /\ B[q] \in Int /\ B[q] > 0 /\ N[q] \in Int /\ Aligned(B[q])
      /\ q \in Int /\ q # p /\ q + B[q] <= Upper /\ Upper \in Int
      /\ N[q] # Nil => q + B[q] < N[q]
      /\ p \in DOMAIN B /\ B[p] \in Int /\ B[p] > 0 /\ Aligned(B[p])
  BY <1>0, <1>1, AlignedConstants DEF Numeric, Links
<1>3. IsFcn(D) /\ DOMAIN D = DOMAIN B \ {q} /\ \A x \in DOMAIN D : D[x] = B[x]
  BY DEF Without, Restrict, IsFcn
<1> HIDE DEF D
<1>4. Removes(N, B, p, q, M, D)
  <2>1. p # q /\ p \in DOMAIN N
    BY <1>0, <1>2
  <2>2. DOMAIN M = DOMAIN N \ {q}
    BY <1>c, <2>1
  <2>3. \A x \in DOMAIN M : M[x] = IF x = p THEN N[q] ELSE N[x]
    BY <1>c
  <2> HIDE DEF q
  <2> QED  BY <1>0, <1>1, <1>3, <1>c, <2>2, <2>3 DEF Removes, q
<1>5. Links(M, D) /\ Covered(D) = Covered(B) \ Within(q, B[q])
  BY <1>4, RemoveChunk
<1>6. m \in Nat \ {0} /\ m = (B[p] + n) + B[q] /\ p + m = q + B[q]
  BY <1>0, <1>2
<1>7. Aligned(m)
  <2>1. Aligned(B[p] + n) /\ B[p] + n \in Int
    BY <1>0, <1>2, AlignedTerm
  <2> QED  BY <1>2, <1>6, <2>1, AlignedTerm
<1> HIDE DEF m
<1>8. /\ p \in DOMAIN D /\ D[p] = B[p] /\ M[p] = N[q] /\ DOMAIN C = DOMAIN D
      /\ \A x \in DOMAIN C : C[x] = IF x = p THEN m ELSE D[x]
  BY <1>0, <1>2, <1>3, <1>c DEF m
<1>9. Resizes(M, D, p, m, C)
  BY <1>2, <1>5, <1>6, <1>7, <1>8, <1>c DEF Resizes
<1>10. Links(M, C) /\ Covered(C) = (Covered(D) \ Within(p, D[p])) \cup Within(p, m)
  BY <1>9, ResizeChunk
<1>11. \A x \in Addresses : x \in Within(p, m) <=> x \in Within(p, B[p]) \cup Within(a, n) \cup Within(q, B[q])
  BY <1>0, <1>2, <1>6, AlignedConstants DEF Within
<1>12. Within(p, m) = Within(p, B[p]) \cup Within(a, n) \cup Within(q, B[q])
  BY <1>11 DEF Within
<1>13. Within(q, B[q]) \subseteq Covered(B) /\ Within(p, B[p]) \subseteq Covered(B)
  BY <1>2 DEF Within, Covered
<1> QED  BY <1>5, <1>8, <1>10, <1>12, <1>13

\* The header k is h after n bytes at a have been given back.
Gave(h, a, n, k) ==
  HeaderOK(k) /\ Covered(k.bytes) = Covered(h.bytes) \cup Within(a, n) /\ k.free = h.free + n

\* The place of a block: behind the last chunk in front of it.
LEMMA PlaceIs ==
  ASSUME NEW h, HeaderOK(h), NEW addr \in Nat, NEW a, a = RoundDown(addr), a >= Lower,
         NEW walk, walk = Trail(h, Closer(h, addr)),
         NEW p, p = walk[Max({i \in DOMAIN walk : walk[i] < a})]
  PROVE  p \in DOMAIN h.next /\ p < a /\ (h.next[p] = Nil \/ h.next[p] >= a)
<1> DEFINE first == Closer(h, addr)
           below == {i \in DOMAIN walk : walk[i] < a}
           i == Max(below)
<1>0. Numeric(h.next, h.bytes) /\ Links(h.next, h.bytes)
  BY Numbers DEF HeaderOK
<1>1. a \in Int /\ Aligned(a) /\ a <= addr /\ addr < a + Unit /\ a > 0
  BY RoundDownIs, AlignedConstants
<1>2. first \in DOMAIN h.next
  BY CloserIs
<1>3. first < a
  <2>1. CASE first = First
    BY <1>1, <2>1 DEF First
  <2>2. CASE first # First
    <3> DEFINE q == h.next[first]
    <3>1. q \in DOMAIN h.bytes /\ q < addr
      BY <2>2, CloserIs
    <3>2. q \in Int /\ Aligned(q) /\ first < q /\ first \in Int
      BY <1>0, <1>2, <3>1 DEF Numeric, Links, Nil
    <3> HIDE DEF q, first
    <3>3. a < q => a + Unit <= q
      BY <1>1, <3>2, AlignedGap
    <3> QED  BY <1>1, <3>1, <3>2, <3>3, UnitType
  <2> QED  BY <2>1, <2>2
<1>4. LeadsOn(h, first, walk)
  BY <1>0, <1>2, TrailLeadsOn
<1> HIDE DEF first
<1>5. walk \in Seq(DOMAIN h.next) /\ Len(walk) \in Int /\ Len(walk) >= 1 /\ walk[1] = first
      /\ DOMAIN walk = 1 .. Len(walk)
  BY <1>4 DEF LeadsOn
<1>6. 1 \in below /\ below \in SUBSET (1 .. Len(walk))
  BY <1>3, <1>5
<1>7. i \in below /\ \A j \in below : i >= j
  <2> HIDE DEF below
  <2>1. 1 \in Int /\ Len(walk) \in Int /\ below # {}
    BY <1>5, <1>6
  <2>2. Max(below) \in below
    BY <1>6, <2>1, MinMax
  <2>3. \A j \in below : Max(below) >= j
    BY <1>6, <2>1, MinMax
  <2> QED  BY <2>2, <2>3
<1>8. i \in 1 .. Len(walk) /\ walk[i] < a /\ p = walk[i]
  BY <1>5, <1>7
<1>9. \A j \in 1 .. Len(walk) : walk[j] < a => i >= j
  BY <1>5, <1>7
<1> HIDE DEF i, below
<1>13. Len(walk) \in Int
  BY <1>5
<1>14. i \in 1 .. Len(walk)
  BY <1>8
<1>10. p \in DOMAIN h.next
  BY <1>5, <1>8
<1>11. CASE i = Len(walk)
  BY <1>4, <1>8, <1>10, <1>11 DEF LeadsOn
<1>12. CASE i # Len(walk)
  <2>1. i \in 1 .. Len(walk) - 1 /\ i + 1 \in 1 .. Len(walk) /\ ~(i >= i + 1)
    <3>1. \A l, j \in Int : j \in 1 .. l /\ j # l =>
            j \in 1 .. l - 1 /\ j + 1 \in 1 .. l /\ ~(j >= j + 1)
      OBVIOUS
    <3>2. i \in Int
      BY <1>13, <1>14
    <3> QED  BY <3>1, <3>2, <1>12, <1>13, <1>14
  <2>2. h.next[p] = walk[i + 1]
    BY <1>4, <1>8, <2>1 DEF LeadsOn
  <2>3. ~(walk[i + 1] < a)
    BY <1>9, <2>1
  <2>4. h.next[p] \in Int
    BY <1>0, <1>10 DEF Numeric
  <2> QED  BY <1>1, <1>8, <1>10, <2>2, <2>3, <2>4
<1> QED  BY <1>11, <1>12

\* The cases of Joined(), which differ in the links and the sizes only.
LEMMA JoinedIs ==
  ASSUME NEW h, HeaderOK(h), NEW p, NEW a, NEW n, Room(h.next, h.bytes, p, a, n),
         a \notin DOMAIN h.next
  PROVE  Gave(h, a, n, Joined(h, p, a, n))
<1> DEFINE N == h.next
           B == h.bytes
           q == h.next[p]
           joinsPrev == p # First /\ p + h.bytes[p] = a
           joinsNext == a + n = q
           c == IF joinsPrev THEN p ELSE a
           g == IF joinsPrev THEN Claimed(h, p) ELSE [h EXCEPT !.next = With(With(@, p, a), a, q)]
           f == IF joinsNext THEN Claimed(g, q) ELSE g
           eaten == IF joinsNext THEN {q} ELSE {}
           end == IF joinsNext THEN q + h.bytes[q] ELSE a + n
           M == With(Without(f.next, eaten), c, IF joinsNext THEN N[q] ELSE q)
           C == With(Without(f.bytes, eaten), c, end - c)
           merged ==
             [f EXCEPT !.next = With(Without(@, eaten), c, IF joinsNext THEN h.next[q] ELSE q),
                       !.bytes = With(Without(@, eaten), c, end - c), !.free = @ + n]
<1>1. Joined(h, p, a, n) = IF joinsPrev THEN merged ELSE Created(merged, a, p)
  BY DEF Joined, Adjacent
<1>2. merged = [[[f EXCEPT !.next = M] EXCEPT !.bytes = C] EXCEPT !.free = f.free + n]
  <2> HIDE DEF f, eaten, c, end, joinsNext, joinsPrev, q
  <2> QED  OBVIOUS
<1>3. joinsNext <=> a + n = q
  OBVIOUS
<1>4. /\ Numeric(N, B) /\ Links(N, B) /\ p \in DOMAIN N /\ a # p /\ a # Nil /\ a \in Int /\ n \in Int
      /\ IsFcn(N) /\ p \in Int
  <2>1. Numeric(N, B) /\ Links(N, B) /\ p \in DOMAIN N /\ a # p /\ a \in Int /\ a > 0 /\ n \in Int
        /\ p \in Int
    BY RoomNumbers
  <2>2. IsFcn(N)
    BY <2>1 DEF Links, IsFcn
  <2> QED  BY <2>1, <2>2 DEF Nil
<1>5. joinsNext => q \in DOMAIN N /\ q # p /\ q # a /\ q # Nil /\ q \in DOMAIN B
  <2>1. SUFFICES ASSUME joinsNext PROVE q \in DOMAIN N /\ q # p /\ q # a /\ q # Nil /\ q \in DOMAIN B
    OBVIOUS
  <2>2. a + n > a /\ a + n > p /\ a > 0
    <3>1. a \in Int /\ a > 0 /\ p \in Int /\ n \in Int /\ n > 0
      BY RoomNumbers
    <3>2. p < a
      BY DEF Room
    <3> QED  BY <3>1, <3>2
  <2>3. q # Nil
    BY <1>3, <1>4, <2>1, <2>2 DEF Nil
  <2> QED  BY <1>3, <1>4, <2>1, <2>2, <2>3 DEF Numeric
<1>6. /\ IsHeader(g) /\ g.bytes = B /\ g.free = h.free
      /\ g.next = IF joinsPrev THEN N ELSE With(With(N, p, a), a, q)
      /\ g.index = [i \in Levels |-> g.index[i]]
      /\ \A i \in Levels : g.index[i] # Nil =>
           g.index[i] = h.index[i] /\ (joinsPrev => h.index[i] # p)
  <2>1. CASE joinsPrev
    <3>1. g = Claimed(h, p)
      BY <2>1
    <3> HIDE DEF g, joinsPrev
    <3> QED  BY <2>1, <3>1, ClaimedIs DEF HeaderOK
  <2>2. CASE ~joinsPrev
    <3>1. g = [next |-> With(With(N, p, a), a, q), bytes |-> B, free |-> h.free, index |-> h.index]
      BY <2>2 DEF HeaderOK, IsHeader
    <3> HIDE DEF g, joinsPrev
    <3> QED  BY <2>2, <3>1 DEF HeaderOK, IsHeader, Known
  <2> QED  BY <2>1, <2>2
<1> HIDE DEF g
<1>7. /\ IsHeader(f) /\ f.bytes = B /\ f.free = h.free /\ f.next = g.next
      /\ f.index = [i \in Levels |-> f.index[i]]
      /\ \A i \in Levels : f.index[i] # Nil =>
           f.index[i] = h.index[i] /\ (joinsPrev => h.index[i] # p) /\ (joinsNext => h.index[i] # q)
  <2> HIDE DEF joinsPrev, q
  <2>1. CASE joinsNext
    <3>1. f = Claimed(g, q)
      BY <2>1
    <3> HIDE DEF f, joinsNext
    <3>2. /\ IsHeader(f) /\ f.next = g.next /\ f.bytes = g.bytes /\ f.free = g.free
          /\ f.index = [i \in Levels |-> f.index[i]]
          /\ \A i \in Levels : f.index[i] # Nil => f.index[i] = g.index[i] /\ g.index[i] # q
      BY <1>6, <3>1, ClaimedIs
    <3> QED  BY <1>6, <2>1, <3>2
  <2>2. CASE ~joinsNext
    <3>1. f = g
      BY <2>2
    <3> HIDE DEF f, joinsNext
    <3> QED  BY <1>6, <2>2, <3>1
  <2> QED  BY <2>1, <2>2
<1> HIDE DEF f
<1>8. /\ IsFcn(M) /\ DOMAIN M = (DOMAIN N \ eaten) \cup {c}
      /\ \A x \in DOMAIN M : M[x] = IF x = c THEN IF joinsNext THEN N[q] ELSE q
                                    ELSE IF x = p THEN a ELSE N[x]
  <2> HIDE DEF joinsNext, q, eaten
  <2>1. f.next = IF joinsPrev THEN N ELSE With(With(N, p, a), a, q)
    BY <1>6, <1>7
  <2>2. CASE joinsPrev
    <3>1. f.next = N /\ c = p
      BY <2>1, <2>2
    <3> HIDE DEF joinsPrev, c
    <3> QED  BY <1>4, <3>1 DEF With, Without, Restrict, IsFcn
  <2>3. CASE ~joinsPrev
    <3>1. f.next = With(With(N, p, a), a, q) /\ c = a
      BY <2>1, <2>3
    <3> HIDE DEF joinsPrev, c
    <3> QED  BY <1>4, <1>5, <3>1 DEF With, Without, Restrict, IsFcn, eaten
  <2> QED  BY <2>2, <2>3
<1>9. /\ IsFcn(C) /\ DOMAIN C = (DOMAIN B \ eaten) \cup {c}
      /\ \A x \in DOMAIN C : C[x] = IF x = c THEN end - c ELSE B[x]
  <2> HIDE DEF joinsNext, joinsPrev, q, eaten, end, c
  <2> QED  BY <1>7 DEF With, Without, Restrict, IsFcn
<1>10. /\ IsHeader(merged) /\ merged.next = M /\ merged.bytes = C /\ merged.free = h.free + n
       /\ merged.index = f.index
  <2> HIDE DEF merged, M, C
  <2>1. [f EXCEPT !.next = M] = [next |-> M, bytes |-> B, free |-> h.free, index |-> f.index]
    BY <1>7 DEF IsHeader
  <2> DEFINE k == [f EXCEPT !.next = M]
             l == [k EXCEPT !.bytes = C]
  <2>2. k = [next |-> M, bytes |-> B, free |-> h.free, index |-> f.index]
    BY <2>1
  <2> DEFINE free == f.free + n
  <2>4. l = [k EXCEPT !.bytes = C]
    OBVIOUS
  <2>6. merged = [l EXCEPT !.free = free]
    BY <1>2
  <2>7. free = h.free + n
    BY <1>7
  <2> HIDE DEF k, l, free
  <2>5. l = [next |-> M, bytes |-> C, free |-> h.free, index |-> f.index]
    BY <2>2, <2>4
  <2>3. merged = [next |-> M, bytes |-> C, free |-> h.free + n, index |-> f.index]
    <3>1. [l EXCEPT !.free = free] = [next |-> M, bytes |-> C, free |-> free, index |-> f.index]
      BY <2>5
    <3> QED  BY <2>6, <2>7, <3>1
  <2> QED  BY <2>3 DEF IsHeader
<1> HIDE DEF merged, M, C
<1>11. Links(M, C) /\ Covered(C) = Covered(B) \cup Within(a, n)
  <2>1. Joins(N, B, p, a, n, M, C)
    BY <1>8, <1>9 DEF Joins
  <2>6. joinsPrev <=> Touches(B, p, a)
    BY DEF Touches
  <2> HIDE DEF eaten, c, end, joinsNext, M, C
  <2>2. CASE joinsPrev /\ joinsNext
    BY <1>3, <2>1, <2>2, <2>6, JoinBoth
  <2>3. CASE joinsPrev /\ ~joinsNext
    BY <1>3, <2>1, <2>3, <2>6, JoinPrevious
  <2>4. CASE ~joinsPrev /\ joinsNext
    BY <1>3, <2>1, <2>4, JoinNext
  <2>5. CASE ~joinsPrev /\ ~joinsNext
    BY <1>3, <2>1, <2>5, JoinNone
  <2> QED  BY <2>2, <2>3, <2>4, <2>5
<1>12. c # p => c = a
  OBVIOUS
<1>13. ~joinsPrev => p \in DOMAIN M /\ M[p] # Nil
  <2>1. SUFFICES ASSUME ~joinsPrev PROVE p \in DOMAIN M /\ M[p] # Nil
    OBVIOUS
  <2>2. p \notin eaten /\ c = a
    BY <1>5, <2>1
  <2> HIDE DEF eaten, c, q, joinsNext, joinsPrev
  <2> QED  BY <1>4, <1>8, <2>2
<1>14. ASSUME NEW i \in Levels, f.index[i] # Nil
       PROVE  f.index[i] \in DOMAIN M /\ M[f.index[i]] # Nil
  <2> DEFINE x == f.index[i]
  <2>1. x \in DOMAIN N /\ N[x] # Nil /\ (joinsPrev => x # p) /\ (joinsNext => x # q)
    BY <1>7, <1>14 DEF HeaderOK, Known
  <2>2. x \notin eaten /\ x # c
    BY <2>1
  <2> HIDE DEF x, eaten, c, q, joinsNext, joinsPrev
  <2>3. x \in DOMAIN M /\ M[x] = IF x = p THEN a ELSE N[x]
    BY <1>8, <2>1, <2>2
  <2>4. M[x] # Nil
    BY <1>4, <2>1, <2>3
  <2> QED  BY <2>3, <2>4 DEF x
<1>15. h.free + n \in Int
  BY <1>4 DEF HeaderOK
<1> HIDE DEF joinsNext, joinsPrev, q, eaten, end, c
<1>16. CASE joinsPrev
  <2>1. Known(merged.index, merged.next)
    BY <1>7, <1>10, <1>14 DEF Known
  <2>2. HeaderOK(merged)
    BY <1>10, <1>11, <1>15, <2>1 DEF HeaderOK
  <2> QED  BY <1>1, <1>10, <1>11, <1>16, <2>2 DEF Gave
<1>17. CASE ~joinsPrev
  <2> DEFINE k == Created(merged, a, p)
  <2>1. /\ IsHeader(k) /\ k.next = M /\ k.bytes = C /\ k.free = h.free + n
        /\ k.index = [i \in Levels |-> k.index[i]]
        /\ \A i \in Levels : k.index[i] = p \/ k.index[i] = f.index[i]
    BY <1>10, CreatedIs
  <2>2. Joined(h, p, a, n) = k
    BY <1>1, <1>17
  <2> HIDE DEF k
  <2>3. Known(k.index, M)
    BY <1>13, <1>14, <1>17, <2>1 DEF Known
  <2>4. HeaderOK(k)
    BY <1>11, <1>15, <2>1, <2>3 DEF HeaderOK
  <2> QED  BY <1>11, <2>1, <2>2, <2>4 DEF Gave
<1> QED  BY <1>16, <1>17

\* What is freed joins the free memory, and the index leads to chunks only.
LEMMA DeallocIs ==
  ASSUME NEW h, HeaderOK(h), NEW addr \in Nat, NEW byteSize \in Nat, byteSize > 0,
         Lower <= addr, addr + byteSize <= Upper,
         Within(RoundDown(addr), RoundUp(byteSize + (addr % Unit))) \cap Covered(h.bytes) = {}
  PROVE  Gave(h, RoundDown(addr), RoundUp(byteSize + (addr % Unit)), stdDealloc(h, addr, byteSize))
<1> DEFINE a == RoundDown(addr)
           n == RoundUp(byteSize + (addr % Unit))
           N == h.next
           B == h.bytes
           walk == Trail(h, Closer(h, addr))
           p == walk[Max({i \in DOMAIN walk : walk[i] < a})]
           k == [h EXCEPT !.next = With(With(@, First, a), a, Nil), !.bytes = With(@, a, n),
                          !.free = @ + n]
<1>1. stdDealloc(h, addr, byteSize) = IF N[First] = Nil THEN k ELSE Joined(h, p, a, n)
  BY DEF stdDealloc, Trail
<1>2. /\ a \in Addresses /\ n \in Nat \ {0} /\ Aligned(n) /\ a + n <= Upper
  BY BlockIs
<1>3. Within(a, n) \cap Covered(B) = {}
  OBVIOUS
<1>4. Numeric(N, B) /\ Links(N, B) /\ a \in Int /\ a >= Lower /\ n \in Int
  BY <1>2, Numbers, AlignedConstants DEF HeaderOK
<1>5. p \in DOMAIN N /\ p < a /\ (N[p] = Nil \/ N[p] >= a)
  <2>1. a = RoundDown(addr) /\ walk = Trail(h, Closer(h, addr))
        /\ p = walk[Max({i \in DOMAIN walk : walk[i] < a})]
    OBVIOUS
  <2> HIDE DEF a, walk, p
  <2> QED  BY <1>4, <2>1, PlaceIs
<1> HIDE DEF a, n, p, k
<1>6. CASE N[First] # Nil
  <2>1. Room(N, B, p, a, n) /\ a \notin DOMAIN N
    BY <1>2, <1>3, <1>4, <1>5, RoomIs
  <2>2. Gave(h, a, n, Joined(h, p, a, n))
    BY <2>1, JoinedIs
  <2> QED  BY <1>1, <1>6, <2>2 DEF a, n
<1>7. CASE N[First] = Nil
  <2> DEFINE M == With(With(N, First, a), a, Nil)
             C == With(B, a, n)
  <2>1. First \in DOMAIN N /\ First < a /\ First # a /\ First \in Int
    BY <1>4 DEF Numeric, First
  <2>2. Room(N, B, First, a, n) /\ a \notin DOMAIN N
    BY <1>2, <1>3, <1>4, <1>7, <2>1, RoomIs
  <2>3. DOMAIN B = {}
    BY <1>4, <1>7 DEF Links, Numeric, First
  <2>4. /\ IsFcn(M) /\ DOMAIN M = DOMAIN N \cup {a}
        /\ \A x \in DOMAIN M : M[x] = IF x = First THEN a ELSE IF x = a THEN N[First] ELSE N[x]
        /\ IsFcn(C) /\ DOMAIN C = DOMAIN B \cup {a}
        /\ \A x \in DOMAIN C : C[x] = IF x = a THEN n ELSE B[x]
    BY <1>7, <2>1 DEF With, IsFcn
  <2> HIDE DEF M, C
  <2>5. Inserts(N, B, First, a, n, M, C)
    BY <1>2, <1>4, <1>7, <2>1, <2>4 DEF Inserts
  <2>6. Links(M, C) /\ Covered(C) = Covered(B) \cup Within(a, n)
    BY <2>5, InsertChunk
  <2>7. IsHeader(k) /\ k.next = M /\ k.bytes = C /\ k.free = h.free + n /\ k.index = h.index
    <3> DEFINE k1 == [h EXCEPT !.next = M]
               k2 == [k1 EXCEPT !.bytes = C]
               free == h.free + n
    <3>1. k = [k2 EXCEPT !.free = free]
      BY DEF k, M, C
    <3>2. k1 = [next |-> M, bytes |-> B, free |-> h.free, index |-> h.index]
      BY DEF HeaderOK, IsHeader
    <3>3. k2 = [k1 EXCEPT !.bytes = C]
      OBVIOUS
    <3> HIDE DEF k1, k2, free
    <3>4. k2 = [next |-> M, bytes |-> C, free |-> h.free, index |-> h.index]
      BY <3>2, <3>3
    <3>5. [k2 EXCEPT !.free = free] = [next |-> M, bytes |-> C, free |-> free, index |-> h.index]
      BY <3>4
    <3>6. k = [next |-> M, bytes |-> C, free |-> free, index |-> h.index]
      BY <3>1, <3>5
    <3> QED  BY <3>6 DEF IsHeader, free
  <2>8. \A i \in Levels : h.index[i] = Nil
    <3>1. DOMAIN N = {First}
      BY <1>4, <2>3 DEF Numeric
    <3>2. \A i \in Levels : h.index[i] # Nil => h.index[i] \in DOMAIN N /\ N[h.index[i]] # Nil
      BY DEF HeaderOK, Known
    <3> QED  BY <1>7, <3>1, <3>2
  <2>9. Known(h.index, M)
    BY <2>8 DEF HeaderOK, Known
  <2>10. h.free + n \in Int
    BY <1>4 DEF HeaderOK
  <2>11. HeaderOK(k)
    BY <2>6, <2>7, <2>9, <2>10 DEF HeaderOK
  <2> QED  BY <1>1, <1>7, <2>6, <2>7, <2>11 DEF Gave, a, n
<1> QED  BY <1>6, <1>7
-----------------------------------------------------------------------------
(* The chunks as a sequence, and what AllocAbs takes. *)

\* The sequence names all chunks, along the links.
ListOf(h, list) ==
  /\ list \in Seq(DOMAIN h.bytes)
  /\ \A c \in DOMAIN h.bytes : \E i \in 1 .. Len(list) : list[i] = c
  /\ \A i \in 1 .. Len(list) - 1 : h.next[list[i]] = list[i + 1]

\* Chunks names all chunks.
LEMMA ChunksAre ==
  ASSUME NEW h, HeaderOK(h)
  PROVE  ListOf(h, Chunks(h))
<1> DEFINE v == Trail(h, First)
           list == Chunks(h)
<1>0. Numeric(h.next, h.bytes) /\ Links(h.next, h.bytes)
  BY Numbers DEF HeaderOK
<1>1. First \in DOMAIN h.next /\ \A c \in DOMAIN h.bytes : c > First
  BY <1>0 DEF Numeric, First
<1>2. LeadsOn(h, First, v)
  BY <1>0, <1>1, TrailLeadsOn
<1>3. v = <<First>> \o list
  BY DEF Trail, Chunks
<1>4. list = <<>> \/ \E p \in DOMAIN h.next : list = Trail(h, p)
  <2>1. CASE h.next[First] = Nil
    BY <1>0, <1>1, <2>1, TrailUnfolds DEF Chunks
  <2>2. CASE h.next[First] # Nil
    BY <1>0, <1>1, <2>2, TrailUnfolds DEF Chunks, Numeric
  <2> QED  BY <2>1, <2>2
<1>5. list \in Seq(DOMAIN h.next)
  <2>1. \A p \in DOMAIN h.next : Trail(h, p) \in Seq(DOMAIN h.next)
    BY <1>0, TrailLeadsOn DEF LeadsOn
  <2>2. <<>> \in Seq(DOMAIN h.next)
    OBVIOUS
  <2> QED  BY <1>4, <2>1, <2>2
<1> HIDE DEF v, list
<1>6. /\ Len(v) = Len(list) + 1 /\ Len(list) \in Nat
      /\ \A i \in 1 .. Len(list) : v[i + 1] = list[i]
  BY <1>1, <1>3, <1>5, OneMore
<1>7. ASSUME NEW i \in 1 .. Len(list) PROVE list[i] \in DOMAIN h.bytes
  <2>1. i \in 1 .. Len(v) - 1 /\ i \in Int
    BY <1>6
  <2>2. h.next[v[i]] = list[i]
    BY <1>2, <1>6, <2>1 DEF LeadsOn
  <2>3. list[i] \in DOMAIN h.next
    BY <1>5
  <2>4. list[i] # Nil
    BY <1>0, <2>3 DEF Numeric
  <2>5. v[i] \in DOMAIN h.next
    BY <1>2, <2>1 DEF LeadsOn
  <2> QED  BY <1>0, <2>2, <2>4, <2>5 DEF Numeric
<1>8. list \in Seq(DOMAIN h.bytes)
  BY <1>5, <1>7
<1>9. ASSUME NEW c \in DOMAIN h.bytes PROVE \E i \in 1 .. Len(list) : list[i] = c
  <2>1. PICK i \in 2 .. Len(v) : v[i] = c
    BY <1>1, <1>2 DEF LeadsOn
  <2>2. i - 1 \in 1 .. Len(list) /\ (i - 1) + 1 = i
    BY <1>6
  <2>3. list[i - 1] = v[(i - 1) + 1]
    BY <1>6, <2>2
  <2> QED  BY <2>1, <2>2, <2>3
<1>10. ASSUME NEW i \in 1 .. Len(list) - 1 PROVE h.next[list[i]] = list[i + 1]
  <2> DEFINE j == i + 1
  <2>1. j \in 1 .. Len(v) - 1 /\ j \in 1 .. Len(list) /\ i \in 1 .. Len(list)
    BY <1>6
  <2> HIDE DEF j
  <2>2. h.next[v[j]] = v[j + 1]
    BY <1>2, <2>1 DEF LeadsOn
  <2>3. v[j + 1] = list[j]
    BY <1>6, <2>1
  <2>4. v[j] = list[i]
    BY <1>6, <2>1 DEF j
  <2> QED  BY <2>2, <2>3, <2>4 DEF j
<1> QED  BY <1>8, <1>9, <1>10 DEF ListOf, list

\* Every chunk has one in front of it, or First.
LEMMA HasPredecessor ==
  ASSUME NEW h, HeaderOK(h), NEW c \in DOMAIN h.bytes
  PROVE  \E p \in DOMAIN h.next : h.next[p] = c
<1>0. Numeric(h.next, h.bytes) /\ Links(h.next, h.bytes)
  BY Numbers DEF HeaderOK
<1>1. First \in DOMAIN h.next /\ c > First
  BY <1>0 DEF Numeric, First
<1> DEFINE v == Trail(h, First)
<1>2. LeadsOn(h, First, v)
  BY <1>0, <1>1, TrailLeadsOn
<1> HIDE DEF v
<1>3. PICK i \in 2 .. Len(v) : v[i] = c
  BY <1>1, <1>2 DEF LeadsOn
<1>4. i - 1 \in 1 .. Len(v) - 1 /\ i - 1 \in 1 .. Len(v) /\ (i - 1) + 1 = i
  BY <1>2 DEF LeadsOn
<1>5. h.next[v[i - 1]] = v[(i - 1) + 1] /\ v[i - 1] \in DOMAIN h.next
  BY <1>2, <1>4 DEF LeadsOn
<1> QED  BY <1>3, <1>4, <1>5

\* Memory cut in three, where the parts in front of and behind the middle may be empty.
LEMMA ThreeParts ==
  ASSUME NEW c \in Int, NEW b \in Int, NEW a \in Int, NEW z \in Int, c <= a, a < z, z <= c + b
  PROVE  /\ Within(a, z - a) \subseteq Within(c, b)
         /\ Within(c, a - c) \cup Within(z, (c + b) - z) = Within(c, b) \ Within(a, z - a)
         /\ c = a => Within(c, a - c) = {}
         /\ (c + b) - z = 0 => Within(z, (c + b) - z) = {}
<1>1. \A x \in Int : /\ a <= x /\ x < a + (z - a) => c <= x /\ x < c + b
                     /\ ((c <= x /\ x < c + (a - c)) \/ (z <= x /\ x < z + ((c + b) - z)))
                          <=> ((c <= x /\ x < c + b) /\ ~(a <= x /\ x < a + (z - a)))
                     /\ c = a => ~(c <= x /\ x < c + (a - c))
                     /\ (c + b) - z = 0 => ~(z <= x /\ x < z + ((c + b) - z))
  OBVIOUS
<1>2. \A x \in Addresses : x \in Int
  BY AlignedConstants
<1> QED  BY <1>1, <1>2 DEF Within

\* What is left of the chunk c covers what it covered, without the memory from a to z.
LEMMA CutIs ==
  ASSUME NEW h, HeaderOK(h), NEW c \in DOMAIN h.bytes, NEW a \in Addresses, NEW z \in Int,
         Aligned(z), a < z, c <= a, z <= c + h.bytes[c], NEW k, k = Reserved(h, c, a, z)
  PROVE  /\ Links(k.next, k.bytes) /\ IsHeader(k)
         /\ Covered(k.bytes) = Covered(h.bytes) \ Within(a, z - a)
         /\ k.free = h.free - (z - a) /\ k.index = NoIndex
<1> DEFINE N == h.next
           B == h.bytes
           p == CHOOSE x \in DOMAIN h.next : h.next[x] = c
           rest == (c + h.bytes[c]) - z
           n1 == IF rest = 0 THEN h.next ELSE With(With(h.next, c, z), z, h.next[c])
           b1 == IF rest = 0 THEN h.bytes ELSE With(h.bytes, z, rest)
           M == IF c # a THEN n1 ELSE Without(With(n1, p, n1[c]), {c})
           C == IF c # a THEN With(b1, c, a - c) ELSE Without(b1, {c})
           n == z - a
           s == a - c
<1>0. Numeric(N, B) /\ Links(N, B) /\ IsFcn(N) /\ IsFcn(B)
  BY Numbers DEF HeaderOK, Links, IsFcn
<1>1. p \in DOMAIN N /\ N[p] = c
  BY HasPredecessor
<1>2. /\ c \in DOMAIN N /\ c # Nil /\ c \in Int /\ c # p /\ c # First /\ Aligned(c) /\ c >= Lower
      /\ B[c] \in Int /\ B[c] > 0 /\ Aligned(B[c]) /\ c + B[c] <= Upper /\ N[c] \in Int
      /\ (N[c] # Nil => c + B[c] < N[c]) /\ p \in Int /\ p < c
  <2> HIDE DEF p
  <2>1. /\ c \in DOMAIN N /\ c # Nil /\ c \in Int /\ c # First /\ Aligned(c) /\ c >= Lower
        /\ B[c] \in Int /\ B[c] > 0 /\ N[c] \in Int /\ p \in Int
    BY <1>0, <1>1 DEF Numeric
  <2>2. p < c
    BY <1>0, <1>1, <2>1 DEF Links
  <2>3. Aligned(B[c]) /\ c + B[c] <= Upper /\ (N[c] # Nil => c + B[c] < N[c])
    BY <1>0, <2>1 DEF Links
  <2> QED  BY <2>1, <2>2, <2>3
<1>3. a \in Int /\ Aligned(a) /\ Upper \in Int /\ Lower \in Int /\ a >= Lower
  BY AlignedConstants
<1>4. /\ IsHeader(k) /\ k.next = M /\ k.bytes = C /\ k.index = NoIndex /\ k.free = h.free - n
  <2> DEFINE e == ClearSysCtx(h)
             k1 == [e EXCEPT !.next = M]
             k2 == [k1 EXCEPT !.bytes = C]
             free == e.free - n
  <2>1. k = [k2 EXCEPT !.free = free]
    <3> HIDE DEF e, M, C
    <3> QED  BY DEF Reserved, e, M, C
  <2>2. e = [next |-> N, bytes |-> B, free |-> h.free, index |-> NoIndex]
    BY DEF ClearSysCtx, HeaderOK, IsHeader
  <2>6. free = h.free - n
    BY <2>2
  <2>7. k1 = [e EXCEPT !.next = M]
    OBVIOUS
  <2>9. k2 = [k1 EXCEPT !.bytes = C]
    OBVIOUS
  <2> HIDE DEF e, k1, k2, free, M, C
  <2>3. k1 = [next |-> M, bytes |-> B, free |-> h.free, index |-> NoIndex]
    BY <2>2, <2>7
  <2>4. k2 = [next |-> M, bytes |-> C, free |-> h.free, index |-> NoIndex]
    BY <2>3, <2>9
  <2>5. [k2 EXCEPT !.free = free] = [next |-> M, bytes |-> C, free |-> free, index |-> NoIndex]
    BY <2>4
  <2>8. k = [next |-> M, bytes |-> C, free |-> free, index |-> NoIndex]
    BY <2>1, <2>5
  <2> QED  BY <2>6, <2>8 DEF IsHeader
<1>5. /\ rest \in Nat /\ Aligned(rest) /\ z + rest = c + B[c] /\ z > c
  <2>1. rest \in Nat /\ z + rest = c + B[c] /\ z > c
    BY <1>2, <1>3
  <2>2. c + B[c] \in Int /\ Aligned(c + B[c])
    BY <1>2, AlignedTerm
  <2> QED  BY <2>1, <2>2, AlignedTerm
<1>6. rest # 0 => z \in Addresses
  <2>1. rest # 0 => z \in Lower .. Upper - 1
    BY <1>2, <1>3, <1>5
  <2> QED  BY <2>1, AlignedConstants
<1>7. s \in Nat /\ Aligned(s) /\ (c # a => s > 0)
  BY <1>2, <1>3, AlignedTerm
<1>15. rest = 0 => z = c + B[c]
  BY <1>2, <1>5
<1>14. rest # 0 => z \notin DOMAIN B /\ z \notin DOMAIN N
  <2>1. SUFFICES ASSUME rest # 0, z \in DOMAIN B PROVE FALSE
    BY <1>0, <1>2, <1>3, <1>5 DEF Numeric, First
  <2>2. c + B[c] < z
    BY <1>5, <2>1, <1>0, Apart
  <2> QED  BY <1>2, <1>5, <2>2
<1>8. \A x \in Addresses : x \in Int
  BY AlignedConstants
<1>9. Within(c, B[c]) \subseteq Covered(B)
  BY DEF Within, Covered
<1>16. z # p
  <2> HIDE DEF p
  <2> QED  BY <1>2, <1>5
<1>17. /\ Within(a, n) \subseteq Within(c, B[c])
       /\ Within(c, s) \cup Within(z, rest) = Within(c, B[c]) \ Within(a, n)
       /\ c = a => Within(c, s) = {}
       /\ rest = 0 => Within(z, rest) = {}
  <2> DEFINE b == B[c]
  <2>1. b \in Int /\ z <= c + b /\ c \in Int /\ a \in Int
    BY <1>2, <1>3
  <2>2. rest = (c + b) - z
    OBVIOUS
  <2> HIDE DEF b, rest
  <2>3. /\ Within(a, z - a) \subseteq Within(c, b)
        /\ Within(c, a - c) \cup Within(z, (c + b) - z) = Within(c, b) \ Within(a, z - a)
        /\ c = a => Within(c, a - c) = {}
        /\ (c + b) - z = 0 => Within(z, (c + b) - z) = {}
    BY <2>1, ThreeParts
  <2> QED  BY <2>2, <2>3 DEF b
<1> HIDE DEF p, rest, n, s
<1>10. CASE c = a /\ rest = 0
  <2>1. M = Without(With(N, p, N[c]), {c}) /\ C = Without(B, {c})
    BY <1>10
  <2> HIDE DEF M, C
  <2>2. /\ IsFcn(M) /\ DOMAIN M = DOMAIN N \ {c}
        /\ \A x \in DOMAIN M : M[x] = IF x = p THEN N[c] ELSE N[x]
        /\ IsFcn(C) /\ DOMAIN C = DOMAIN B \ {c}
        /\ \A x \in DOMAIN C : C[x] = B[x]
    BY <1>1, <2>1 DEF With, Without, Restrict, IsFcn
  <2>3. Removes(N, B, p, c, M, C)
    BY <1>0, <1>1, <1>2, <2>2 DEF Removes
  <2>4. Links(M, C) /\ Covered(C) = Covered(B) \ Within(c, B[c])
    BY <2>3, RemoveChunk
  <2>5. n = B[c]
    BY <1>2, <1>3, <1>10, <1>15 DEF n
  <2> QED  BY <1>4, <1>10, <2>4, <2>5 DEF n
<1>11. CASE c = a /\ rest # 0
  <2> DEFINE N1 == With(With(N, c, z), z, N[c])
  <2>1. M = Without(With(N1, p, N1[c]), {c}) /\ C = Without(With(B, z, rest), {c})
    BY <1>11
  <2>6. N1[c] = z /\ IsFcn(N1) /\ DOMAIN N1 = DOMAIN N \cup {z}
        /\ \A x \in DOMAIN N1 : x # c => N1[x] = IF x = z THEN N[c] ELSE N[x]
    BY <1>2, <1>5 DEF With, IsFcn
  <2> HIDE DEF M, C, N1
  <2>2. /\ IsFcn(M) /\ DOMAIN M = (DOMAIN N \ {c}) \cup {z}
        /\ \A x \in DOMAIN M : M[x] = IF x = p THEN z ELSE IF x = z THEN N[c] ELSE N[x]
    BY <1>1, <1>2, <1>5, <2>1, <2>6 DEF With, Without, Restrict, IsFcn
  <2>7. /\ IsFcn(C) /\ DOMAIN C = (DOMAIN B \ {c}) \cup {z}
        /\ \A x \in DOMAIN C : C[x] = IF x = z THEN rest ELSE B[x]
    BY <1>2, <1>5, <2>1 DEF With, Without, Restrict, IsFcn
  <2>3. Replaces(N, B, p, c, z, rest, M, C)
    BY <1>0, <1>1, <1>2, <1>5, <1>6, <1>11, <2>2, <2>7 DEF Replaces
  <2>4. Links(M, C) /\ Covered(C) = (Covered(B) \ Within(c, B[c])) \cup Within(z, rest)
    BY <2>3, ReplaceChunk
  <2> QED  BY <1>4, <1>9, <1>11, <1>17, <2>4 DEF n
<1>12. CASE c # a /\ rest = 0
  <2>1. M = N /\ C = With(B, c, s)
    BY <1>12 DEF s
  <2> HIDE DEF M, C
  <2>2. IsFcn(C) /\ DOMAIN C = DOMAIN B /\ \A x \in DOMAIN C : C[x] = IF x = c THEN s ELSE B[x]
    BY <2>1 DEF With, IsFcn
  <2>3. c + s <= Upper /\ (N[c] # Nil => c + s < N[c])
    BY <1>2, <1>3 DEF s
  <2>4. Resizes(N, B, c, s, C)
    BY <1>0, <1>7, <1>12, <2>2, <2>3 DEF Resizes
  <2>5. Links(N, C) /\ Covered(C) = (Covered(B) \ Within(c, B[c])) \cup Within(c, s)
    BY <2>4, ResizeChunk
  <2> QED  BY <1>4, <1>9, <1>12, <1>17, <2>1, <2>5 DEF n
<1>13. CASE c # a /\ rest # 0
  <2> DEFINE D == With(B, c, s)
  <2>1. M = With(With(N, c, z), z, N[c]) /\ C = With(With(B, z, rest), c, s)
    BY <1>13 DEF s
  <2> HIDE DEF M, C
  <2>2. IsFcn(D) /\ DOMAIN D = DOMAIN B /\ \A x \in DOMAIN D : D[x] = IF x = c THEN s ELSE B[x]
    BY DEF With, IsFcn
  <2>8. /\ IsFcn(M) /\ DOMAIN M = DOMAIN N \cup {z}
        /\ \A x \in DOMAIN M : M[x] = IF x = c THEN z ELSE IF x = z THEN N[c] ELSE N[x]
        /\ IsFcn(C) /\ DOMAIN C = DOMAIN D \cup {z}
        /\ \A x \in DOMAIN C : C[x] = IF x = z THEN rest ELSE D[x]
    BY <1>2, <1>5, <2>1, <2>2 DEF With, IsFcn
  <2> HIDE DEF D
  <2>3. c + s <= Upper /\ (N[c] # Nil => c + s < N[c]) /\ c + s < z
    BY <1>2, <1>3, <1>5 DEF s
  <2>4. Resizes(N, B, c, s, D)
    BY <1>0, <1>7, <1>13, <2>2, <2>3 DEF Resizes
  <2>5. Links(N, D) /\ Covered(D) = (Covered(B) \ Within(c, B[c])) \cup Within(c, s)
    BY <2>4, ResizeChunk
  <2>9. z + rest <= Upper /\ (N[c] # Nil => z + rest < N[c]) /\ c + D[c] < z
    BY <1>2, <1>5, <2>2, <2>3
  <2>10. Inserts(N, D, c, z, rest, M, C)
    BY <1>2, <1>5, <1>6, <1>13, <2>5, <2>8, <2>9 DEF Inserts
  <2>11. Links(M, C) /\ Covered(C) = Covered(D) \cup Within(z, rest)
    BY <2>10, InsertChunk
  <2> QED  BY <1>4, <1>9, <1>17, <2>5, <2>11 DEF n
<1> QED  BY <1>10, <1>11, <1>12, <1>13

\* What AllocAbs takes, and the index forgets everything.
LEMMA ReservedIs ==
  ASSUME NEW h, HeaderOK(h), NEW c \in DOMAIN h.bytes, NEW a \in Addresses, NEW z \in Int,
         Aligned(z), a < z, c <= a, z <= c + h.bytes[c]
  PROVE  Took(h, z - a, Reserved(h, c, a, z), a)
<1> DEFINE k == Reserved(h, c, a, z)
<1>1. /\ Links(k.next, k.bytes) /\ IsHeader(k)
      /\ Covered(k.bytes) = Covered(h.bytes) \ Within(a, z - a)
      /\ k.free = h.free - (z - a) /\ k.index = NoIndex
  BY CutIs
<1> HIDE DEF k
<1>2. Known(k.index, k.next)
  BY <1>1 DEF Known, NoIndex
<1>3. /\ c \in Int /\ h.bytes[c] \in Int /\ c + h.bytes[c] <= Upper /\ a \in Int /\ Upper \in Int
  BY Numbers, AlignedConstants DEF HeaderOK, Links, Numeric
<1>4. \A x \in Addresses : a <= x /\ x < a + (z - a) => c <= x /\ x < c + h.bytes[c]
  BY <1>3, AlignedConstants
<1>5. Within(a, z - a) \subseteq Covered(h.bytes)
  BY <1>4 DEF Within, Covered
<1>6. h.free - (z - a) \in Int /\ a + (z - a) <= Upper
  BY <1>3 DEF HeaderOK
<1>7. HeaderOK(k)
  BY <1>1, <1>2, <1>6 DEF HeaderOK
<1> QED  BY <1>1, <1>5, <1>6, <1>7 DEF Took, k
-----------------------------------------------------------------------------
(* The memory as a set of units. *)

\* The addresses in the block b.
Of(b) == {x \in Addresses : RoundDown(b[1]) <= x /\ x < b[1] + b[2]}

\* The numbers of the units at the addresses S.
Cells(S) == {x \div Unit : x \in S}

\* Aligned addresses are told apart by the numbers of their units.
LEMMA CellsIs ==
  ASSUME NEW S \in SUBSET Addresses, NEW T \in SUBSET Addresses
  PROVE  /\ Cells(S \cup T) = Cells(S) \cup Cells(T)
         /\ Cells(S \ T) = Cells(S) \ Cells(T)
         /\ T \subseteq S => Cells(T) \subseteq Cells(S)
         /\ S \cap T = {} => Cells(S) \cap Cells(T) = {}
<1>1. \A x, y \in Addresses : x \div Unit = y \div Unit => x = y
  <2> SUFFICES ASSUME NEW x \in Addresses, NEW y \in Addresses, x \div Unit = y \div Unit
               PROVE  x = y
    OBVIOUS
  <2>1. x = Unit * (x \div Unit) /\ y = Unit * (y \div Unit)
    BY AlignedConstants, Multiple
  <2> QED  BY <2>1
<1>2. Cells(S \cup T) = Cells(S) \cup Cells(T)
  BY DEF Cells
<1>3. Cells(S \ T) = Cells(S) \ Cells(T)
  BY <1>1 DEF Cells
<1>4. S \cap T = {} => Cells(S) \cap Cells(T) = {}
  BY <1>1 DEF Cells
<1>5. T \subseteq S => Cells(T) \subseteq Cells(S)
  BY DEF Cells
<1> QED  BY <1>2, <1>3, <1>4, <1>5

\* The units of the region are finitely many.
LEMMA CellsFinite ==
  ASSUME NEW S \in SUBSET Addresses
  PROVE  IsFiniteSet(Cells(S))
<1> DEFINE all == 0 .. (Upper \div Unit)
<1>0. Upper \in Int /\ Upper \div Unit \in Int
  BY AlignedConstants, Multiple
<1>1. IsFiniteSet(all)
  BY <1>0, FS_Interval
<1>2. ASSUME NEW x \in S PROVE x \div Unit \in all
  <2>1. x \in Int /\ x > 0 /\ x < Upper /\ Aligned(x) /\ Upper \in Int /\ Aligned(Upper)
    BY AlignedConstants
  <2> DEFINE m == x \div Unit
             u == Upper \div Unit
  <2>2. m \in Int /\ u \in Int /\ x = Unit * m /\ Upper = Unit * u
    BY <2>1, Multiple
  <2> HIDE DEF m, u
  <2>3. m < u
    BY <2>1, <2>2, TimesLess
  <2>4. 0 < m
    <3>1. Unit * 0 = 0
      BY UnitType
    <3> QED  BY <2>1, <2>2, <3>1, TimesLess
  <2> QED  BY <2>2, <2>3, <2>4 DEF m, u
<1> HIDE DEF all
<1>3. Cells(S) \in SUBSET all
  BY <1>2 DEF Cells
<1> QED  BY <1>1, <1>3, FS_Subset

\* The units of a block, as Units() counts them.
LEMMA UnitsAre ==
  ASSUME NEW addr \in Nat, NEW n \in Nat, n > 0, Lower <= addr, addr + n <= Upper
  PROVE  Units(addr, n) = Cells({x \in Addresses : RoundDown(addr) <= x /\ x < addr + n})
<1> DEFINE S == {x \in Addresses : RoundDown(addr) <= x /\ x < addr + n}
           lo == addr \div Unit
           last == addr + n - 1
           hi == last \div Unit
<1>1. lo \in Int /\ RoundDown(addr) = Unit * lo /\ addr < Unit * lo + Unit /\ Unit * lo <= addr
  BY RoundDownIs
<1>2. last \in Int
  OBVIOUS
<1>3. hi \in Int /\ Unit * hi <= last /\ last < Unit * hi + Unit /\ Unit * hi \in Int
  <2> HIDE DEF last
  <2>1. RoundDown(last) = Unit * hi /\ RoundDown(last) <= last /\ last < RoundDown(last) + Unit
        /\ hi \in Int /\ RoundDown(last) \in Int
    BY <1>2, RoundDownIs
  <2> QED  BY <2>1
<1>4. \A x \in Int : x < addr + n <=> x <= last
  OBVIOUS
<1>5. Upper \in Int /\ Lower \in Int /\ last < Upper /\ Aligned(Lower)
  BY AlignedConstants
<1> HIDE DEF lo, hi, last
<1>6. ASSUME NEW m \in lo .. hi PROVE m \in Cells(S)
  <2> DEFINE x == Unit * m
  <2>1. m \in Int /\ x \in Int /\ Aligned(x) /\ x \div Unit = m
    BY <1>1, <1>3, MultipleIsAligned
  <2>2. Unit * lo <= x
    BY <1>1, <2>1, TimesLess
  <2>3. x <= Unit * hi
    BY <1>3, <2>1, TimesLess
  <2> HIDE DEF x
  <2>4. x <= last
    BY <1>2, <1>3, <2>1, <2>3
  <2>5. Lower <= x
    <3>1. SUFFICES ASSUME x < Lower PROVE FALSE
      BY <1>5, <2>1
    <3>2. x + Unit <= Lower
      BY <1>5, <2>1, <3>1, AlignedGap
    <3> QED  BY <1>1, <1>5, <2>1, <2>2, <3>2, UnitType
  <2>6. x \in Addresses
    <3>1. x \in Lower .. Upper - 1
      BY <1>2, <1>5, <2>1, <2>4, <2>5
    <3> QED  BY <2>1, <3>1, AlignedConstants
  <2>7. x \in S
    BY <1>1, <1>4, <2>1, <2>2, <2>4, <2>6
  <2> QED  BY <2>1, <2>7 DEF Cells
<1>7. ASSUME NEW x \in S PROVE x \div Unit \in lo .. hi
  <2> DEFINE m == x \div Unit
  <2>1. x \in Int /\ Aligned(x)
    BY AlignedConstants
  <2>2. m \in Int /\ x = Unit * m
    BY <2>1, Multiple
  <2>3. Unit * lo <= x /\ x <= last
    BY <1>1, <1>4, <2>1
  <2> HIDE DEF m
  <2>4. lo <= m
    BY <1>1, <2>2, <2>3, TimesLess
  <2>5. m <= hi
    <3>1. SUFFICES ASSUME hi < m PROVE FALSE
      BY <1>3, <2>2
    <3>2. Unit * hi + Unit <= Unit * m
      BY <1>3, <2>2, <3>1, TimesLess
    <3> QED  BY <1>2, <1>3, <2>1, <2>2, <2>3, <3>2, UnitType
  <2> QED  BY <1>1, <1>3, <2>2, <2>4, <2>5 DEF m
<1> HIDE DEF S
<1>8. Cells(S) = lo .. hi
  BY <1>6, <1>7 DEF Cells
<1> QED  BY <1>8 DEF Units, S, lo, hi, last

\* n bytes are n \div Unit units, when they begin and end at the border of one.
LEMMA UnitsOf ==
  ASSUME NEW a \in Addresses, NEW n \in Nat \ {0}, Aligned(n), a + n <= Upper
  PROVE  /\ Units(a, n) = Cells(Within(a, n)) /\ Of(<<a, n>>) = Within(a, n)
         /\ Units(a, n) = (a \div Unit) .. ((a \div Unit) + (n \div Unit) - 1)
         /\ Unit * Cardinality(Cells(Within(a, n))) = n
<1>1. a \in Nat /\ a \in Int /\ Lower <= a /\ Aligned(a)
  BY AlignedConstants
<1>2. RoundDown(a) = a
  BY <1>1 DEF RoundDown, Aligned
<1>3. Units(a, n) = Cells(Within(a, n))
  <2>1. Units(a, n) = Cells({x \in Addresses : RoundDown(a) <= x /\ x < a + n})
    BY <1>1, UnitsAre
  <2> QED  BY <1>2, <2>1 DEF Within
<1> DEFINE k == a \div Unit
           m == n \div Unit
<1>4. k \in Int /\ m \in Int /\ a = Unit * k /\ n = Unit * m
  BY <1>1, Multiple
<1> HIDE DEF k, m
<1>5. (a + n - 1) \div Unit = k + m - 1
  <2>1. \A u \in Nat, i \in Int : u > 0 => (u * i - 1) \div u = i - 1
    <3> SUFFICES ASSUME NEW u \in Nat, NEW i \in Int, u > 0 PROVE (u * i - 1) \div u = i - 1
      OBVIOUS
    <3>1. u * i - 1 = u * (i - 1) + (u - 1)
      OBVIOUS
    <3>2. \A j \in Int : (u * j + (u - 1)) \div u = j
      OBVIOUS
    <3> QED  BY <3>1, <3>2
  <2>2. a + n - 1 = Unit * (k + m) - 1
    BY <1>4, UnitType
  <2>3. (Unit * (k + m) - 1) \div Unit = (k + m) - 1
    BY <1>4, <2>1, UnitType
  <2> QED  BY <1>4, <2>2, <2>3
<1>6. Units(a, n) = k .. k + m - 1
  BY <1>5 DEF Units, k
<1>7. m > 0
  <2>1. Unit * 0 = 0
    BY UnitType
  <2> QED  BY <1>4, <2>1, TimesLess
<1>8. Cardinality(k .. k + m - 1) = m
  <2>1. k \in Int /\ k + m - 1 \in Int /\ ~(k > k + m - 1) /\ (k + m - 1) - k + 1 = m
    BY <1>4, <1>7
  <2> QED  BY <2>1, FS_Interval
<1>9. Of(<<a, n>>) = Within(a, n)
  BY <1>2 DEF Of, Within
<1> QED  BY <1>3, <1>4, <1>6, <1>8, <1>9 DEF k, m
-----------------------------------------------------------------------------
(* The heap: the header and what has been allocated from it. *)

\* A block is in the region.
IsBlock(b) == b \in Nat \X Nat /\ Lower <= b[1] /\ b[2] > 0 /\ b[1] + b[2] <= Upper

\* The chunks of h and the blocks S share the memory out among them, and mh_Free counts what
\* the chunks cover.
HeapOK(h, S) ==
  /\ HeaderOK(h) /\ \A b \in S : IsBlock(b)
  /\ \A b, d \in S : b # d => Of(b) \cap Of(d) = {}
  /\ \A b \in S : Of(b) \cap Covered(h.bytes) = {}
  /\ Addresses = Covered(h.bytes) \cup UNION {Of(b) : b \in S}
  /\ h.free = Unit * Cardinality(Cells(Covered(h.bytes)))

\* A call under way is about something.
Asking == \A t \in Tasks : pc[t] # "run" => size[t] \in Sizes

\* The inductive invariant of the allocator.
HeapInv == HeapOK(mh, blocks) /\ Asking

\* The count of what is taken out of, or given to, a part of the memory.
LEMMA CountLess ==
  ASSUME NEW S \in SUBSET Addresses, NEW T \in SUBSET S
  PROVE  /\ Unit * Cardinality(Cells(S \ T)) = Unit * Cardinality(Cells(S)) - Unit * Cardinality(Cells(T))
         /\ Unit * Cardinality(Cells(S)) \in Nat
<1> DEFINE A == Cells(S)
           B == Cells(T)
<1>1. Cells(S \ T) = A \ B /\ B \subseteq A
  BY CellsIs
<1>2. IsFiniteSet(A) /\ IsFiniteSet(B)
  BY CellsFinite
<1> HIDE DEF A, B
<1>3. Cardinality(A \ B) = Cardinality(A) - Cardinality(B)
  <2>1. Cardinality(A \ B) = Cardinality(A) - Cardinality(A \cap B)
    BY <1>2, FS_Difference
  <2>2. A \cap B = B
    BY <1>1
  <2> QED  BY <2>1, <2>2
<1>4. Cardinality(A) \in Nat /\ Cardinality(B) \in Nat
  BY <1>2, FS_CardinalityType
<1>5. \A i, j \in Nat : Unit * (i - j) = Unit * i - Unit * j /\ Unit * i \in Nat
  BY UnitType
<1>6. Unit * Cardinality(A \ B) = Unit * Cardinality(A) - Unit * Cardinality(B)
  <2> DEFINE i == Cardinality(A)
             j == Cardinality(B)
  <2>1. i \in Nat /\ j \in Nat /\ Cardinality(A \ B) = i - j
    BY <1>3, <1>4
  <2> HIDE DEF i, j
  <2>2. Unit * (i - j) = Unit * i - Unit * j
    BY <1>5, <2>1
  <2> QED  BY <2>1, <2>2 DEF i, j
<1>7. Unit * Cardinality(A) \in Nat
  BY <1>4, <1>5
<1> QED  BY <1>1, <1>6, <1>7 DEF A, B

\* Who takes bytes from a chunk gets a block of his own.
LEMMA HeapTakes ==
  ASSUME NEW h, NEW S, HeapOK(h, S), NEW n \in Nat \ {0}, Aligned(n), NEW k, NEW a, Took(h, n, k, a),
         NEW b, IsBlock(b), Of(b) = Within(a, n)
  PROVE  HeapOK(k, S \cup {b})
<1> DEFINE F == Covered(h.bytes)
           G == Covered(k.bytes)
<1>1. /\ HeaderOK(k) /\ a \in Addresses /\ a + n <= Upper /\ Of(b) \subseteq F /\ G = F \ Of(b)
      /\ k.free = h.free - n
  BY DEF Took
<1>2. /\ \A d \in S : IsBlock(d) /\ Of(d) \cap F = {}
      /\ \A d, e \in S : d # e => Of(d) \cap Of(e) = {}
      /\ Addresses = F \cup UNION {Of(d) : d \in S}
      /\ h.free = Unit * Cardinality(Cells(F))
  BY DEF HeapOK
<1>3. F \in SUBSET Addresses /\ Of(b) \in SUBSET F
  BY <1>1 DEF Covered
<1>4. Unit * Cardinality(Cells(Of(b))) = n
  BY <1>1, UnitsOf
<1> HIDE DEF F, G
<1>5. k.free = Unit * Cardinality(Cells(G))
  BY <1>1, <1>2, <1>3, <1>4, CountLess
<1>6. \A d \in S \cup {b} : IsBlock(d) /\ Of(d) \cap G = {}
  BY <1>1, <1>2
<1>7. \A d, e \in S \cup {b} : d # e => Of(d) \cap Of(e) = {}
  BY <1>1, <1>2
<1>8. Addresses = G \cup UNION {Of(d) : d \in S \cup {b}}
  BY <1>1, <1>2
<1> QED  BY <1>1, <1>5, <1>6, <1>7, <1>8 DEF HeapOK, G

\* Who gives a block back leaves the others their blocks.
LEMMA HeapGives ==
  ASSUME NEW h, NEW S, HeapOK(h, S), NEW b \in S, NEW a \in Addresses, NEW n \in Nat \ {0}, Aligned(n),
         a + n <= Upper, Of(b) = Within(a, n), NEW k, Gave(h, a, n, k)
  PROVE  HeapOK(k, S \ {b})
<1> DEFINE F == Covered(h.bytes)
           G == Covered(k.bytes)
<1>1. HeaderOK(k) /\ G = F \cup Of(b) /\ k.free = h.free + n
  BY DEF Gave
<1>2. /\ \A d \in S : IsBlock(d) /\ Of(d) \cap F = {}
      /\ \A d, e \in S : d # e => Of(d) \cap Of(e) = {}
      /\ Addresses = F \cup UNION {Of(d) : d \in S}
      /\ h.free = Unit * Cardinality(Cells(F))
  BY DEF HeapOK
<1>3. G \in SUBSET Addresses /\ Of(b) \in SUBSET G /\ G \ Of(b) = F
  BY <1>1, <1>2 DEF Covered
<1>4. Unit * Cardinality(Cells(Of(b))) = n
  BY UnitsOf
<1> HIDE DEF F, G
<1>5. k.free = Unit * Cardinality(Cells(G))
  BY <1>1, <1>2, <1>3, <1>4, CountLess
<1>6. \A d \in S \ {b} : IsBlock(d) /\ Of(d) \cap G = {}
  BY <1>1, <1>2
<1>7. \A d, e \in S \ {b} : d # e => Of(d) \cap Of(e) = {}
  BY <1>2
<1>8. Addresses = G \cup UNION {Of(d) : d \in S \ {b}}
  <2>1. \A x \in Addresses : x \in G \/ \E d \in S \ {b} : x \in Of(d)
    BY <1>1, <1>2
  <2>2. \A d : Of(d) \subseteq Addresses
    BY DEF Of
  <2> QED  BY <1>3, <2>1, <2>2
<1> QED  BY <1>1, <1>5, <1>6, <1>7, <1>8 DEF HeapOK, G

\* The block b, in whole units.
LEMMA BlockOf ==
  ASSUME NEW b, IsBlock(b), NEW a, a = RoundDown(b[1]), NEW n, n = RoundUp(b[2] + (b[1] % Unit))
  PROVE  /\ a \in Addresses /\ n \in Nat \ {0} /\ Aligned(n) /\ a + n <= Upper
         /\ Of(b) = Within(a, n)
<1>1. b[1] \in Nat /\ b[2] \in Nat /\ b[2] > 0 /\ Lower <= b[1] /\ b[1] + b[2] <= Upper
  BY DEF IsBlock
<1> DEFINE addr == b[1]
           bytes == b[2]
<1>2. /\ addr \in Nat /\ bytes \in Nat /\ bytes > 0 /\ Lower <= addr /\ addr + bytes <= Upper
      /\ a = RoundDown(addr) /\ n = RoundUp(bytes + (addr % Unit))
  BY <1>1
<1> HIDE DEF addr, bytes
<1>3. /\ a \in Addresses /\ n \in Nat \ {0} /\ Aligned(n) /\ a + n <= Upper
      /\ Within(a, n) = {x \in Addresses : a <= x /\ x < addr + bytes}
  BY <1>2, BlockIs
<1>4. Of(b) = {x \in Addresses : a <= x /\ x < addr + bytes}
  BY <1>2 DEF Of, addr, bytes
<1> QED  BY <1>3, <1>4
-----------------------------------------------------------------------------
(* The steps. *)

\* One chunk, which is all of the region.
LEMMA HeapBegins ==
  ASSUME Init
  PROVE  HeapInv
<1> DEFINE N == [p \in {First, Lower} |-> IF p = First THEN Lower ELSE Nil]
           B == [c \in {Lower} |-> Upper - Lower]
<1>1. mh = [next |-> N, bytes |-> B, free |-> Upper - Lower, index |-> NoIndex] /\ blocks = {}
  BY DEF Init, NewHeader
<1>2. IsHeader(mh) /\ mh.next = N /\ mh.bytes = B /\ mh.free = Upper - Lower /\ mh.index = NoIndex
  BY <1>1 DEF IsHeader
<1>3. /\ Lower \in Int /\ Upper \in Int /\ Lower > 0 /\ Lower < Upper /\ Aligned(Lower) /\ Aligned(Upper)
      /\ Lower \in Addresses
  <2>1. Lower \in Int /\ Upper \in Int /\ Lower > 0 /\ Lower < Upper /\ Aligned(Lower) /\ Aligned(Upper)
    BY AlignedConstants
  <2>2. Lower \in Lower .. Upper - 1
    BY <2>1
  <2> QED  BY <2>1, <2>2, AlignedConstants
<1>4. /\ DOMAIN N = {First, Lower} /\ DOMAIN B = {Lower} /\ N[First] = Lower /\ N[Lower] = Nil
      /\ B[Lower] = Upper - Lower
  BY <1>3 DEF First
<1> DEFINE n == Upper - Lower
<1>5. n \in Nat \ {0} /\ Aligned(n) /\ Lower + n = Upper
  BY <1>3, AlignedTerm
<1>6. Links(N, B)
  <2>1. B \in [DOMAIN B -> Nat \ {0}] /\ DOMAIN B \subseteq Addresses
    BY <1>3, <1>5
  <2>2. N \in [DOMAIN B \cup {First} -> DOMAIN B \cup {Nil}]
    BY <1>4
  <2>3. First = -1 /\ Nil = 0
    BY DEF First, Nil
  <2> HIDE DEF N, B
  <2> QED  BY <1>3, <1>4, <1>5, <2>1, <2>2, <2>3 DEF Links
<1>7. Known(NoIndex, N)
  BY DEF Known, NoIndex
<1>8. Covered(B) = Within(Lower, n) /\ Covered(B) = Addresses
  <2>1. \A x \in Addresses : Lower <= x /\ x < Lower + n
    BY <1>5, AlignedConstants
  <2> HIDE DEF n
  <2>2. Covered(B) = Addresses
    BY <1>4, <2>1 DEF Covered, n
  <2> QED  BY <2>1, <2>2 DEF Within
<1> HIDE DEF N, B
<1>9. HeaderOK(mh)
  BY <1>2, <1>3, <1>6, <1>7 DEF HeaderOK
<1>10. n = Unit * Cardinality(Cells(Covered(B)))
  <2> HIDE DEF n
  <2>1. Lower + n <= Upper
    BY <1>3, <1>5
  <2> QED  BY <1>3, <1>5, <1>8, <2>1, UnitsOf
<1>11. HeapOK(mh, blocks)
  BY <1>1, <1>2, <1>8, <1>9, <1>10 DEF HeapOK
<1>12. Asking
  BY DEF Init, Asking
<1> QED  BY <1>11, <1>12 DEF HeapInv

\* What TryAlloc takes is a block; else no chunk is big enough and nothing but the index changes.
LEMMA TryAllocIs ==
  ASSUME HeapInv, TypesKept, NEW t \in Tasks, TryAlloc(t), NEW n, n = RoundUp(size[t])
  PROVE  \/ \E a : /\ Took(mh, n, mh', a) /\ blocks' = blocks \cup {<<a, size[t]>>}
                   /\ IsBlock(<<a, size[t]>>) /\ Of(<<a, size[t]>>) = Within(a, n)
         \/ /\ HeaderOK(mh') /\ mh'.bytes = mh.bytes /\ mh'.free = mh.free /\ blocks' = blocks
            /\ mh.free < n \/ \A c \in DOMAIN mh.bytes : mh.bytes[c] < n
<1> DEFINE answer == IF mh.free < size[t] THEN Answer(mh, Nil)
                     ELSE stdAlloc(mh, size[t], "reverse" \in flags[t])
<1>1. size[t] \in Nat \ {0} /\ HeapOK(mh, blocks) /\ HeaderOK(mh) /\ mh.free \in Int
  BY MemoryConstantsOK DEF HeapInv, Asking, TryAlloc, HeapOK, HeaderOK
<1>2. n \in Nat \ {0} /\ Aligned(n) /\ size[t] <= n
  BY <1>1, RoundUpIs
<1>3. /\ mh' = answer.mh
      /\ \/ answer.block # Nil /\ blocks' = blocks \cup {<<answer.block, size[t]>>}
         \/ answer.block = Nil /\ blocks' = blocks
  BY DEF TryAlloc
<1>4. \/ Took(mh, n, answer.mh, answer.block)
      \/ /\ answer.block = Nil
         /\ HeaderOK(answer.mh) /\ answer.mh.bytes = mh.bytes /\ answer.mh.free = mh.free
         /\ mh.free < n \/ \A c \in DOMAIN mh.bytes : mh.bytes[c] < n
  <2>1. CASE mh.free < size[t]
    <3>1. answer.mh = mh /\ answer.block = Nil
      BY <2>1 DEF Answer
    <3> HIDE DEF answer
    <3> QED  BY <1>1, <1>2, <2>1, <3>1
  <2>2. CASE ~(mh.free < size[t])
    <3> DEFINE reverse == "reverse" \in flags[t]
    <3>1. answer = stdAlloc(mh, size[t], reverse)
      BY <2>2
    <3>2. reverse \in BOOLEAN
      OBVIOUS
    <3> HIDE DEF answer, reverse
    <3> QED  BY <1>1, <3>1, <3>2, AllocIs
  <2> QED  BY <2>1, <2>2
<1> HIDE DEF answer
<1>5. CASE answer.block = Nil
  <2>1. ~Took(mh, n, answer.mh, answer.block)
    BY <1>5, AlignedConstants DEF Took, Nil
  <2> QED  BY <1>3, <1>4, <1>5, <2>1
<1>6. CASE answer.block # Nil
  <2> DEFINE a == answer.block
             b == <<a, size[t]>>
  <2>1. Took(mh, n, mh', a) /\ a \in Addresses /\ a + n <= Upper
    BY <1>3, <1>4, <1>6 DEF Took
  <2>2. a \in Nat /\ Lower <= a /\ Aligned(a) /\ Upper \in Int
    BY <2>1, AlignedConstants
  <2>3. RoundDown(a) = a /\ a % Unit = 0
    BY <2>2 DEF RoundDown, Aligned
  <2>4. blocks' = blocks \cup {b}
    BY <1>3, <1>6
  <2> HIDE DEF a
  <2>5. IsBlock(b)
    BY <1>1, <1>2, <2>1, <2>2 DEF IsBlock
  <2>6. b[1] = a /\ b[2] = size[t]
    OBVIOUS
  <2>7. RoundUp(b[2] + (b[1] % Unit)) = n
    <3>1. size[t] + 0 = size[t]
      BY <1>1
    <3> QED  BY <2>3, <2>6, <3>1
  <2>8. a = RoundDown(b[1]) /\ n = RoundUp(b[2] + (b[1] % Unit))
    BY <2>3, <2>6, <2>7
  <2> HIDE DEF b
  <2>9. Of(b) = Within(a, n)
    BY <2>5, <2>8, BlockOf
  <2> QED  BY <2>1, <2>4, <2>5, <2>9 DEF b
<1> QED  BY <1>5, <1>6

\* nommu_AllocMem keeps the heap,
LEMMA HeapTryAlloc ==
  ASSUME HeapInv, TypesKept, NEW t \in Tasks, TryAlloc(t)
  PROVE  HeapOK(mh, blocks)'
<1> DEFINE n == RoundUp(size[t])
<1>1. size[t] \in Nat \ {0} /\ HeapOK(mh, blocks)
  BY MemoryConstantsOK DEF HeapInv, Asking, TryAlloc
<1>2. n \in Nat \ {0} /\ Aligned(n)
  BY <1>1, RoundUpIs
<1> HIDE DEF n
<1>3. \/ \E a : /\ Took(mh, n, mh', a) /\ blocks' = blocks \cup {<<a, size[t]>>}
                /\ IsBlock(<<a, size[t]>>) /\ Of(<<a, size[t]>>) = Within(a, n)
      \/ HeaderOK(mh') /\ mh'.bytes = mh.bytes /\ mh'.free = mh.free /\ blocks' = blocks
  BY TryAllocIs DEF n
<1>4. HeapOK(mh', blocks')
  <2>1. ASSUME NEW a, Took(mh, n, mh', a), blocks' = blocks \cup {<<a, size[t]>>},
               IsBlock(<<a, size[t]>>), Of(<<a, size[t]>>) = Within(a, n)
        PROVE  HeapOK(mh', blocks')
    <3> DEFINE b == <<a, size[t]>>
    <3>1. blocks' = blocks \cup {b} /\ IsBlock(b) /\ Of(b) = Within(a, n) /\ Took(mh, n, mh', a)
      BY <2>1
    <3> HIDE DEF b
    <3>2. HeapOK(mh', blocks \cup {b})
      BY <1>1, <1>2, <3>1, HeapTakes
    <3> QED  BY <3>1, <3>2
  <2>2. ASSUME HeaderOK(mh'), mh'.bytes = mh.bytes, mh'.free = mh.free, blocks' = blocks
        PROVE  HeapOK(mh', blocks')
    BY <1>1, <2>2 DEF HeapOK
  <2> QED  BY <1>3, <2>1, <2>2
<1> QED  BY <1>4 DEF HeapOK

\* so does nommu_FreeMem, which rounds as the allocation did,
LEMMA HeapFreeMem ==
  ASSUME HeapInv, NEW b \in blocks, FreeMem(b)
  PROVE  HeapOK(mh, blocks)'
<1> DEFINE addr == b[1]
           bytes == b[2]
           a == RoundDown(b[1])
           n == RoundUp(b[2] + (b[1] % Unit))
<1>1. HeapOK(mh, blocks) /\ HeaderOK(mh) /\ IsBlock(b) /\ Of(b) \cap Covered(mh.bytes) = {}
  BY DEF HeapInv, HeapOK
<1>2. addr \in Nat /\ bytes \in Nat /\ bytes > 0 /\ Lower <= addr /\ addr + bytes <= Upper
  BY <1>1 DEF IsBlock
<1>3. /\ a \in Addresses /\ n \in Nat \ {0} /\ Aligned(n) /\ a + n <= Upper
      /\ Of(b) = Within(a, n)
  BY <1>1, BlockOf
<1>4. blocks' = blocks \ {b} /\ mh' = stdDealloc(mh, addr, bytes)
  BY DEF FreeMem
<1>5. a = RoundDown(addr) /\ n = RoundUp(bytes + (addr % Unit))
  OBVIOUS
<1>6. Within(RoundDown(addr), RoundUp(bytes + (addr % Unit))) \cap Covered(mh.bytes) = {}
  BY <1>1, <1>3, <1>5
<1> HIDE DEF addr, bytes, a, n
<1>7. Gave(mh, RoundDown(addr), RoundUp(bytes + (addr % Unit)), stdDealloc(mh, addr, bytes))
  BY <1>1, <1>2, <1>6, DeallocIs
<1>8. Gave(mh, a, n, mh')
  BY <1>4, <1>5, <1>7
<1>9. HeapOK(mh', blocks \ {b})
  BY <1>1, <1>3, <1>8, HeapGives
<1>10. HeapOK(mh', blocks')
  BY <1>4, <1>9
<1> QED  BY <1>10 DEF HeapOK

\* AllocAbs takes what it was asked for.
LEMMA AllocAbsIs ==
  ASSUME HeapInv, NEW b \in Ranges, AllocAbs(b[1], b[2]),
         NEW a, a = RoundDown(b[1]), NEW n, n = RoundUp(b[2] + (b[1] % Unit))
  PROVE  /\ Took(mh, n, mh', a) /\ blocks' = blocks \cup {b}
         /\ IsBlock(b) /\ Of(b) = Within(a, n) /\ n \in Nat \ {0} /\ Aligned(n)
<1> DEFINE z == a + n
<1>1. HeapOK(mh, blocks) /\ HeaderOK(mh)
  BY DEF HeapInv, HeapOK
<1>2. IsBlock(b)
  BY MemoryConstantsOK DEF IsBlock
<1>3. /\ a \in Addresses /\ n \in Nat \ {0} /\ Aligned(n) /\ a + n <= Upper
      /\ Of(b) = Within(a, n)
  BY <1>2, BlockOf
<1>4. PICK c \in ToSet(Chunks(mh)) : c <= a /\ c + mh.bytes[c] >= z /\ mh' = Reserved(mh, c, a, z)
  BY DEF AllocAbs
<1>5. blocks' = blocks \cup {b}
  <2>1. blocks' = blocks \cup {<<b[1], b[2]>>}
    BY DEF AllocAbs
  <2>2. b = <<b[1], b[2]>>
    BY <1>2 DEF IsBlock
  <2> QED  BY <2>1, <2>2
<1>6. c \in DOMAIN mh.bytes
  <2> DEFINE list == Chunks(mh)
  <2>1. list \in Seq(DOMAIN mh.bytes)
    BY <1>1, ChunksAre DEF ListOf
  <2>2. c \in ToSet(list)
    OBVIOUS
  <2> HIDE DEF list
  <2> QED  BY <2>1, <2>2 DEF ToSet
<1>7. a \in Int /\ Aligned(a)
  BY <1>3, AlignedConstants
<1>8. z \in Int /\ Aligned(z) /\ a < z /\ z - a = n
  BY <1>3, <1>7, AlignedTerm
<1>9. c \in Int /\ mh.bytes[c] \in Int
  BY <1>1, <1>6, Numbers DEF HeaderOK, Numeric
<1> HIDE DEF z
<1>10. Took(mh, z - a, Reserved(mh, c, a, z), a)
  BY <1>1, <1>3, <1>4, <1>6, <1>8, <1>9, ReservedIs
<1>11. Took(mh, n, mh', a)
  BY <1>4, <1>8, <1>10
<1> QED  BY <1>2, <1>3, <1>5, <1>11

\* and nommu_AllocAbs.
LEMMA HeapAllocAbs ==
  ASSUME HeapInv, NEW b \in Ranges, AllocAbs(b[1], b[2])
  PROVE  HeapOK(mh, blocks)'
<1> DEFINE a == RoundDown(b[1])
           n == RoundUp(b[2] + (b[1] % Unit))
<1>1. /\ Took(mh, n, mh', a) /\ blocks' = blocks \cup {b}
      /\ IsBlock(b) /\ Of(b) = Within(a, n) /\ n \in Nat \ {0} /\ Aligned(n)
  BY AllocAbsIs
<1> HIDE DEF a, n
<1>2. HeapOK(mh, blocks)
  BY DEF HeapInv
<1>3. HeapOK(mh', blocks \cup {b})
  BY <1>1, <1>2, HeapTakes
<1>4. HeapOK(mh', blocks')
  BY <1>1, <1>3
<1> QED  BY <1>4 DEF HeapOK

\* The other actions leave the heap alone.
LEMMA HeapStep ==
  ASSUME HeapInv, TypesKept, [Next]_vars
  PROVE  HeapInv'
<1>1. ASSUME UNCHANGED heapVars PROVE HeapOK(mh, blocks)'
  <2>1. mh' = mh /\ blocks' = blocks
    BY <1>1 DEF heapVars
  <2> QED  BY <2>1 DEF HeapInv, HeapOK
<1>2. ASSUME NEW t \in Tasks, TaskStep(t), ~TryAlloc(t) PROVE UNCHANGED heapVars
  BY <1>2 DEF TaskStep, AllocMem, LockHandlers, WalkHandlers, TryAgain, NothingToFree
<1>3. HeapOK(mh, blocks)'
  BY <1>1, <1>2, HeapTryAlloc, HeapFreeMem, HeapAllocAbs
  DEF Next, vars, AddMemHandler, RemMemHandler
<1>4. ASSUME UNCHANGED <<pc, size>> PROVE Asking'
  BY <1>4 DEF HeapInv, Asking
<1>5. ASSUME NEW t \in Tasks, TaskStep(t) PROVE Asking'
  BY <1>5 DEF TaskStep, AllocMem, TryAlloc, LockHandlers, WalkHandlers, TryAgain, NothingToFree,
     Return, TypesKept, HeapInv, Asking
<1>6. Asking'
  BY <1>4, <1>5 DEF Next, vars, callVars, FreeMem, AllocAbs, AddMemHandler, RemMemHandler
<1> QED  BY <1>3, <1>6 DEF HeapInv
-----------------------------------------------------------------------------
(* The invariant gives what the runs check. *)

\* The units that the chunks cover are the units that no block has.
LEMMA UnitsShared ==
  ASSUME NEW h, NEW S, HeapOK(h, S)
  PROVE  /\ UNION {Units(c, h.bytes[c]) : c \in DOMAIN h.bytes} = Cells(Covered(h.bytes))
         /\ Cells(Covered(h.bytes)) = AllUnits \ UNION {Units(b[1], b[2]) : b \in S}
         /\ \A b \in S : Units(b[1], b[2]) = Cells(Of(b))
<1> DEFINE B == h.bytes
           F == Covered(B)
           T == UNION {Of(b) : b \in S}
<1>1. /\ HeaderOK(h) /\ Links(h.next, B) /\ \A b \in S : IsBlock(b) /\ Of(b) \cap F = {}
      /\ Addresses = F \cup T
  BY DEF HeapOK, HeaderOK
<1>2. ASSUME NEW c \in DOMAIN B PROVE Units(c, B[c]) = Cells(Within(c, B[c]))
  <2>1. c \in Addresses /\ B[c] \in Nat \ {0} /\ Aligned(B[c]) /\ c + B[c] <= Upper
    BY <1>1 DEF Links
  <2> DEFINE n == B[c]
  <2> HIDE DEF n
  <2>2. n \in Nat \ {0} /\ Aligned(n) /\ c + n <= Upper
    BY <2>1 DEF n
  <2>3. Units(c, n) = Cells(Within(c, n))
    BY <2>1, <2>2, UnitsOf
  <2> QED  BY <2>3 DEF n
<1>3. F = UNION {Within(c, B[c]) : c \in DOMAIN B}
  BY DEF Covered, Within
<1>4. UNION {Units(c, B[c]) : c \in DOMAIN B} = Cells(F)
  <2> DEFINE U(c) == Units(c, B[c])
             W(c) == Within(c, B[c])
  <2>1. \A c \in DOMAIN B : U(c) = Cells(W(c))
    BY <1>2
  <2>2. F = UNION {W(c) : c \in DOMAIN B}
    BY <1>3
  <2> HIDE DEF U, W, F
  <2>3. UNION {U(c) : c \in DOMAIN B} = Cells(F)
    BY <2>1, <2>2 DEF Cells
  <2> QED  BY <2>3 DEF U
<1>5. ASSUME NEW b \in S PROVE Units(b[1], b[2]) = Cells(Of(b))
  <2>1. b[1] \in Nat /\ b[2] \in Nat /\ b[2] > 0 /\ Lower <= b[1] /\ b[1] + b[2] <= Upper
    BY <1>1 DEF IsBlock
  <2> DEFINE addr == b[1]
             n == b[2]
  <2>2. addr \in Nat /\ n \in Nat /\ n > 0 /\ Lower <= addr /\ addr + n <= Upper
    BY <2>1
  <2> HIDE DEF addr, n
  <2>3. Units(addr, n) = Cells({x \in Addresses : RoundDown(addr) <= x /\ x < addr + n})
    BY <2>2, UnitsAre
  <2> QED  BY <2>3 DEF Of, addr, n
<1>6. UNION {Units(b[1], b[2]) : b \in S} = Cells(T)
  <2> DEFINE U(b) == Units(b[1], b[2])
  <2>1. \A b \in S : U(b) = Cells(Of(b))
    BY <1>5
  <2> HIDE DEF U
  <2>2. UNION {U(b) : b \in S} = Cells(T)
    BY <2>1 DEF Cells
  <2> QED  BY <2>2 DEF U
<1>7. T \in SUBSET Addresses /\ F = Addresses \ T
  <2>1. F \cap T = {}
    BY <1>1
  <2>2. F \subseteq Addresses
    BY DEF Covered
  <2> QED  BY <1>1, <2>1, <2>2
<1>8. AllUnits = Cells(Addresses)
  BY DEF AllUnits, Cells
<1> HIDE DEF F, T
<1>9. Cells(F) = AllUnits \ Cells(T)
  BY <1>7, <1>8, CellsIs
<1> QED  BY <1>4, <1>5, <1>6, <1>9 DEF F

\* What the runs check of the list and of the index follows.
LEMMA HeapIsSound ==
  ASSUME HeapInv
  PROVE  ListSound /\ IndexSound
<1> DEFINE list == Chunks(mh)
           B == mh.bytes
           N == mh.next
<1>1. HeapOK(mh, blocks) /\ HeaderOK(mh) /\ Links(N, B) /\ Numeric(N, B)
  BY Numbers DEF HeapInv, HeapOK, HeaderOK
<1>2. /\ list \in Seq(DOMAIN B)
      /\ \A c \in DOMAIN B : \E i \in 1 .. Len(list) : list[i] = c
      /\ \A i \in 1 .. Len(list) - 1 : N[list[i]] = list[i + 1]
  <2>1. ListOf(mh, list)
    BY <1>1, ChunksAre
  <2> HIDE DEF list
  <2> QED  BY <2>1 DEF ListOf
<1> HIDE DEF list
<1>3. ToSet(list) = DOMAIN B
  BY <1>2 DEF ToSet
<1>4. DOMAIN N = ToSet(list) \cup {First}
  BY <1>1, <1>3 DEF Numeric
<1>5. ASSUME NEW i \in 1 .. Len(list) - 1 PROVE list[i] + B[list[i]] + Unit <= list[i + 1]
  <2> DEFINE c == list[i]
             d == list[i + 1]
  <2>1. i \in 1 .. Len(list) /\ i + 1 \in 1 .. Len(list)
    BY <1>2
  <2>2. c \in DOMAIN B /\ d \in DOMAIN B /\ N[c] = d
    BY <1>2, <2>1
  <2> HIDE DEF c, d
  <2>3. c \in Int /\ d \in Int /\ B[c] \in Int /\ Aligned(c) /\ Aligned(d) /\ c \in DOMAIN N
        /\ c # First /\ d # Nil
    BY <1>1, <2>2 DEF Numeric
  <2>4. c + B[c] < d /\ Aligned(B[c])
    BY <1>1, <2>2, <2>3 DEF Links
  <2>5. c + B[c] \in Int /\ Aligned(c + B[c])
    BY <2>3, <2>4, AlignedTerm
  <2>6. c + B[c] + Unit <= d
    BY <2>3, <2>4, <2>5, AlignedGap
  <2> QED  BY <2>6 DEF c, d
<1>6. /\ UNION {Units(c, B[c]) : c \in DOMAIN B} = AllUnits \ UnitsTaken
      /\ mh.free = Unit * Cardinality(AllUnits \ UnitsTaken)
  BY <1>1, UnitsShared DEF UnitsTaken, HeapOK
<1>7. ListSound
  BY <1>3, <1>4, <1>5, <1>6 DEF ListSound, list
<1>8. IndexSound
  BY <1>1 DEF HeaderOK, Known, IndexSound
<1> QED  BY <1>7, <1>8
-----------------------------------------------------------------------------
(* The store. *)

\* A finite set of numbers has a bound.
LEMMA FiniteIsBounded ==
  ASSUME NEW S \in SUBSET Nat, IsFiniteSet(S)
  PROVE  \E m \in Nat : \A x \in S : x <= m
<1> DEFINE Bounded(R) == \E m \in Nat : \A x \in R : x <= m
           T == {n \in Nat : \E R \in SUBSET Nat : IsFiniteSet(R) /\ Cardinality(R) = n /\ ~Bounded(R)}
<1>1. T = {}
  <2> SUFFICES ASSUME T # {} PROVE FALSE
    OBVIOUS
  <2>1. PICK n \in T : \A k \in T : n <= k
    BY LeastNatural
  <2>2. PICK R \in SUBSET Nat : IsFiniteSet(R) /\ Cardinality(R) = n /\ ~Bounded(R)
    OBVIOUS
  <2>3. R # {}
    BY <2>2
  <2>4. PICK x \in R : TRUE
    BY <2>3
  <2>5. IsFiniteSet(R \ {x}) /\ Cardinality(R \ {x}) = n - 1
    BY <2>2, <2>4, FS_RemoveElement
  <2>6. n - 1 \in Nat /\ n \in Nat
    BY <2>5, FS_CardinalityType
  <2>7. n - 1 \notin T
    <3> HIDE DEF T
    <3> QED  BY <2>1, <2>6
  <2>8. Bounded(R \ {x})
    <3>1. R \ {x} \in SUBSET Nat
      OBVIOUS
    <3> HIDE DEF Bounded
    <3> QED  BY <2>5, <2>6, <2>7, <3>1
  <2>9. PICK m \in Nat : \A y \in R \ {x} : y <= m
    BY <2>8
  <2>10. x \in Nat /\ \A y \in R : y \in Nat /\ y <= m + x
    BY <2>9
  <2> QED  BY <2>2, <2>9, <2>10
<1>2. Cardinality(S) \in Nat
  BY FS_CardinalityType
<1> QED  BY <1>1, <1>2

\* What is asked of the store.
Request(n) == RoundUp(n) \div Unit

\* A call asks for one unit or more.
LEMMA RequestIs ==
  ASSUME NEW n \in Nat \ {0}
  PROVE  /\ Request(n) \in Nat \ {0} /\ RoundUp(n) = Unit * Request(n)
         /\ RoundUp(n) \in Nat \ {0} /\ Aligned(RoundUp(n))
<1>1. RoundUp(n) \in Int /\ Aligned(RoundUp(n)) /\ RoundUp(n) > 0
  BY RoundUpIs
<1>2. Request(n) \in Int /\ RoundUp(n) = Unit * Request(n)
  BY <1>1, Multiple DEF Request
<1>3. Unit * 0 = 0
  BY UnitType
<1>4. 0 < Request(n)
  BY <1>1, <1>2, <1>3, TimesLess
<1> QED  BY <1>1, <1>2, <1>4

\* No call asks for more than the greatest of Sizes.
LEMMA RequestBound ==
  ASSUME NEW n \in Sizes
  PROVE  Request(n) \in 1 .. Max({RoundUp(i) \div Unit : i \in Sizes})
<1> DEFINE S == {RoundUp(i) \div Unit : i \in Sizes}
<1>1. Sizes \in SUBSET Nat /\ IsFiniteSet(Sizes) /\ \A i \in Sizes : i \in Nat \ {0}
  BY MemoryConstantsOK
<1>2. PICK m \in Nat : \A i \in Sizes : i <= m
  BY <1>1, FiniteIsBounded
<1> DEFINE top == m + Unit
<1>3. top \in Int
  BY UnitType
<1>4. ASSUME NEW i \in Sizes PROVE Request(i) \in 1 .. top
  <2>1. i \in Nat \ {0} /\ i <= m
    BY <1>1, <1>2
  <2>2. Request(i) \in Nat \ {0} /\ RoundUp(i) = Unit * Request(i) /\ RoundUp(i) < i + Unit
    BY <2>1, RequestIs, RoundUpIs
  <2>3. \A u \in Nat, r \in Nat : u > 0 => r <= u * r
    OBVIOUS
  <2>4. Request(i) <= RoundUp(i)
    BY <2>2, <2>3, UnitType
  <2>5. Request(i) <= top
    BY <2>1, <2>2, <2>4, UnitType
  <2> HIDE DEF top
  <2> QED  BY <1>3, <2>2, <2>5
<1>5. S \in SUBSET (1 .. top) /\ Request(n) \in S
  BY <1>4 DEF Request
<1> HIDE DEF S, top
<1>6. 1 \in Int /\ S # {}
  BY <1>5
<1>7. Max(S) \in S /\ \A y \in S : Max(S) >= y
  BY <1>3, <1>5, <1>6, MinMax
<1> DEFINE r == Request(n)
<1>8. r \in 1 .. top /\ Max(S) \in 1 .. top /\ Max(S) >= r
  BY <1>5, <1>7
<1> HIDE DEF r
<1>9. r \in 1 .. Max(S)
  BY <1>3, <1>8
<1> QED  BY <1>9 DEF S, r

\* Units in a row that are all free lie in one chunk, as no two touch.
LEMMA RunInChunk ==
  ASSUME NEW N, NEW B, Links(N, B), NEW c \in Int, NEW r \in Nat \ {0},
         c .. c + r - 1 \subseteq Cells(Covered(B))
  PROVE  \E k \in DOMAIN B : B[k] >= Unit * r
<1>1. \A m \in c .. c + r - 1 : \E x \in Covered(B) : x \div Unit = m
  BY DEF Cells
<1>2. \A x \in Covered(B) :
        /\ x \in Int /\ x = Unit * (x \div Unit)
        /\ \E k \in DOMAIN B : k <= x /\ x < k + B[k]
  BY AlignedConstants, Multiple DEF Covered
<1>3. c \in c .. c + r - 1
  OBVIOUS
<1>4. PICK x \in Covered(B) : x \div Unit = c
  BY <1>1, <1>3
<1>5. PICK k \in DOMAIN B : k <= x /\ x < k + B[k]
  BY <1>2
<1>6. x \in Int /\ x = Unit * c
  BY <1>2, <1>4
<1> DEFINE e == k + B[k]
           m == e \div Unit
<1>7. k \in Int /\ B[k] \in Int /\ e \in Int /\ Aligned(e)
  <2>1. k \in Int /\ B[k] \in Int /\ Aligned(k) /\ Aligned(B[k])
    BY Numbers DEF Numeric, Links
  <2> QED  BY <2>1, AlignedTerm
<1>8. m \in Int /\ e = Unit * m
  BY <1>7, Multiple
<1>9. x < e
  BY <1>5
<1>12. \A d \in DOMAIN B : ~(d <= e /\ e < d + B[d])
  <2> SUFFICES ASSUME NEW d \in DOMAIN B, d <= e, e < d + B[d] PROVE FALSE
    OBVIOUS
  <2>1. d \in Int /\ B[d] \in Int /\ B[k] > 0
    BY Numbers DEF Numeric
  <2>2. d # k
    BY <1>7, <2>1
  <2>3. k < d => k + B[k] < d
    BY <2>2, Apart
  <2>4. d < k => d + B[d] < k
    BY <2>2, Apart
  <2> QED  BY <1>7, <2>1, <2>2, <2>3, <2>4
<1> HIDE DEF e, m
<1>10. c < m
  BY <1>6, <1>8, <1>9, TimesLess
<1>11. m \notin c .. c + r - 1
  <2> SUFFICES ASSUME m \in c .. c + r - 1 PROVE FALSE
    OBVIOUS
  <2>1. PICK y \in Covered(B) : y \div Unit = m
    BY <1>1
  <2>2. y = e
    BY <1>2, <1>8, <2>1
  <2> QED  BY <1>2, <1>12, <2>1, <2>2
<1>13. c + r <= m
  BY <1>8, <1>10, <1>11
<1>14. Unit * (c + r) <= Unit * m
  BY <1>8, <1>13, TimesLess
<1>15. Unit * (c + r) = Unit * c + Unit * r /\ Unit * r \in Int
  BY UnitType
<1>16. x + Unit * r <= e
  BY <1>6, <1>8, <1>14, <1>15
<1>17. B[k] >= Unit * r
  BY <1>5, <1>6, <1>7, <1>15, <1>16 DEF e
<1> QED  BY <1>17

\* There are no more of them than are free.
LEMMA RunCounts ==
  ASSUME NEW S \in SUBSET Addresses, NEW c \in Int, NEW r \in Nat \ {0},
         c .. c + r - 1 \subseteq Cells(S)
  PROVE  Unit * r <= Unit * Cardinality(Cells(S))
<1> DEFINE A == Cells(S)
           I == c .. c + r - 1
<1>1. IsFiniteSet(A)
  BY CellsFinite
<1>2. Cardinality(I) = r
  <2>1. c + r - 1 \in Int /\ ~(c > c + r - 1) /\ (c + r - 1) - c + 1 = r
    OBVIOUS
  <2> QED  BY <2>1, FS_Interval
<1>3. I \in SUBSET A
  OBVIOUS
<1> HIDE DEF A, I
<1>4. Cardinality(I) <= Cardinality(A) /\ Cardinality(A) \in Nat
  BY <1>1, <1>3, FS_Subset, FS_CardinalityType
<1>5. r <= Cardinality(A) /\ Cardinality(A) \in Int
  BY <1>2, <1>4
<1>6. Unit * r <= Unit * Cardinality(A)
  BY <1>5, TimesLess
<1> QED  BY <1>6 DEF A

\* What the tasks ask the store for, and which of its cells are taken.
Requests == [t \in Tasks |-> IF pc[t] = "try" THEN RoundUp(size[t]) \div Unit ELSE 0]
TakenSets == {Units(b[1], b[2]) : b \in blocks}

\* A task that begins to try asks for something.
LEMMA AskRefines ==
  ASSUME HeapInv, TypesKept, NEW t \in Tasks, pc[t] # "try", pc' = [pc EXCEPT ![t] = "try"],
         size'[t] \in Sizes, \A u \in Tasks \ {t} : size'[u] = size[u], UNCHANGED blocks
  PROVE  Store!Ask(t)
<1> DEFINE n == RoundUp(size'[t]) \div Unit
<1>1. n \in 1 .. Max({RoundUp(i) \div Unit : i \in Sizes})
  BY RequestBound DEF Request
<1>2. Requests' = [Requests EXCEPT ![t] = n]
  BY DEF Requests, TypesKept
<1>3. Requests[t] = 0
  BY DEF Requests
<1>4. TakenSets' = TakenSets
  BY DEF TakenSets
<1> HIDE DEF n
<1> QED  BY <1>1, <1>2, <1>3, <1>4 DEF Requests, TakenSets, Store!Ask

\* A task that has tried asks for nothing more.
LEMMA AnswerRefines ==
  ASSUME HeapInv, TypesKept, NEW t \in Tasks, pc[t] = "try",
         NEW s, pc' = [pc EXCEPT ![t] = s], s # "try", \A u \in Tasks \ {t} : size'[u] = size[u]
  PROVE  /\ Requests' = [Requests EXCEPT ![t] = 0]
         /\ Requests[t] = Request(size[t])
  BY DEF Requests, Request, TypesKept

\* What is refused is not there.
LEMMA NoRoom ==
  ASSUME HeapInv, NEW n \in Nat \ {0},
         mh.free < RoundUp(n) \/ \A c \in DOMAIN mh.bytes : mh.bytes[c] < RoundUp(n)
  PROVE  Store!Room(Request(n)) = {}
<1> DEFINE r == Request(n)
           F == Cells(Covered(mh.bytes))
<1>1. r \in Nat \ {0} /\ RoundUp(n) = Unit * r /\ RoundUp(n) \in Int
  BY RequestIs
<1>2. HeapOK(mh, blocks) /\ Links(mh.next, mh.bytes) /\ mh.free = Unit * Cardinality(F)
      /\ Covered(mh.bytes) \in SUBSET Addresses
  BY DEF HeapInv, HeapOK, HeaderOK, Covered
<1>3. Store!Unused = F
  BY <1>2, UnitsShared DEF Store!Unused
<1>4. AllUnits \subseteq Int
  <2>1. \A x \in Addresses : x \div Unit \in Int
    BY AlignedConstants, Multiple
  <2> QED  BY <2>1 DEF AllUnits
<1>5. ASSUME NEW c \in AllUnits, c .. c + r - 1 \subseteq F PROVE FALSE
  <2>1. c \in Int
    BY <1>4
  <2>2. \E k \in DOMAIN mh.bytes : mh.bytes[k] >= Unit * r
    BY <1>1, <1>2, <1>5, <2>1, RunInChunk
  <2>3. Unit * r <= mh.free
    BY <1>1, <1>2, <1>5, <2>1, RunCounts
  <2>4. mh.free \in Int /\ \A k \in DOMAIN mh.bytes : mh.bytes[k] \in Int
    BY <1>2, Numbers DEF HeapInv, HeapOK, HeaderOK, Numeric
  <2> QED  BY <1>1, <2>2, <2>3, <2>4
<1> HIDE DEF F, r
<1>6. {c \in AllUnits : c .. c + r - 1 \subseteq F} = {}
  BY <1>5
<1> QED  BY <1>3, <1>6 DEF Store!Room, Store!Interval, r

\* The units of a block are an interval, and they are what it covers.
LEMMA BlockUnits ==
  ASSUME NEW b, IsBlock(b), NEW a, NEW n, a = RoundDown(b[1]), n = RoundUp(b[2] + (b[1] % Unit))
  PROVE  /\ Units(b[1], b[2]) = (a \div Unit) .. ((a \div Unit) + (n \div Unit) - 1)
         /\ Units(b[1], b[2]) = Cells(Of(b)) /\ a \div Unit \in AllUnits
         /\ a \div Unit \in Units(b[1], b[2])
<1>1. /\ a \in Addresses /\ n \in Nat \ {0} /\ Aligned(n) /\ a + n <= Upper /\ Of(b) = Within(a, n)
  BY BlockOf
<1>2. /\ Units(a, n) = Cells(Within(a, n))
      /\ Units(a, n) = (a \div Unit) .. ((a \div Unit) + (n \div Unit) - 1)
  BY <1>1, UnitsOf
<1>3. Units(b[1], b[2]) = Cells(Of(b))
  <2>1. b[1] \in Nat /\ b[2] \in Nat /\ b[2] > 0 /\ Lower <= b[1] /\ b[1] + b[2] <= Upper
    BY DEF IsBlock
  <2> DEFINE addr == b[1]
             size1 == b[2]
  <2>2. addr \in Nat /\ size1 \in Nat /\ size1 > 0 /\ Lower <= addr /\ addr + size1 <= Upper
    BY <2>1
  <2> HIDE DEF addr, size1
  <2>3. Units(addr, size1) = Cells({x \in Addresses : RoundDown(addr) <= x /\ x < addr + size1})
    BY <2>2, UnitsAre
  <2> QED  BY <2>3 DEF Of, addr, size1
<1>4. a \in Within(a, n)
  <2>1. a \in Int
    BY <1>1, AlignedConstants
  <2> QED  BY <1>1, <2>1 DEF Within
<1>5. a \div Unit \in Cells(Within(a, n)) /\ a \div Unit \in AllUnits
  BY <1>1, <1>4 DEF Cells, AllUnits
<1> QED  BY <1>1, <1>2, <1>3, <1>5

\* nommu_AllocMem grants what is free, or refuses what is not there.
LEMMA TryRefines ==
  ASSUME HeapInv, TypesKept, NEW t \in Tasks, TryAlloc(t)
  PROVE  Store!Grant(t) \/ Store!Refuse(t)
<1> DEFINE n == RoundUp(size[t])
           r == Request(size[t])
<1>1. size[t] \in Nat \ {0} /\ HeapOK(mh, blocks) /\ pc[t] = "try"
  BY MemoryConstantsOK DEF HeapInv, Asking, TryAlloc
<1>2. r \in Nat \ {0} /\ n \div Unit = r
  BY <1>1, RequestIs DEF Request
<1>3. /\ \E s : pc' = [pc EXCEPT ![t] = s] /\ s # "try"
      /\ \A u \in Tasks \ {t} : size'[u] = size[u]
  BY DEF TryAlloc, Return, TypesKept
<1>4. Requests' = [Requests EXCEPT ![t] = 0] /\ Requests[t] = r
  BY <1>1, <1>3, AnswerRefines
<1>5. Requests[t] > 0
  BY <1>2, <1>4
<1>6. \/ \E a : /\ Took(mh, n, mh', a) /\ blocks' = blocks \cup {<<a, size[t]>>}
                /\ IsBlock(<<a, size[t]>>) /\ Of(<<a, size[t]>>) = Within(a, n)
      \/ /\ blocks' = blocks
         /\ mh.free < n \/ \A c \in DOMAIN mh.bytes : mh.bytes[c] < n
  <2>1. n = RoundUp(size[t])
    OBVIOUS
  <2> HIDE DEF n
  <2> QED  BY <2>1, TryAllocIs
<1>7. CASE /\ blocks' = blocks
           /\ mh.free < n \/ \A c \in DOMAIN mh.bytes : mh.bytes[c] < n
  <2>1. Store!Room(r) = {}
    BY <1>1, <1>7, NoRoom
  <2>2. TakenSets' = TakenSets
    BY <1>7 DEF TakenSets
  <2> HIDE DEF r
  <2> QED  BY <1>4, <1>5, <2>1, <2>2 DEF Store!Refuse, Requests, TakenSets
<1>8. ASSUME NEW a, Took(mh, n, mh', a), blocks' = blocks \cup {<<a, size[t]>>},
             IsBlock(<<a, size[t]>>), Of(<<a, size[t]>>) = Within(a, n)
      PROVE  Store!Grant(t)
  <2> DEFINE b == <<a, size[t]>>
             c == a \div Unit
  <2>1. b[1] = a /\ b[2] = size[t] /\ IsBlock(b) /\ Of(b) = Within(a, n)
    BY <1>8
  <2>2. a = RoundDown(b[1]) /\ n = RoundUp(b[2] + (b[1] % Unit))
    <3>1. a \in Int /\ a % Unit = 0
      BY <1>8, AlignedConstants DEF Took, Aligned
    <3>2. RoundDown(a) = a
      BY <3>1 DEF RoundDown
    <3>3. size[t] + 0 = size[t]
      BY <1>1
    <3> QED  BY <2>1, <3>1, <3>2, <3>3
  <2>3. blocks' = blocks \cup {b}
    BY <1>8
  <2> HIDE DEF b, n
  <2>4. /\ Units(b[1], b[2]) = c .. (c + (n \div Unit) - 1)
        /\ Units(b[1], b[2]) = Cells(Of(b)) /\ c \in AllUnits
    BY <2>1, <2>2, BlockUnits
  <2>5. TakenSets' = TakenSets \cup {c .. c + r - 1}
    <3> HIDE DEF c, r
    <3> QED  BY <1>2, <2>3, <2>4 DEF TakenSets
  <2>6. Cells(Of(b)) \subseteq Cells(Covered(mh.bytes))
    BY <1>8, <2>1 DEF Took, Cells
  <2>7. Store!Unused = Cells(Covered(mh.bytes))
    BY <1>1, UnitsShared DEF Store!Unused
  <2> HIDE DEF c, r
  <2>8. c \in Store!Room(r)
    BY <1>2, <2>4, <2>6, <2>7 DEF Store!Room, Store!Interval
  <2> QED  BY <1>4, <1>5, <2>5, <2>8 DEF Store!Grant, Store!Interval, Requests, TakenSets
<1> QED  BY <1>6, <1>7, <1>8

\* FreeMem gives back one block, and no other is the same.
LEMMA FreeRefines ==
  ASSUME HeapInv, NEW b \in blocks, blocks' = blocks \ {b}, UNCHANGED <<pc, size>>
  PROVE  Store!GiveBack
<1>1. HeapOK(mh, blocks)
  BY DEF HeapInv
<1>2. \A d \in blocks : Units(d[1], d[2]) = Cells(Of(d)) /\ IsBlock(d)
  BY <1>1, UnitsShared DEF HeapOK
<1>3. ASSUME NEW d \in blocks, d # b PROVE Units(d[1], d[2]) # Units(b[1], b[2])
  <2>1. Of(d) \in SUBSET Addresses /\ Of(b) \in SUBSET Addresses /\ Of(d) \cap Of(b) = {}
    BY <1>1, <1>3 DEF HeapOK, Of
  <2>2. Cells(Of(d)) \cap Cells(Of(b)) = {}
    BY <2>1, CellsIs
  <2>3. Units(b[1], b[2]) # {}
    BY <1>2, BlockUnits
  <2> QED  BY <1>2, <2>2, <2>3
<1>4. TakenSets' = TakenSets \ {Units(b[1], b[2])} /\ Units(b[1], b[2]) \in TakenSets
  <2> DEFINE U(d) == Units(d[1], d[2])
  <2>1. \A d \in blocks : d # b => U(d) # U(b)
    BY <1>3
  <2>2. TakenSets = {U(d) : d \in blocks} /\ TakenSets' = {U(d) : d \in blocks'}
    BY DEF TakenSets
  <2> HIDE DEF U
  <2>3. TakenSets' = TakenSets \ {U(b)} /\ U(b) \in TakenSets
    BY <2>1, <2>2
  <2> QED  BY <2>3 DEF U
<1>5. Requests' = Requests
  BY DEF Requests
<1> QED  BY <1>4, <1>5 DEF Store!GiveBack, TakenSets, Requests

\* AllocAbs takes units that are free.
LEMMA AbsRefines ==
  ASSUME HeapInv, NEW b \in Ranges, AllocAbs(b[1], b[2])
  PROVE  Store!Take
<1> DEFINE a == RoundDown(b[1])
           n == RoundUp(b[2] + (b[1] % Unit))
           c == a \div Unit
           d == c + (n \div Unit) - 1
<1>1. HeapOK(mh, blocks)
  BY DEF HeapInv
<1>2. Took(mh, n, mh', a) /\ blocks' = blocks \cup {b} /\ IsBlock(b) /\ Of(b) = Within(a, n)
  BY AllocAbsIs
<1>3. /\ Units(b[1], b[2]) = c .. d
      /\ Units(b[1], b[2]) = Cells(Of(b)) /\ c \in Units(b[1], b[2])
  BY <1>2, BlockUnits
<1>4. c \in Int /\ d \in Int
  <2>1. a \in Int /\ n \in Int
    <3>1. b[1] \in Int /\ b[2] \in Int
      BY <1>2 DEF IsBlock
    <3>2. b[1] % Unit \in Int
      BY <3>1, RoundDownIs
    <3>3. b[2] + (b[1] % Unit) \in Int
      BY <3>1, <3>2
    <3> QED  BY <3>1, <3>3, RoundDownIs, RoundUpIs
  <2> HIDE DEF a, n
  <2>2. a \div Unit \in Int /\ n \div Unit \in Int
    BY <2>1, Multiple
  <2> QED  BY <2>2
<1> HIDE DEF c, d
<1>5. c <= d /\ c \in c .. d /\ d \in c .. d
  BY <1>3, <1>4
<1>6. Cells(Of(b)) \subseteq Cells(Covered(mh.bytes))
  BY <1>2 DEF Took, Cells
<1>7. Store!Unused = Cells(Covered(mh.bytes))
  BY <1>1, UnitsShared DEF Store!Unused
<1>8. TakenSets' = TakenSets \cup {c .. d}
  BY <1>2, <1>3 DEF TakenSets
<1>9. Requests' = Requests
  BY DEF AllocAbs, callVars, Requests
<1>10. c \in Store!Unused /\ d \in Store!Unused /\ c .. d \subseteq Store!Unused
  BY <1>3, <1>5, <1>6, <1>7
<1> HIDE DEF a, n
<1> QED  BY <1>5, <1>8, <1>9, <1>10 DEF Store!Take, Requests, TakenSets
-----------------------------------------------------------------------------
(* Every step of the allocator is one of the store. *)

\* What changes neither what is taken nor who tries does nothing to the store.
LEMMA StoreRests ==
  ASSUME UNCHANGED blocks,
         \A t \in Tasks : \/ pc[t] # "try" /\ pc'[t] # "try"
                          \/ pc'[t] = pc[t] /\ size'[t] = size[t]
  PROVE  UNCHANGED Store!vars
<1>1. Requests' = Requests
  BY DEF Requests
<1>2. TakenSets' = TakenSets
  BY DEF TakenSets
<1> QED  BY <1>1, <1>2 DEF Requests, TakenSets, Store!vars

\* The store begins with nothing taken and nobody asking.
LEMMA StoreBegins ==
  ASSUME Init
  PROVE  Store!Init
BY DEF Init, Store!Init

\* A step of a task is a step of the store or none.
LEMMA StoreTask ==
  ASSUME HeapInv, TypesKept, NEW t \in Tasks, TaskStep(t)
  PROVE  [Store!Next]_(Store!vars)
<1>1. ASSUME NEW n \in Sizes, NEW f \in Flags, AllocMem(t, n, f)
      PROVE  Store!Ask(t)
  <2>1. /\ pc[t] # "try" /\ pc' = [pc EXCEPT ![t] = "try"] /\ size' = [size EXCEPT ![t] = n]
        /\ UNCHANGED blocks
    BY <1>1 DEF AllocMem, heapVars
  <2>2. size'[t] \in Sizes /\ \A u \in Tasks \ {t} : size'[u] = size[u]
    BY <2>1 DEF TypesKept
  <2> QED  BY <2>1, <2>2, AskRefines
<1>2. ASSUME TryAgain(t) PROVE Store!Ask(t)
  <2>1. /\ pc[t] = "handler" /\ pc' = [pc EXCEPT ![t] = "try"] /\ size' = size
        /\ UNCHANGED blocks
    BY <1>2 DEF TryAgain, heapVars
  <2>2. size'[t] \in Sizes
    BY <2>1 DEF HeapInv, Asking
  <2> QED  BY <2>1, <2>2, AskRefines
<1>3. ASSUME TryAlloc(t) PROVE Store!Grant(t) \/ Store!Refuse(t)
  BY <1>3, TryRefines
<1>4. ASSUME LockHandlers(t) \/ WalkHandlers(t) \/ NothingToFree(t)
      PROVE  UNCHANGED Store!vars
  <2>1. UNCHANGED blocks
    BY <1>4 DEF LockHandlers, WalkHandlers, NothingToFree, heapVars
  <2>2. ASSUME NEW u \in Tasks
        PROVE  \/ pc[u] # "try" /\ pc'[u] # "try"
               \/ pc'[u] = pc[u] /\ size'[u] = size[u]
    BY <1>4 DEF LockHandlers, WalkHandlers, NothingToFree, Return, TypesKept
  <2> QED  BY <2>1, <2>2, StoreRests
<1> QED  BY <1>1, <1>2, <1>3, <1>4 DEF TaskStep, Store!Next

\* Every step of the allocator is a step of the store or none.
LEMMA StoreStep ==
  ASSUME HeapInv, TypesKept, [Next]_vars
  PROVE  [Store!Next]_(Store!vars)
<1>1. ASSUME NEW b \in blocks, FreeMem(b) PROVE Store!GiveBack
  <2>1. blocks' = blocks \ {b} /\ UNCHANGED <<pc, size>>
    BY <1>1 DEF FreeMem, callVars
  <2> QED  BY <2>1, FreeRefines
<1>2. ASSUME NEW r \in Ranges, AllocAbs(r[1], r[2]) PROVE Store!Take
  BY <1>2, AbsRefines
<1>3. ASSUME UNCHANGED <<blocks, pc, size>> PROVE UNCHANGED Store!vars
  BY <1>3, StoreRests
<1>4. ASSUME NEW h \in Handlers, AddMemHandler(h) \/ RemMemHandler(h) PROVE UNCHANGED Store!vars
  BY <1>3, <1>4 DEF AddMemHandler, RemMemHandler, heapVars, callVars
<1>5. ASSUME UNCHANGED vars PROVE UNCHANGED Store!vars
  BY <1>3, <1>5 DEF vars, heapVars, callVars
<1> QED  BY <1>1, <1>2, <1>4, <1>5, StoreTask DEF Next, Store!Next
-----------------------------------------------------------------------------
(* The theorems about the allocator. *)

\* In every reachable state the chunks and the blocks share the memory out.
LEMMA HeapInvariance == Spec => [](TypesKept /\ HeapInv)
<1>1. Spec => []TypesKept
  BY Invariance, PTL DEF IInv
<1>2. Init => HeapInv
  BY HeapBegins
<1>3. HeapInv /\ TypesKept /\ [Next]_vars => HeapInv'
  BY HeapStep
<1> QED  BY <1>1, <1>2, <1>3, PTL DEF Spec

\* Whatever is allocated anywhere or at a place, from either end, and freed in whatever order,
\* with whatever the index says: the chunks stay in the order of their addresses, two of them
\* never touch, they are exactly what nobody has, mh_Free counts them, and the index names
\* nothing that is eaten (stdAlloc, stdDealloc, nommu_AllocAbs and their mhac_ functions).
THEOREM Memory_Sound == Spec => []MemorySound
<1>1. TypesKept /\ HeapInv => MemorySound
  BY HeapIsSound DEF MemorySound
<1> QED  BY <1>1, HeapInvariance, PTL

\* AllocMem() grants only what belongs to nobody and refuses only if no chunk is big enough,
\* FreeMem() gives back all of a block, and AllocAbs() takes no more than the units of its
\* range: every step of the allocator is a step of the store of FreeStore, or changes nothing
\* there.
THEOREM Store_Implemented == Spec => ImplementsStore
<1>1. Init => Store!Init
  BY StoreBegins
<1>2. HeapInv /\ TypesKept /\ [Next]_vars => [Store!Next]_(Store!vars)
  BY StoreStep
<1> QED  BY <1>1, <1>2, HeapInvariance, PTL DEF Spec, ImplementsStore, Store!Spec
=============================================================================
