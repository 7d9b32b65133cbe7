---------------------------- MODULE ExecMemory ----------------------------
(***************************************************************************)
(* AllocMem(), AllocAbs() and FreeMem() of exec.library on the allocator   *)
(* of MemHeader, with the low-memory handlers: AllocMem() asks them one    *)
(* after the other to free something, and tries again after each that did. *)
(*                                                                         *)
(* An allocation or a release runs under Forbid() and is one step.  The    *)
(* handlers run under a semaphore only, which the handlers themselves may  *)
(* obtain again; between two tries of AllocMem() the task holds nothing    *)
(* and keeps a pointer into the list of handlers (cmhs_CurNode).           *)
(***************************************************************************)
EXTENDS MemHeader

CONSTANTS Tasks,     \* the tasks that call AllocMem()
          Sizes,     \* the sizes they ask for
          Flags,     \* the requirements they combine with them
          Ranges,    \* location and size of the AllocAbs() calls
          Handlers,  \* struct Interrupt, for AddMemHandler()
          Pri,       \* their ln_Pri
          None       \* nobody

ListHead == "mlh_Head"
ListTail == "mlh_Tail"
Nodes == Handlers \cup {ListHead, ListTail}

ASSUME MemoryConstantsOK ==
  /\ Sizes \subseteq Nat \ {0} /\ IsFiniteSet(Sizes)
  /\ Flags \subseteq SUBSET {"reverse", "noexpunge"}
  /\ Ranges \subseteq Nat \X Nat
  /\ \A r \in Ranges : Lower <= r[1] /\ r[2] > 0 /\ r[1] + r[2] <= Upper
  /\ Pri \in [Handlers -> Int]
  /\ {ListHead, ListTail} \cap Handlers = {} /\ None \notin Tasks \cup Nodes

VARIABLES
  mh,        \* the MemHeader with its index
  pc,        \* where a task is: run, try (nommu_AllocMem), low, walk and handler
             \* (checkMemHandlers)
  size,      \* byteSize of its call, 0 for none
  flags,     \* MEMF_REVERSE and MEMF_NO_EXPUNGE of its call
  curNode,   \* cmhs_CurNode of its call
  lowMemSem, \* the owner of LowMemSem
  upNext,    \* tmp in checkMemHandlers: read before the handler is called
  succ,      \* ln_Succ in the list ex_MemHandlers; a removed node keeps its own
  listed,    \* the handlers on the list
  blocks,    \* history: address and size of what is allocated
  owed,      \* history: the handlers the call may not fail without, see WhoFailsAskedAll
  gone       \* history: the handlers that were removed since the call began

heapVars == <<mh, blocks>>
callVars == <<pc, size, flags, curNode, owed, gone>>
listVars == <<succ, listed, lowMemSem, upNext>>
vars == <<heapVars, callVars, listVars>>

Init ==
  /\ mh = NewHeader /\ blocks = {}
  /\ pc = [t \in Tasks |-> "run"] /\ size = [t \in Tasks |-> 0]
  /\ flags = [t \in Tasks |-> {}] /\ curNode = [t \in Tasks |-> None]
  /\ lowMemSem = None /\ upNext = None
  /\ succ = [h \in Nodes |-> IF h = ListHead THEN ListTail ELSE None] /\ listed = {}
  /\ owed = [t \in Tasks |-> {}] /\ gone = [t \in Tasks |-> {}]
-----------------------------------------------------------------------------
(* Allocation and release.  Blocks may be freed by any task, or by a handler. *)

\* AllocMem() begins: it notes the head of the list of handlers.
AllocMem(t, n, f) ==
  /\ pc[t] = "run"
  /\ pc' = [pc EXCEPT ![t] = "try"]
  /\ size' = [size EXCEPT ![t] = n] /\ flags' = [flags EXCEPT ![t] = f]
  /\ curNode' = [curNode EXCEPT ![t] = succ[ListHead]]
  /\ owed' = [owed EXCEPT ![t] = listed] /\ gone' = [gone EXCEPT ![t] = {}]
  /\ UNCHANGED <<heapVars, listVars>>

\* The call of t ends.
Return(t) ==
  /\ pc' = [pc EXCEPT ![t] = "run"] /\ size' = [size EXCEPT ![t] = 0]
  /\ flags' = [flags EXCEPT ![t] = {}] /\ curNode' = [curNode EXCEPT ![t] = None]
  /\ owed' = [owed EXCEPT ![t] = {}] /\ gone' = [gone EXCEPT ![t] = {}]

\* nommu_AllocMem; without memory, and if the caller allows it, the handlers are asked.
TryAlloc(t) ==
  LET answer == IF mh.free < size[t] THEN Answer(mh, Nil)
                ELSE stdAlloc(mh, size[t], "reverse" \in flags[t])
  IN
  /\ pc[t] = "try"
  /\ mh' = answer.mh
  /\ \/ /\ answer.block # Nil
        /\ blocks' = blocks \cup {<<answer.block, size[t]>>}
        /\ Return(t)
     \/ /\ answer.block = Nil
        /\ IF "noexpunge" \in flags[t] THEN Return(t)
           ELSE /\ pc' = [pc EXCEPT ![t] = "low"]
                /\ UNCHANGED <<size, flags, curNode, owed, gone>>
        /\ UNCHANGED blocks
  /\ UNCHANGED listVars

\* nommu_FreeMem.
FreeMem(b) ==
  /\ b \in blocks
  /\ blocks' = blocks \ {b}
  /\ mh' = stdDealloc(mh, b[1], b[2])
  /\ UNCHANGED <<callVars, listVars>>

\* Mutant: AllocAbs() leaves the index as it is.
KeepIndex(h) == h

\* mhac_ClearSysCtx
ClearSysCtx(h) == [h EXCEPT !.index = NoIndex]

\* What is left of the chunk c when the memory from a to z is taken out of it.
Reserved(h, c, a, z) ==
  LET p == CHOOSE x \in DOMAIN h.next : h.next[x] = c
      rest == (c + h.bytes[c]) - z
      n1 == IF rest = 0 THEN h.next ELSE With(With(h.next, c, z), z, h.next[c])
      b1 == IF rest = 0 THEN h.bytes ELSE With(h.bytes, z, rest)
  IN [ClearSysCtx(h) EXCEPT
        !.next = IF c # a THEN n1 ELSE Without(With(n1, p, n1[c]), {c}),
        !.bytes = IF c # a THEN With(b1, c, a - c) ELSE Without(b1, {c}),
        !.free = @ - (z - a)]

\* nommu_AllocAbs, where the range lies in a free chunk.
AllocAbs(loc, n) ==
  LET a == RoundDown(loc)
      z == a + RoundUp(n + (loc % Unit))
  IN
  /\ \E c \in ToSet(Chunks(mh)) :
       c <= a /\ c + mh.bytes[c] >= z /\ mh' = Reserved(mh, c, a, z)
  /\ blocks' = blocks \cup {<<loc, n>>}
  /\ UNCHANGED <<callVars, listVars>>
-----------------------------------------------------------------------------
(* Low-memory handlers. *)

\* checkMemHandlers begins.
LockHandlers(t) ==
  /\ pc[t] = "low" /\ lowMemSem = None
  /\ lowMemSem' = t
  /\ pc' = [pc EXCEPT ![t] = "walk"]
  /\ UNCHANGED <<heapVars, size, flags, curNode, owed, gone, succ, listed, upNext>>

\* The head of its loop: the next handler is called, or the call fails.
WalkHandlers(t) ==
  /\ pc[t] = "walk"
  /\ \/ /\ curNode[t] # ListTail
        /\ upNext' = succ[curNode[t]]
        /\ pc' = [pc EXCEPT ![t] = "handler"]
        /\ UNCHANGED <<size, flags, curNode, owed, gone, lowMemSem>>
     \/ /\ curNode[t] = ListTail
        /\ lowMemSem' = None
        /\ Return(t)
        /\ UNCHANGED upNext
  /\ UNCHANGED <<heapVars, succ, listed>>

\* Mutant: the handler that freed something is not asked again.
CurAfterSuccess(t) == upNext

\* Where the next call of checkMemHandlers goes on.
CurAfterRetry(t) == curNode[t]

\* The handler has freed something and says MEM_TRY_AGAIN.
TryAgain(t) ==
  /\ pc[t] = "handler"
  /\ pc' = [pc EXCEPT ![t] = "try"]
  /\ curNode' = [curNode EXCEPT ![t] = CurAfterRetry(t)]
  /\ owed' = [owed EXCEPT ![t] = @ \cup ({curNode[t]} \cap listed)]
  /\ lowMemSem' = None /\ upNext' = None
  /\ UNCHANGED <<heapVars, size, flags, gone, succ, listed>>

\* The handler says anything else.
NothingToFree(t) ==
  /\ pc[t] = "handler"
  /\ pc' = [pc EXCEPT ![t] = "walk"]
  /\ curNode' = [curNode EXCEPT ![t] = upNext]
  /\ owed' = [owed EXCEPT ![t] = @ \ {curNode[t]}]
  /\ upNext' = None
  /\ UNCHANGED <<heapVars, size, flags, gone, succ, listed, lowMemSem>>

\* Who changes the list has LowMemSem: a task while nobody else has it, or, as the
\* semaphore nests, the handler that runs.
ListIsOpen == lowMemSem # None => pc[lowMemSem] = "handler"

\* AddMemHandler, by Enqueue(): behind the handlers of the same and of higher priority.
AddMemHandler(h) ==
  /\ ListIsOpen /\ h \notin listed
  /\ \E p \in listed \cup {ListHead} :
       /\ p # ListHead => Pri[p] >= Pri[h]
       /\ succ[p] # ListTail => Pri[succ[p]] < Pri[h]
       /\ succ' = [succ EXCEPT ![p] = h, ![h] = succ[p]]
  /\ listed' = listed \cup {h}
  /\ owed' = [t \in Tasks |-> {g \in owed[t] : h \in gone[t] => Pri[g] # Pri[h]}]
  /\ UNCHANGED <<heapVars, pc, size, flags, curNode, gone, lowMemSem, upNext>>

\* RemMemHandler.  The node keeps its links.
RemMemHandler(h) ==
  /\ ListIsOpen /\ h \in listed
  /\ \E p \in listed \cup {ListHead} : succ[p] = h /\ succ' = [succ EXCEPT ![p] = succ[h]]
  /\ listed' = listed \ {h}
  /\ owed' = [t \in Tasks |-> owed[t] \ {h}]
  /\ gone' = [t \in Tasks |-> IF pc[t] = "run" THEN {} ELSE gone[t] \cup {h}]
  /\ UNCHANGED <<heapVars, pc, size, flags, curNode, lowMemSem, upNext>>
-----------------------------------------------------------------------------
TaskStep(t) ==
  \/ \E n \in Sizes, f \in Flags : AllocMem(t, n, f)
  \/ TryAlloc(t) \/ LockHandlers(t) \/ WalkHandlers(t) \/ TryAgain(t) \/ NothingToFree(t)

Next ==
  \/ \E t \in Tasks : TaskStep(t)
  \/ \E b \in blocks : FreeMem(b)
  \/ \E r \in Ranges : AllocAbs(r[1], r[2])
  \/ \E h \in Handlers : AddMemHandler(h) \/ RemMemHandler(h)

Spec == Init /\ [][Next]_vars
-----------------------------------------------------------------------------
(* Properties. *)

\* The units of memory, by their numbers, that a block or a chunk lies in.
Units(addr, n) == (addr \div Unit) .. ((addr + n - 1) \div Unit)

AllUnits == {a \div Unit : a \in Addresses}
UnitsTaken == UNION {Units(b[1], b[2]) : b \in blocks}

\* Whatever was allocated, at a place or anywhere, from the end or the start, and freed in
\* whatever order, with whatever the index said: the chunks lie in the order of their
\* addresses, with something allocated between them, they are exactly the memory that
\* nobody has, and mh_Free is their sum (the rules of validateChunk, and what nommu_AvailMem
\* answers).
ListSound ==
  LET list == Chunks(mh) IN
  /\ DOMAIN mh.bytes = ToSet(list) /\ DOMAIN mh.next = ToSet(list) \cup {First}
  /\ \A i \in 1 .. Len(list) - 1 : list[i] + mh.bytes[list[i]] + Unit <= list[i + 1]
  /\ UNION {Units(c, mh.bytes[c]) : c \in ToSet(list)} = AllUnits \ UnitsTaken
  /\ mh.free = Unit * Cardinality(AllUnits \ UnitsTaken)

\* No entry of the index outlives what it points to: it is the head of the list or a chunk
\* that is still on it, and a chunk follows, as mhac_MemChunkClaimed and
\* mhac_GetCloserPrevMemChunk read it.
IndexSound ==
  \A i \in Levels : mh.index[i] # Nil =>
    mh.index[i] \in DOMAIN mh.next /\ mh.next[mh.index[i]] # Nil

\* The variables keep their types.
TypesKept ==
  /\ pc \in [Tasks -> {"run", "try", "low", "walk", "handler"}]
  /\ size \in [Tasks -> Sizes \cup {0}] /\ flags \in [Tasks -> Flags \cup {{}}]
  /\ curNode \in [Tasks -> Nodes \cup {None}] /\ upNext \in Nodes \cup {None}
  /\ lowMemSem \in Tasks \cup {None}
  /\ succ \in [Nodes -> Nodes \cup {None}] /\ listed \subseteq Handlers
  /\ owed \in [Tasks -> SUBSET Handlers] /\ gone \in [Tasks -> SUBSET Handlers]

\* The state stays sound: what the list of chunks and the index, changed by allocations and
\* releases of all kinds, say of the memory is what the callers have made of it.
MemorySound == TypesKept /\ ListSound /\ IndexSound

\* AllocMem() says that there is no memory only when no chunk is big enough, whatever the
\* index knows of the chunks, what is granted belonged to nobody, and FreeMem() gives all of
\* a block back: the allocator implements the store of FreeStore.
Store == INSTANCE FreeStore WITH
  Clients <- Tasks, Cells <- AllUnits,
  MaxRequest <- Max({RoundUp(n) \div Unit : n \in Sizes}),
  taken <- {Units(b[1], b[2]) : b \in blocks},
  request <- [t \in Tasks |-> IF pc[t] = "try" THEN RoundUp(size[t]) \div Unit ELSE 0]

ImplementsStore == Store!Spec

\* AllocMem() fails only when it owes no handler a question: each that was on the list all
\* the time has been asked, and the last thing that a handler still on the list has said to
\* this call is that it can free nothing more; also when others came and went while the call
\* kept its place in the list between two tries.  With one exception, which AddMemHandler
\* states: the call owes nothing to the equals of a handler that is removed and added again
\* meanwhile.  Enqueue() puts it behind them, and a call whose place was at it, or before it
\* on a node that is off the list, goes on from there and asks none of those it has passed.
WhoFailsAskedAll ==
  [][\A t \in Tasks : pc[t] = "walk" /\ pc'[t] = "run" => owed[t] = {}]_vars
=============================================================================
