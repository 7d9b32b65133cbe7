----------------------------- MODULE MemHeader -----------------------------
(***************************************************************************)
(* The allocator of exec.library on one region of memory (rom/exec/        *)
(* memory.c): a singly linked list of free chunks, which lies in the free  *)
(* memory itself, and an index that tells where to start a search for      *)
(* chunks of at least so many bytes.  The index holds predecessors of      *)
(* chunks, found in earlier calls: every call that changes the list has to *)
(* forget those it makes invalid.                                          *)
(*                                                                         *)
(* A header is a record: next and bytes are what a struct MemChunk says,   *)
(* for the addresses at which one is, free is mh_Free and index is         *)
(* mhac_PrevChunks.  First stands for the field mh_First, which the code   *)
(* uses as a chunk in front of all others.                                 *)
(***************************************************************************)
EXTENDS Integers, Sequences, SequencesExt, FiniteSets, FiniteSetsExt, Functions

CONSTANTS Unit,       \* MEMCHUNK_TOTAL
          FirstPot,   \* FIRSTPOT: the index has no level for less
          MaxLevels,  \* ALLOCATORCTXINDEXSIZE
          Lower,      \* mh_Lower
          Upper       \* mh_Upper

ASSUME HeaderConstantsOK ==
  /\ {Unit, FirstPot, MaxLevels, Lower, Upper} \subseteq Nat \ {0}
  /\ Lower % Unit = 0 /\ Upper % Unit = 0 /\ Lower < Upper /\ FirstPot % Unit = 0

Nil == 0
First == -1

Addresses == {a \in Lower .. Upper - 1 : a % Unit = 0}

\* AROS_ROUNDUP2 and its counterpart for addresses.
RoundUp(n) == ((n + Unit - 1) \div Unit) * Unit
RoundDown(a) == a - (a % Unit)

\* mhac_SetupMemHeaderAllocatorCtx: as many levels as the region has use for.
IndexSize == Cardinality({i \in 1 .. MaxLevels : (Upper - Lower) \div FirstPot >= 2 ^ i})

Levels == 0 .. IndexSize - 1
LevelBytes(i) == FirstPot * 2 ^ i

NoIndex == [i \in Levels |-> Nil]

\* One free chunk, and a context that has just been made.
NewHeader ==
  [next |-> [p \in {First, Lower} |-> IF p = First THEN Lower ELSE Nil],
   bytes |-> [c \in {Lower} |-> Upper - Lower], free |-> Upper - Lower, index |-> NoIndex]
-----------------------------------------------------------------------------
(* The list. *)

\* The chunks behind p, in the order of the list.
Walk(h, p) ==
  LET from[q \in DOMAIN h.next] ==
        IF h.next[q] = Nil THEN <<>> ELSE <<h.next[q]>> \o from[h.next[q]]
  IN from[p]

Chunks(h) == Walk(h, First)

\* The chunks C are no chunks any more.
Without(f, C) == Restrict(f, DOMAIN f \ C)

\* A field of p, which may be a new chunk, is set to v.
With(f, p, v) == [x \in DOMAIN f \cup {p} |-> IF x = p THEN v ELSE f[x]]
-----------------------------------------------------------------------------
(* The index. *)

\* Mutant: only the entries that name the chunk itself are forgotten.
ForgetChunk(h, c) ==
  [h EXCEPT !.index = [i \in Levels |-> IF @[i] = c THEN Nil ELSE @[i]]]

\* mhac_MemChunkClaimed: forgets the entries that lead to c or from it.
Claimed(h, c) ==
  [h EXCEPT !.index = [i \in Levels |->
     IF @[i] # Nil /\ (@[i] = c \/ h.next[@[i]] = c) THEN Nil ELSE @[i]]]

\* mhac_MemChunkCreated: c, behind p, is entered at each level it is big enough for,
\* unless the level knows a chunk at a lower address.
Created(h, c, p) ==
  [h EXCEPT !.index = [i \in Levels |->
     IF h.bytes[c] >= LevelBytes(i) /\ (@[i] = Nil \/ h.next[@[i]] > c) THEN p ELSE @[i]]]

\* mhac_GetBetterPrevMemChunk: where a search for so many bytes starts.
Better(h, size) ==
  LET known == {i \in Levels : LevelBytes(i) <= size /\ h.index[i] # Nil}
  IN IF known = {} THEN First ELSE h.index[Max(known)]

\* mhac_GetCloserPrevMemChunk: where a search for the place of an address starts.
Closer(h, addr) ==
  LET near == {i \in Levels : h.index[i] # Nil /\ h.next[h.index[i]] < addr
                                               /\ h.next[h.index[i]] > h.next[First]}
      nearest == Max({h.next[h.index[i]] : i \in near})
  IN IF near = {} THEN First
     ELSE h.index[Min({i \in near : h.next[h.index[i]] = nearest})]
-----------------------------------------------------------------------------
(* stdAlloc.  An answer is a header and the address of a block in it, Nil for none. *)

Answer(h, a) == [mh |-> h, block |-> a]

\* n bytes are taken from the chunk c behind p, from its end or its start.
Taken(h, p, c, n, reverse) ==
  LET g == Claimed([h EXCEPT !.free = @ - n], c)
      rest == h.bytes[c] - n
      left == IF reverse THEN c ELSE c + n
      exact == [g EXCEPT !.next = Without(With(@, p, h.next[c]), {c}), !.bytes = Without(@, {c})]
      split == [g EXCEPT !.next = With(With(Without(@, {c}), left, h.next[c]), p, left),
                         !.bytes = With(Without(@, {c}), left, rest)]
  IN IF rest = 0 THEN Answer(exact, c)
     ELSE Answer(Created(split, left, p), IF reverse THEN c + rest ELSE c)

\* The search from p: the first chunk that is big enough, or the last.
SearchFrom(h, p, n, reverse) ==
  LET walk == <<p>> \o Walk(h, p)
      fits == {i \in 2 .. Len(walk) : h.bytes[walk[i]] >= n}
      i == IF reverse THEN Max(fits) ELSE Min(fits)
  IN IF fits = {} THEN Answer(h, Nil) ELSE Taken(h, walk[i - 1], walk[i], n, reverse)

\* Mutant: what the index does not find is not there.
AllocOnce(h, size, reverse) ==
  IF h.free < RoundUp(size) THEN Answer(h, Nil)
  ELSE SearchFrom(h, Better(h, size), RoundUp(size), reverse)

\* Not everything is in the index: a search that fails is made again without it.
stdAlloc(h, size, reverse) ==
  LET n == RoundUp(size)
      answer == SearchFrom(h, Better(h, size), n, reverse)
  IN IF h.free < n THEN Answer(h, Nil)
     ELSE IF answer.block # Nil \/ h.index = NoIndex THEN answer
     ELSE SearchFrom([h EXCEPT !.index = NoIndex], First, n, reverse)
-----------------------------------------------------------------------------
\* Mutant: a block that ends where a chunk begins is not merged with it.
NeverAdjacent(end, q) == FALSE

\* A block that ends at end and the chunk q become one.
Adjacent(end, q) == end = q

\* The n bytes at a, behind p, become a chunk or are merged with the chunks next to them.
Joined(h, p, a, n) ==
  LET q == h.next[p]
      joinsPrev == p # First /\ p + h.bytes[p] = a
      joinsNext == Adjacent(a + n, q)
      c == IF joinsPrev THEN p ELSE a
      g == IF joinsPrev THEN Claimed(h, p) ELSE [h EXCEPT !.next = With(With(@, p, a), a, q)]
      f == IF joinsNext THEN Claimed(g, q) ELSE g
      gone == IF joinsNext THEN {q} ELSE {}
      end == IF joinsNext THEN q + h.bytes[q] ELSE a + n
      merged ==
        [f EXCEPT !.next = With(Without(@, gone), c, IF joinsNext THEN h.next[q] ELSE q),
                  !.bytes = With(Without(@, gone), c, end - c), !.free = @ + n]
  IN IF joinsPrev THEN merged ELSE Created(merged, a, p)

\* stdDealloc: the place of the block is behind the last chunk in front of it.
stdDealloc(h, addr, size) ==
  LET a == RoundDown(addr)
      n == RoundUp(size + (addr % Unit))
      walk == <<Closer(h, addr)>> \o Walk(h, Closer(h, addr))
      p == walk[Max({i \in DOMAIN walk : walk[i] < a})]
  IN IF h.next[First] = Nil
     THEN [h EXCEPT !.next = With(With(@, First, a), a, Nil), !.bytes = With(@, a, n),
                    !.free = @ + n]
     ELSE Joined(h, p, a, n)
=============================================================================
