------------------------ MODULE ExecSemaphore_proofs ------------------------
(***************************************************************************)
(* Proofs about ExecSemaphore for any sets of tasks, messages and          *)
(* semaphores: type correctness, the agreement of the counters with the    *)
(* queue and the grants, mutual exclusion, that a wakeup means a grant,    *)
(* and that every semaphore implements the abstract lock RWLock.           *)
(***************************************************************************)
EXTENDS ExecSemaphore, FiniteSetTheorems, WellFoundedInduction, TLAPS

\* The queue: the shared requests are requests, and the order is a strict partial
\* order on them, so a queue that is not empty has a first request.
Ordered(s) ==
  /\ waitShared[s] \subseteq waitQueue[s]
  /\ before[s] \subseteq waitQueue[s] \X waitQueue[s]
  /\ \A c \in Clients : <<c, c>> \notin before[s]
  /\ \A c, d, e \in Clients :
       <<c, d>> \in before[s] /\ <<d, e>> \in before[s] => <<c, e>> \in before[s]

\* ss_Owner tells who holds: everyone acts for the owner, and without an owner
\* nobody was granted exclusive use.
OwnerHolds(s) ==
  /\ \A c \in exclHeld[s] : held[s][c] > 0
  /\ owner[s] = Null => exclHeld[s] = {}
  /\ owner[s] # Null => \A d \in Clients : held[s][d] > 0 => Agent(d) = owner[s]

\* Nobody waits for a semaphore that is not held, nor for a shared one to share it.
Served(s) ==
  /\ waitQueue[s] # {} => nestCount[s] > 0
  /\ waitShared[s] # {} => owner[s] # Null

\* A message is queued or granted only at the semaphore it was bid for.
BidState(m) ==
  /\ target[m] = Null => \A s \in Sems : m \notin waitQueue[s] /\ held[s][m] = 0
  /\ target[m] # Null =>
       /\ bidder[m] \in Tasks
       /\ \A s \in Sems \ {target[m]} : m \notin waitQueue[s] /\ held[s][m] = 0
       /\ held[target[m]][m] = IF m \in waitQueue[target[m]] THEN 0 ELSE 1
       /\ m \in waitQueue[target[m]] \ waitShared[target[m]] => ssmSemaphore[m] = bidder[m]

\* A task has a request queued only while it is in the call that queued it.
TaskState(t) ==
  /\ \A s \in Sems : t \in waitQueue[s] =>
       (pc[t] = "obtain" /\ target[t] = s) \/ pc[t] = "list"
  /\ pc[t] = "obtain" =>
       /\ target[t] \in Sems
       /\ IF t \in waitQueue[target[t]] THEN ~sigSingle[t]
          ELSE sigSingle[t] /\ held[target[t]][t] > 0

\* The one task inside ObtainSemaphoreList has queued, or been granted, an exclusive
\* request at every semaphore of the list; those still queued lie at or behind its
\* place in the list and are not its own yet.
ListState(t) ==
  pc[t] = "list" =>
    /\ \A u \in Tasks : pc[u] = "list" => u = t
    /\ \A m \in Messages : bidder[m] = t => target[m] \notin ListSems
    /\ \A s \in Sems : t \in waitQueue[s] =>
         /\ owner[s] # t /\ t \notin waitShared[s]
         /\ \E i \in listPos .. Len(SemList) : SemList[i] = s
    /\ \A s \in ListSems : t \in waitQueue[s] \/ t \in exclHeld[s]
    /\ listPos \in DOMAIN SemList
    /\ t \in waitQueue[SemList[listPos]] \/ sigSingle[t]

\* The inductive invariant.
SemInv(s) ==
  /\ Ordered(s)
  /\ OwnerHolds(s)
  /\ queueCount[s] = nestCount[s] + Cardinality(waitQueue[s]) - 1
  /\ nestCount[s] = Cardinality(TokenSet(held[s]))
  /\ Served(s)

IInv ==
  /\ TypeOK
  /\ \A s \in Sems : SemInv(s)
  /\ \A m \in Messages : BidState(m)
  /\ \A t \in Tasks : TaskState(t) /\ ListState(t)
-----------------------------------------------------------------------------
(* The clients are finite, so are the queues and the sets of tokens. *)

\* There are finitely many clients,
LEMMA ClientsFinite == IsFiniteSet(Clients)
BY ConstantsOK, FS_Union DEF Clients

\* so that sets of them can be counted,
LEMMA SubsetsFinite ==
  ASSUME NEW C \in SUBSET Clients
  PROVE  IsFiniteSet(C) /\ Cardinality(C) \in Nat
BY ClientsFinite, FS_Subset, FS_CardinalityType

\* and what they hold.
LEMMA TokensFinite ==
  ASSUME NEW h
  PROVE  IsFiniteSet(TokenSet(h)) /\ Cardinality(TokenSet(h)) \in Nat
<1>1. IsFiniteSet(1 .. MaxHold)
  BY ConstantsOK, FS_Interval
<1>2. IsFiniteSet(Clients \X (1 .. MaxHold))
  BY <1>1, ClientsFinite, FS_Product
<1>3. TokenSet(h) \in SUBSET (Clients \X (1 .. MaxHold))
  BY DEF TokenSet
<1>. QED BY <1>2, <1>3, FS_Subset, FS_CardinalityType

\* One more grant to c is one more token.
LEMMA TokenAdded ==
  ASSUME NEW h \in [Clients -> 0 .. MaxHold], NEW c \in Clients, h[c] < MaxHold
  PROVE  Cardinality(TokenSet([h EXCEPT ![c] = @ + 1])) = Cardinality(TokenSet(h)) + 1
<1>. DEFINE new == <<c, h[c] + 1>>
<1>1. new \notin TokenSet(h)
  BY DEF TokenSet
<1>2. TokenSet([h EXCEPT ![c] = @ + 1]) = TokenSet(h) \cup {new}
  BY ConstantsOK DEF TokenSet
<1>. QED BY <1>1, <1>2, TokensFinite, FS_AddElement

\* One grant of c less is one token less.
LEMMA TokenRemoved ==
  ASSUME NEW h \in [Clients -> 0 .. MaxHold], NEW c \in Clients, h[c] > 0
  PROVE  Cardinality(TokenSet([h EXCEPT ![c] = @ - 1])) = Cardinality(TokenSet(h)) - 1
<1>. DEFINE old == <<c, h[c]>>
<1>1. old \in TokenSet(h)
  BY DEF TokenSet
<1>2. TokenSet([h EXCEPT ![c] = @ - 1]) = TokenSet(h) \ {old}
  BY ConstantsOK DEF TokenSet
<1>. QED BY <1>1, <1>2, TokensFinite, FS_RemoveElement

\* There are no tokens exactly when nobody holds.
LEMMA NoTokens ==
  ASSUME NEW h \in [Clients -> 0 .. MaxHold]
  PROVE  Cardinality(TokenSet(h)) = 0 <=> \A c \in Clients : h[c] = 0
<1>1. Cardinality(TokenSet(h)) = 0 <=> TokenSet(h) = {}
  BY TokensFinite, FS_EmptySet
<1>2. ASSUME NEW c \in Clients, h[c] # 0
      PROVE  TokenSet(h) # {}
  <2>1. <<c, 1>> \in TokenSet(h)
    BY <1>2, ConstantsOK DEF TokenSet
  <2>. QED BY <2>1
<1>3. (\A c \in Clients : h[c] = 0) => TokenSet(h) = {}
  BY DEF TokenSet
<1>. QED BY <1>1, <1>2, <1>3

\* When nobody holds and each client of G is granted once, G counts the tokens.
LEMMA TokensGranted ==
  ASSUME NEW G \in SUBSET Clients
  PROVE  Cardinality(TokenSet([c \in Clients |-> IF c \in G THEN 1 ELSE 0])) = Cardinality(G)
<1>. DEFINE h == [c \in Clients |-> IF c \in G THEN 1 ELSE 0]
            f == [c \in G |-> <<c, 1>>]
<1>1. TokenSet(h) = {<<c, 1>> : c \in G}
  BY ConstantsOK DEF TokenSet
<1>2. f \in Bijection(G, TokenSet(h))
  BY <1>1 DEF Bijection, Injection, Surjection, IsInjective
<1>3. ExistsBijection(G, TokenSet(h))
  BY <1>2 DEF ExistsBijection
<1>. QED BY <1>3, SubsetsFinite, FS_Bijection

\* A queue that is not empty has a first request.
LEMMA FirstRequestExists ==
  ASSUME TypeOK, NEW s \in Sems, Ordered(s), waitQueue[s] # {}
  PROVE  /\ FirstRequest(s) \in waitQueue[s]
         /\ \A d \in waitQueue[s] : <<d, FirstRequest(s)>> \notin before[s]
<1>. DEFINE Ahead(c) == {d \in Clients : <<d, c>> \in before[s]}
            T == {Ahead(c) : c \in waitQueue[s]}
<1>1. waitQueue[s] \subseteq Clients
  BY DEF TypeOK
<1>2. T \subseteq FiniteSubsetsOf(Clients) /\ T # {}
  BY <1>1, SubsetsFinite DEF FiniteSubsetsOf
<1>3. PICK A \in T : \A B \in T : <<B, A>> \notin StrictSubsetOrdering(Clients)
  BY <1>2, FS_StrictSubsetOrderingWellFounded, WFMin
<1>4. PICK c \in waitQueue[s] : A = Ahead(c)
  OBVIOUS
<1>5. ASSUME NEW d \in waitQueue[s], <<d, c>> \in before[s]
      PROVE  FALSE
  <2>1. Ahead(d) \subseteq Ahead(c)
    BY <1>1, <1>5 DEF Ordered
  <2>2. d \in Ahead(c) /\ d \notin Ahead(d)
    BY <1>1, <1>5 DEF Ordered
  <2>3. <<Ahead(d), Ahead(c)>> \in StrictSubsetOrdering(Clients)
    BY <2>1, <2>2 DEF StrictSubsetOrdering
  <2>. QED BY <1>3, <1>4, <2>3
<1>6. \E x \in waitQueue[s] : \A d \in waitQueue[s] : <<d, x>> \notin before[s]
  BY <1>5
<1>. QED BY <1>6 DEF FirstRequest
-----------------------------------------------------------------------------
(* What the operations on one semaphore keep of its invariant. *)

\* The types of the variables that describe the semaphores and their history.
SemTypes ==
  /\ nestCount \in [Sems -> Nat]
  /\ queueCount \in [Sems -> Nat \cup {-1}]
  /\ owner \in [Sems -> Tasks \cup {Null}]
  /\ waitQueue \in [Sems -> SUBSET Clients]
  /\ waitShared \in [Sems -> SUBSET Clients]
  /\ before \in [Sems -> SUBSET (Clients \X Clients)]
  /\ held \in [Sems -> [Clients -> 0 .. MaxHold]]
  /\ exclHeld \in [Sems -> SUBSET Clients]

\* A step may give a message another task only while it holds nothing.
AgentsKept ==
  \A s \in Sems, d \in Clients : held[s][d] > 0 => Agent(d)' = Agent(d)

\* A semaphore whose count says free is not held and not waited for.
LEMMA FreeIsIdle ==
  ASSUME SemTypes, NEW s \in Sems, SemInv(s), Free(s)
  PROVE  /\ nestCount[s] = 0 /\ waitQueue[s] = {}
         /\ \A c \in Clients : held[s][c] = 0
<1>1. Cardinality(waitQueue[s]) \in Nat /\ IsFiniteSet(waitQueue[s])
  BY SubsetsFinite DEF SemTypes
<1>2. nestCount[s] = 0 /\ Cardinality(waitQueue[s]) = 0
  BY <1>1 DEF SemTypes, SemInv, Free
<1>. QED BY <1>1, <1>2, FS_EmptySet, NoTokens DEF SemTypes, SemInv

\* A step that leaves a semaphore alone keeps its invariant.
LEMMA UntouchedSem ==
  ASSUME NEW s \in Sems, SemInv(s), AgentsKept,
         nestCount'[s] = nestCount[s], queueCount'[s] = queueCount[s],
         owner'[s] = owner[s], waitQueue'[s] = waitQueue[s],
         waitShared'[s] = waitShared[s], before'[s] = before[s],
         held'[s] = held[s], exclHeld'[s] = exclHeld[s]
  PROVE  SemInv(s)'
<1>1. Ordered(s)'
  BY DEF SemInv, Ordered
<1>2. OwnerHolds(s)'
  BY DEF SemInv, OwnerHolds, AgentsKept
<1>. QED BY <1>1, <1>2 DEF SemInv, Served

\* What Take(s, c, o) and Enqueue(s, c, shared) do at s itself; ObtainSemaphoreList
\* does one or the other at each semaphore of its list.
TakenAt(s, c, o) ==
  /\ held'[s] = [held[s] EXCEPT ![c] = @ + 1]
  /\ nestCount'[s] = nestCount[s] + 1
  /\ queueCount'[s] = queueCount[s] + 1
  /\ owner'[s] = IF Free(s) THEN o ELSE owner[s]
  /\ exclHeld'[s] = IF o # Null THEN exclHeld[s] \cup {c} ELSE exclHeld[s]
  /\ waitQueue'[s] = waitQueue[s] /\ waitShared'[s] = waitShared[s] /\ before'[s] = before[s]

QueuedAt(s, c, shared) ==
  /\ waitQueue'[s] = waitQueue[s] \cup {c}
  /\ waitShared'[s] = IF shared THEN waitShared[s] \cup {c} ELSE waitShared[s]
  /\ before'[s] = before[s] \cup (waitQueue[s] \X {c})
  /\ queueCount'[s] = queueCount[s] + 1
  /\ nestCount'[s] = nestCount[s] /\ owner'[s] = owner[s]
  /\ held'[s] = held[s] /\ exclHeld'[s] = exclHeld[s]

\* A grant to one client keeps what one semaphore knows,
LEMMA TakenKeeps ==
  ASSUME SemTypes, NEW s \in Sems, NEW c \in Clients, NEW o \in Tasks \cup {Null},
         SemInv(s), AgentsKept, held[s][c] < MaxHold, TakenAt(s, c, o),
         o # Null => o = Agent(c)',
         Free(s) \/ owner[s] = o \/ owner[s] = Agent(c)'
  PROVE  SemInv(s)'
<1>1. Ordered(s)'
  BY DEF SemInv, Ordered, TakenAt
<1>2. OwnerHolds(s)'
  <2>. USE DEF TakenAt
  <2>1. \A d \in exclHeld'[s] : held'[s][d] > 0
    BY DEF SemInv, OwnerHolds, SemTypes
  <2>2. CASE Free(s)
    <3>0. \A d \in Clients : held[s][d] = 0
      BY <2>2, FreeIsIdle
    <3>1. exclHeld[s] = {}
      BY <3>0 DEF SemInv, OwnerHolds, SemTypes
    <3>2. \A d \in Clients : held'[s][d] > 0 => d = c
      BY <3>0 DEF SemTypes
    <3>. QED BY <2>1, <2>2, <3>1, <3>2 DEF OwnerHolds
  <2>3. CASE ~Free(s)
    <3>1. owner'[s] = Null => exclHeld'[s] = {}
      BY <2>3, ConstantsOK DEF SemInv, OwnerHolds
    <3>2. ASSUME owner'[s] # Null, NEW d \in Clients, held'[s][d] > 0
          PROVE  Agent(d)' = owner'[s]
      BY <2>3, <3>2 DEF SemInv, OwnerHolds, SemTypes, AgentsKept
    <3>. QED BY <2>1, <3>1, <3>2 DEF OwnerHolds
  <2>. QED BY <2>2, <2>3
<1>3. nestCount'[s] = Cardinality(TokenSet(held'[s]))
  <2>1. held[s] \in [Clients -> 0 .. MaxHold] /\ nestCount[s] = Cardinality(TokenSet(held[s]))
    BY DEF SemInv, SemTypes
  <2>2. Cardinality(TokenSet([held[s] EXCEPT ![c] = @ + 1])) = Cardinality(TokenSet(held[s])) + 1
    BY <2>1, TokenAdded
  <2>. QED BY <2>1, <2>2 DEF TakenAt
<1>4. queueCount'[s] = nestCount'[s] + Cardinality(waitQueue'[s]) - 1
  <2>1. nestCount[s] \in Nat /\ Cardinality(waitQueue[s]) \in Nat
    BY SubsetsFinite DEF SemTypes
  <2>2. queueCount[s] = nestCount[s] + Cardinality(waitQueue[s]) - 1
    BY DEF SemInv
  <2>. QED BY <2>1, <2>2 DEF TakenAt
<1>5. Served(s)'
  <2>1. waitQueue[s] # {} => owner'[s] = owner[s]
    BY FreeIsIdle DEF TakenAt
  <2>2. nestCount'[s] > 0
    BY DEF TakenAt, SemTypes
  <2>3. waitShared[s] # {} => waitQueue[s] # {}
    BY DEF SemInv, Ordered
  <2>. QED BY <2>1, <2>2, <2>3 DEF SemInv, Served, TakenAt
<1>. QED BY <1>1, <1>2, <1>3, <1>4, <1>5 DEF SemInv

\* also as the code writes it.
LEMMA TakeKeeps ==
  ASSUME SemTypes, NEW s \in Sems, NEW c \in Clients, NEW o \in Tasks \cup {Null},
         SemInv(s), AgentsKept, held[s][c] < MaxHold, Take(s, c, o),
         o # Null => o = Agent(c)',
         Free(s) \/ owner[s] = o \/ owner[s] = Agent(c)'
  PROVE  SemTypes' /\ SemInv(s)'
<1>1. SemTypes'
  <2>1. queueCount' \in [Sems -> Nat \cup {-1}] /\ nestCount' \in [Sems -> Nat]
    BY DEF SemTypes, Take
  <2>2. owner' \in [Sems -> Tasks \cup {Null}] /\ exclHeld' \in [Sems -> SUBSET Clients]
    BY DEF SemTypes, Take
  <2>3. held' \in [Sems -> [Clients -> 0 .. MaxHold]]
    BY ConstantsOK DEF SemTypes, Take
  <2>. QED BY <2>1, <2>2, <2>3 DEF SemTypes, Take
<1>2. TakenAt(s, c, o)
  BY DEF SemTypes, Take, TakenAt
<1>. QED BY <1>1, <1>2, TakenKeeps

\* So does a request that queues,
LEMMA QueuedKeeps ==
  ASSUME SemTypes, NEW s \in Sems, NEW c \in Clients, NEW shared \in BOOLEAN,
         SemInv(s), AgentsKept, c \notin waitQueue[s], QueuedAt(s, c, shared),
         ~Free(s), shared => owner[s] # Null
  PROVE  SemInv(s)'
<1>1. Ordered(s)'
  BY DEF SemInv, Ordered, SemTypes, QueuedAt
<1>2. OwnerHolds(s)'
  BY DEF SemInv, OwnerHolds, AgentsKept, QueuedAt
<1>3. Cardinality(waitQueue'[s]) = Cardinality(waitQueue[s]) + 1
  BY SubsetsFinite, FS_AddElement DEF SemTypes, QueuedAt
<1>4. queueCount'[s] = nestCount'[s] + Cardinality(waitQueue'[s]) - 1
  <2>1. nestCount[s] \in Nat /\ Cardinality(waitQueue[s]) \in Nat
    BY SubsetsFinite DEF SemTypes
  <2>2. queueCount[s] = nestCount[s] + Cardinality(waitQueue[s]) - 1
    BY DEF SemInv
  <2>. QED BY <1>3, <2>1, <2>2 DEF QueuedAt
<1>5. Served(s)'
  <2>1. CASE waitQueue[s] = {}
    <3>1. queueCount[s] = nestCount[s] + 0 - 1
      BY <2>1, FS_EmptySet DEF SemInv
    <3>2. nestCount[s] > 0
      BY <3>1 DEF Free, SemTypes
    <3>. QED BY <3>2 DEF SemInv, Served, QueuedAt
  <2>2. CASE waitQueue[s] # {}
    BY <2>2 DEF SemInv, Served, QueuedAt
  <2>. QED BY <2>1, <2>2
<1>. QED BY <1>1, <1>2, <1>4, <1>5 DEF SemInv, QueuedAt

\* also as the code writes it.
LEMMA EnqueueKeeps ==
  ASSUME SemTypes, NEW s \in Sems, NEW c \in Clients, NEW shared \in BOOLEAN,
         SemInv(s), AgentsKept, c \notin waitQueue[s], Enqueue(s, c, shared),
         ~Free(s), shared => owner[s] # Null
  PROVE  SemTypes' /\ SemInv(s)'
<1>1. SemTypes'
  <2>1. queueCount' \in [Sems -> Nat \cup {-1}]
    BY DEF SemTypes, Enqueue
  <2>2. /\ waitQueue' \in [Sems -> SUBSET Clients]
        /\ waitShared' \in [Sems -> SUBSET Clients]
    BY DEF SemTypes, Enqueue
  <2>3. waitQueue[s] \X {c} \subseteq Clients \X Clients
    BY DEF SemTypes
  <2>4. before[s] \cup (waitQueue[s] \X {c}) \in SUBSET (Clients \X Clients)
    BY <2>3 DEF SemTypes
  <2>5. before' \in [Sems -> SUBSET (Clients \X Clients)]
    BY <2>4 DEF SemTypes, Enqueue
  <2>. QED BY <2>1, <2>2, <2>5 DEF SemTypes, Enqueue, histVars
<1>2. QueuedAt(s, c, shared)
  BY DEF SemTypes, Enqueue, QueuedAt, histVars
<1>. QED BY <1>1, <1>2, QueuedKeeps

\* A queue without some requests is still in order, and shorter by them.
LEMMA DequeueKeeps ==
  ASSUME SemTypes, NEW s \in Sems, NEW C \in SUBSET waitQueue[s], Ordered(s), Dequeue(s, C)
  PROVE  /\ waitQueue' \in [Sems -> SUBSET Clients]
         /\ waitShared' \in [Sems -> SUBSET Clients]
         /\ before' \in [Sems -> SUBSET (Clients \X Clients)]
         /\ waitQueue'[s] = waitQueue[s] \ C
         /\ waitShared'[s] = waitShared[s] \ C
         /\ Ordered(s)'
         /\ Cardinality(waitQueue'[s]) = Cardinality(waitQueue[s]) - Cardinality(C)
<1>1. /\ waitQueue'[s] = waitQueue[s] \ C
      /\ waitShared'[s] = waitShared[s] \ C
      /\ before'[s] = before[s] \cap ((waitQueue[s] \ C) \X (waitQueue[s] \ C))
  BY DEF SemTypes, Dequeue
<1>2. /\ waitQueue' \in [Sems -> SUBSET Clients]
      /\ waitShared' \in [Sems -> SUBSET Clients]
  BY DEF SemTypes, Dequeue
<1>3. before' \in [Sems -> SUBSET (Clients \X Clients)]
  <2>1. before[s] \cap ((waitQueue[s] \ C) \X (waitQueue[s] \ C)) \in SUBSET (Clients \X Clients)
    BY DEF SemTypes
  <2>. QED BY <2>1 DEF SemTypes, Dequeue
<1>4. Ordered(s)'
  BY <1>1 DEF Ordered
<1>5. Cardinality(waitQueue'[s]) = Cardinality(waitQueue[s]) - Cardinality(C)
  <2>1. IsFiniteSet(waitQueue[s])
    BY SubsetsFinite DEF SemTypes
  <2>2. Cardinality(waitQueue[s] \ C) = Cardinality(waitQueue[s]) - Cardinality(waitQueue[s] \cap C)
    BY <2>1, FS_Difference
  <2>3. waitQueue[s] \cap C = C
    OBVIOUS
  <2>. QED BY <1>1, <2>2, <2>3
<1>. QED BY <1>1, <1>2, <1>3, <1>4, <1>5

\* Who is granted by a release, and that a queue that is not empty is served.
LEMMA GrantedFacts ==
  ASSUME SemTypes, TypeOK, NEW s \in Sems, SemInv(s)
  PROVE  /\ Granted(s) \in SUBSET waitQueue[s]
         /\ LastNest(s) /\ Granted(s) = {} => waitQueue[s] = {}
         /\ Granted(s) # {} => LastNest(s) /\ FirstRequest(s) \in waitQueue[s]
         /\ Granted(s) # {} /\ GrantsShared(s) => Granted(s) = waitShared[s]
         /\ Granted(s) # {} /\ ~GrantsShared(s) =>
              Granted(s) = {FirstRequest(s)} /\ FirstRequest(s) \notin waitShared[s]
<1>1. waitQueue[s] # {} => FirstRequest(s) \in waitQueue[s]
  BY FirstRequestExists DEF SemInv
<1>2. Cardinality(waitQueue[s]) \in Nat /\ (Cardinality(waitQueue[s]) = 0 <=> waitQueue[s] = {})
  BY SubsetsFinite, FS_EmptySet DEF SemTypes
<1>3. LastNest(s) => (queueCount[s] - 1 >= 0 <=> waitQueue[s] # {})
  <2>1. queueCount[s] = nestCount[s] + Cardinality(waitQueue[s]) - 1 /\ nestCount[s] \in Nat
    BY DEF SemInv, SemTypes
  <2>2. LastNest(s) => nestCount[s] = 1
    BY <2>1 DEF LastNest
  <2>. QED BY <1>2, <2>1, <2>2
<1>4. waitShared[s] \subseteq waitQueue[s]
  BY DEF SemInv, Ordered
<1>5. Granted(s) \in SUBSET waitQueue[s]
  BY <1>1, <1>4 DEF Granted
<1>6. LastNest(s) /\ waitQueue[s] # {} => Granted(s) # {}
  BY <1>1, <1>3 DEF Granted
<1>7. Granted(s) # {} => LastNest(s) /\ waitQueue[s] # {}
  BY DEF Granted
<1>. QED BY <1>1, <1>5, <1>6, <1>7 DEF Granted, GrantsShared

\* A client that holds accounts for some of the nesting; when only one is left it
\* is the client's own.
LEMMA HolderFacts ==
  ASSUME SemTypes, NEW s \in Sems, NEW c \in Clients, SemInv(s), held[s][c] > 0
  PROVE  /\ nestCount[s] > 0
         /\ Cardinality(TokenSet([held[s] EXCEPT ![c] = @ - 1])) = nestCount[s] - 1
         /\ LastNest(s) => held[s][c] = 1 /\ \A d \in Clients \ {c} : held[s][d] = 0
<1>1. held[s] \in [Clients -> 0 .. MaxHold] /\ nestCount[s] = Cardinality(TokenSet(held[s]))
  BY DEF SemInv, SemTypes
<1>. DEFINE h == [held[s] EXCEPT ![c] = @ - 1]
<1>2. Cardinality(TokenSet(h)) = nestCount[s] - 1
  BY <1>1, TokenRemoved
<1>3. h \in [Clients -> 0 .. MaxHold]
  BY <1>1, ConstantsOK
<1>4. Cardinality(TokenSet(h)) \in Nat /\ nestCount[s] \in Nat
  BY TokensFinite DEF SemTypes
<1>5. LastNest(s) => \A d \in Clients : h[d] = 0
  BY <1>2, <1>3, NoTokens DEF LastNest
<1>. QED BY <1>1, <1>2, <1>4, <1>5

\* A release, with the grants that follow it, keeps what the semaphore knows.
LEMMA ReleaseKeeps ==
  ASSUME SemTypes, TypeOK, NEW s \in Sems, NEW c \in Clients, SemInv(s), AgentsKept,
         held[s][c] > 0, Release(s, c),
         \A g \in waitQueue[s] \ waitShared[s] : RequestOwner(g) \in Tasks /\ RequestOwner(g) = Agent(g)'
  PROVE  SemTypes' /\ SemInv(s)'
<1>. DEFINE G == Granted(s)
            h == [d \in Clients |-> held[s][d] + (IF d \in G THEN 1 ELSE 0) - (IF d = c THEN 1 ELSE 0)]
<1>1. /\ waitQueue' \in [Sems -> SUBSET Clients]
      /\ waitShared' \in [Sems -> SUBSET Clients]
      /\ before' \in [Sems -> SUBSET (Clients \X Clients)]
      /\ waitQueue'[s] = waitQueue[s] \ G
      /\ Ordered(s)'
      /\ Cardinality(waitQueue'[s]) = Cardinality(waitQueue[s]) - Cardinality(G)
  BY GrantedFacts, DequeueKeeps DEF Release, SemInv
<1>2. G \in SUBSET Clients /\ IsFiniteSet(G) /\ Cardinality(G) \in Nat /\ (Cardinality(G) = 0 <=> G = {})
  BY GrantedFacts, SubsetsFinite, FS_EmptySet DEF SemTypes
<1>3. Cardinality(waitQueue[s]) \in Nat /\ (Cardinality(waitQueue[s]) = 0 <=> waitQueue[s] = {})
  BY SubsetsFinite, FS_EmptySet DEF SemTypes
<1>4. /\ held' = [held EXCEPT ![s] = h] /\ held'[s] = h
      /\ nestCount' = [nestCount EXCEPT ![s] = nestCount[s] - 1 + Cardinality(G)]
      /\ nestCount'[s] = nestCount[s] - 1 + Cardinality(G)
  BY DEF Release, SemTypes
<1>5. queueCount'[s] = IF LastNest(s) /\ G = {} THEN -1 ELSE queueCount[s] - 1
  BY DEF Release, SemTypes
<1>6. /\ exclHeld'[s] = (exclHeld[s] \ (IF held[s][c] = 1 THEN {c} ELSE {}))
                          \cup (IF GrantsShared(s) THEN {} ELSE G)
      /\ owner'[s] = IF ~LastNest(s) THEN owner[s]
                     ELSE IF G = {} \/ GrantsShared(s) THEN Null ELSE RequestOwner(FirstRequest(s))
  BY DEF Release, SemTypes
<1>7. nestCount'[s] \in Nat
  BY <1>2, <1>4, HolderFacts DEF SemTypes
<1>8. queueCount'[s] = nestCount'[s] + Cardinality(waitQueue'[s]) - 1
  <2>1. queueCount[s] = nestCount[s] + Cardinality(waitQueue[s]) - 1 /\ nestCount[s] \in Nat
    BY DEF SemInv, SemTypes
  <2>2. LastNest(s) /\ G = {} => waitQueue[s] = {}
    BY GrantedFacts
  <2>3. CASE LastNest(s) /\ G = {}
    BY <1>1, <1>2, <1>3, <1>4, <1>5, <2>1, <2>2, <2>3 DEF LastNest
  <2>4. CASE ~(LastNest(s) /\ G = {})
    BY <1>1, <1>2, <1>3, <1>4, <1>5, <2>1, <2>4
  <2>. QED BY <2>3, <2>4
<1>9. ~LastNest(s) => G = {} /\ h = [held[s] EXCEPT ![c] = @ - 1]
  <2>1. ~LastNest(s) => Granted(s) = {}
    BY GrantedFacts
  <2>2. held[s] \in [Clients -> 0 .. MaxHold] /\ MaxHold \in Nat
    BY ConstantsOK DEF SemTypes
  <2>3. ASSUME Granted(s) = {}, NEW d \in Clients
        PROVE  h[d] = [held[s] EXCEPT ![c] = @ - 1][d]
    BY <2>2, <2>3
  <2>4. ASSUME Granted(s) = {}
        PROVE  h = [held[s] EXCEPT ![c] = @ - 1]
    BY <2>2, <2>3, <2>4
  <2>. QED BY <2>1, <2>4
<1>10. LastNest(s) => h = [d \in Clients |-> IF d \in G THEN 1 ELSE 0]
  <2>1. LastNest(s) => held[s][c] = 1 /\ \A d \in Clients \ {c} : held[s][d] = 0
    BY HolderFacts
  <2>2. ASSUME LastNest(s), NEW d \in Clients
        PROVE  h[d] = IF d \in G THEN 1 ELSE 0
    BY <2>1, <2>2
  <2>. QED BY <2>2
<1>11. h \in [Clients -> 0 .. MaxHold]
  BY <1>9, <1>10, ConstantsOK DEF SemTypes
<1>12. nestCount'[s] = Cardinality(TokenSet(held'[s]))
  <2>1. CASE LastNest(s)
    <3>1. Cardinality(TokenSet(h)) = Cardinality(G)
      BY <1>2, <1>10, <2>1, TokensGranted
    <3>. QED BY <1>2, <1>4, <2>1, <3>1 DEF LastNest, SemTypes
  <2>2. CASE ~LastNest(s)
    <3>1. Cardinality(TokenSet(h)) = nestCount[s] - 1
      BY <1>9, <2>2, HolderFacts
    <3>. QED BY <1>2, <1>4, <1>9, <2>2, <3>1 DEF SemTypes
  <2>. QED BY <2>1, <2>2
<1>13. SemTypes'
  <2>1. nestCount' \in [Sems -> Nat]
    BY <1>4, <1>7 DEF SemTypes
  <2>2. queueCount'[s] \in Nat \cup {-1}
    BY <1>1, <1>3, <1>7, <1>8, SubsetsFinite
  <2>3. queueCount' \in [Sems -> Nat \cup {-1}]
    BY <2>2 DEF Release, SemTypes
  <2>4. owner' \in [Sems -> Tasks \cup {Null}]
    BY GrantedFacts DEF Release, SemTypes
  <2>5. held' \in [Sems -> [Clients -> 0 .. MaxHold]]
    BY <1>4, <1>11 DEF SemTypes
  <2>6. exclHeld' \in [Sems -> SUBSET Clients]
    BY <1>2 DEF Release, SemTypes
  <2>. QED BY <1>1, <2>1, <2>3, <2>4, <2>5, <2>6 DEF SemTypes
<1>14. OwnerHolds(s)'
  <2>1. CASE ~LastNest(s)
    <3>1. \A d \in exclHeld'[s] : held'[s][d] > 0
      BY <1>4, <1>6, <1>9, <2>1 DEF SemInv, OwnerHolds, SemTypes
    <3>2. owner'[s] = Null => exclHeld'[s] = {}
      BY <1>6, <1>9, <2>1 DEF SemInv, OwnerHolds
    <3>3. ASSUME owner'[s] # Null, NEW d \in Clients, held'[s][d] > 0
          PROVE  Agent(d)' = owner'[s]
      <4>1. held[s][d] > 0
        BY <1>4, <1>9, <2>1, <3>3 DEF SemTypes
      <4>. QED BY <1>6, <2>1, <3>3, <4>1 DEF SemInv, OwnerHolds, AgentsKept
    <3>. QED BY <3>1, <3>2, <3>3 DEF OwnerHolds
  <2>2. CASE LastNest(s)
    <3>1. exclHeld'[s] = IF GrantsShared(s) THEN {} ELSE G
      <4>1. held[s][c] = 1 /\ \A d \in Clients \ {c} : held[s][d] = 0
        BY <2>2, HolderFacts
      <4>2. exclHeld[s] \subseteq {c}
        BY <4>1 DEF SemInv, OwnerHolds, SemTypes
      <4>. QED BY <1>6, <4>1, <4>2
    <3>2. \A d \in Clients : held'[s][d] > 0 <=> d \in G
      BY <1>4, <1>10, <2>2
    <3>3. \A d \in exclHeld'[s] : held'[s][d] > 0
      BY <1>2, <3>1, <3>2
    <3>4. owner'[s] = Null => exclHeld'[s] = {}
      BY <1>6, <2>2, <3>1, GrantedFacts, ConstantsOK
    <3>5. ASSUME owner'[s] # Null, NEW d \in Clients, held'[s][d] > 0
          PROVE  Agent(d)' = owner'[s]
      BY <1>6, <2>2, <3>2, <3>5, GrantedFacts
    <3>. QED BY <3>3, <3>4, <3>5 DEF OwnerHolds
  <2>. QED BY <2>1, <2>2
<1>15. Served(s)'
  <2>1. CASE ~LastNest(s)
    <3>1. nestCount'[s] > 0
      BY <1>2, <1>4, <1>7, <1>9, <2>1 DEF LastNest, SemTypes
    <3>2. waitShared'[s] \subseteq waitShared[s] /\ owner'[s] = owner[s]
      BY <1>6, <2>1 DEF Release, Dequeue, SemTypes
    <3>. QED BY <3>1, <3>2 DEF SemInv, Served
  <2>2. CASE LastNest(s) /\ G = {}
    BY <1>1, <2>2, GrantedFacts DEF Served, Ordered
  <2>3. CASE LastNest(s) /\ G # {}
    <3>1. nestCount'[s] > 0
      BY <1>2, <1>4, <2>3 DEF LastNest, SemTypes
    <3>2. waitShared'[s] = waitShared[s] \ G
      BY DEF Release, Dequeue, SemTypes
    <3>3. waitShared'[s] # {} => ~GrantsShared(s)
      BY <2>3, <3>2, GrantedFacts
    <3>4. ~GrantsShared(s) => owner'[s] \in Tasks
      BY <1>6, <2>3, GrantedFacts
    <3>. QED BY <3>1, <3>3, <3>4, ConstantsOK DEF Served
  <2>. QED BY <2>1, <2>2, <2>3
<1>. QED BY <1>1, <1>8, <1>12, <1>13, <1>14, <1>15 DEF SemInv
-----------------------------------------------------------------------------
(* The invariant is established and kept. *)

\* The invariant holds at first.
LEMMA InitInv == Init => IInv
<1>. SUFFICES ASSUME Init PROVE IInv
  OBVIOUS
<1>1. TypeOK
  <2>1. Len(SemList) \in Nat
    BY ConstantsOK
  <2>2. 1 \in 1 .. Len(SemList) + 1
    BY <2>1
  <2>3. held \in [Sems -> [Clients -> 0 .. MaxHold]]
    BY ConstantsOK DEF Init
  <2>4. /\ nestCount \in [Sems -> Nat] /\ queueCount \in [Sems -> Nat \cup {-1}]
        /\ replies \in [Messages -> Nat] /\ failedObtain \in Int
    BY DEF Init
  <2>5. /\ waitQueue \in [Sems -> SUBSET Clients] /\ waitShared \in [Sems -> SUBSET Clients]
        /\ before \in [Sems -> SUBSET (Clients \X Clients)] /\ exclHeld \in [Sems -> SUBSET Clients]
    BY DEF Init
  <2>6. /\ owner \in [Sems -> Tasks \cup {Null}] /\ sigSingle \in [Tasks -> BOOLEAN]
        /\ ssmSemaphore \in [Messages -> Tasks \cup Sems \cup {Null}]
        /\ bidder \in [Messages -> Tasks \cup {Null}] /\ alerted \in BOOLEAN
        /\ target \in [Clients -> Sems \cup {Null}]
        /\ pc \in [Tasks -> {"run", "obtain", "list"}]
    BY DEF Init
  <2>. QED BY <2>2, <2>3, <2>4, <2>5, <2>6 DEF Init, TypeOK
<1>2. ASSUME NEW s \in Sems
      PROVE  SemInv(s)
  <2>1. held[s] \in [Clients -> 0 .. MaxHold] /\ \A c \in Clients : held[s][c] = 0
    BY ConstantsOK DEF Init
  <2>2. Cardinality(TokenSet(held[s])) = 0 /\ Cardinality({}) = 0
    BY <2>1, NoTokens, FS_EmptySet
  <2>. QED BY <2>2 DEF Init, SemInv, Ordered, OwnerHolds, Served
<1>3. ASSUME NEW m \in Messages
      PROVE  BidState(m)
  BY DEF Init, BidState, Clients
<1>4. ASSUME NEW t \in Tasks
      PROVE  TaskState(t)
  BY DEF Init, TaskState
<1>5. ASSUME NEW t \in Tasks
      PROVE  ListState(t)
  BY DEF Init, ListState
<1>. QED BY <1>1, <1>2, <1>3, <1>4, <1>5 DEF IInv

\* A queued exclusive request names the task it stands for.
LEMMA OwnerOfRequest ==
  ASSUME IInv, NEW s \in Sems, NEW g \in waitQueue[s] \ waitShared[s]
  PROVE  RequestOwner(g) \in Tasks /\ RequestOwner(g) = Agent(g)
<1>1. CASE g \in Tasks
  BY <1>1 DEF RequestOwner, Agent
<1>2. CASE g \in Messages
  <2>1. target[g] = s /\ bidder[g] \in Tasks /\ ssmSemaphore[g] = bidder[g] /\ g \notin Tasks
    BY <1>2, ConstantsOK DEF IInv, BidState
  <2>. QED BY <2>1 DEF RequestOwner, Agent
<1>. QED BY <1>1, <1>2 DEF IInv, TypeOK, Clients

\* Semaphores have their types.
LEMMA TypesOfSems == TypeOK => SemTypes
BY DEF TypeOK, SemTypes

\* The semaphores other than s are as they were.
OthersUntouched(s) ==
  \A r \in Sems \ {s} :
    /\ nestCount'[r] = nestCount[r] /\ queueCount'[r] = queueCount[r]
    /\ owner'[r] = owner[r] /\ waitQueue'[r] = waitQueue[r]
    /\ waitShared'[r] = waitShared[r] /\ before'[r] = before[r]
    /\ held'[r] = held[r] /\ exclHeld'[r] = exclHeld[r]

\* What happens to one semaphore leaves the others alone.
LEMMA OneSemTouched ==
  ASSUME SemTypes, NEW s \in Sems,
         \/ \E c \in Clients, o \in Tasks \cup {Null} : Take(s, c, o)
         \/ \E c \in Clients, shared \in BOOLEAN : Enqueue(s, c, shared)
         \/ \E c \in Clients : Release(s, c)
         \/ (\E C \in SUBSET Clients : Dequeue(s, C)) /\ UNCHANGED <<nestCount, owner, histVars>>
               /\ queueCount' = [queueCount EXCEPT ![s] = @ - 1]
  PROVE  OthersUntouched(s)
BY DEF SemTypes, OthersUntouched, Take, Enqueue, Release, Dequeue, histVars

\* With the touched semaphore's invariant kept, all are.
LEMMA AllSemsKept ==
  ASSUME IInv, NEW s \in Sems, OthersUntouched(s), AgentsKept, SemInv(s)'
  PROVE  \A r \in Sems : SemInv(r)'
<1>. SUFFICES ASSUME NEW r \in Sems, r # s PROVE SemInv(r)'
  OBVIOUS
<1>. QED BY UntouchedSem DEF IInv, OthersUntouched

\* A step that leaves a message, its bid and its request alone keeps its state.
LEMMA BidKept ==
  ASSUME TypeOK, NEW m \in Messages, BidState(m), target'[m] = target[m],
         bidder'[m] = bidder[m], ssmSemaphore'[m] = ssmSemaphore[m],
         \A r \in Sems :
           /\ held'[r][m] = held[r][m]
           /\ m \in waitQueue'[r] <=> m \in waitQueue[r]
           /\ m \in waitShared'[r] <=> m \in waitShared[r]
  PROVE  BidState(m)'
<1>1. target[m] # Null => target[m] \in Sems
  BY DEF TypeOK, Clients
<1>2. CASE target[m] = Null
  BY <1>2 DEF BidState
<1>3. CASE target[m] # Null
  BY <1>1, <1>3 DEF BidState
<1>. QED BY <1>2, <1>3

\* A step that leaves a task and its requests alone, and takes no grant of it away,
\* keeps its state.
LEMMA TaskKept ==
  ASSUME TypeOK, NEW u \in Tasks, TaskState(u), pc'[u] = pc[u], target'[u] = target[u],
         pc[u] = "obtain" => sigSingle'[u] = sigSingle[u],
         \A r \in Sems :
           /\ held[r][u] > 0 => held'[r][u] > 0
           /\ u \in waitQueue'[r] <=> u \in waitQueue[r]
  PROVE  TaskState(u)'
<1>1. \A r \in Sems : u \in waitQueue'[r] =>
        (pc'[u] = "obtain" /\ target'[u] = r) \/ pc'[u] = "list"
  BY DEF TaskState
<1>2. CASE pc[u] = "obtain"
  <2>1. target[u] \in Sems
    BY <1>2 DEF TaskState
  <2>. QED BY <1>1, <1>2, <2>1 DEF TaskState
<1>3. CASE pc[u] # "obtain"
  BY <1>1, <1>3 DEF TaskState
<1>. QED BY <1>2, <1>3

\* A step of others keeps the state of the task in ObtainSemaphoreList; they may give
\* up what it held before the call.
LEMMA ListKept ==
  ASSUME NEW u \in Tasks, ListState(u), SemList \in Seq(Sems),
         listPos' = listPos, sigSingle[u] => sigSingle'[u],
         pc'[u] = "list" => pc[u] = "list",
         \A v \in Tasks : pc'[v] = "list" => pc[v] = "list" \/ pc[u] # "list",
         \A m \in Messages : bidder'[m] = u /\ pc[u] = "list" =>
           bidder[m] = u /\ (target'[m] = target[m] \/ target'[m] = Null),
         \A r \in Sems :
           /\ u \in waitQueue'[r] =>
                u \in waitQueue[r] /\ (pc[u] = "list" /\ owner'[r] = u => owner[r] = u)
           /\ u \in waitShared'[r] => u \in waitShared[r]
           /\ pc[u] = "list" /\ u \in waitQueue[r] =>
                u \in waitQueue'[r] \/ (u \in exclHeld'[r] /\ sigSingle'[u])
           /\ pc[u] = "list" /\ u \in exclHeld[r] /\ r \in ListSems =>
                u \in exclHeld'[r] \/ u \in waitQueue[r]
  PROVE  ListState(u)'
<1>. SUFFICES ASSUME pc'[u] = "list" PROVE ListState(u)'
  BY DEF ListState
<1>1. pc[u] = "list" /\ ListSems \subseteq Sems /\ Null \notin ListSems
  BY ConstantsOK DEF ListSems
<1>2. \A v \in Tasks : pc'[v] = "list" => v = u
  BY <1>1 DEF ListState
<1>3. \A m \in Messages : bidder'[m] = u => target'[m] \notin ListSems
  BY <1>1 DEF ListState
<1>4. ASSUME NEW r \in Sems, u \in waitQueue'[r]
      PROVE  /\ owner'[r] # u /\ u \notin waitShared'[r]
             /\ \E i \in listPos' .. Len(SemList) : SemList[i] = r
  BY <1>1, <1>4 DEF ListState
<1>5. \A r \in ListSems : u \in waitQueue'[r] \/ u \in exclHeld'[r]
  BY <1>1 DEF ListState
<1>6. listPos' \in DOMAIN SemList /\ SemList[listPos] \in Sems
  BY <1>1 DEF ListState
<1>7. u \in waitQueue'[SemList[listPos']] \/ sigSingle'[u]
  BY <1>1, <1>6 DEF ListState
<1>. QED BY <1>2, <1>3, <1>4, <1>5, <1>6, <1>7 DEF ListState

\* A task that is granted s at once.
LEMMA TakeByTask ==
  ASSUME IInv, NEW t \in Tasks, NEW s \in Sems, NEW o \in {t, Null},
         pc[t] = "run", held[s][t] < MaxHold, Free(s) \/ MayShare(s, t, o), Take(s, t, o),
         UNCHANGED <<msgVars, listVars, sigSingle, pc, target>>
  PROVE  IInv'
<1>1. SemTypes /\ SemInv(s) /\ t \in Clients /\ o \in Tasks \cup {Null}
  BY TypesOfSems DEF IInv, Clients
<1>2. AgentsKept /\ Agent(t)' = t /\ OthersUntouched(s)
  BY <1>1, OneSemTouched DEF AgentsKept, Agent, msgVars
<1>3. SemTypes' /\ SemInv(s)'
  BY <1>1, <1>2, TakeKeeps, ConstantsOK DEF MayShare
<1>4. TypeOK'
  BY <1>3 DEF IInv, TypeOK, SemTypes, msgVars, listVars
<1>5. /\ waitQueue' = waitQueue /\ waitShared' = waitShared
      /\ \A r \in Sems, d \in Clients \ {t} : held'[r][d] = held[r][d]
      /\ \A r \in Sems, d \in Clients : held[r][d] > 0 => held'[r][d] > 0
  BY <1>1 DEF Take, SemTypes
<1>6. ASSUME NEW m \in Messages
      PROVE  BidState(m)'
  <2>1. m \in Clients \ {t}
    BY ConstantsOK DEF Clients
  <2>. QED BY <1>5, <2>1, BidKept DEF IInv, msgVars
<1>7. ASSUME NEW u \in Tasks
      PROVE  TaskState(u)'
  <2>1. TypeOK /\ TaskState(u) /\ u \in Clients
    BY DEF IInv, Clients
  <2>. QED BY <1>5, <2>1, TaskKept
<1>8. ASSUME NEW u \in Tasks
      PROVE  ListState(u)'
  <2>1. ListState(u)
    BY DEF IInv
  <2>2. ASSUME NEW r \in Sems
        PROVE  /\ u \in exclHeld[r] => u \in exclHeld'[r]
               /\ u \in waitQueue[r] => owner'[r] = owner[r]
    <3>1. u \in exclHeld[r] => u \in exclHeld'[r]
      BY <1>1 DEF Take, SemTypes
    <3>2. CASE r = s
      BY <1>1, <3>1, <3>2, FreeIsIdle DEF Take
    <3>. QED BY <1>2, <3>1, <3>2 DEF OthersUntouched
  <2>. QED BY <1>5, <2>1, <2>2, ListKept, ConstantsOK DEF msgVars, listVars
<1>. QED BY <1>2, <1>3, <1>4, <1>6, <1>7, <1>8, AllSemsKept DEF IInv

\* A task that queues for s in ObtainSemaphore or ObtainSemaphoreShared.
LEMMA EnqueueByTask ==
  ASSUME IInv, NEW t \in Tasks, NEW s \in Sems, NEW o \in {t, Null},
         pc[t] = "run", ~Free(s), ~MayShare(s, t, o), ClearSingle(t), Enqueue(s, t, o = Null),
         pc' = [pc EXCEPT ![t] = "obtain"], target' = [target EXCEPT ![t] = s],
         UNCHANGED <<msgVars, listVars>>
  PROVE  IInv'
<1>1. SemTypes /\ SemInv(s) /\ t \in Clients /\ (o = Null) \in BOOLEAN
  BY TypesOfSems DEF IInv, Clients
<1>2. AgentsKept /\ OthersUntouched(s)
  BY <1>1, OneSemTouched DEF AgentsKept, Agent, msgVars
<1>3. \A r \in Sems : t \notin waitQueue[r]
  BY DEF IInv, TaskState
<1>4. SemTypes' /\ SemInv(s)'
  BY <1>1, <1>2, <1>3, EnqueueKeeps DEF MayShare
<1>5. TypeOK'
  BY <1>1, <1>4 DEF IInv, TypeOK, SemTypes, msgVars, listVars, ClearSingle
<1>6. /\ held' = held
      /\ \A r \in Sems : waitQueue'[r] = IF r = s THEN waitQueue[r] \cup {t} ELSE waitQueue[r]
      /\ \A r \in Sems, d \in Clients \ {t} : d \in waitShared'[r] <=> d \in waitShared[r]
  BY <1>1 DEF Enqueue, SemTypes, histVars
<1>7. ASSUME NEW m \in Messages
      PROVE  BidState(m)'
  <2>1. m \in Clients \ {t}
    BY ConstantsOK DEF Clients
  <2>2. TypeOK /\ BidState(m) /\ target'[m] = target[m]
    BY <2>1 DEF IInv, TypeOK
  <2>3. m \in Clients
    BY <2>1
  <2>. QED BY <1>6, <2>1, <2>2, <2>3, BidKept DEF msgVars
<1>8. ASSUME NEW u \in Tasks
      PROVE  TaskState(u)'
  <2>1. CASE u = t
    <3>1. pc'[t] = "obtain" /\ target'[t] = s /\ ~sigSingle'[t]
      BY <1>1 DEF IInv, TypeOK, ClearSingle
    <3>2. t \in waitQueue'[s] /\ \A r \in Sems : t \in waitQueue'[r] => r = s
      BY <1>3, <1>6
    <3>. QED BY <2>1, <3>1, <3>2 DEF TaskState
  <2>2. CASE u # t
    <3>1. pc'[u] = pc[u] /\ target'[u] = target[u] /\ sigSingle'[u] = sigSingle[u]
      BY <2>2 DEF IInv, TypeOK, Clients, ClearSingle
    <3>2. TypeOK /\ TaskState(u)
      BY DEF IInv
    <3>3. \A r \in Sems : held'[r] = held[r] /\ (u \in waitQueue'[r] <=> u \in waitQueue[r])
      BY <1>6, <2>2
    <3>. QED BY <3>1, <3>2, <3>3, TaskKept
  <2>. QED BY <2>1, <2>2
<1>9. ASSUME NEW u \in Tasks
      PROVE  ListState(u)'
  <2>1. CASE u = t
    BY <2>1 DEF IInv, TypeOK, ListState
  <2>2. CASE u # t
    <3>1. ListState(u) /\ pc'[u] = pc[u] /\ sigSingle'[u] = sigSingle[u]
      BY <2>2 DEF IInv, TypeOK, ClearSingle
    <3>2. \A v \in Tasks : pc'[v] = "list" => pc[v] = "list"
      BY DEF IInv, TypeOK
    <3>3. \A m \in Messages : target'[m] = target[m]
      BY ConstantsOK DEF IInv, TypeOK, Clients
    <3>4. u \in Clients /\ owner' = owner /\ exclHeld' = exclHeld
      BY DEF Clients, Enqueue, histVars
    <3>5. \A r \in Sems : /\ u \in waitQueue'[r] <=> u \in waitQueue[r]
                          /\ u \in waitShared'[r] <=> u \in waitShared[r]
      BY <1>6, <2>2, <3>4
    <3>6. listPos' = listPos /\ bidder' = bidder /\ SemList \in Seq(Sems)
      BY ConstantsOK DEF msgVars, listVars
    <3>7. \A m \in Messages : bidder'[m] = u /\ pc[u] = "list" =>
            bidder[m] = u /\ (target'[m] = target[m] \/ target'[m] = Null)
      BY <3>3, <3>6
    <3>8. \A r \in Sems :
            /\ u \in waitQueue'[r] =>
                 u \in waitQueue[r] /\ (pc[u] = "list" /\ owner'[r] = u => owner[r] = u)
            /\ u \in waitShared'[r] => u \in waitShared[r]
            /\ pc[u] = "list" /\ u \in waitQueue[r] =>
                 u \in waitQueue'[r] \/ (u \in exclHeld'[r] /\ sigSingle'[u])
            /\ pc[u] = "list" /\ u \in exclHeld[r] => u \in exclHeld'[r]
      BY <3>4, <3>5
    <3>9. sigSingle[u] => sigSingle'[u]
      BY <3>1
    <3>10. \A v \in Tasks : pc'[v] = "list" => pc[v] = "list" \/ pc[u] # "list"
      BY <3>2
    <3>11. (pc'[u] = "list" => pc[u] = "list") /\ ListState(u)
      BY <3>1
    <3>. QED BY <3>6, <3>7, <3>8, <3>9, <3>10, <3>11, ListKept
  <2>. QED BY <2>1, <2>2
<1>. QED BY <1>2, <1>4, <1>5, <1>7, <1>8, <1>9, AllSemsKept DEF IInv
\* Wait(SIGF_SINGLE) returns in ObtainSemaphore.
LEMMA ObtainWakeKeeps ==
  ASSUME IInv, NEW t \in Tasks, ObtainWake(t)
  PROVE  IInv'
<1>. USE DEF ObtainWake, semVars, msgVars, listVars, histVars
<1>1. SemTypes /\ t \in Clients /\ AgentsKept
  BY TypesOfSems DEF IInv, Clients, AgentsKept, Agent
<1>2. TypeOK'
  BY <1>1 DEF IInv, TypeOK
<1>3. \A s \in Sems : SemInv(s)'
  BY <1>1, UntouchedSem DEF IInv
<1>4. ASSUME NEW m \in Messages
      PROVE  BidState(m)'
  <2>1. TypeOK /\ BidState(m) /\ target'[m] = target[m]
    BY ConstantsOK DEF IInv, TypeOK, Clients
  <2>. QED BY <2>1, BidKept
<1>5. ASSUME NEW u \in Tasks
      PROVE  TaskState(u)' /\ ListState(u)'
  <2>1. TypeOK /\ TaskState(u) /\ ListState(u) /\ u \in Clients /\ SemList \in Seq(Sems)
    BY ConstantsOK DEF IInv, Clients
  <2>2. \A v \in Tasks : pc'[v] = "list" => pc[v] = "list"
    BY <2>1 DEF TypeOK
  <2>3. CASE u = t
    <3>1. \A s \in Sems : t \notin waitQueue[s]
      BY <2>1, <2>3 DEF TaskState
    <3>. QED BY <2>1, <2>3, <3>1 DEF TaskState, ListState, TypeOK
  <2>4. CASE u # t
    <3>1. pc'[u] = pc[u] /\ sigSingle'[u] = sigSingle[u] /\ target'[u] = target[u]
      BY <2>1, <2>4 DEF TypeOK
    <3>2. \A m \in Messages : target'[m] = target[m]
      BY <1>1, ConstantsOK DEF IInv, TypeOK, Clients
    <3>. QED BY <2>1, <2>2, <3>1, <3>2, TaskKept, ListKept
  <2>. QED BY <2>3, <2>4
<1>. QED BY <1>2, <1>3, <1>4, <1>5 DEF IInv

\* SIGF_SINGLE is left set in a running task by somebody else.
LEMMA SetSingleKeeps ==
  ASSUME IInv, NEW t \in Tasks, SetSingle(t)
  PROVE  IInv'
<1>. USE DEF SetSingle, semVars, msgVars, listVars, histVars
<1>1. AgentsKept
  BY DEF AgentsKept, Agent
<1>2. TypeOK'
  BY DEF IInv, TypeOK
<1>3. \A s \in Sems : SemInv(s)'
  BY <1>1, UntouchedSem DEF IInv
<1>4. ASSUME NEW m \in Messages
      PROVE  BidState(m)'
  BY BidKept DEF IInv
<1>5. ASSUME NEW u \in Tasks
      PROVE  TaskState(u)' /\ ListState(u)'
  <2>1. TypeOK /\ TaskState(u) /\ ListState(u) /\ SemList \in Seq(Sems)
    BY ConstantsOK DEF IInv
  <2>2. pc[u] # "run" => sigSingle'[u] = sigSingle[u]
    BY <2>1 DEF TypeOK
  <2>3. sigSingle[u] => sigSingle'[u]
    BY <2>1 DEF TypeOK
  <2>. QED BY <2>1, <2>2, <2>3, TaskKept, ListKept
<1>. QED BY <1>2, <1>3, <1>4, <1>5 DEF IInv
\* ReleaseSemaphore, by a task or within Vacate of a granted message.
LEMMA ReleaseStep ==
  ASSUME IInv, NEW s \in Sems, NEW c \in Clients, held[s][c] > 0, Release(s, c),
         UNCHANGED <<bidder, listVars, pc>>,
         \/ c \in Tasks /\ Returned(s, c) /\ target' = target
         \/ c \in Messages /\ target[c] = s /\ target' = [target EXCEPT ![c] = Null]
  PROVE  IInv'
<1>. DEFINE G == Granted(s)
<1>1. SemTypes /\ TypeOK /\ SemInv(s) /\ SemList \in Seq(Sems) /\ Tasks \cap Messages = {}
  BY TypesOfSems, ConstantsOK DEF IInv
<1>2. AgentsKept /\ OthersUntouched(s)
  BY <1>1, OneSemTouched DEF AgentsKept, Agent
<1>3. \A g \in waitQueue[s] \ waitShared[s] : RequestOwner(g) \in Tasks /\ RequestOwner(g) = Agent(g)'
  <2>1. \A g \in Clients : Agent(g)' = Agent(g)
    BY DEF Agent
  <2>2. waitQueue[s] \subseteq Clients
    BY <1>1 DEF SemTypes
  <2>. QED BY <2>1, <2>2, OwnerOfRequest
<1>4. SemTypes' /\ SemInv(s)'
  BY <1>1, <1>2, <1>3, ReleaseKeeps
<1>5. /\ G \in SUBSET waitQueue[s] /\ G \in SUBSET Clients
      /\ waitQueue'[s] = waitQueue[s] \ G /\ waitShared'[s] = waitShared[s] \ G
      /\ \A t \in Tasks : sigSingle'[t] = (sigSingle[t] \/ t \in G)
      /\ \A m \in Messages \ (G \cup {c}) : ssmSemaphore'[m] = ssmSemaphore[m]
      /\ \A d \in Clients : held'[s][d] =
           held[s][d] + (IF d \in G THEN 1 ELSE 0) - (IF d = c THEN 1 ELSE 0)
  BY <1>1, GrantedFacts DEF Release, Dequeue, SemTypes, SignalTasks, NameSemaphore
<1>6. TypeOK'
  <2>1. ssmSemaphore' \in [Messages -> Tasks \cup Sems \cup {Null}]
    BY <1>1 DEF TypeOK, Release, NameSemaphore
  <2>2. replies' \in [Messages -> Nat]
    BY <1>1 DEF TypeOK, Release, ReplyMessages
  <2>3. sigSingle' \in [Tasks -> BOOLEAN]
    BY <1>1 DEF TypeOK, Release, SignalTasks
  <2>4. target' \in [Clients -> Sems \cup {Null}]
    BY <1>1 DEF TypeOK
  <2>. QED BY <1>1, <1>4, <2>1, <2>2, <2>3, <2>4 DEF TypeOK, SemTypes, listVars
<1>7. ASSUME NEW m \in Messages
      PROVE  BidState(m)'
  <2>1. m \in Clients /\ BidState(m) /\ m \notin Tasks
    BY <1>1 DEF IInv, Clients
  <2>2. CASE m = c
    <3>1. target[m] = s /\ target'[m] = Null
      BY <1>1, <2>1, <2>2 DEF TypeOK
    <3>2. s # Null
      BY ConstantsOK
    <3>3. m \notin waitQueue[s] /\ held[s][m] = 1
      BY <2>1, <2>2, <3>1, <3>2 DEF BidState
    <3>4. m \notin waitQueue'[s] /\ held'[s][m] = 0
      BY <1>5, <2>1, <2>2, <3>3
    <3>5. \A r \in Sems \ {s} : m \notin waitQueue'[r] /\ held'[r][m] = 0
      BY <1>2, <2>1, <3>1, <3>2 DEF BidState, OthersUntouched
    <3>. QED BY <3>1, <3>4, <3>5 DEF BidState
  <2>3. CASE m # c /\ m \in G
    <3>1. m \in waitQueue[s] /\ target[m] = s /\ s # Null
      BY <1>5, <2>1, <2>3, ConstantsOK DEF BidState
    <3>2. held[s][m] = 0 /\ bidder[m] \in Tasks
      BY <2>1, <3>1 DEF BidState
    <3>3. m \notin waitQueue'[s] /\ held'[s][m] = 1 /\ target'[m] = s
      BY <1>1, <1>5, <2>1, <2>3, <3>1, <3>2 DEF TypeOK
    <3>4. \A r \in Sems \ {s} : m \notin waitQueue'[r] /\ held'[r][m] = 0
      BY <1>2, <2>1, <3>1 DEF BidState, OthersUntouched
    <3>. QED BY <3>1, <3>2, <3>3, <3>4 DEF BidState
  <2>4. CASE m # c /\ m \notin G
    <3>1. target'[m] = target[m] /\ ssmSemaphore'[m] = ssmSemaphore[m] /\ bidder'[m] = bidder[m]
      BY <1>1, <1>5, <2>1, <2>4 DEF TypeOK
    <3>2. ASSUME NEW r \in Sems
          PROVE  /\ held'[r][m] = held[r][m]
                 /\ m \in waitQueue'[r] <=> m \in waitQueue[r]
                 /\ m \in waitShared'[r] <=> m \in waitShared[r]
      <4>1. CASE r = s
        BY <1>1, <1>5, <2>1, <2>4, <4>1 DEF SemTypes
      <4>2. CASE r # s
        BY <1>2, <4>2 DEF OthersUntouched
      <4>. QED BY <4>1, <4>2
    <3>. QED BY <1>1, <2>1, <3>1, <3>2, BidKept
  <2>. QED BY <2>2, <2>3, <2>4
<1>8. ASSUME NEW u \in Tasks
      PROVE  TaskState(u)'
  <2>1. u \in Clients /\ TaskState(u) /\ u \notin Messages
    BY <1>1 DEF IInv, Clients
  <2>2. target'[u] = target[u] /\ pc'[u] = pc[u]
    BY <1>1, <2>1 DEF TypeOK
  <2>3. CASE u = c /\ u \notin G
    <3>1. Returned(s, u) /\ sigSingle'[u] = sigSingle[u]
      BY <1>1, <1>5, <2>1, <2>3 DEF TypeOK
    <3>2. \A r \in Sems : /\ u \in waitQueue'[r] <=> u \in waitQueue[r]
                          /\ r # s => held'[r] = held[r]
      BY <1>2, <1>5, <2>3 DEF OthersUntouched
    <3>3. pc[u] = "obtain" => target[u] # s \/ u \in waitQueue[s]
      BY <3>1 DEF Returned
    <3>4. \A r \in Sems : u \in waitQueue'[r] =>
            (pc'[u] = "obtain" /\ target'[u] = r) \/ pc'[u] = "list"
      BY <2>1, <2>2, <3>2 DEF TaskState
    <3>5. CASE pc[u] = "obtain"
      <4>1. /\ target[u] \in Sems
            /\ IF u \in waitQueue[target[u]] THEN ~sigSingle[u]
               ELSE sigSingle[u] /\ held[target[u]][u] > 0
        BY <2>1, <3>5 DEF TaskState
      <4>2. u \notin waitQueue[target[u]] => target[u] # s
        BY <3>3, <3>5
      <4>. QED BY <2>2, <3>1, <3>2, <3>4, <3>5, <4>1, <4>2 DEF TaskState
    <3>6. CASE pc[u] # "obtain"
      BY <2>2, <3>4, <3>6 DEF TaskState
    <3>. QED BY <3>5, <3>6
  <2>4. CASE u \in G
    <3>1. \A r \in Sems : u \in waitQueue'[r] => u \in waitQueue[r]
      BY <1>2, <1>5 DEF OthersUntouched
    <3>2. u \in waitQueue[s] /\ u \notin waitQueue'[s] /\ held'[s][u] > 0
      <4>1. held[s][u] \in Nat /\ held'[s][u] = held[s][u] + 1 - (IF u = c THEN 1 ELSE 0)
        BY <1>1, <1>5, <2>1, <2>4, ConstantsOK DEF SemTypes
      <4>2. u = c => held[s][u] > 0
        OBVIOUS
      <4>. QED BY <1>5, <2>4, <4>1, <4>2
    <3>3. sigSingle'[u]
      BY <1>5, <2>4
    <3>. QED BY <2>1, <2>2, <3>1, <3>2, <3>3 DEF TaskState
  <2>5. CASE u # c /\ u \notin G
    <3>1. sigSingle'[u] = sigSingle[u]
      BY <1>1, <1>5, <2>5 DEF TypeOK
    <3>2. ASSUME NEW r \in Sems
          PROVE  /\ held[r][u] > 0 => held'[r][u] > 0
                 /\ u \in waitQueue'[r] <=> u \in waitQueue[r]
      <4>1. CASE r = s
        BY <1>1, <1>5, <2>1, <2>5, <4>1 DEF SemTypes
      <4>2. CASE r # s
        BY <1>2, <4>2 DEF OthersUntouched
      <4>. QED BY <4>1, <4>2
    <3>. QED BY <1>1, <2>1, <2>2, <3>1, <3>2, TaskKept
  <2>. QED BY <2>3, <2>4, <2>5
<1>9. ASSUME NEW u \in Tasks
      PROVE  ListState(u)'
  <2>. SUFFICES ASSUME pc[u] = "list" PROVE ListState(u)'
    BY DEF ListState
  <2>1. /\ u \in Clients /\ ListState(u)
        /\ u = c => u \in waitQueue[s] \/ s \notin ListSems
    BY <1>1 DEF IInv, Clients, Returned
  <2>2. ASSUME NEW r \in Sems
        PROVE /\ u \in waitQueue'[r] =>
                   u \in waitQueue[r] /\ (owner'[r] = u => owner[r] = u)
              /\ u \in waitShared'[r] => u \in waitShared[r]
              /\ u \in waitQueue[r] =>
                   u \in waitQueue'[r] \/ (u \in exclHeld'[r] /\ sigSingle'[u])
              /\ u \in exclHeld[r] /\ r \in ListSems =>
                   u \in exclHeld'[r] \/ u \in waitQueue[r]
    <3>1. CASE r # s
      BY <1>2, <3>1 DEF OthersUntouched
    <3>2. CASE r = s
      <4>1. exclHeld[s] \ {c} \subseteq exclHeld'[s]
        BY <1>1 DEF Release, SemTypes
      <4>2. ASSUME u \in G
            PROVE  u \in exclHeld'[s] /\ sigSingle'[u]
        <5>1. u \in waitQueue[s] /\ u \notin waitShared[s]
          BY <1>5, <2>1, <4>2 DEF ListState
        <5>2. ~GrantsShared(s)
          BY <1>1, <4>2, <5>1, GrantedFacts
        <5>. QED BY <1>1, <1>5, <4>2, <5>2 DEF Release, SemTypes
      <4>3. ASSUME u \in waitQueue[s], u \notin G, owner'[s] = u
            PROVE  owner[s] = u
        <5>1. s \in ListSems /\ u # Null
          BY <1>1, <2>1, <4>3, ConstantsOK DEF ListState, ListSems
        <5>2. CASE ~LastNest(s)
          BY <4>3, <5>2 DEF Release
        <5>3. CASE LastNest(s)
          <6>1. G # {} /\ ~GrantsShared(s) /\ RequestOwner(FirstRequest(s)) = u
            BY <1>1, <4>3, <5>1, <5>3 DEF Release, SemTypes
          <6>2. FirstRequest(s) \in waitQueue[s] \ waitShared[s] /\ FirstRequest(s) # u
            BY <1>1, <4>3, <6>1, GrantedFacts
          <6>3. Agent(FirstRequest(s)) = u /\ FirstRequest(s) \in Clients
            BY <1>1, <6>1, <6>2, OwnerOfRequest DEF SemTypes
          <6>4. FirstRequest(s) \in Messages /\ bidder[FirstRequest(s)] = u
            BY <6>2, <6>3 DEF Agent, Clients
          <6>5. target[FirstRequest(s)] = s
            BY <6>2, <6>4 DEF IInv, BidState
          <6>. QED BY <2>1, <5>1, <6>4, <6>5 DEF ListState
        <5>. QED BY <5>2, <5>3
      <4>. QED BY <1>5, <2>1, <3>2, <4>1, <4>2, <4>3
    <3>. QED BY <3>1, <3>2
  <2>3. sigSingle[u] => sigSingle'[u]
    BY <1>5
  <2>4. \A m \in Messages : bidder'[m] = u /\ pc[u] = "list" =>
          bidder[m] = u /\ (target'[m] = target[m] \/ target'[m] = Null)
    BY <1>1 DEF TypeOK, Clients
  <2>5. listPos' = listPos /\ pc' = pc
    BY DEF listVars
  <2>. QED BY <1>1, <2>1, <2>2, <2>3, <2>4, <2>5, ListKept
<1>. QED BY <1>2, <1>4, <1>6, <1>7, <1>8, <1>9, AllSemsKept DEF IInv
\* Vacate withdraws a bid that is still queued.
LEMMA WithdrawKeeps ==
  ASSUME IInv, NEW m \in Messages, NEW s \in Sems, target[m] = s, m \in waitQueue[s],
         Dequeue(s, {m}), queueCount' = [queueCount EXCEPT ![s] = @ - 1],
         target' = [target EXCEPT ![m] = Null], AnswerWithdrawn(m),
         UNCHANGED <<nestCount, owner, histVars, sigSingle, bidder, listVars, pc>>
  PROVE  IInv'
<1>1. SemTypes /\ TypeOK /\ SemInv(s) /\ m \in Clients /\ m \notin Tasks /\ SemList \in Seq(Sems)
  BY TypesOfSems, ConstantsOK DEF IInv, Clients
<1>2. AgentsKept /\ OthersUntouched(s)
  BY <1>1, OneSemTouched DEF AgentsKept, Agent
<1>3. /\ waitQueue' \in [Sems -> SUBSET Clients] /\ waitShared' \in [Sems -> SUBSET Clients]
      /\ before' \in [Sems -> SUBSET (Clients \X Clients)]
      /\ waitQueue'[s] = waitQueue[s] \ {m} /\ waitShared'[s] = waitShared[s] \ {m}
      /\ Ordered(s)'
      /\ Cardinality(waitQueue'[s]) = Cardinality(waitQueue[s]) - 1
  <2>1. {m} \in SUBSET waitQueue[s] /\ Ordered(s) /\ Cardinality({m}) = 1
    BY <1>1, FS_Singleton DEF SemInv
  <2>. QED BY <1>1, <2>1, DequeueKeeps
<1>4. queueCount'[s] = nestCount[s] + Cardinality(waitQueue'[s]) - 1
  <2>1. queueCount[s] = nestCount[s] + Cardinality(waitQueue[s]) - 1
    BY <1>1 DEF SemInv
  <2>2. queueCount'[s] = queueCount[s] - 1 /\ nestCount[s] \in Nat
    BY <1>1 DEF SemTypes
  <2>3. Cardinality(waitQueue[s]) \in Nat
    BY <1>1, SubsetsFinite DEF SemTypes
  <2>. QED BY <1>3, <2>1, <2>2, <2>3
<1>5. SemInv(s)'
  <2>1. OwnerHolds(s)'
    BY <1>1, <1>2 DEF SemInv, OwnerHolds, AgentsKept, histVars
  <2>2. Served(s)'
    BY <1>1, <1>3 DEF SemInv, Served
  <2>. QED BY <1>1, <1>3, <1>4, <2>1, <2>2 DEF SemInv, histVars
<1>6. TypeOK'
  <2>1. queueCount' \in [Sems -> Nat \cup {-1}]
    <3>1. queueCount'[s] \in Nat \cup {-1}
      <4>1. waitQueue'[s] \in SUBSET Clients /\ nestCount[s] \in Nat
        BY <1>1, <1>3 DEF SemTypes
      <4>2. Cardinality(waitQueue'[s]) \in Nat
        BY <4>1, SubsetsFinite
      <4>3. \A k, n \in Nat : k + n - 1 \in Nat \cup {-1}
        OBVIOUS
      <4>4. nestCount[s] + Cardinality(waitQueue'[s]) - 1 \in Nat \cup {-1}
        BY <4>1, <4>2, <4>3
      <4>. QED BY <1>4, <4>4
    <3>2. queueCount \in [Sems -> Nat \cup {-1}]
      BY <1>1 DEF SemTypes
    <3>3. queueCount'[s] = queueCount[s] - 1
      BY <3>2
    <3>4. queueCount[s] - 1 \in Nat \cup {-1}
      BY <3>1, <3>3
    <3>. QED BY <3>2, <3>4
  <2>. QED BY <1>1, <1>3, <2>1 DEF TypeOK, SemTypes, histVars, listVars, AnswerWithdrawn
<1>7. ASSUME NEW d \in Clients \ {m}, NEW r \in Sems
      PROVE  /\ d \in waitQueue'[r] <=> d \in waitQueue[r]
             /\ d \in waitShared'[r] <=> d \in waitShared[r]
             /\ held'[r] = held[r] /\ exclHeld'[r] = exclHeld[r] /\ owner'[r] = owner[r]
             /\ target'[d] = target[d]
  BY <1>1, <1>2, <1>3 DEF OthersUntouched, TypeOK, histVars
<1>8. ASSUME NEW n \in Messages
      PROVE  BidState(n)'
  <2>1. BidState(n) /\ n \in Clients
    BY DEF IInv, Clients
  <2>2. CASE n = m
    <3>1. s # Null
      BY ConstantsOK
    <3>2. held[s][m] = 0 /\ \A r \in Sems \ {s} : m \notin waitQueue[r] /\ held[r][m] = 0
      BY <2>1, <2>2, <3>1 DEF BidState
    <3>3. \A r \in Sems : m \notin waitQueue'[r] /\ held'[r][m] = 0
      BY <1>2, <1>3, <3>2 DEF OthersUntouched, histVars
    <3>4. target'[m] = Null
      BY <1>1 DEF TypeOK
    <3>. QED BY <2>2, <3>3, <3>4 DEF BidState
  <2>3. CASE n # m
    <3>1. ssmSemaphore'[n] = ssmSemaphore[n] /\ target'[n] = target[n]
      BY <1>1, <2>1, <2>3 DEF TypeOK, AnswerWithdrawn
    <3>. QED BY <1>1, <1>7, <2>1, <2>3, <3>1, BidKept
  <2>. QED BY <2>2, <2>3
<1>9. ASSUME NEW u \in Tasks
      PROVE  TaskState(u)' /\ ListState(u)'
  <2>1. TaskState(u) /\ ListState(u) /\ u \in Clients \ {m} /\ target'[u] = target[u]
    BY <1>1 DEF IInv, Clients, TypeOK
  <2>2. \A n \in Messages : target'[n] = target[n] \/ target'[n] = Null
    BY <1>1 DEF TypeOK, Clients
  <2>3. TaskState(u)'
    BY <1>1, <1>7, <2>1, TaskKept
  <2>4. listPos' = listPos
    BY DEF listVars
  <2>. QED BY <1>1, <1>7, <2>1, <2>2, <2>3, <2>4, ListKept
<1>. QED BY <1>2, <1>5, <1>6, <1>8, <1>9, AllSemsKept DEF IInv

\* What both outcomes of Procure do to the bids, for a message in no bid.
BidMade(t, m, s) ==
  /\ \A r \in Sems : m \notin waitQueue[r] /\ held[r][m] = 0
  /\ target'[m] = s /\ bidder'[m] = t
  /\ \A d \in Clients \ {m} : target'[d] = target[d]
  /\ \A n \in Messages \ {m} : bidder'[n] = bidder[n]

\* What is known of a bid that was just made.
LEMMA ProcureFacts ==
  ASSUME IInv, NEW t \in Tasks, NEW m \in Messages, BidState(m), NEW s \in Sems, target[m] = Null,
         target' = [target EXCEPT ![m] = s], bidder' = [bidder EXCEPT ![m] = t]
  PROVE  BidMade(t, m, s)
<1>1. m \in Clients /\ TypeOK
  BY DEF IInv, Clients
<1>2. \A r \in Sems : m \notin waitQueue[r] /\ held[r][m] = 0
  BY DEF BidState
<1>3. /\ target'[m] = s /\ bidder'[m] = t
      /\ \A d \in Clients \ {m} : target'[d] = target[d]
      /\ \A n \in Messages \ {m} : bidder'[n] = bidder[n]
  BY <1>1 DEF TypeOK
<1>. QED BY <1>2, <1>3 DEF BidMade

\* Procure grants the bid at once.
LEMMA ProcureTake ==
  ASSUME IInv, NEW t \in Tasks, NEW m \in Messages, NEW s \in Sems, NEW o \in {t, Null},
         pc[t] = "run", target[m] = Null,
         target' = [target EXCEPT ![m] = s], bidder' = [bidder EXCEPT ![m] = t],
         UNCHANGED <<listVars, sigSingle, pc>>,
         Free(s) \/ owner[s] = o, Take(s, m, o),
         ssmSemaphore' = [ssmSemaphore EXCEPT ![m] = s],
         replies' = [replies EXCEPT ![m] = 1]
  PROVE  IInv'
<1>1. SemTypes /\ TypeOK /\ SemInv(s) /\ SemList \in Seq(Sems) /\ o \in Tasks \cup {Null}
  BY TypesOfSems, ConstantsOK DEF IInv
<1>2. /\ m \in Clients /\ m \notin Tasks /\ Agent(m)' = t /\ AgentsKept
      /\ \A r \in Sems : m \notin waitQueue[r] /\ held[r][m] = 0
      /\ target'[m] = s /\ bidder'[m] = t
      /\ \A d \in Clients \ {m} : target'[d] = target[d]
      /\ \A n \in Messages \ {m} : bidder'[n] = bidder[n]
  <2>1. BidState(m) /\ m \in Clients /\ m \notin Tasks
    BY ConstantsOK DEF IInv, Clients
  <2>2. BidMade(t, m, s)
    BY <2>1, ProcureFacts
  <2>3. Agent(m)' = t
    BY <2>1, <2>2 DEF BidMade, Agent
  <2>4. AgentsKept
    BY <2>1, <2>2 DEF BidMade, AgentsKept, Agent, Clients
  <2>. QED BY <2>1, <2>2, <2>3, <2>4 DEF BidMade
<1>3. SemTypes' /\ SemInv(s)'
  <2>1. held[s][m] < MaxHold /\ (o # Null => o = Agent(m)')
    BY <1>2, ConstantsOK
  <2>. QED BY <1>1, <1>2, <2>1, TakeKeeps
<1>4. OthersUntouched(s)
  BY <1>1, <1>2, OneSemTouched
<1>5. TypeOK'
  <2>1. target' \in [Clients -> Sems \cup {Null}] /\ bidder' \in [Messages -> Tasks \cup {Null}]
    BY <1>1 DEF TypeOK
  <2>2. /\ ssmSemaphore' \in [Messages -> Tasks \cup Sems \cup {Null}]
        /\ replies' \in [Messages -> Nat]
    BY <1>1 DEF TypeOK
  <2>. QED BY <1>1, <1>3, <2>1, <2>2 DEF TypeOK, SemTypes, listVars
<1>6. /\ waitQueue' = waitQueue /\ waitShared' = waitShared
      /\ \A r \in Sems, d \in Clients \ {m} : held'[r][d] = held[r][d]
      /\ held'[s][m] = 1 /\ \A r \in Sems \ {s} : held'[r][m] = 0
      /\ \A r \in Sems : exclHeld[r] \subseteq exclHeld'[r]
  BY <1>1, <1>2 DEF Take, SemTypes
<1>7. ASSUME NEW n \in Messages
      PROVE  BidState(n)'
  <2>1. CASE n = m
    <3>1. s # Null
      BY ConstantsOK
    <3>. QED BY <1>2, <1>6, <2>1, <3>1 DEF BidState
  <2>2. CASE n # m
    <3>1. BidState(n) /\ n \in Clients \ {m} /\ ssmSemaphore'[n] = ssmSemaphore[n]
      BY <1>1, <2>2 DEF IInv, TypeOK, Clients
    <3>. QED BY <1>1, <1>2, <1>6, <2>2, <3>1, BidKept
  <2>. QED BY <2>1, <2>2
<1>8. ASSUME NEW u \in Tasks
      PROVE  TaskState(u)' /\ ListState(u)'
  <2>1. TaskState(u) /\ ListState(u) /\ u \in Clients \ {m}
    BY <1>2 DEF IInv, Clients
  <2>2. TaskState(u)'
    BY <1>1, <1>2, <1>6, <2>1, TaskKept
  <2>3. \A n \in Messages : bidder'[n] = u /\ pc[u] = "list" =>
          bidder[n] = u /\ (target'[n] = target[n] \/ target'[n] = Null)
    BY <1>2 DEF Clients
  <2>4. ASSUME NEW r \in Sems, u \in waitQueue[r]
        PROVE  owner'[r] = owner[r]
    <3>1. CASE r = s
      BY <1>1, <2>4, <3>1, FreeIsIdle DEF Take
    <3>. QED BY <1>4, <3>1 DEF OthersUntouched
  <2>5. listPos' = listPos
    BY DEF listVars
  <2>. QED BY <1>1, <1>6, <2>1, <2>2, <2>3, <2>4, <2>5, ListKept
<1>. QED BY <1>2, <1>3, <1>4, <1>5, <1>7, <1>8, AllSemsKept DEF IInv

\* Procure queues the bid.
LEMMA ProcureEnqueue ==
  ASSUME IInv, NEW t \in Tasks, NEW m \in Messages, NEW s \in Sems, NEW o \in {t, Null},
         pc[t] = "run", target[m] = Null,
         target' = [target EXCEPT ![m] = s], bidder' = [bidder EXCEPT ![m] = t],
         UNCHANGED <<listVars, sigSingle, pc>>,
         ~Free(s), owner[s] # o, Enqueue(s, m, o = Null),
         ssmSemaphore' = [ssmSemaphore EXCEPT ![m] = o],
         replies' = [replies EXCEPT ![m] = 0]
  PROVE  IInv'
<1>1. SemTypes /\ TypeOK /\ SemInv(s) /\ SemList \in Seq(Sems) /\ (o = Null) \in BOOLEAN
  BY TypesOfSems, ConstantsOK DEF IInv
<1>2. /\ m \in Clients /\ m \notin Tasks /\ Agent(m)' = t /\ AgentsKept
      /\ \A r \in Sems : m \notin waitQueue[r] /\ held[r][m] = 0
      /\ target'[m] = s /\ bidder'[m] = t
      /\ \A d \in Clients \ {m} : target'[d] = target[d]
      /\ \A n \in Messages \ {m} : bidder'[n] = bidder[n]
  <2>1. BidState(m) /\ m \in Clients /\ m \notin Tasks
    BY ConstantsOK DEF IInv, Clients
  <2>2. BidMade(t, m, s)
    BY <2>1, ProcureFacts
  <2>3. Agent(m)' = t
    BY <2>1, <2>2 DEF BidMade, Agent
  <2>4. AgentsKept
    BY <2>1, <2>2 DEF BidMade, AgentsKept, Agent, Clients
  <2>. QED BY <2>1, <2>2, <2>3, <2>4 DEF BidMade
<1>3. SemTypes' /\ SemInv(s)'
  BY <1>1, <1>2, EnqueueKeeps
<1>4. OthersUntouched(s)
  BY <1>1, <1>2, OneSemTouched
<1>5. TypeOK'
  <2>1. target' \in [Clients -> Sems \cup {Null}] /\ bidder' \in [Messages -> Tasks \cup {Null}]
    BY <1>1 DEF TypeOK
  <2>2. /\ ssmSemaphore' \in [Messages -> Tasks \cup Sems \cup {Null}]
        /\ replies' \in [Messages -> Nat]
    BY <1>1 DEF TypeOK
  <2>. QED BY <1>1, <1>3, <2>1, <2>2 DEF TypeOK, SemTypes, listVars
<1>6. /\ held' = held /\ exclHeld' = exclHeld /\ owner' = owner
      /\ \A r \in Sems, d \in Clients \ {m} :
           /\ d \in waitQueue'[r] <=> d \in waitQueue[r]
           /\ d \in waitShared'[r] <=> d \in waitShared[r]
      /\ \A r \in Sems \ {s} : waitQueue'[r] = waitQueue[r]
      /\ m \in waitQueue'[s] /\ (m \notin waitShared'[s] => o # Null)
  BY <1>1, <1>2 DEF Enqueue, SemTypes, histVars
<1>7. ASSUME NEW n \in Messages
      PROVE  BidState(n)'
  <2>1. CASE n = m
    <3>1. s # Null /\ ssmSemaphore'[m] = o
      BY <1>1, ConstantsOK DEF TypeOK
    <3>. QED BY <1>2, <1>6, <2>1, <3>1 DEF BidState
  <2>2. CASE n # m
    <3>1. BidState(n) /\ n \in Clients \ {m} /\ ssmSemaphore'[n] = ssmSemaphore[n]
      BY <1>1, <2>2 DEF IInv, TypeOK, Clients
    <3>. QED BY <1>1, <1>2, <1>6, <2>2, <3>1, BidKept
  <2>. QED BY <2>1, <2>2
<1>8. ASSUME NEW u \in Tasks
      PROVE  TaskState(u)' /\ ListState(u)'
  <2>1. TaskState(u) /\ ListState(u) /\ u \in Clients \ {m}
    BY <1>2 DEF IInv, Clients
  <2>2. TaskState(u)'
    BY <1>1, <1>2, <1>6, <2>1, TaskKept
  <2>3. \A n \in Messages : bidder'[n] = u /\ pc[u] = "list" =>
          bidder[n] = u /\ (target'[n] = target[n] \/ target'[n] = Null)
    BY <1>2 DEF Clients
  <2>4. listPos' = listPos
    BY DEF listVars
  <2>. QED BY <1>1, <1>6, <2>1, <2>2, <2>3, <2>4, ListKept
<1>. QED BY <1>2, <1>3, <1>4, <1>5, <1>7, <1>8, AllSemsKept DEF IInv

\* Vacate withdraws a queued bid or releases a granted one.
LEMMA VacateKeeps ==
  ASSUME IInv, NEW m \in Messages, Vacate(m)
  PROVE  IInv'
<1>1. m \in Clients /\ target[m] \in Sems
  BY DEF IInv, TypeOK, Vacate, Clients
<1>2. CASE m \in waitQueue[target[m]]
  BY <1>1, <1>2, WithdrawKeeps DEF Vacate
<1>3. CASE m \notin waitQueue[target[m]]
  <2>1. held[target[m]][m] > 0
    BY <1>3 DEF IInv, BidState, Vacate
  <2>. QED BY <1>1, <1>3, <2>1, ReleaseStep DEF Vacate
<1>. QED BY <1>2, <1>3

\* Where the pass over the list stops: behind p, everything stepped over is t's own.
LEMMA NextUnownedFacts ==
  ASSUME NEW t \in Tasks, NEW p \in 1 .. Len(SemList) + 1, NEW own \in [Sems -> Tasks \cup {Null}]
  PROVE  /\ NextUnowned(t, p, own) \in p .. Len(SemList) + 1
         /\ \A i \in p .. Len(SemList) : i < NextUnowned(t, p, own) => own[SemList[i]] = t
         /\ NextUnowned(t, p, own) <= Len(SemList) => own[SemList[NextUnowned(t, p, own)]] # t
<1>. DEFINE unowned == {i \in p .. Len(SemList) : own[SemList[i]] # t}
<1>1. Len(SemList) \in Nat
  BY ConstantsOK
<1>2. CASE unowned = {}
  <2>1. NextUnowned(t, p, own) = Len(SemList) + 1
    BY <1>2 DEF NextUnowned
  <2>. QED BY <1>1, <1>2, <2>1
<1>3. CASE unowned # {}
  <2>1. unowned \subseteq Nat
    BY <1>1
  <2>2. PICK i \in unowned : \A j \in unowned : <<1 .. j, 1 .. i>> \notin StrictSubsetOrdering(Nat)
    <3>. DEFINE T == {1 .. i : i \in unowned}
    <3>1. \A i \in unowned : IsFiniteSet(1 .. i)
      BY <2>1, FS_Interval
    <3>2. T \subseteq FiniteSubsetsOf(Nat) /\ T # {}
      BY <1>3, <2>1, <3>1 DEF FiniteSubsetsOf
    <3>3. PICK A \in T : \A B \in T : <<B, A>> \notin StrictSubsetOrdering(Nat)
      BY <3>2, FS_StrictSubsetOrderingWellFounded, WFMin
    <3>. QED BY <3>3
  <2>3. ASSUME NEW j \in unowned, j < i
        PROVE  FALSE
    <3>1. 1 .. j \subseteq 1 .. i /\ i \in 1 .. i /\ i \notin 1 .. j
      BY <1>1, <2>3
    <3>2. 1 .. j \in SUBSET Nat /\ 1 .. i \in SUBSET Nat /\ 1 .. j # 1 .. i
      BY <3>1
    <3>3. <<1 .. j, 1 .. i>> \in StrictSubsetOrdering(Nat)
      BY <3>1, <3>2 DEF StrictSubsetOrdering
    <3>. QED BY <2>2, <3>3
  <2>4. PICK q \in unowned : q = NextUnowned(t, p, own) /\ \A j \in unowned : q <= j
    BY <1>1, <1>3, <2>1, <2>3 DEF NextUnowned
  <2>5. q \in p .. Len(SemList) + 1
    BY <1>1
  <2>6. ASSUME NEW j \in p .. Len(SemList), j < q, own[SemList[j]] # t
        PROVE  FALSE
    <3>1. j \in unowned
      BY <2>6
    <3>. QED BY <1>1, <2>4, <2>5, <2>6, <3>1
  <2>. QED BY <2>4, <2>5, <2>6
<1>. QED BY <1>2, <1>3

\* The pass ends at the first semaphore that is not the caller's, or lets it return.
LEMMA WalkFacts ==
  ASSUME TypeOK, NEW t \in Tasks, NEW p \in 1 .. Len(SemList) + 1, NEW failed \in Int,
         NEW own \in [Sems -> Tasks \cup {Null}], WalkList(t, p, failed, own)
  PROVE  /\ listPos' \in 1 .. Len(SemList) + 1 /\ failedObtain' \in Int /\ alerted' \in BOOLEAN
         /\ pc' \in [Tasks -> {"run", "obtain", "list"}]
         /\ \A u \in Tasks \ {t} : pc'[u] = pc[u]
         /\ pc'[t] # "obtain"
         /\ pc'[t] = "run" => \A i \in p .. Len(SemList) : own[SemList[i]] = t
         /\ pc'[t] = "list" =>
              /\ listPos' \in p .. Len(SemList) /\ own[SemList[listPos']] # t
              /\ \A i \in p .. Len(SemList) : i < listPos' => own[SemList[i]] = t
<1>. DEFINE q == NextUnowned(t, p, own)
<1>1. Len(SemList) \in Nat
  BY ConstantsOK
<1>2. /\ q \in p .. Len(SemList) + 1
      /\ \A i \in p .. Len(SemList) : i < q => own[SemList[i]] = t
      /\ q <= Len(SemList) => own[SemList[q]] # t
  BY NextUnownedFacts
<1>3. /\ listPos' = IF q > Len(SemList) THEN 1 ELSE q
      /\ failedObtain' = IF q > Len(SemList) THEN 0 ELSE failed - (q - p)
      /\ alerted' \in BOOLEAN
      /\ pc' = [pc EXCEPT ![t] = IF q > Len(SemList) THEN "run" ELSE "list"]
  BY DEF WalkList
<1>. HIDE DEF q
<1>4. failedObtain' \in Int /\ listPos' \in 1 .. Len(SemList) + 1
  BY <1>1, <1>2, <1>3
<1>5. /\ pc' \in [Tasks -> {"run", "obtain", "list"}]
      /\ pc'[t] = IF q > Len(SemList) THEN "run" ELSE "list"
      /\ \A u \in Tasks \ {t} : pc'[u] = pc[u]
  BY <1>3 DEF TypeOK
<1>6. CASE q > Len(SemList)
  <2>1. \A i \in p .. Len(SemList) : own[SemList[i]] = t
    BY <1>1, <1>2, <1>6
  <2>. QED BY <1>3, <1>4, <1>5, <1>6, <2>1
<1>7. CASE ~(q > Len(SemList))
  <2>1. q \in p .. Len(SemList) /\ own[SemList[q]] # t
    BY <1>1, <1>2, <1>7
  <2>. QED BY <1>2, <1>3, <1>4, <1>5, <1>7, <2>1
<1>. QED BY <1>6, <1>7

\* The list names semaphores, each at a position of its own.
LEMMA ListPositions ==
  /\ ListSems \subseteq Sems /\ DOMAIN SemList = 1 .. Len(SemList) /\ Len(SemList) \in Nat
  /\ \A s \in ListSems : \E i \in 1 .. Len(SemList) : SemList[i] = s
  /\ \A i \in 1 .. Len(SemList) : SemList[i] \in ListSems
BY ConstantsOK DEF ListSems

\* Wait(SIGF_SINGLE) returns in ObtainSemaphoreList.
LEMMA ListWakeKeeps ==
  ASSUME IInv, NEW t \in Tasks, ListWake(t)
  PROVE  IInv'
<1>. USE DEF ListWake, semVars, msgVars, histVars
<1>1. SemTypes /\ TypeOK /\ AgentsKept /\ TaskState(t) /\ ListState(t) /\ pc[t] = "list"
  BY TypesOfSems DEF IInv, AgentsKept, Agent
<1>2. /\ listPos' \in 1 .. Len(SemList) + 1 /\ failedObtain' \in Int /\ alerted' \in BOOLEAN
      /\ pc' \in [Tasks -> {"run", "obtain", "list"}]
      /\ \A u \in Tasks \ {t} : pc'[u] = pc[u]
      /\ pc'[t] # "obtain"
      /\ pc'[t] = "run" => \A i \in listPos .. Len(SemList) : owner[SemList[i]] = t
      /\ pc'[t] = "list" =>
           /\ listPos' \in listPos .. Len(SemList) /\ owner[SemList[listPos']] # t
           /\ \A i \in listPos .. Len(SemList) : i < listPos' => owner[SemList[i]] = t
  <2>1. listPos \in 1 .. Len(SemList) + 1 /\ failedObtain \in Int
        /\ owner \in [Sems -> Tasks \cup {Null}]
    BY <1>1 DEF TypeOK
  <2>. QED BY <1>1, <2>1, WalkFacts
<1>3. TypeOK'
  BY <1>1, <1>2 DEF TypeOK
<1>4. \A s \in Sems : SemInv(s)'
  BY <1>1, UntouchedSem DEF IInv
<1>5. ASSUME NEW m \in Messages
      PROVE  BidState(m)'
  BY BidKept DEF IInv
<1>6. ASSUME NEW s \in Sems, t \in waitQueue[s]
      PROVE  /\ pc'[t] = "list"
             /\ \E i \in listPos' .. Len(SemList) : SemList[i] = s
  <2>1. PICK i \in listPos .. Len(SemList) : SemList[i] = s
    BY <1>1, <1>6 DEF ListState
  <2>2. owner[SemList[i]] # t
    BY <1>1, <1>6, <2>1 DEF ListState
  <2>3. pc'[t] = "list"
    BY <1>2, <2>2
  <2>4. ~(i < listPos') /\ i \in Int /\ listPos' \in Int
    BY <1>2, <2>2, <2>3
  <2>5. i \in listPos' .. Len(SemList)
    BY <2>4
  <2>. QED BY <2>1, <2>3, <2>5
<1>7. ASSUME NEW u \in Tasks
      PROVE  TaskState(u)'
  <2>1. CASE u = t
    BY <1>2, <1>6, <2>1 DEF TaskState
  <2>2. CASE u # t
    <3>1. TaskState(u) /\ pc'[u] = pc[u] /\ sigSingle'[u] = sigSingle[u] /\ target'[u] = target[u]
      BY <1>1, <1>2, <2>2 DEF IInv, TypeOK
    <3>. QED BY <1>1, <3>1, TaskKept
  <2>. QED BY <2>1, <2>2
<1>8. ASSUME NEW u \in Tasks
      PROVE  ListState(u)'
  <2>1. CASE u # t
    BY <1>1, <1>2, <2>1 DEF ListState
  <2>2. CASE u = t
    <3>. SUFFICES ASSUME pc'[t] = "list" PROVE ListState(t)'
      BY <2>2 DEF ListState
    <3>1. \A v \in Tasks : pc'[v] = "list" => v = t
      BY <1>1, <1>2 DEF ListState
    <3>2. listPos' \in DOMAIN SemList /\ SemList[listPos'] \in ListSems
      BY <1>2, ListPositions
    <3>3. t \in waitQueue[SemList[listPos']]
      <4>1. t \in waitQueue[SemList[listPos']] \/ t \in exclHeld[SemList[listPos']]
        BY <1>1, <3>2 DEF ListState
      <4>2. SemList[listPos'] \in Sems /\ OwnerHolds(SemList[listPos'])
        BY <3>2, ListPositions DEF IInv, SemInv
      <4>3. t \in Clients /\ Agent(t) = t
        BY DEF Clients, Agent
      <4>. QED BY <1>2, <4>1, <4>2, <4>3 DEF OwnerHolds
    <3>. QED BY <1>1, <1>6, <3>1, <3>2, <3>3 DEF ListState
  <2>. QED BY <2>1, <2>2
<1>. QED BY <1>3, <1>4, <1>5, <1>7, <1>8 DEF IInv

\* The first pass of ObtainSemaphoreList.
LEMMA ObtainSemaphoreListKeeps ==
  ASSUME IInv, ListWithBids = FALSE, NEW t \in Tasks, ObtainSemaphoreList(t)
  PROVE  IInv'
<1>. DEFINE own == [s \in Sems |-> IF s \in ListSems /\ Free(s) THEN t ELSE owner[s]]
            failed == {s \in ListSems : own[s] # t}
            got == ListSems \ failed
<1>1. SemTypes /\ TypeOK /\ AgentsKept /\ t \in Clients /\ Agent(t)' = t /\ pc[t] = "run"
  BY TypesOfSems DEF IInv, AgentsKept, Agent, Clients, ObtainSemaphoreList, msgVars
<1>2. /\ \A u \in Tasks : pc[u] # "list"
      /\ \A m \in Messages : bidder[m] = t => target[m] \notin ListSems
      /\ \A s \in ListSems : held[s][t] < MaxHold
      /\ UNCHANGED <<waitShared, msgVars, sigSingle, target>>
  BY DEF ObtainSemaphoreList
<1>3. /\ queueCount' = [s \in Sems |-> queueCount[s] + (IF s \in ListSems THEN 1 ELSE 0)]
      /\ nestCount' = [s \in Sems |-> nestCount[s] + (IF s \in got THEN 1 ELSE 0)]
      /\ owner' = own
      /\ waitQueue' = [s \in Sems |-> waitQueue[s] \cup (IF s \in failed THEN {t} ELSE {})]
      /\ before' = [s \in Sems |-> before[s] \cup (IF s \in failed THEN waitQueue[s] \X {t} ELSE {})]
      /\ held' = [s \in Sems |-> IF s \in got THEN [held[s] EXCEPT ![t] = @ + 1] ELSE held[s]]
      /\ exclHeld' = [s \in Sems |-> exclHeld[s] \cup (IF s \in got THEN {t} ELSE {})]
  BY DEF ObtainSemaphoreList
<1>4. failed \subseteq Sems /\ got \subseteq Sems /\ own \in [Sems -> Tasks \cup {Null}]
  BY <1>1, ListPositions DEF SemTypes
<1>5. /\ pc' \in [Tasks -> {"run", "obtain", "list"}]
      /\ \A u \in Tasks \ {t} : pc'[u] = pc[u]
      /\ pc'[t] # "obtain"
      /\ pc'[t] = "run" => failed = {}
      /\ pc'[t] = "list" =>
           /\ listPos' \in 1 .. Len(SemList) /\ own[SemList[listPos']] # t
           /\ \A i \in 1 .. Len(SemList) : i < listPos' => own[SemList[i]] = t
      /\ listPos' \in 1 .. Len(SemList) + 1 /\ failedObtain' \in Int /\ alerted' \in BOOLEAN
  <2>1. CASE failed = {}
    <3>1. alerted' = FALSE /\ UNCHANGED <<pc, listPos, failedObtain>>
      BY <2>1 DEF ObtainSemaphoreList
    <3>. QED BY <1>1, <2>1, <3>1 DEF TypeOK
  <2>2. CASE failed # {}
    <3>1. WalkList(t, 1, Cardinality(failed), own)
      BY <2>2 DEF ObtainSemaphoreList
    <3>2. Cardinality(failed) \in Int
      <4>1. IsFiniteSet(1 .. Len(SemList))
        BY FS_Interval, ListPositions
      <4>2. SemList \in Surjection(1 .. Len(SemList), ListSems)
        BY ConstantsOK, ListPositions DEF Surjection
      <4>3. IsFiniteSet(ListSems)
        BY <4>1, <4>2, FS_Surjection
      <4>4. failed \in SUBSET ListSems
        OBVIOUS
      <4>5. IsFiniteSet(failed)
        BY <4>3, <4>4, FS_Subset
      <4>. QED BY <4>5, FS_CardinalityType
    <3>3. 1 \in 1 .. Len(SemList) + 1
      BY ListPositions
    <3>. HIDE DEF own, failed
    <3>4. /\ listPos' \in 1 .. Len(SemList) + 1 /\ failedObtain' \in Int /\ alerted' \in BOOLEAN
          /\ pc' \in [Tasks -> {"run", "obtain", "list"}]
          /\ \A u \in Tasks \ {t} : pc'[u] = pc[u]
          /\ pc'[t] # "obtain"
          /\ pc'[t] = "run" => \A i \in 1 .. Len(SemList) : own[SemList[i]] = t
          /\ pc'[t] = "list" =>
               /\ listPos' \in 1 .. Len(SemList) /\ own[SemList[listPos']] # t
               /\ \A i \in 1 .. Len(SemList) : i < listPos' => own[SemList[i]] = t
      BY <1>1, <1>4, <3>1, <3>2, <3>3, WalkFacts
    <3>5. pc'[t] = "run" => failed = {}
      BY <3>4, ListPositions DEF failed
    <3>. QED BY <3>4, <3>5
  <2>. QED BY <2>1, <2>2
<1>6. \A s \in Sems : t \notin waitQueue[s] /\ t \notin waitShared[s]
  BY <1>1 DEF IInv, TaskState, SemInv, Ordered
<1>7. ASSUME NEW s \in Sems
      PROVE  SemInv(s)'
  <2>0. SemInv(s)
    BY DEF IInv
  <2>1. CASE s \in got
    <3>1. TakenAt(s, t, t)
      BY <1>1, <1>2, <1>3, <2>1, ConstantsOK DEF TakenAt
    <3>2. Free(s) \/ owner[s] = t
      BY <2>1
    <3>3. held[s][t] < MaxHold
      BY <1>2, <2>1
    <3>. QED BY <1>1, <2>0, <3>1, <3>2, <3>3, TakenKeeps
  <2>2. CASE s \in failed
    <3>1. own[s] = owner[s]
      BY <2>2
    <3>2. QueuedAt(s, t, FALSE)
      BY <1>1, <1>2, <1>3, <2>2, <3>1 DEF QueuedAt, SemTypes
    <3>3. ~Free(s)
      BY <1>4, <2>2
    <3>. QED BY <1>1, <1>6, <2>0, <3>2, <3>3, QueuedKeeps
  <2>3. CASE s \notin ListSems
    <3>1. s \notin got /\ s \notin failed /\ nestCount[s] \in Nat /\ queueCount[s] \in Int
      BY <1>1, <2>3 DEF SemTypes
    <3>2. nestCount'[s] = nestCount[s] /\ queueCount'[s] = queueCount[s]
      BY <1>3, <2>3, <3>1
    <3>3. owner'[s] = owner[s] /\ held'[s] = held[s]
      BY <1>3, <2>3, <3>1
    <3>4. waitQueue'[s] = waitQueue[s] /\ before'[s] = before[s] /\ exclHeld'[s] = exclHeld[s]
      BY <1>3, <3>1
    <3>5. waitShared'[s] = waitShared[s]
      BY <1>2
    <3>. QED BY <1>1, <2>0, <3>2, <3>3, <3>4, <3>5, UntouchedSem
  <2>4. s \in got \/ s \in failed \/ s \notin ListSems
    OBVIOUS
  <2>. QED BY <2>1, <2>2, <2>3, <2>4
<1>8. TypeOK'
  <2>1. queueCount' \in [Sems -> Nat \cup {-1}]
    <3>1. ASSUME NEW s \in Sems
          PROVE  queueCount[s] + (IF s \in ListSems THEN 1 ELSE 0) \in Nat \cup {-1}
      <4>1. queueCount[s] \in Nat \cup {-1}
        BY <1>1 DEF SemTypes
      <4>. QED BY <4>1
    <3>. QED BY <1>3, <3>1
  <2>6. nestCount' \in [Sems -> Nat]
    <3>1. ASSUME NEW s \in Sems
          PROVE  nestCount[s] + (IF s \in got THEN 1 ELSE 0) \in Nat
      <4>1. nestCount[s] \in Nat
        BY <1>1 DEF SemTypes
      <4>. QED BY <4>1
    <3>. QED BY <1>3, <3>1
  <2>2. owner' \in [Sems -> Tasks \cup {Null}]
    BY <1>3, <1>4
  <2>3. waitQueue' \in [Sems -> SUBSET Clients] /\ exclHeld' \in [Sems -> SUBSET Clients]
    BY <1>1, <1>3 DEF SemTypes
  <2>4. before' \in [Sems -> SUBSET (Clients \X Clients)]
    <3>1. \A s \in Sems : before[s] \cup (IF s \in failed THEN waitQueue[s] \X {t} ELSE {})
                            \in SUBSET (Clients \X Clients)
      BY <1>1 DEF SemTypes
    <3>. QED BY <1>3, <3>1
  <2>5. held' \in [Sems -> [Clients -> 0 .. MaxHold]]
    <3>1. \A s \in Sems : (IF s \in got THEN [held[s] EXCEPT ![t] = @ + 1] ELSE held[s])
                            \in [Clients -> 0 .. MaxHold]
      BY <1>1, <1>2, ConstantsOK DEF SemTypes
    <3>. QED BY <1>3, <3>1
  <2>. QED BY <1>1, <1>2, <1>5, <2>1, <2>2, <2>3, <2>4, <2>5, <2>6 DEF TypeOK, msgVars
<1>9. ASSUME NEW d \in Clients \ {t}, NEW s \in Sems
      PROVE  /\ held'[s][d] = held[s][d]
             /\ d \in waitQueue'[s] <=> d \in waitQueue[s]
  <2>1. held[s] \in [Clients -> 0 .. MaxHold]
    BY <1>1 DEF SemTypes
  <2>. QED BY <1>3, <2>1
<1>10. ASSUME NEW m \in Messages
       PROVE  BidState(m)'
  <2>1. BidState(m) /\ m \in Clients \ {t}
    BY ConstantsOK DEF IInv, Clients
  <2>. QED BY <1>1, <1>2, <1>9, <2>1, BidKept DEF msgVars
<1>11. \A s \in Sems : t \in waitQueue'[s] <=> s \in failed
  BY <1>3, <1>6
<1>12. ASSUME NEW u \in Tasks
       PROVE  TaskState(u)'
  <2>1. CASE u = t
    <3>1. \A s \in Sems : t \in waitQueue'[s] => pc'[t] = "list"
      BY <1>5, <1>8, <1>11 DEF TypeOK
    <3>. QED BY <1>5, <2>1, <3>1 DEF TaskState
  <2>2. CASE u # t
    <3>1. TaskState(u) /\ pc'[u] = pc[u] /\ u \in Clients \ {t}
      BY <1>5, <2>2 DEF IInv, Clients
    <3>2. target' = target /\ sigSingle' = sigSingle
      BY <1>2
    <3>. QED BY <1>1, <1>9, <3>1, <3>2, TaskKept
  <2>. QED BY <2>1, <2>2
<1>13. ASSUME NEW u \in Tasks
       PROVE  ListState(u)'
  <2>. SUFFICES ASSUME pc'[u] = "list" PROVE ListState(u)'
    BY DEF ListState
  <2>1. u = t /\ \A v \in Tasks : pc'[v] = "list" => v = t
    BY <1>2, <1>5
  <2>2. \A m \in Messages : bidder'[m] = t => target'[m] \notin ListSems
    BY <1>2 DEF msgVars
  <2>3. ASSUME NEW s \in Sems, t \in waitQueue'[s]
        PROVE  /\ owner'[s] # t /\ t \notin waitShared'[s]
               /\ \E i \in listPos' .. Len(SemList) : SemList[i] = s
    <3>1. s \in failed /\ own[s] # t
      BY <1>11, <2>3
    <3>2. PICK i \in 1 .. Len(SemList) : SemList[i] = s
      BY <3>1, ListPositions
    <3>3. ~(i < listPos') /\ listPos' \in Int
      BY <1>5, <2>1, <3>1, <3>2
    <3>4. i \in listPos' .. Len(SemList)
      BY <3>3
    <3>. QED BY <1>2, <1>3, <1>6, <3>1, <3>2, <3>4
  <2>4. \A s \in ListSems : t \in waitQueue'[s] \/ t \in exclHeld'[s]
    BY <1>3, <1>4, <1>11
  <2>5. listPos' \in DOMAIN SemList /\ SemList[listPos'] \in ListSems
    BY <1>5, <2>1, ListPositions
  <2>6. t \in waitQueue'[SemList[listPos']]
    BY <1>4, <1>5, <1>11, <2>1, <2>5
  <2>. QED BY <2>1, <2>2, <2>3, <2>4, <2>5, <2>6 DEF ListState
<1>. QED BY <1>7, <1>8, <1>10, <1>12, <1>13 DEF IInv

\* Every step keeps the invariant.
LEMMA NextInv ==
  ASSUME ListWithBids = FALSE
  PROVE  IInv /\ [Next]_vars => IInv'
<1>. SUFFICES ASSUME IInv, [Next]_vars PROVE IInv'
  OBVIOUS
<1>1. CASE UNCHANGED vars
  <2>. USE <1>1 DEF vars, semVars, msgVars, listVars, histVars
  <2>1. TypeOK' /\ AgentsKept
    BY DEF IInv, TypeOK, AgentsKept, Agent
  <2>2. \A s \in Sems : SemInv(s)'
    BY <2>1, UntouchedSem DEF IInv
  <2>3. \A m \in Messages : BidState(m)'
    BY DEF IInv, BidState
  <2>4. \A t \in Tasks : TaskState(t)' /\ ListState(t)'
    BY DEF IInv, TaskState, ListState
  <2>. QED BY <2>1, <2>2, <2>3, <2>4 DEF IInv
<1>2. ASSUME NEW t \in Tasks, NEW s \in Sems, NEW o \in {t, Null}, Obtain(t, s, o)
      PROVE  IInv'
  <2>1. CASE Free(s) \/ MayShare(s, t, o)
    BY <1>2, <2>1, TakeByTask DEF Obtain
  <2>2. CASE ~Free(s) /\ ~MayShare(s, t, o)
    BY <1>2, <2>2, EnqueueByTask DEF Obtain
  <2>. QED BY <2>1, <2>2
<1>3. ASSUME NEW t \in Tasks, NEW s \in Sems, NEW o \in {t, Null}, Attempt(t, s, o)
      PROVE  IInv'
  BY <1>3, TakeByTask DEF Attempt
<1>4. ASSUME NEW t \in Tasks, NEW s \in Sems, ReleaseSemaphore(t, s)
      PROVE  IInv'
  <2>1. PICK c \in Tasks : held[s][c] > 0 /\ Returned(s, c) /\ Release(s, c)
    BY <1>4 DEF ReleaseSemaphore
  <2>2. c \in Clients
    BY DEF Clients
  <2>. QED BY <1>4, <2>1, <2>2, ReleaseStep DEF ReleaseSemaphore
<1>5. ASSUME NEW t \in Tasks, NEW m \in Messages, NEW s \in Sems, NEW o \in {t, Null},
             Procure(t, m, s, o)
      PROVE  IInv'
  <2>1. CASE Free(s) \/ owner[s] = o
    <3>1. /\ pc[t] = "run" /\ target[m] = Null
          /\ target' = [target EXCEPT ![m] = s] /\ bidder' = [bidder EXCEPT ![m] = t]
          /\ UNCHANGED <<listVars, sigSingle, pc>>
      BY <1>5 DEF Procure
    <3>2. /\ Take(s, m, o) /\ ssmSemaphore' = [ssmSemaphore EXCEPT ![m] = s]
          /\ replies' = [replies EXCEPT ![m] = 1]
      BY <1>5, <2>1 DEF Procure
    <3>. QED BY <2>1, <3>1, <3>2, ProcureTake
  <2>2. CASE ~Free(s) /\ owner[s] # o
    BY <1>5, <2>2, ProcureEnqueue DEF Procure
  <2>. QED BY <2>1, <2>2
<1>6. ASSUME NEW t \in Tasks, TaskStep(t)
      PROVE  IInv'
  <2>1. CASE \E s \in Sems : SemStep(t, s)
    BY <1>2, <1>3, <1>4, <1>5, <2>1
       DEF SemStep, ObtainSemaphore, ObtainSemaphoreShared, AttemptSemaphore, AttemptSemaphoreShared
  <2>. QED BY <1>6, <2>1, ObtainWakeKeeps, ListWakeKeeps, ObtainSemaphoreListKeeps, SetSingleKeeps
           DEF TaskStep
<1>. QED BY <1>1, <1>6, VacateKeeps DEF Next
-----------------------------------------------------------------------------
(* Bids are answered once. *)

\* What BidAnsweredOnce says of one message.
Answered(m) ==
  bidder[m] # Null =>
    IF target[m] # Null /\ m \in waitQueue[target[m]]
    THEN replies[m] = 0 /\ ssmSemaphore[m] \in {bidder[m], Null}
    ELSE /\ replies[m] = 1 /\ ssmSemaphore[m] = target[m]
         /\ target[m] # Null => held[target[m]][m] = 1

\* A client that takes or queues leaves the holds and requests of the others alone.
LEMMA OthersRequests ==
  ASSUME SemTypes, NEW s \in Sems, NEW c \in Clients, NEW o, NEW shared \in BOOLEAN,
         Take(s, c, o) \/ Enqueue(s, c, shared), NEW d \in Clients \ {c}, NEW r \in Sems
  PROVE  held'[r][d] = held[r][d] /\ (d \in waitQueue'[r] <=> d \in waitQueue[r])
<1>1. CASE Take(s, c, o)
  <2>1. held' = [held EXCEPT ![s][c] = @ + 1] /\ waitQueue' = waitQueue
    BY <1>1 DEF Take
  <2>. QED BY <2>1 DEF SemTypes
<1>2. CASE Enqueue(s, c, shared)
  <2>1. waitQueue' = [waitQueue EXCEPT ![s] = @ \cup {c}] /\ held' = held
    BY <1>2 DEF Enqueue, histVars
  <2>. QED BY <2>1 DEF SemTypes
<1>. QED BY <1>1, <1>2

\* A step that leaves the message and its request alone.
LEMMA AnsweredKept ==
  ASSUME IInv, NEW m \in Messages, Answered(m), target'[m] = target[m], bidder'[m] = bidder[m],
         ssmSemaphore'[m] = ssmSemaphore[m], replies'[m] = replies[m],
         \A r \in Sems : held'[r][m] = held[r][m] /\ (m \in waitQueue'[r] <=> m \in waitQueue[r])
  PROVE  Answered(m)'
<1>1. target[m] \in Sems \cup {Null}
  BY DEF IInv, TypeOK, Clients
<1>. QED BY <1>1 DEF Answered

\* The calls of tasks do nothing to the requests of messages.
LEMMA AnsweredByTasks ==
  ASSUME IInv, NEW m \in Messages, Answered(m), NEW t \in Tasks, UNCHANGED msgVars,
         target'[m] = target[m],
         \A d \in Clients \ {t}, r \in Sems :
           held'[r][d] = held[r][d] /\ (d \in waitQueue'[r] <=> d \in waitQueue[r])
  PROVE  Answered(m)'
<1>1. m \in Clients \ {t}
  BY ConstantsOK DEF Clients
<1>. QED BY <1>1, AnsweredKept DEF msgVars

\* A release keeps what is known of bids and their answers,
LEMMA AnsweredAfterRelease ==
  ASSUME IInv, NEW m \in Messages, Answered(m), NEW s \in Sems, NEW c \in Clients,
         held[s][c] > 0, Release(s, c), bidder' = bidder,
         m = c => target[m] = s /\ target'[m] = Null, m # c => target'[m] = target[m]
  PROVE  Answered(m)'
<1>1. TypeOK /\ SemTypes /\ SemInv(s) /\ BidState(m) /\ m \in Clients /\ s # Null
  BY TypesOfSems, ConstantsOK DEF IInv, Clients
<1>2. Granted(s) \in SUBSET waitQueue[s]
  BY <1>1, GrantedFacts
<1>7. CASE m = c
  <2>1. m \notin waitQueue[s] /\ m \notin Granted(s) /\ bidder[m] # Null
    BY <1>1, <1>2, <1>7, ConstantsOK DEF BidState
  <2>2. replies[m] = 1
    BY <1>1, <1>7, <2>1 DEF Answered
  <2>3. replies'[m] = replies[m] /\ ssmSemaphore'[m] = Null
    BY <1>7, <2>1 DEF Release, NameSemaphore, ReplyMessages
  <2>. QED BY <1>7, <2>2, <2>3 DEF Answered
<1>. SUFFICES ASSUME m # c PROVE Answered(m)'
  BY <1>7
<1>3. /\ \A r \in Sems \ {s} : held'[r] = held[r] /\ waitQueue'[r] = waitQueue[r]
      /\ waitQueue'[s] = waitQueue[s] \ Granted(s)
      /\ held'[s][m] = held[s][m] + (IF m \in Granted(s) THEN 1 ELSE 0) - 0
  BY <1>1 DEF Release, Dequeue, SemTypes
<1>4. /\ ssmSemaphore'[m] = IF m \in Granted(s) THEN s ELSE ssmSemaphore[m]
      /\ replies'[m] = IF m \in Granted(s) THEN replies[m] + 1 ELSE replies[m]
  BY DEF Release, NameSemaphore, ReplyMessages
<1>5. CASE m \in Granted(s)
  <2>1. target[m] = s /\ replies[m] = 0 /\ held[s][m] = 0
    BY <1>1, <1>2, <1>5, ConstantsOK DEF BidState, Answered
  <2>. QED BY <1>1, <1>3, <1>4, <1>5, <2>1 DEF Answered
<1>6. CASE m \notin Granted(s)
  <2>1. held[s][m] \in Nat
    BY <1>1, ConstantsOK DEF SemTypes
  <2>2. \A r \in Sems : held'[r][m] = held[r][m] /\ (m \in waitQueue'[r] <=> m \in waitQueue[r])
    BY <1>3, <1>6, <2>1
  <2>. QED BY <1>4, <1>6, <2>2, AnsweredKept
<1>. QED BY <1>5, <1>6

\* and so does Procure(),
LEMMA AnsweredAfterProcure ==
  ASSUME IInv, NEW m \in Messages, Answered(m), NEW t \in Tasks, NEW n \in Messages,
         NEW s \in Sems, NEW o \in {t, Null}, Procure(t, n, s, o)
  PROVE  Answered(m)'
<1>1. SemTypes /\ TypeOK /\ n \in Clients /\ m \in Clients
  BY TypesOfSems DEF IInv, Clients
<1>2. BidMade(t, n, s)
  BY ProcureFacts DEF IInv, Procure
<1>3. \/ Take(s, n, o) /\ ssmSemaphore' = [ssmSemaphore EXCEPT ![n] = s]
         /\ replies' = [replies EXCEPT ![n] = 1]
      \/ Enqueue(s, n, o = Null) /\ ssmSemaphore' = [ssmSemaphore EXCEPT ![n] = o]
         /\ replies' = [replies EXCEPT ![n] = 0]
  BY DEF Procure
<1>4. CASE m # n
  <2>1. /\ ssmSemaphore'[m] = ssmSemaphore[m] /\ replies'[m] = replies[m]
        /\ \A r \in Sems : held'[r][m] = held[r][m] /\ (m \in waitQueue'[r] <=> m \in waitQueue[r])
    <3>1. (o = Null) \in BOOLEAN /\ m \in Clients \ {n}
      BY <1>1, <1>4
    <3>2. ssmSemaphore'[m] = ssmSemaphore[m] /\ replies'[m] = replies[m]
      BY <1>1, <1>3, <1>4 DEF TypeOK
    <3>. QED BY <1>1, <1>3, <3>1, <3>2, OthersRequests
  <2>. QED BY <1>1, <1>2, <1>4, <2>1, AnsweredKept DEF BidMade
<1>5. CASE m = n
  <2>1. CASE Take(s, n, o) /\ ssmSemaphore' = [ssmSemaphore EXCEPT ![n] = s]
             /\ replies' = [replies EXCEPT ![n] = 1]
    <3>1. waitQueue'[s] = waitQueue[s] /\ held'[s][n] = held[s][n] + 1
      BY <1>1, <2>1 DEF Take, SemTypes
    <3>2. ssmSemaphore'[n] = s /\ replies'[n] = 1
      BY <1>1, <2>1 DEF TypeOK
    <3>. QED BY <1>2, <1>5, <3>1, <3>2, ConstantsOK DEF Answered, BidMade
  <2>2. CASE Enqueue(s, n, o = Null) /\ ssmSemaphore' = [ssmSemaphore EXCEPT ![n] = o]
             /\ replies' = [replies EXCEPT ![n] = 0]
    <3>1. n \in waitQueue'[s]
      BY <1>1, <2>2 DEF Enqueue, SemTypes
    <3>2. ssmSemaphore'[n] = o /\ replies'[n] = 0
      BY <1>1, <2>2 DEF TypeOK
    <3>. QED BY <1>2, <1>5, <3>1, <3>2, ConstantsOK DEF Answered, BidMade
  <2>. QED BY <1>3, <2>1, <2>2
<1>. QED BY <1>4, <1>5

\* Vacate(),
LEMMA AnsweredAfterVacate ==
  ASSUME IInv, NEW m \in Messages, Answered(m), NEW n \in Messages, Vacate(n)
  PROVE  Answered(m)'
<1>0. PICK s \in Sems : s = target[n]
  BY DEF IInv, TypeOK, Clients, Vacate
<1>1. SemTypes /\ TypeOK /\ BidState(n) /\ n \in Clients /\ m \in Clients /\ s # Null
  BY TypesOfSems, ConstantsOK DEF IInv, Clients
<1>2. /\ target'[n] = Null /\ (m # n => target'[m] = target[m]) /\ bidder' = bidder
  BY <1>1 DEF Vacate, TypeOK
<1>3. CASE n \notin waitQueue[s]
  <2>1. held[s][n] > 0
    BY <1>0, <1>1, <1>3 DEF BidState
  <2>2. Release(s, n)
    BY <1>0, <1>3 DEF Vacate
  <2>. QED BY <1>0, <1>1, <1>2, <2>1, <2>2, AnsweredAfterRelease
<1>4. CASE n \in waitQueue[s]
  <2>1. CASE m = n
    <3>1. replies[m] = 0
      BY <1>0, <1>1, <1>4, <2>1, ConstantsOK DEF BidState, Answered
    <3>2. replies'[m] = 1 /\ ssmSemaphore'[m] = Null
      BY <1>0, <1>1, <1>4, <2>1, <3>1 DEF Vacate, AnswerWithdrawn, TypeOK
    <3>. QED BY <1>2, <2>1, <3>2 DEF Answered
  <2>2. CASE m # n
    <3>1. Dequeue(s, {n}) /\ held' = held
      BY <1>0, <1>4 DEF Vacate, histVars
    <3>2. \A r \in Sems : m \in waitQueue'[r] <=> m \in waitQueue[r]
      BY <1>1, <2>2, <3>1 DEF Dequeue, SemTypes
    <3>3. ssmSemaphore'[m] = ssmSemaphore[m] /\ replies'[m] = replies[m]
      BY <1>0, <1>1, <1>4, <2>2 DEF Vacate, AnswerWithdrawn, TypeOK
    <3>. QED BY <1>2, <2>2, <3>1, <3>2, <3>3, AnsweredKept
  <2>. QED BY <2>1, <2>2
<1>. QED BY <1>3, <1>4

\* and every step.
LEMMA AnsweredInductive ==
  ASSUME IInv, NEW m \in Messages, Answered(m), [Next]_vars
  PROVE  Answered(m)'
<1>0. SemTypes /\ TypeOK /\ m \in Clients /\ \A t \in Tasks : t \in Clients /\ t # m
  BY TypesOfSems, ConstantsOK DEF IInv, Clients
<1>1. CASE UNCHANGED vars
  BY <1>1, AnsweredKept DEF vars, semVars, msgVars, histVars
<1>2. ASSUME NEW t \in Tasks, TaskStep(t)
      PROVE  Answered(m)'
  <2>1. ASSUME NEW s \in Sems, NEW o \in {t, Null}, Obtain(t, s, o) \/ Attempt(t, s, o)
        PROVE  Answered(m)'
    <3>1. UNCHANGED msgVars /\ target'[m] = target[m]
      BY <1>0, <2>1 DEF Obtain, Attempt, TypeOK
    <3>2. Take(s, t, o) \/ Enqueue(s, t, o = Null)
      BY <2>1 DEF Obtain, Attempt
    <3>3. \A d \in Clients \ {t}, r \in Sems :
            held'[r][d] = held[r][d] /\ (d \in waitQueue'[r] <=> d \in waitQueue[r])
      <4>1. (o = Null) \in BOOLEAN
        OBVIOUS
      <4>. QED BY <1>0, <3>2, <4>1, OthersRequests
    <3>. QED BY <3>1, <3>3, AnsweredByTasks
  <2>2. ASSUME NEW s \in Sems, ReleaseSemaphore(t, s)
        PROVE  Answered(m)'
    <3>1. PICK c \in Tasks : held[s][c] > 0 /\ Release(s, c)
      BY <2>2 DEF ReleaseSemaphore
    <3>2. c \in Clients /\ c # m /\ bidder' = bidder /\ target' = target
      BY <1>0, <2>2 DEF ReleaseSemaphore
    <3>. QED BY <3>1, <3>2, AnsweredAfterRelease
  <2>3. CASE ObtainWake(t) \/ ListWake(t) \/ SetSingle(t)
    <3>1. UNCHANGED <<semVars, msgVars, histVars>> /\ target'[m] = target[m]
      BY <1>0, <2>3 DEF ObtainWake, ListWake, SetSingle, TypeOK
    <3>. QED BY <3>1, AnsweredKept DEF semVars, msgVars, histVars
  <2>4. CASE ObtainSemaphoreList(t)
    <3>1. UNCHANGED msgVars /\ target' = target
      BY <2>4 DEF ObtainSemaphoreList
    <3>2. \A d \in Clients \ {t}, r \in Sems : d \in waitQueue'[r] <=> d \in waitQueue[r]
      BY <2>4 DEF ObtainSemaphoreList
    <3>3. \A d \in Clients \ {t}, r \in Sems : held'[r][d] = held[r][d]
      BY <1>0, <2>4 DEF ObtainSemaphoreList, SemTypes
    <3>. QED BY <3>1, <3>2, <3>3, AnsweredByTasks
  <2>5. CASE \E s \in Sems : SemStep(t, s)
    BY <2>1, <2>2, <2>5, AnsweredAfterProcure
       DEF SemStep, ObtainSemaphore, ObtainSemaphoreShared, AttemptSemaphore, AttemptSemaphoreShared
  <2>. QED BY <1>2, <2>3, <2>4, <2>5 DEF TaskStep
<1>. QED BY <1>1, <1>2, AnsweredAfterVacate DEF Next
-----------------------------------------------------------------------------
(* The theorems.  They are about callers that do not bid with a message for a   *)
(* semaphore they also take by ObtainSemaphoreList; what happens to those that  *)
(* do is a finding of the model checker.                                        *)

\* The inductive invariant holds in every reachable state.
THEOREM Invariance ==
  ASSUME ListWithBids = FALSE
  PROVE  Spec => []IInv
<1>1. IInv /\ [Next]_vars => IInv'
  BY NextInv
<1>. QED BY <1>1, InitInv, PTL DEF Spec

\* Every field keeps its type: ss_NestCount never goes negative and ss_QueueCount not
\* below -1, for any callers.
THEOREM TypeCorrect ==
  ASSUME ListWithBids = FALSE
  PROVE  Spec => []TypeOK
<1>1. IInv => TypeOK
  BY DEF IInv
<1>. QED BY <1>1, Invariance, PTL

\* ss_QueueCount always agrees with the list and ss_NestCount, and ss_NestCount with
\* the grants not released.
THEOREM Counting ==
  ASSUME ListWithBids = FALSE
  PROVE  Spec => []CountsAgree
<1>1. IInv => CountsAgree
  BY DEF IInv, SemInv, CountsAgree
<1>. QED BY <1>1, Invariance, PTL

\* A semaphore granted exclusively is held for one task only.
THEOREM Exclusion ==
  ASSUME ListWithBids = FALSE
  PROVE  Spec => []MutualExclusion
<1>1. IInv => MutualExclusion
  <2>. SUFFICES ASSUME IInv, NEW s \in Sems, NEW c \in exclHeld[s], NEW d \in Clients,
                       held[s][d] > 0
                PROVE  Agent(d) = Agent(c)
    BY DEF MutualExclusion
  <2>1. OwnerHolds(s) /\ c \in Clients
    BY DEF IInv, SemInv, TypeOK
  <2>. QED BY <2>1 DEF OwnerHolds
<1>. QED BY <1>1, Invariance, PTL

\* A task that returns from the single Wait of ObtainSemaphore has the semaphore:
\* SIGF_SINGLE left over from before never ends it.
THEOREM Wakeups ==
  ASSUME ListWithBids = FALSE
  PROVE  Spec => []WakeMeansGranted
<1>1. IInv => WakeMeansGranted
  BY DEF IInv, TaskState, WakeMeansGranted
<1>. QED BY <1>1, Invariance, PTL

\* A task whose request was granted has its signal pending: nobody sleeps on for ever.
THEOREM WakeupsArrive ==
  ASSUME ListWithBids = FALSE
  PROVE  Spec => []NoLostWakeup
<1>1. IInv => NoLostWakeup
  BY DEF IInv, TaskState, ListState, NoLostWakeup
<1>. QED BY <1>1, Invariance, PTL

\* Nobody waits for a semaphore that is free, and no shared request for a shared one.
THEOREM Serving ==
  ASSUME ListWithBids = FALSE
  PROVE  Spec => []WaitersHaveHolder
<1>1. IInv => WaitersHaveHolder
  BY DEF IInv, SemInv, Served, WaitersHaveHolder
<1>. QED BY <1>1, Invariance, PTL

\* Each bid of Procure is replied exactly once, by its grant or by Vacate that takes it
\* back, and ssm_Semaphore tells a granted bid from one that waits and from one taken
\* back, whatever is granted, released and vacated meanwhile.
THEOREM BidsAnswered ==
  ASSUME ListWithBids = FALSE
  PROVE  Spec => []BidAnsweredOnce
<1>1. Init => BidAnsweredOnce
  BY DEF Init, BidAnsweredOnce
<1>2. IInv /\ BidAnsweredOnce /\ [Next]_vars => BidAnsweredOnce'
  <2>. SUFFICES ASSUME IInv, BidAnsweredOnce, [Next]_vars, NEW m \in Messages
                PROVE  Answered(m)'
    BY DEF BidAnsweredOnce, Answered
  <2>. QED BY AnsweredInductive DEF BidAnsweredOnce, Answered
<1>. QED BY <1>1, <1>2, Invariance, PTL DEF Spec

\* When ObtainSemaphoreList returns after a Wait, its caller has every semaphore of the
\* list and no request queued: SIGF_SINGLE set by a grant further down the list does
\* not make it miss one.
THEOREM ListComplete ==
  ASSUME ListWithBids = FALSE
  PROVE  Spec => ListObtainsAll
<1>1. IInv /\ [Next]_vars =>
        [\A t \in Tasks : pc[t] = "list" /\ pc'[t] = "run" =>
           \A s \in ListSems : t \in exclHeld'[s] /\ t \notin waitQueue'[s]]_vars
  <2>. SUFFICES ASSUME IInv, Next, NEW t \in Tasks, pc[t] = "list", pc'[t] = "run",
                       NEW s \in ListSems
                PROVE  t \in exclHeld'[s] /\ t \notin waitQueue'[s]
    OBVIOUS
  <2>1. TypeOK /\ ListState(t) /\ s \in Sems
    BY ListPositions DEF IInv
  <2>2. ListWake(t)
    <3>1. \A u \in Tasks : pc[u] = "list" => u = t
      BY <2>1 DEF ListState
    <3>2. ASSUME NEW u \in Tasks, TaskStep(u)
          PROVE  ListWake(t)
      <4>1. CASE ListWake(u)
        BY <3>1, <4>1 DEF ListWake
      <4>2. CASE ~ListWake(u)
        <5>1. pc[u] # "list" /\ \A v \in Tasks \ {u} : pc'[v] = pc[v]
          BY <2>1, <3>2, <4>2
             DEF TaskStep, SemStep, ObtainSemaphore, ObtainSemaphoreShared, Obtain, Attempt,
                 AttemptSemaphore, AttemptSemaphoreShared, ReleaseSemaphore, Procure,
                 ObtainWake, ObtainSemaphoreList, SetSingle, TypeOK
        <5>. QED BY <5>1
      <4>. QED BY <4>1, <4>2
    <3>3. \A m \in Messages : ~Vacate(m)
      BY DEF Vacate
    <3>. QED BY <3>2, <3>3 DEF Next
  <2>3. \A i \in listPos .. Len(SemList) : owner[SemList[i]] = t
    <3>1. /\ listPos \in 1 .. Len(SemList) + 1 /\ failedObtain \in Int
          /\ owner \in [Sems -> Tasks \cup {Null}]
      BY <2>1 DEF TypeOK
    <3>2. WalkList(t, listPos, failedObtain, owner)
      BY <2>2 DEF ListWake
    <3>. QED BY <2>1, <3>1, <3>2, WalkFacts
  <2>4. t \notin waitQueue[s]
    BY <2>1, <2>3 DEF ListState
  <2>5. t \in exclHeld[s]
    BY <2>1, <2>4 DEF ListState
  <2>. QED BY <2>2, <2>4, <2>5 DEF ListWake, semVars, histVars
<1>. QED BY <1>1, Invariance, PTL DEF Spec, ListObtainsAll
-----------------------------------------------------------------------------
(* ExecSemaphore implements RWLock: every semaphore is the abstract lock, a step of the
   system is a step of the lock or leaves it alone. *)

\* Under the mapping the lock is idle exactly when the counter says free.
LEMMA IdleIsFree ==
  ASSUME IInv, NEW s \in Sems
  PROVE  RW(s)!Idle <=> Free(s)
<1>1. SemTypes /\ SemInv(s)
  BY TypesOfSems DEF IInv
<1>2. ASSUME Free(s) PROVE RW(s)!Idle
  BY <1>1, <1>2, FreeIsIdle DEF RW!Idle
<1>3. ASSUME RW(s)!Idle PROVE Free(s)
  <2>1. held[s] \in [Clients -> 0 .. MaxHold] /\ \A c \in Clients : held[s][c] = 0
    BY <1>1, <1>3 DEF SemTypes, RW!Idle
  <2>2. nestCount[s] = 0
    BY <1>1, <2>1, NoTokens DEF SemInv
  <2>3. waitQueue[s] = {}
    BY <1>1, <2>2 DEF SemInv, Served
  <2>. QED BY <1>1, <2>2, <2>3, FS_EmptySet DEF SemInv, Free
<1>. QED BY <1>2, <1>3

\* The users for whom requests are queued at s stay the same.
AsksKept(s) == \A c \in waitQueue[s] \ waitShared[s] : Agent(c)' = Agent(c)

\* What the lock sees of s does not change.
Untouched(s) ==
  /\ owner'[s] = owner[s] /\ held'[s] = held[s] /\ exclHeld'[s] = exclHeld[s]
  /\ waitQueue'[s] = waitQueue[s] /\ waitShared'[s] = waitShared[s] /\ before'[s] = before[s]

\* Every client acts for the task it acted for,
AgentsSame == \A d \in Clients : Agent(d)' = Agent(d)

\* or one of them takes up with t,
OnlyActs(c, t) == \A d \in Clients : Agent(d)' = IF d = c THEN t ELSE Agent(d)

\* which it may do, as far as s is concerned, when it already did or is not at s.
Acting(s, c, t) ==
  Agent(c) = t \/ (c \notin Tasks /\ held[s][c] = 0 /\ c \notin waitQueue[s])

\* A task acts for itself.
LEMMA TaskActs ==
  ASSUME NEW t \in Tasks, bidder' = bidder
  PROVE  AgentsSame /\ OnlyActs(t, t) /\ \A s \in Sems : Acting(s, t, t)
BY DEF AgentsSame, OnlyActs, Acting, Agent

\* The client's part of a step of the lock.
LEMMA ClientActs ==
  ASSUME NEW s \in Sems, NEW c \in Clients, NEW t \in Tasks, OnlyActs(c, t), Acting(s, c, t)
  PROVE  RW(s)!ActsFor(c, t)
<1>1. [d \in Clients |-> Agent(d)]' = [[d \in Clients |-> Agent(d)] EXCEPT ![c] = t]
  BY DEF OnlyActs
<1>. QED BY <1>1 DEF RW!ActsFor, Acting

\* The users the clients act for stay the same.
LEMMA ActsSame ==
  ASSUME AgentsSame
  PROVE  [d \in Clients |-> Agent(d)]' = [d \in Clients |-> Agent(d)]
BY DEF AgentsSame

\* At a semaphore that is left alone nobody wants anything else.
LEMMA UntouchedAsks ==
  ASSUME NEW s \in Sems, AsksKept(s), Untouched(s)
  PROVE  [c \in Clients |-> AsksFor(s, c)]' = [c \in Clients |-> AsksFor(s, c)]
<1>1. \A c \in Clients : AsksFor(s, c)' = AsksFor(s, c)
  BY DEF AsksKept, Untouched, AsksFor
<1>. QED BY <1>1

\* A semaphore that is left alone does nothing as a lock,
LEMMA UntouchedStutters ==
  ASSUME NEW s \in Sems, AsksKept(s), Untouched(s), AgentsSame
  PROVE  UNCHANGED RW(s)!vars
BY UntouchedAsks, ActsSame DEF RW!vars, Untouched

\* or sees a client that is not there take up with another user.
LEMMA UntouchedEngages ==
  ASSUME NEW s \in Sems, AsksKept(s), Untouched(s), NEW c \in Clients, NEW t \in Tasks,
         OnlyActs(c, t), Acting(s, c, t)
  PROVE  RW(s)!Engage(c)
BY UntouchedAsks, ClientActs DEF RW!Engage, Untouched

\* A grant at once is the way in of a client that may come in.
LEMMA TakenEnters ==
  ASSUME IInv, NEW s \in Sems, AsksKept(s), NEW c \in Clients, NEW t \in Tasks,
         OnlyActs(c, t), Acting(s, c, t), NEW o \in {t, Null}, TakenAt(s, c, o),
         Free(s) \/ owner[s] = o \/ (owner[s] = t /\ c \in Tasks)
  PROVE  RW(s)!Enter(c)
<1>1. RW(s)!Idle <=> Free(s)
  BY IdleIsFree
<1>2. t # Null /\ RW(s)!ActsFor(c, t)
  BY ConstantsOK, ClientActs
<1>3. [d \in Clients |-> AsksFor(s, d)]' = [d \in Clients |-> AsksFor(s, d)]
  <2>1. \A d \in Clients : AsksFor(s, d)' = AsksFor(s, d)
    BY DEF AsksKept, TakenAt, AsksFor
  <2>. QED BY <2>1
<1>4. /\ RW(s)!MayEnter(c, t, o # Null)
      /\ owner'[s] = IF ~RW(s)!Idle THEN owner[s] ELSE IF o # Null THEN t ELSE Null
      /\ exclHeld'[s] = IF o # Null THEN exclHeld[s] \cup {c} ELSE exclHeld[s]
  BY <1>1, <1>2 DEF TakenAt, RW!MayEnter
<1>5. \E u \in Tasks, exclusive \in BOOLEAN :
        /\ RW(s)!ActsFor(c, u) /\ RW(s)!MayEnter(c, u, exclusive)
        /\ owner'[s] = IF ~RW(s)!Idle THEN owner[s] ELSE IF exclusive THEN u ELSE Null
        /\ exclHeld'[s] = IF exclusive THEN exclHeld[s] \cup {c} ELSE exclHeld[s]
  <2>1. (o # Null) \in BOOLEAN
    OBVIOUS
  <2>. QED BY <1>2, <1>4, <2>1
<1>. QED BY <1>3, <1>5 DEF RW!Enter, TakenAt

\* A request at the tail of the queue is a place in the line for one that may not.
LEMMA QueuedJoins ==
  ASSUME IInv, NEW s \in Sems, AsksKept(s), NEW c \in Clients, NEW t \in Tasks,
         OnlyActs(c, t), Acting(s, c, t), NEW o \in {t, Null}, QueuedAt(s, c, o = Null),
         ~Free(s), owner[s] # o, c \in Tasks => owner[s] # t, c \notin waitQueue[s]
  PROVE  RW(s)!Join(c)
<1>1. t # Null /\ RW(s)!ActsFor(c, t)
  BY ConstantsOK, ClientActs
<1>2. ~RW(s)!MayEnter(c, t, o # Null)
  BY <1>1, IdleIsFree DEF RW!MayEnter
<1>3. waitShared[s] \subseteq waitQueue[s]
  BY DEF IInv, SemInv, Ordered
<1>4. \A d \in Clients : AsksFor(s, d)' = IF d = c THEN o ELSE AsksFor(s, d)
  BY <1>3 DEF AsksKept, OnlyActs, QueuedAt, AsksFor
<1>5. [d \in Clients |-> AsksFor(s, d)]'
        = [[d \in Clients |-> AsksFor(s, d)] EXCEPT ![c] = IF o # Null THEN t ELSE Null]
  BY <1>4
<1>6. (o # Null) \in BOOLEAN
  OBVIOUS
<1>. QED BY <1>1, <1>2, <1>5, <1>6 DEF RW!Join, QueuedAt

\* The head of the queue asks to share when the request has the SM_SHARED bit.
LEMMA HeadAsks ==
  ASSUME IInv, NEW s \in Sems, NEW c \in waitQueue[s]
  PROVE  AsksFor(s, c) = Null <=> c \in waitShared[s]
<1>1. c \notin waitShared[s] => Agent(c) \in Tasks
  BY OwnerOfRequest
<1>. QED BY <1>1, ConstantsOK DEF AsksFor

\* A release is the client's way out, with those let in by it.
LEMMA ReleasedLeaves ==
  ASSUME IInv, NEW s \in Sems, AsksKept(s), AgentsSame, NEW c \in Clients, held[s][c] > 0,
         Release(s, c)
  PROVE  RW(s)!Leave(c)
<1>. DEFINE G == Granted(s)
            f == FirstRequest(s)
            asks == [d \in Clients |-> AsksFor(s, d)]
<1>1. SemTypes /\ TypeOK /\ SemInv(s) /\ Ordered(s)
  BY TypesOfSems DEF IInv, SemInv
<1>2. held[s] \in [Clients -> 0 .. MaxHold] /\ MaxHold \in Nat
  BY <1>1, ConstantsOK DEF SemTypes
<1>3. f = RW(s)!First
  BY DEF FirstRequest, RW!First
<1>4. RW(s)!IsLast(c) <=> LastNest(s)
  <2>1. LastNest(s) => RW(s)!IsLast(c)
    BY <1>1, HolderFacts DEF RW!IsLast
  <2>2. ASSUME RW(s)!IsLast(c) PROVE LastNest(s)
    <3>. DEFINE h == [held[s] EXCEPT ![c] = @ - 1]
    <3>1. h \in [Clients -> 0 .. MaxHold]
      BY <1>2
    <3>2. \A d \in Clients : h[d] = 0
      BY <1>2, <2>2 DEF RW!IsLast
    <3>3. Cardinality(TokenSet(h)) = 0
      BY <3>1, <3>2, NoTokens
    <3>4. nestCount[s] \in Nat /\ Cardinality(TokenSet(h)) = nestCount[s] - 1
      BY <1>1, HolderFacts DEF SemTypes
    <3>. HIDE DEF h
    <3>. QED BY <3>3, <3>4 DEF LastNest
  <2>. QED BY <2>1, <2>2
<1>5. LastNest(s) => G = RW(s)!Admitted
  <2>1. CASE waitQueue[s] = {}
    BY <2>1 DEF Granted, RW!Admitted
  <2>2. CASE waitQueue[s] # {} /\ LastNest(s)
    <3>1. G # {} /\ f \in waitQueue[s]
      BY <1>1, <2>2, GrantedFacts
    <3>2. waitShared[s] \subseteq waitQueue[s] /\ waitQueue[s] \subseteq Clients
      BY <1>1 DEF Ordered, SemTypes
    <3>3. asks[RW(s)!First] = Null <=> f \in waitShared[s]
      BY <1>3, <3>1, <3>2, HeadAsks
    <3>4. {d \in waitQueue[s] : asks[d] = Null} = waitShared[s]
      BY <3>2, HeadAsks
    <3>5. G = IF f \in waitShared[s] THEN waitShared[s] ELSE {f}
      BY <2>2, <3>1 DEF Granted
    <3>. QED BY <1>3, <2>2, <3>3, <3>4, <3>5 DEF RW!Admitted
  <2>. QED BY <2>1, <2>2
<1>6. /\ held'[s] = [d \in Clients |-> held[s][d] + (IF d \in G THEN 1 ELSE 0) - (IF d = c THEN 1 ELSE 0)]
      /\ owner'[s] = IF ~LastNest(s) THEN owner[s]
                     ELSE IF G = {} \/ GrantsShared(s) THEN Null ELSE RequestOwner(f)
      /\ waitQueue'[s] = waitQueue[s] \ G /\ waitShared'[s] = waitShared[s] \ G
      /\ before'[s] = before[s] \cap ((waitQueue[s] \ G) \X (waitQueue[s] \ G))
      /\ exclHeld'[s] = (exclHeld[s] \ (IF held[s][c] = 1 THEN {c} ELSE {}))
                          \cup (IF GrantsShared(s) THEN {} ELSE G)
  BY <1>1 DEF Release, Dequeue, SemTypes
<1>7. asks' = [d \in Clients |-> IF d \in G THEN Null ELSE asks[d]]
  <2>1. \A d \in Clients : AsksFor(s, d)' = IF d \in G THEN Null ELSE AsksFor(s, d)
    BY <1>6 DEF AsksFor, AsksKept
  <2>. QED BY <2>1
<1>0. [d \in Clients |-> Agent(d)]' = [d \in Clients |-> Agent(d)]
  BY ActsSame
<1>8. CASE ~LastNest(s)
  <2>1. G = {}
    BY <1>8 DEF Granted
  <2>2. held'[s] = [held[s] EXCEPT ![c] = @ - 1]
    BY <1>2, <1>6, <2>1
  <2>3. before[s] \subseteq waitQueue[s] \X waitQueue[s]
    BY <1>1 DEF Ordered
  <2>4. /\ owner'[s] = owner[s] /\ waitQueue'[s] = waitQueue[s] /\ before'[s] = before[s]
    BY <1>6, <1>8, <2>1, <2>3
  <2>5. asks' = asks
    BY <1>7, <2>1
  <2>6. exclHeld'[s] = IF held[s][c] = 1 THEN exclHeld[s] \ {c} ELSE exclHeld[s]
    BY <1>6, <2>1
  <2>. QED BY <1>0, <1>4, <1>8, <2>2, <2>4, <2>5, <2>6 DEF RW!Leave
<1>9. CASE LastNest(s)
  <2>1. \A d \in Clients : held[s][d] = IF d = c THEN 1 ELSE 0
    BY <1>1, <1>9, HolderFacts
  <2>2. held'[s] = [d \in Clients |-> IF d \in G THEN 1 ELSE 0]
    BY <1>6, <2>1
  <2>3. owner'[s] = IF waitQueue[s] = {} THEN Null ELSE asks[RW(s)!First]
    <3>1. CASE waitQueue[s] = {}
      <4>1. G = {}
        BY <3>1 DEF Granted
      <4>. QED BY <1>6, <1>9, <3>1, <4>1
    <3>2. CASE waitQueue[s] # {}
      <4>1. G # {} /\ f \in waitQueue[s] /\ f \in Clients
        BY <1>1, <1>9, <3>2, GrantedFacts DEF SemTypes
      <4>2. f \in waitShared[s] => AsksFor(s, f) = Null
        BY <4>1, HeadAsks
      <4>3. f \notin waitShared[s] => AsksFor(s, f) = RequestOwner(f)
        BY <4>1, OwnerOfRequest DEF AsksFor
      <4>4. GrantsShared(s) <=> f \in waitShared[s]
        BY <3>2 DEF GrantsShared
      <4>. QED BY <1>3, <1>6, <1>9, <3>2, <4>1, <4>2, <4>3, <4>4
    <3>. QED BY <3>1, <3>2
  <2>4. G = RW(s)!Admitted
    BY <1>5, <1>9
  <2>6. exclHeld'[s] = {d \in G : asks[d] # Null}
    <3>1. exclHeld[s] \subseteq {c} /\ held[s][c] = 1
      BY <1>1, <2>1 DEF SemInv, OwnerHolds, SemTypes
    <3>2. G \subseteq waitQueue[s] /\ waitQueue[s] \subseteq Clients
      BY <1>1, GrantedFacts DEF SemTypes
    <3>3. \A d \in G : asks[d] = Null <=> d \in waitShared[s]
      BY <3>2, HeadAsks
    <3>4. GrantsShared(s) /\ G # {} => G = waitShared[s]
      BY <1>1, GrantedFacts
    <3>5. ~GrantsShared(s) /\ G # {} => G \cap waitShared[s] = {}
      BY <1>1, GrantedFacts
    <3>. QED BY <1>6, <3>1, <3>3, <3>4, <3>5
  <2>. HIDE DEF G
  <2>5. RW(s)!OutOfLine(RW(s)!Admitted)
    BY <1>6, <1>7, <2>4 DEF RW!OutOfLine
  <2>. QED BY <1>0, <1>4, <1>9, <2>2, <2>3, <2>4, <2>5, <2>6 DEF RW!Leave
<1>. QED BY <1>8, <1>9

\* A bid taken back is a client that no longer waits.
LEMMA DequeuedWithdraws ==
  ASSUME IInv, NEW s \in Sems, AsksKept(s), AgentsSame, NEW c \in waitQueue[s], Dequeue(s, {c}),
         owner' = owner, held' = held, exclHeld' = exclHeld
  PROVE  RW(s)!Withdraw(c)
<1>1. SemTypes /\ Ordered(s)
  BY TypesOfSems DEF IInv, SemInv
<1>2. /\ waitQueue'[s] = waitQueue[s] \ {c} /\ waitShared'[s] = waitShared[s] \ {c}
      /\ before'[s] = before[s] \cap ((waitQueue[s] \ {c}) \X (waitQueue[s] \ {c}))
  BY <1>1 DEF Dequeue, SemTypes
<1>3. \A d \in Clients : AsksFor(s, d)' = IF d \in {c} THEN Null ELSE AsksFor(s, d)
  BY <1>2 DEF AsksFor, AsksKept
<1>4. [d \in Clients |-> AsksFor(s, d)]'
        = [d \in Clients |-> IF d \in {c} THEN Null ELSE [e \in Clients |-> AsksFor(s, e)][d]]
  BY <1>3
<1>. QED BY <1>2, <1>4, ActsSame DEF RW!Withdraw, RW!OutOfLine
-----------------------------------------------------------------------------
\* What one step is to one lock.
LockStep(s) == [RW(s)!Next]_(RW(s)!vars)

\* An action on one semaphore leaves the locks of the others alone,
LEMMA OtherLocks ==
  ASSUME NEW s \in Sems, OthersUntouched(s), AgentsSame, \A r \in Sems : AsksKept(r), LockStep(s)
  PROVE  \A r \in Sems : LockStep(r)
<1>1. ASSUME NEW r \in Sems, r # s
      PROVE  LockStep(r)
  <2>1. Untouched(r)
    BY <1>1 DEF OthersUntouched, Untouched
  <2>. QED BY <2>1, UntouchedStutters DEF LockStep
<1>. QED BY <1>1

\* where a message newly bid takes up with its task.
LEMMA OtherLocksEngage ==
  ASSUME NEW s \in Sems, OthersUntouched(s), LockStep(s), NEW c \in Clients, NEW t \in Tasks,
         OnlyActs(c, t), \A r \in Sems : Acting(r, c, t) /\ AsksKept(r)
  PROVE  \A r \in Sems : LockStep(r)
<1>1. ASSUME NEW r \in Sems, r # s
      PROVE  LockStep(r)
  <2>1. Untouched(r)
    BY <1>1 DEF OthersUntouched, Untouched
  <2>2. RW(r)!Engage(c)
    BY <2>1, UntouchedEngages
  <2>. QED BY <2>2 DEF LockStep, RW!Next
<1>. QED BY <1>1

\* An action on none leaves all alone.
LEMMA NoLock ==
  ASSUME UNCHANGED semVars, UNCHANGED histVars, bidder' = bidder
  PROVE  \A r \in Sems : LockStep(r)
<1>1. AgentsSame /\ \A r \in Sems : AsksKept(r) /\ Untouched(r)
  BY DEF AgentsSame, AsksKept, Untouched, semVars, histVars, Agent
<1>. QED BY <1>1, UntouchedStutters DEF LockStep

\* Each call is a step of the lock, or nothing: an obtain,
LEMMA ObtainRefines ==
  ASSUME IInv, NEW t \in Tasks, NEW s \in Sems, NEW o \in {t, Null},
         Obtain(t, s, o) \/ Attempt(t, s, o)
  PROVE  \A r \in Sems : LockStep(r)
<1>1. SemTypes /\ t \in Clients /\ o \in Tasks \cup {Null} /\ pc[t] = "run" /\ bidder' = bidder
  BY TypesOfSems DEF IInv, Clients, Obtain, Attempt, msgVars
<1>2. /\ \A r \in Sems : AsksKept(r) /\ Acting(r, t, t)
      /\ AgentsSame /\ OnlyActs(t, t)
  BY <1>1, TaskActs DEF AsksKept, Agent
<1>3. CASE (Free(s) \/ MayShare(s, t, o)) /\ Take(s, t, o)
  <2>1. TakenAt(s, t, o)
    BY <1>1, <1>3 DEF Take, TakenAt, SemTypes
  <2>2. RW(s)!Enter(t)
    BY <1>1, <1>2, <1>3, <2>1, TakenEnters DEF MayShare
  <2>3. LockStep(s)
    BY <1>1, <2>2 DEF LockStep, RW!Next
  <2>. QED BY <1>1, <1>2, <1>3, <2>3, OneSemTouched, OtherLocks
<1>4. CASE ~Free(s) /\ ~MayShare(s, t, o) /\ Enqueue(s, t, o = Null)
  <2>1. QueuedAt(s, t, o = Null)
    BY <1>1, <1>4 DEF Enqueue, QueuedAt, SemTypes, histVars
  <2>2. t \notin waitQueue[s]
    BY <1>1 DEF IInv, TaskState
  <2>3. owner[s] # o /\ owner[s] # t
    BY <1>4 DEF MayShare
  <2>4. RW(s)!Join(t)
    BY <1>1, <1>2, <1>4, <2>1, <2>2, <2>3, QueuedJoins
  <2>5. LockStep(s)
    BY <1>1, <2>4 DEF LockStep, RW!Next
  <2>6. (o = Null) \in BOOLEAN
    OBVIOUS
  <2>. QED BY <1>1, <1>2, <1>4, <2>5, <2>6, OneSemTouched, OtherLocks
<1>. QED BY <1>3, <1>4 DEF Obtain, Attempt

\* a release,
LEMMA ReleaseRefines ==
  ASSUME IInv, NEW s \in Sems, NEW c \in Clients, held[s][c] > 0, Release(s, c), bidder' = bidder
  PROVE  \A r \in Sems : LockStep(r)
<1>1. SemTypes /\ AgentsSame /\ \A r \in Sems : AsksKept(r)
  BY TypesOfSems DEF IInv, AgentsSame, AsksKept, Agent
<1>2. RW(s)!Leave(c)
  BY <1>1, ReleasedLeaves
<1>3. LockStep(s)
  BY <1>2 DEF LockStep, RW!Next
<1>. QED BY <1>1, <1>3, OneSemTouched, OtherLocks

\* a bid,
LEMMA ProcureRefines ==
  ASSUME IInv, NEW t \in Tasks, NEW m \in Messages, NEW s \in Sems, NEW o \in {t, Null},
         Procure(t, m, s, o)
  PROVE  \A r \in Sems : LockStep(r)
<1>1. SemTypes /\ m \in Clients /\ m \notin Tasks /\ o \in Tasks \cup {Null}
  BY TypesOfSems, ConstantsOK DEF IInv, Clients
<1>2. BidMade(t, m, s)
  BY ProcureFacts DEF IInv, Procure
<1>3. \A r \in Sems : AsksKept(r)
  BY <1>2 DEF BidMade, AsksKept, Agent, IInv, SemInv, Ordered, TypeOK, Clients
<1>4. OnlyActs(m, t) /\ \A r \in Sems : Acting(r, m, t)
  BY <1>1, <1>2 DEF BidMade, Agent, OnlyActs, Acting, Clients
<1>5. CASE (Free(s) \/ owner[s] = o) /\ Take(s, m, o)
  <2>1. TakenAt(s, m, o)
    BY <1>1, <1>5 DEF Take, TakenAt, SemTypes
  <2>2. RW(s)!Enter(m)
    BY <1>1, <1>3, <1>4, <1>5, <2>1, TakenEnters
  <2>3. LockStep(s)
    BY <1>1, <2>2 DEF LockStep, RW!Next
  <2>. QED BY <1>1, <1>3, <1>4, <1>5, <2>3, OneSemTouched, OtherLocksEngage
<1>6. CASE ~Free(s) /\ owner[s] # o /\ Enqueue(s, m, o = Null)
  <2>1. QueuedAt(s, m, o = Null)
    BY <1>1, <1>6 DEF Enqueue, QueuedAt, SemTypes, histVars
  <2>2. RW(s)!Join(m)
    BY <1>1, <1>2, <1>3, <1>4, <1>6, <2>1, QueuedJoins DEF BidMade
  <2>3. LockStep(s)
    BY <1>1, <2>2 DEF LockStep, RW!Next
  <2>4. (o = Null) \in BOOLEAN
    OBVIOUS
  <2>. QED BY <1>1, <1>3, <1>4, <1>6, <2>3, <2>4, OneSemTouched, OtherLocksEngage
<1>. QED BY <1>5, <1>6 DEF Procure

\* and its withdrawal.
LEMMA VacateRefines ==
  ASSUME IInv, NEW m \in Messages, Vacate(m)
  PROVE  \A r \in Sems : LockStep(r)
<1>0. PICK s \in Sems : s = target[m]
  BY DEF IInv, TypeOK, Clients, Vacate
<1>1. SemTypes /\ m \in Clients /\ bidder' = bidder
  BY TypesOfSems DEF IInv, Clients, Vacate
<1>2. AgentsSame /\ \A r \in Sems : AsksKept(r)
  BY <1>1 DEF AgentsSame, AsksKept, Agent
<1>3. CASE m \in waitQueue[s]
  <2>1. /\ Dequeue(s, {m}) /\ queueCount' = [queueCount EXCEPT ![s] = @ - 1]
        /\ UNCHANGED <<nestCount, owner, histVars>>
    BY <1>0, <1>3 DEF Vacate
  <2>2. RW(s)!Withdraw(m)
    BY <1>1, <1>2, <1>3, <2>1, DequeuedWithdraws DEF histVars
  <2>3. LockStep(s)
    BY <1>1, <2>2 DEF LockStep, RW!Next
  <2>4. {m} \in SUBSET Clients
    BY <1>1
  <2>5. OthersUntouched(s)
    BY <1>1, <2>1, <2>4, OneSemTouched
  <2>. QED BY <1>1, <1>2, <2>3, <2>5, OtherLocks
<1>4. CASE m \notin waitQueue[s]
  <2>1. held[s][m] > 0
    BY <1>0, <1>4, ConstantsOK DEF IInv, BidState
  <2>2. Release(s, m)
    BY <1>0, <1>4 DEF Vacate
  <2>. QED BY <1>1, <2>1, <2>2, ReleaseRefines
<1>. QED BY <1>3, <1>4

\* The list call is a way in, a place in the line or nothing at each of the locks.
LEMMA ListRefines ==
  ASSUME IInv, NEW t \in Tasks, ObtainSemaphoreList(t)
  PROVE  \A r \in Sems : LockStep(r)
<1>. DEFINE own == [s \in Sems |-> IF s \in ListSems /\ Free(s) THEN t ELSE owner[s]]
            failed == {s \in ListSems : own[s] # t}
            got == ListSems \ failed
<1>1. SemTypes /\ t \in Clients /\ t # Null /\ pc[t] = "run"
  BY TypesOfSems, ConstantsOK DEF IInv, Clients, ObtainSemaphoreList
<1>2. /\ queueCount' = [s \in Sems |-> queueCount[s] + (IF s \in ListSems THEN 1 ELSE 0)]
      /\ nestCount' = [s \in Sems |-> nestCount[s] + (IF s \in got THEN 1 ELSE 0)]
      /\ owner' = own
      /\ waitQueue' = [s \in Sems |-> waitQueue[s] \cup (IF s \in failed THEN {t} ELSE {})]
      /\ before' = [s \in Sems |-> before[s] \cup (IF s \in failed THEN waitQueue[s] \X {t} ELSE {})]
      /\ held' = [s \in Sems |-> IF s \in got THEN [held[s] EXCEPT ![t] = @ + 1] ELSE held[s]]
      /\ exclHeld' = [s \in Sems |-> exclHeld[s] \cup (IF s \in got THEN {t} ELSE {})]
      /\ waitShared' = waitShared /\ bidder' = bidder
  BY DEF ObtainSemaphoreList, msgVars
<1>. SUFFICES ASSUME NEW s \in Sems PROVE LockStep(s)
  OBVIOUS
<1>3. AsksKept(s) /\ AgentsSame /\ OnlyActs(t, t) /\ Acting(s, t, t)
  BY <1>2, TaskActs DEF AsksKept, Agent
<1>4. CASE s \in got
  <2>1. TakenAt(s, t, t)
    BY <1>1, <1>2, <1>4 DEF TakenAt, SemTypes
  <2>2. Free(s) \/ owner[s] = t
    BY <1>4
  <2>3. RW(s)!Enter(t)
    BY <1>1, <1>3, <2>1, <2>2, TakenEnters
  <2>. QED BY <1>1, <2>3 DEF LockStep, RW!Next
<1>5. CASE s \in failed
  <2>1. own[s] = owner[s] /\ ~Free(s) /\ owner[s] # t
    BY <1>5
  <2>2. QueuedAt(s, t, FALSE)
    BY <1>1, <1>2, <1>5, <2>1 DEF QueuedAt, SemTypes
  <2>3. QueuedAt(s, t, t = Null)
    BY <1>1, <2>2
  <2>4. t \notin waitQueue[s]
    BY <1>1 DEF IInv, TaskState
  <2>5. RW(s)!Join(t)
    BY <1>1, <1>3, <2>1, <2>3, <2>4, QueuedJoins
  <2>. QED BY <1>1, <2>5 DEF LockStep, RW!Next
<1>6. CASE s \notin ListSems
  <2>1. Untouched(s)
    BY <1>1, <1>2, <1>6 DEF Untouched, SemTypes
  <2>. QED BY <1>3, <2>1, UntouchedStutters DEF LockStep
<1>. QED BY <1>4, <1>5, <1>6

\* The semaphore begins as the lock does,
LEMMA InitRefines ==
  ASSUME Init, NEW s \in Sems
  PROVE  RW(s)!Init
<1>1. \A c \in Clients : AsksFor(s, c) = Null
  BY DEF Init, AsksFor
<1>2. [c \in Clients |-> AsksFor(s, c)] = [c \in Clients |-> Null]
  BY <1>1
<1>3. \A c \in Clients : Agent(c) = IF c \in Tasks THEN c ELSE Null
  BY DEF Init, Agent, Clients
<1>4. [c \in Clients |-> Agent(c)] = [c \in Clients |-> IF c \in Tasks THEN c ELSE Null]
  BY <1>3
<1>. QED BY <1>2, <1>4 DEF Init, RW!Init

\* and each of its steps is one of the lock.
LEMMA NextRefines ==
  ASSUME IInv, [Next]_vars
  PROVE  \A r \in Sems : LockStep(r)
<1>1. CASE UNCHANGED vars
  BY <1>1, NoLock DEF vars, msgVars
<1>2. ASSUME NEW t \in Tasks, TaskStep(t)
      PROVE  \A r \in Sems : LockStep(r)
  <2>1. CASE \E s \in Sems : SemStep(t, s)
    <3>1. PICK s \in Sems : SemStep(t, s)
      BY <2>1
    <3>2. CASE ReleaseSemaphore(t, s)
      BY <3>2, ReleaseRefines DEF ReleaseSemaphore, Clients
    <3>. QED BY <3>1, <3>2, ObtainRefines, ProcureRefines
         DEF SemStep, ObtainSemaphore, ObtainSemaphoreShared, AttemptSemaphore, AttemptSemaphoreShared
  <2>2. CASE ObtainWake(t) \/ ListWake(t) \/ SetSingle(t)
    BY <2>2, NoLock DEF ObtainWake, ListWake, SetSingle, msgVars
  <2>. QED BY <1>2, <2>1, <2>2, ListRefines DEF TaskStep
<1>. QED BY <1>1, <1>2, VacateRefines DEF Next

\* Every semaphore implements the abstract readers-writers lock, for any tasks,
\* messages, semaphores and lists: the initial states are the lock's, and each step of
\* the system is one step of each lock or leaves it alone.
THEOREM Refinement ==
  ASSUME ListWithBids = FALSE
  PROVE  Spec => ImplementsRWLock
<1>1. Init => \A s \in Sems : RW(s)!Init
  BY InitRefines
<1>2. IInv /\ [Next]_vars => [\A s \in Sems : [RW(s)!Next]_(RW(s)!vars)]_vars
  BY NextRefines DEF LockStep
<1>. QED BY <1>1, <1>2, Invariance, PTL DEF Spec, ImplementsRWLock
=============================================================================
