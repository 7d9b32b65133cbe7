--------------------------- MODULE ExecSemaphore ---------------------------
(***************************************************************************)
(* The signal semaphores of exec.library (rom/exec/semaphores.c and the    *)
(* calls built on it), non-SMP build.                                      *)
(*                                                                         *)
(* Every call runs between Forbid() and Permit(), so it is one step here,  *)
(* except where it calls Wait(SIGF_SINGLE), which breaks the Forbid(): the *)
(* return from that Wait is a step of its own.                             *)
(*                                                                         *)
(* ss_WaitQueue is a list of requests, each made by a task (its            *)
(* SemaphoreRequest) or a message (a SemaphoreMessage bid by Procure), at  *)
(* most one per client.  It is kept as the set of the clients in it        *)
(* (waitQueue), those of them whose request has the SM_SHARED bit          *)
(* (waitShared) and the order of the list (before: <<c, d>> when c is in   *)
(* front of d).                                                            *)
(***************************************************************************)
EXTENDS Integers, Sequences, FiniteSets

CONSTANTS Tasks,      \* the tasks that use the semaphores
          Messages,   \* the SemaphoreMessages they bid with
          Sems,       \* the semaphores
          SemList,    \* the list given to ObtainSemaphoreList: a sequence of Sems
          Null,       \* the NULL pointer
          MaxHold,    \* bound: how deep one client nests one semaphore
          Simple,     \* bound: the semaphores nobody nests or bids for
          ListWithBids \* may a task list-obtain what it also bids for by message?

Clients == Tasks \cup Messages

ASSUME ConstantsOK ==
  /\ IsFiniteSet(Tasks) /\ IsFiniteSet(Messages)
  /\ Tasks \cap Messages = {} /\ Tasks \cap Sems = {}
  /\ Null \notin Tasks \cup Messages \cup Sems
  /\ SemList \in Seq(Sems)
  /\ \A i, j \in DOMAIN SemList : SemList[i] = SemList[j] => i = j
  /\ MaxHold \in Nat \ {0} /\ Simple \subseteq Sems
  /\ ListWithBids \in BOOLEAN

VARIABLES
  nestCount,    \* ss_NestCount
  queueCount,   \* ss_QueueCount, -1 when free
  owner,        \* ss_Owner, NULL when free or shared
  waitQueue, waitShared, before,   \* ss_WaitQueue
  sigSingle,    \* SIGF_SINGLE in each task's tc_SigRecvd
  ssmSemaphore, \* ssm_Semaphore of each message: a task, a semaphore or NULL
  replies,      \* how often a message was replied since it was last bid
  pc,           \* where each task is
  target,       \* the semaphore a task in ObtainSemaphore, or a message, bid for
  listPos, failedObtain,  \* locals of the one ObtainSemaphoreList in progress
  alerted,      \* the last Alert() of ObtainSemaphoreList
  held,         \* history: grants of each semaphore not yet released, by client
  exclHeld,     \* history: clients granted exclusive use and still holding
  bidder        \* history: the task that bid with each message

semVars  == <<nestCount, queueCount, owner, waitQueue, waitShared, before>>
msgVars  == <<ssmSemaphore, replies, bidder>>
listVars == <<listPos, failedObtain, alerted>>
histVars == <<held, exclHeld>>
vars == <<semVars, msgVars, listVars, histVars, sigSingle, pc, target>>

\* The task on whose behalf a client holds a semaphore.
Agent(c) == IF c \in Tasks THEN c ELSE bidder[c]

ListSems == {SemList[i] : i \in DOMAIN SemList}

TypeOK ==
  /\ nestCount \in [Sems -> Nat]
  /\ queueCount \in [Sems -> Nat \cup {-1}]
  /\ owner \in [Sems -> Tasks \cup {Null}]
  /\ waitQueue \in [Sems -> SUBSET Clients]
  /\ waitShared \in [Sems -> SUBSET Clients]
  /\ before \in [Sems -> SUBSET (Clients \X Clients)]
  /\ sigSingle \in [Tasks -> BOOLEAN]
  /\ ssmSemaphore \in [Messages -> Tasks \cup Sems \cup {Null}]
  /\ replies \in [Messages -> Nat]
  /\ pc \in [Tasks -> {"run", "obtain", "list"}]
  /\ target \in [Clients -> Sems \cup {Null}]
  /\ listPos \in 1 .. Len(SemList) + 1
  /\ failedObtain \in Int
  /\ alerted \in BOOLEAN
  /\ held \in [Sems -> [Clients -> 0 .. MaxHold]]
  /\ exclHeld \in [Sems -> SUBSET Clients]
  /\ bidder \in [Messages -> Tasks \cup {Null}]

-----------------------------------------------------------------------------
\* InitSemaphore on every semaphore; no call is in progress.
Init ==
  /\ nestCount = [s \in Sems |-> 0]
  /\ queueCount = [s \in Sems |-> -1]
  /\ owner = [s \in Sems |-> Null]
  /\ waitQueue = [s \in Sems |-> {}]
  /\ waitShared = [s \in Sems |-> {}]
  /\ before = [s \in Sems |-> {}]
  /\ sigSingle = [t \in Tasks |-> FALSE]
  /\ ssmSemaphore = [m \in Messages |-> Null]
  /\ replies = [m \in Messages |-> 0]
  /\ pc = [t \in Tasks |-> "run"]
  /\ target = [c \in Clients |-> Null]
  /\ listPos = 1
  /\ failedObtain = 0
  /\ alerted = FALSE
  /\ held = [s \in Sems |-> [c \in Clients |-> 0]]
  /\ exclHeld = [s \in Sems |-> {}]
  /\ bidder = [m \in Messages |-> Null]

\* The caller asks for the semaphore on behalf of o: itself, or NULL when shared.
\* After ss_QueueCount++ the count is 0 exactly when the semaphore was free.
Free(s) == queueCount[s] + 1 = 0

\* Mutant: an exclusive request joins shared holders.
MayJoinShared(s, t, o) == owner[s] = t \/ owner[s] = Null

\* Mutant: whoever owns it is taken for the caller.
MayShareOwned(s, t, o) == owner[s] # Null \/ owner[s] = o

MayShare(s, t, o) == owner[s] = t \/ owner[s] = o

\* Mutant: the nested grant to the owner is not counted.
TakeUncounted(s, c, o) ==
  /\ queueCount' = [queueCount EXCEPT ![s] = @ + 1]
  /\ nestCount' = IF Free(s) THEN [nestCount EXCEPT ![s] = @ + 1] ELSE nestCount
  /\ owner' = IF Free(s) THEN [owner EXCEPT ![s] = o] ELSE owner
  /\ held' = [held EXCEPT ![s][c] = @ + 1]
  /\ exclHeld' = IF o # Null THEN [exclHeld EXCEPT ![s] = @ \cup {c}] ELSE exclHeld
  /\ UNCHANGED <<waitQueue, waitShared, before>>

\* Client c gets s at once, for o.
Take(s, c, o) ==
  /\ queueCount' = [queueCount EXCEPT ![s] = @ + 1]
  /\ nestCount' = [nestCount EXCEPT ![s] = @ + 1]
  /\ owner' = IF Free(s) THEN [owner EXCEPT ![s] = o] ELSE owner
  /\ held' = [held EXCEPT ![s][c] = @ + 1]
  /\ exclHeld' = IF o # Null THEN [exclHeld EXCEPT ![s] = @ \cup {c}] ELSE exclHeld
  /\ UNCHANGED <<waitQueue, waitShared, before>>

\* Client c's request is added to the tail of the queue of s.
Enqueue(s, c, shared) ==
  /\ queueCount' = [queueCount EXCEPT ![s] = @ + 1]
  /\ waitQueue' = [waitQueue EXCEPT ![s] = @ \cup {c}]
  /\ waitShared' = IF shared THEN [waitShared EXCEPT ![s] = @ \cup {c}] ELSE waitShared
  /\ before' = [before EXCEPT ![s] = @ \cup (waitQueue[s] \X {c})]
  /\ UNCHANGED <<nestCount, owner, histVars>>

\* Mutant: a signal left over from earlier stays pending.
KeepSingle(t) == UNCHANGED sigSingle

ClearSingle(t) == sigSingle' = [sigSingle EXCEPT ![t] = FALSE]

SimpleUse(s, t) == s \in Simple => held[s][t] = 0

\* InternalObtainSemaphore for a live task: o is t (exclusive) or NULL (shared).
Obtain(t, s, o) ==
  /\ pc[t] = "run"
  /\ held[s][t] < MaxHold /\ SimpleUse(s, t)
  /\ \/ /\ Free(s) \/ MayShare(s, t, o)
        /\ Take(s, t, o)
        /\ UNCHANGED <<sigSingle, pc, target>>
     \/ /\ ~Free(s) /\ ~MayShare(s, t, o)
        /\ ClearSingle(t)
        /\ Enqueue(s, t, o = Null)
        /\ pc' = [pc EXCEPT ![t] = "obtain"]
        /\ target' = [target EXCEPT ![t] = s]
  /\ UNCHANGED <<msgVars, listVars>>

ObtainSemaphore(t, s) == Obtain(t, s, t)
ObtainSemaphoreShared(t, s) == Obtain(t, s, Null)

\* Wait(SIGF_SINGLE) in InternalObtainSemaphore returns: the call ends.
ObtainWake(t) ==
  /\ pc[t] = "obtain"
  /\ sigSingle[t]
  /\ sigSingle' = [sigSingle EXCEPT ![t] = FALSE]
  /\ pc' = [pc EXCEPT ![t] = "run"]
  /\ target' = [target EXCEPT ![t] = Null]
  /\ UNCHANGED <<semVars, msgVars, listVars, histVars>>

\* InternalAttemptSemaphore: takes the semaphore or leaves everything alone.
Attempt(t, s, o) ==
  /\ pc[t] = "run"
  /\ held[s][t] < MaxHold /\ SimpleUse(s, t)
  /\ Free(s) \/ MayShare(s, t, o)
  /\ Take(s, t, o)
  /\ UNCHANGED <<msgVars, listVars, sigSingle, pc, target>>
AttemptSemaphore(t, s) == Attempt(t, s, t)
AttemptSemaphoreShared(t, s) == Attempt(t, s, Null)

-----------------------------------------------------------------------------
\* The client whose request is the head of the list.
FirstRequest(s) == CHOOSE c \in waitQueue[s] : \A d \in waitQueue[s] : <<d, c>> \notin before[s]

\* Releasing s hands it over when it drops the last nesting.
LastNest(s) == nestCount[s] - 1 = 0

\* Who is granted s then: every shared request of the queue when the head is
\* shared, else the head alone; nobody when nothing waits.
GrantsShared(s) == waitQueue[s] # {} /\ FirstRequest(s) \in waitShared[s]

\* Mutant: a shared head is granted alone.
GrantedHeadOnly(s) ==
  IF ~LastNest(s) \/ ~(queueCount[s] - 1 >= 0) \/ waitQueue[s] = {} THEN {}
  ELSE {FirstRequest(s)}

Granted(s) ==
  IF ~LastNest(s) \/ ~(queueCount[s] - 1 >= 0) \/ waitQueue[s] = {} THEN {}
  ELSE IF FirstRequest(s) \in waitShared[s] THEN waitShared[s] ELSE {FirstRequest(s)}

\* Mutant: the message is not told from a task.
RequestItself(c) == c

\* The owner a granted exclusive request names: the task that waits, or the one
\* its message keeps in ssm_Semaphore while it is queued.
RequestOwner(c) == IF c \in Tasks THEN c ELSE ssmSemaphore[c]

\* The clients C leave the queue of s.
Dequeue(s, C) ==
  /\ waitQueue' = [waitQueue EXCEPT ![s] = @ \ C]
  /\ waitShared' = [waitShared EXCEPT ![s] = @ \ C]
  /\ before' = [before EXCEPT ![s] = @ \cap ((waitQueue[s] \ C) \X (waitQueue[s] \ C))]

\* Mutant: only an exclusive waiter is signalled.
SignalExclusive(C) ==
  sigSingle' = [t \in Tasks |-> sigSingle[t] \/ C = {t}]

\* Signal(SIGF_SINGLE) to the tasks granted, ReplyMsg of the messages granted.
SignalTasks(C) == sigSingle' = [t \in Tasks |-> sigSingle[t] \/ t \in C]
ReplyMessages(C) ==
  replies' = [m \in Messages |-> IF m \in C THEN replies[m] + 1 ELSE replies[m]]

\* Granted messages learn their semaphore; c, when Vacate gives it up, has none.
NameSemaphore(s, C, c) ==
  ssmSemaphore' = [m \in Messages |->
                     IF m \in C THEN s ELSE IF m = c THEN Null ELSE ssmSemaphore[m]]

\* ReleaseSemaphore of s, giving up a hold of client c.  The messages granted are
\* told which semaphore they got and replied, the tasks granted are signalled.
Release(s, c) ==
  /\ nestCount' = [nestCount EXCEPT ![s] = @ - 1 + Cardinality(Granted(s))]
  /\ queueCount' = IF LastNest(s) /\ Granted(s) = {}
                   THEN [queueCount EXCEPT ![s] = -1]
                   ELSE [queueCount EXCEPT ![s] = @ - 1]
  /\ owner' = IF ~LastNest(s) THEN owner
              ELSE IF Granted(s) = {} \/ GrantsShared(s) THEN [owner EXCEPT ![s] = Null]
              ELSE [owner EXCEPT ![s] = RequestOwner(FirstRequest(s))]
  /\ Dequeue(s, Granted(s))
  /\ SignalTasks(Granted(s))
  /\ NameSemaphore(s, Granted(s), c)
  /\ ReplyMessages(Granted(s))
  /\ held' = [held EXCEPT ![s] = [d \in Clients |->
                 @[d] + (IF d \in Granted(s) THEN 1 ELSE 0) - (IF d = c THEN 1 ELSE 0)]]
  /\ exclHeld' = [exclHeld EXCEPT ![s] =
                    (@ \ (IF held[s][c] = 1 THEN {c} ELSE {}))
                      \cup (IF GrantsShared(s) THEN {} ELSE Granted(s))]

\* The holds that the calls of task c have returned with: c is in no call that may
\* have been granted s and not returned yet.
Returned(s, c) ==
  \/ pc[c] = "run" \/ c \in waitQueue[s]
  \/ pc[c] = "obtain" /\ target[c] # s
  \/ pc[c] = "list" /\ s \notin ListSems

\* What a task obtained is released once for each time it obtained it, by that task
\* or by another.
ReleaseSemaphore(t, s) ==
  /\ pc[t] = "run"
  /\ \E c \in Tasks :
       /\ held[s][c] > 0 /\ Returned(s, c)
       /\ Release(s, c)
  /\ UNCHANGED <<bidder, listVars, pc, target>>

-----------------------------------------------------------------------------
\* Procure: task t bids for s with message m, which is in no other bid.  The
\* message owner ssm_Semaphore is NULL for a shared bid and t otherwise.
Procure(t, m, s, o) ==
  /\ pc[t] = "run" /\ target[m] = Null /\ s \notin Simple
  /\ target' = [target EXCEPT ![m] = s]
  /\ bidder' = [bidder EXCEPT ![m] = t]
  /\ \/ /\ Free(s) \/ owner[s] = o
        /\ Take(s, m, o)
        /\ ssmSemaphore' = [ssmSemaphore EXCEPT ![m] = s]
        /\ replies' = [replies EXCEPT ![m] = 1]
     \/ /\ ~Free(s) /\ owner[s] # o
        /\ Enqueue(s, m, o = Null)
        /\ ssmSemaphore' = [ssmSemaphore EXCEPT ![m] = o]
        /\ replies' = [replies EXCEPT ![m] = 0]
  /\ UNCHANGED <<listVars, sigSingle, pc>>

\* Mutant: the reply of a withdrawn bid is forgotten.
WithdrawUnanswered(m) ==
  /\ ssmSemaphore' = [ssmSemaphore EXCEPT ![m] = Null]
  /\ replies' = replies

\* A bid withdrawn is answered: it names no semaphore, and its message is replied.
AnswerWithdrawn(m) ==
  /\ ssmSemaphore' = [ssmSemaphore EXCEPT ![m] = Null]
  /\ replies' = [replies EXCEPT ![m] = @ + 1]

\* Vacate: a bid still queued is withdrawn, a granted one is released.
Vacate(m) ==
  /\ target[m] # Null /\ pc[bidder[m]] = "run"
  /\ target' = [target EXCEPT ![m] = Null]
  /\ LET s == target[m] IN
     \/ /\ m \in waitQueue[s]
        /\ Dequeue(s, {m})
        /\ queueCount' = [queueCount EXCEPT ![s] = @ - 1]
        /\ AnswerWithdrawn(m)
        /\ UNCHANGED <<nestCount, owner, histVars, sigSingle>>
     \/ /\ m \notin waitQueue[s]
        /\ Release(s, m)
  /\ UNCHANGED <<bidder, listVars, pc>>
-----------------------------------------------------------------------------
\* Mutant: one wakeup is taken for the grant of the semaphore it stands at.
NextAfterWake(t, p, own) ==
  IF pc[t] = "list" THEN p + 1
  ELSE CHOOSE i \in 1 .. Len(SemList) :
         own[SemList[i]] # t /\ \A j \in 1 .. i - 1 : own[SemList[j]] = t

\* The list position at which t has to wait: the first from p on that t does not
\* own, given the owners own; the end of the list when there is none.
NextUnowned(t, p, own) ==
  LET unowned == {i \in p .. Len(SemList) : own[SemList[i]] # t}
  IN IF unowned = {} THEN Len(SemList) + 1
     ELSE CHOOSE i \in unowned : \A j \in unowned : i <= j

\* The pass over the list: it counts failedObtain down at every semaphore it steps
\* over, stays at the first one t does not own, and at the end of the list checks
\* that the count is zero.
WalkList(t, p, failed, own) ==
  LET q    == NextUnowned(t, p, own)
      left == failed - (q - p)
      done == q > Len(SemList)
  IN
  /\ listPos' = IF done THEN 1 ELSE q
  /\ failedObtain' = IF done THEN 0 ELSE left
  /\ alerted' = (done /\ left # 0)
  /\ pc' = [pc EXCEPT ![t] = IF done THEN "run" ELSE "list"]

\* ObtainSemaphoreList: takes what is free or its own, posts ss_MultipleLink to the
\* others.  There is one ss_MultipleLink per semaphore: the callers see to it that
\* one task at a time is in this call.  For a caller with a Procure bid of its
\* own on the list (ListWithBids) the call may return too early, and its requests that
\* stay queued can be queued twice.
ObtainSemaphoreList(t) ==
  LET own    == [s \in Sems |-> IF s \in ListSems /\ Free(s) THEN t ELSE owner[s]]
      failed == {s \in ListSems : own[s] # t}
      got    == ListSems \ failed
  IN
  /\ pc[t] = "run" /\ \A u \in Tasks : pc[u] # "list"
  /\ ListWithBids \/ \A m \in Messages : bidder[m] = t => target[m] \notin ListSems
  /\ \A s \in ListSems : held[s][t] < MaxHold
  /\ \A s \in ListSems : SimpleUse(s, t)
  /\ queueCount' = [s \in Sems |-> queueCount[s] + (IF s \in ListSems THEN 1 ELSE 0)]
  /\ nestCount' = [s \in Sems |-> nestCount[s] + (IF s \in got THEN 1 ELSE 0)]
  /\ owner' = own
  /\ waitQueue' = [s \in Sems |-> waitQueue[s] \cup (IF s \in failed THEN {t} ELSE {})]
  /\ before' = [s \in Sems |-> before[s] \cup (IF s \in failed THEN waitQueue[s] \X {t} ELSE {})]
  /\ held' = [s \in Sems |-> IF s \in got THEN [held[s] EXCEPT ![t] = @ + 1] ELSE held[s]]
  /\ exclHeld' = [s \in Sems |-> exclHeld[s] \cup (IF s \in got THEN {t} ELSE {})]
  /\ IF failed # {}
       THEN WalkList(t, 1, Cardinality(failed), own)
       ELSE /\ alerted' = FALSE
            /\ UNCHANGED <<pc, listPos, failedObtain>>
  /\ UNCHANGED <<waitShared, msgVars, sigSingle, target>>

\* Wait(SIGF_SINGLE) in ObtainSemaphoreList returns: it checks again from where it was.
ListWake(t) ==
  /\ pc[t] = "list"
  /\ sigSingle[t]
  /\ sigSingle' = [sigSingle EXCEPT ![t] = FALSE]
  /\ WalkList(t, listPos, failedObtain, owner)
  /\ UNCHANGED <<semVars, msgVars, histVars, target>>

\* The other users of SIGF_SINGLE may leave it set in a task that runs: the reply
\* ports of Delay() and the restore at the end of CreateNewProc().
SetSingle(t) ==
  /\ pc[t] = "run" /\ ~sigSingle[t]
  /\ sigSingle' = [sigSingle EXCEPT ![t] = TRUE]
  /\ UNCHANGED <<semVars, msgVars, listVars, histVars, pc, target>>

-----------------------------------------------------------------------------
SemStep(t, s) ==
  \/ ObtainSemaphore(t, s) \/ ObtainSemaphoreShared(t, s)
  \/ AttemptSemaphore(t, s) \/ AttemptSemaphoreShared(t, s)
  \/ ReleaseSemaphore(t, s)
  \/ \E m \in Messages, o \in {t, Null} : Procure(t, m, s, o)

TaskStep(t) ==
  \/ \E s \in Sems : SemStep(t, s)
  \/ ObtainWake(t) \/ ListWake(t)
  \/ ObtainSemaphoreList(t)
  \/ SetSingle(t)

Next == \/ \E t \in Tasks : TaskStep(t)
        \/ \E m \in Messages : Vacate(m)

Spec == Init /\ [][Next]_vars
-----------------------------------------------------------------------------
(* Properties. *)

\* The grants h not yet released, one token for each.
TokenSet(h) == {p \in Clients \X (1 .. MaxHold) : p[2] <= h[p[1]]}

\* What the releasing side relies on: ss_NestCount is the number of grants outstanding,
\* whoever made and undid them in whatever order, so the last release of all is the one
\* that hands over; and ss_QueueCount always counts those and the requests queued, less
\* one.  ReleaseSemaphore tests both the count and the list and would drop the waiters
\* if the two ever disagreed.
CountsAgree ==
  \A s \in Sems :
    /\ nestCount[s] = Cardinality(TokenSet(held[s]))
    /\ queueCount[s] = nestCount[s] + Cardinality(waitQueue[s]) - 1

\* The point of the semaphore: while one client has been granted exclusive use, the
\* only others with a grant of it act for the same task.
MutualExclusion ==
  \A s \in Sems : \A c \in exclHeld[s], d \in Clients :
    held[s][d] > 0 => Agent(d) = Agent(c)

\* ObtainSemaphore calls Wait(SIGF_SINGLE) once and does not look again: a task may
\* find the signal set there only when its request was granted, whatever set
\* SIGF_SINGLE before the call.
WakeMeansGranted ==
  \A t \in Tasks : pc[t] = "obtain" /\ sigSingle[t] =>
    t \notin waitQueue[target[t]] /\ held[target[t]][t] > 0

\* No wakeup is lost: a task still inside Wait has the signal pending as soon as its
\* request is gone from the queue, and one inside ObtainSemaphoreList as soon as its
\* request for the semaphore it stands at is.
NoLostWakeup ==
  \A t \in Tasks :
    /\ pc[t] = "obtain" => t \in waitQueue[target[t]] \/ sigSingle[t]
    /\ pc[t] = "list" => t \in waitQueue[SemList[listPos]] \/ sigSingle[t]

\* Nobody queues for a semaphore that is not held, so some release is always to come;
\* and a shared request waits only while some task owns the semaphore: every release
\* that ends an exclusive use takes all shared requests along or leaves another owner.
WaitersHaveHolder ==
  \A s \in Sems :
    /\ waitQueue[s] # {} => nestCount[s] > 0
    /\ waitShared[s] # {} => owner[s] # Null

\* Procure answers each bid exactly once, on its grant or on its withdrawal by
\* Vacate: the message of a bid still queued has not been replied, that of any other,
\* granted, withdrawn or given back, has been replied once since it was bid.
\* ssm_Semaphore names the semaphore exactly while the bid is granted, and nothing
\* once Vacate took it back.
BidAnsweredOnce ==
  \A m \in Messages : bidder[m] # Null =>
    IF target[m] # Null /\ m \in waitQueue[target[m]]
    THEN replies[m] = 0 /\ ssmSemaphore[m] \in {bidder[m], Null}
    ELSE /\ replies[m] = 1 /\ ssmSemaphore[m] = target[m]
         /\ target[m] # Null => held[target[m]][m] = 1

\* When ObtainSemaphoreList returns, its caller was granted every semaphore of the
\* list and has no request queued any more (obtainsemaphorelist.c:68: "This way by
\* the time we get to the end of the list we can be sure that we have obtained all
\* the semaphores").
ListObtainsAll ==
  [][\A t \in Tasks : pc[t] = "list" /\ pc'[t] = "run" =>
       \A s \in ListSems : t \in exclHeld'[s] /\ t \notin waitQueue'[s]]_vars

\* The user for which c asks with the request queued at s: nobody for a shared one.
AsksFor(s, c) == IF c \in waitQueue[s] \ waitShared[s] THEN Agent(c) ELSE Null

RW(s) == INSTANCE RWLock WITH
           Users <- Tasks, uses <- held[s], alone <- exclHeld[s], user <- owner[s],
           acts <- [c \in Clients |-> Agent(c)], line <- waitQueue[s],
           wants <- [c \in Clients |-> AsksFor(s, c)], before <- before[s]

\* Each semaphore is a readers-writers lock with a line: with counters that several
\* tasks share, one flag for all wakeups, and requests of two kinds in one queue, a
\* client comes in at once exactly when the task it acts for may (semaphores.c:90,
\* procure.c:86) and queues otherwise, and the lock is passed on to the head of the line
\* (releasesemaphore.c:112), by the last to leave only.
ImplementsRWLock ==
  /\ \A s \in Sems : RW(s)!Init
  /\ [][\A s \in Sems : [RW(s)!Next]_(RW(s)!vars)]_vars

\* obtainsemaphorelist.c:137 takes a count other than zero at the end of the list for
\* a damaged semaphore ("Obtained count mismatch") and raises AN_BadSemaphore.
NoCountMismatch == ~alerted
=============================================================================
