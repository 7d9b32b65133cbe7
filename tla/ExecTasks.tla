----------------------------- MODULE ExecTasks -----------------------------
(***************************************************************************)
(* Creation, end and families of tasks: NewAddTask, RemTask, the ETasks of *)
(* exec_util.c, ChildWait, ChildFree, ChildOrphan, the service task, and   *)
(* what CreateNewProc() of dos.library adds for processes: the signals a   *)
(* process sends its parent when it ends (NP_NotifyOnDeath) and the wait   *)
(* of the parent for it (NP_Synchronous), with a task that waits for a     *)
(* semaphore beside it because both use SIGF_SINGLE.                       *)
(*                                                                         *)
(* What a task does under one Forbid() is one step.  Tasks are created at  *)
(* most once, so a task stands for its ETask and its unique ID too.  The   *)
(* orders of et_Children and of the port matter to nobody: both are sets.  *)
(***************************************************************************)
EXTENDS Naturals, Sequences, FiniteSets, SequencesExt

CONSTANTS Tasks,
          First,   \* the task that is there from the start
          Notify,  \* processes created with NP_NotifyOnDeath
          Sync,    \* processes created with NP_Synchronous
          Null     \* no task

ASSUME TaskConstantsOK ==
  /\ First \in Tasks /\ Null \notin Tasks
  /\ Notify \subseteq Tasks \ {First} /\ Sync \subseteq Tasks \ {First}

VARIABLES
  life,      \* none, added (TS_ADDED), live, removed (TS_INVALID), gone (memory freed)
  pc,        \* where a live task is
  target,    \* the task a task creates, signals or, in ChildWait(), waits for
  parent,    \* et_Parent
  children,  \* et_Children
  port,      \* mp_MsgList of et_TaskMsgPort: the ETasks of children that ended
  etasks,    \* the tasks whose ETask is allocated
  service,   \* the messages of SysBase->ServicePort
  childSig,  \* tasks with SIGF_CHILD
  single,    \* tasks with SIGF_SINGLE
  oldSingle, \* old_sig in CreateNewProc(): it found SIGF_SINGLE set
  waiting,   \* tasks with PRF_WAITINGFORCHILD
  granted,   \* tasks that own the semaphore they asked for
  leaked     \* history: ETasks that ChildOrphan() took from a port

family  == <<parent, children, port, etasks>>
signals == <<childSig, single, oldSingle, waiting, granted>>
vars == <<life, pc, target, family, service, signals, leaked>>

Places == {"run",       \* its own code
           "make",      \* NewAddTask() between InitETask() and TaskLaunch()
           "sync",      \* internal_ChildWait(): the test
           "syncwait",  \* internal_ChildWait(): Wait()
           "childwait", \* ChildWait(): Wait()
           "semwait",   \* ObtainSemaphore(): Wait()
           "free",      \* internal_ChildFree(): et_Parent is read
           "flagged",   \* internal_ChildFree(): the flag is cleared
           "exit",      \* the end of a process
           "tell",      \* it has read et_Parent for Signal()
           "end"}       \* RemTask(NULL) comes next

TypeOK ==
  /\ life \in [Tasks -> {"none", "added", "live", "removed", "gone"}]
  /\ pc \in [Tasks -> Places]
  /\ target \in [Tasks -> Tasks \cup {Null}]
  /\ parent \in [Tasks -> Tasks \cup {Null}]
  /\ children \in [Tasks -> SUBSET Tasks]
  /\ port \in [Tasks -> SUBSET Tasks]
  /\ etasks \subseteq Tasks /\ leaked \subseteq Tasks
  /\ service \in Seq(Tasks)
  /\ childSig \subseteq Tasks /\ single \subseteq Tasks /\ oldSingle \subseteq Tasks
  /\ waiting \subseteq Tasks /\ granted \subseteq Tasks
  /\ \A t \in Tasks : pc[t] \in {"make", "sync", "syncwait"} => target[t] # Null

Init ==
  /\ life = [t \in Tasks |-> IF t = First THEN "live" ELSE "none"]
  /\ pc = [t \in Tasks |-> "run"]
  /\ target = [t \in Tasks |-> Null]
  /\ parent = [t \in Tasks |-> Null]
  /\ children = [t \in Tasks |-> {}]
  /\ port = [t \in Tasks |-> {}]
  /\ etasks = {First} /\ leaked = {}
  /\ service = <<>>
  /\ childSig = {} /\ single = {} /\ oldSingle = {} /\ waiting = {} /\ granted = {}

Live(t) == life[t] = "live"
Runs(t, p) == Live(t) /\ pc[t] = p
Goto(t, p) == pc' = [pc EXCEPT ![t] = p]
-----------------------------------------------------------------------------
(* ETasks. *)

\* Mutant: the children of a task that ends keep it as their parent.
AdoptNot(t) ==
  [c \in Tasks |-> IF c = t THEN Null ELSE parent[c]]

\* The parents after t has ended: its children go to its own parent, Null included.
Adopt(t) ==
  [c \in Tasks |-> IF c = t THEN Null ELSE IF c \in children[t] THEN parent[t] ELSE parent[c]]

\* Its parent is told that t has ended: its ETask goes to the parent's port.
Reports(t) == parent[t] # Null /\ t \in Notify

\* Mutant: the children that ended before t are left on its port.
CleanupETaskKeepPort(t) ==
  LET q == parent[t] IN
  /\ parent' = Adopt(t)
  /\ children' = [p \in Tasks |-> IF p = t THEN {}
                                  ELSE IF p = q THEN (children[q] \ {t}) \cup children[t]
                                  ELSE children[p]]
  /\ port' = [p \in Tasks |-> IF Reports(t) /\ p = q THEN port[q] \cup {t} ELSE port[p]]
  /\ etasks' = IF Reports(t) THEN etasks ELSE etasks \ {t}
  /\ childSig' = IF Reports(t) THEN childSig \cup {q} ELSE childSig

\* Mutant: the ETask is put on the port of the parent without a signal.
CleanupETaskQuiet(t) ==
  LET q == parent[t] IN
  /\ parent' = Adopt(t)
  /\ children' = [p \in Tasks |-> IF p = t THEN {}
                                  ELSE IF p = q THEN (children[q] \ {t}) \cup children[t]
                                  ELSE children[p]]
  /\ port' = [p \in Tasks |-> IF p = t THEN {}
                              ELSE IF Reports(t) /\ p = q THEN port[q] \cup {t}
                              ELSE port[p]]
  /\ etasks' = (etasks \ port[t]) \ (IF Reports(t) THEN {} ELSE {t})
  /\ childSig' = childSig

\* CleanupETask(): the ETasks on the port of t are freed, its children go to its parent, and
\* its own ETask goes to the port of its parent or is freed.
CleanupETask(t) ==
  LET q == parent[t] IN
  /\ parent' = Adopt(t)
  /\ children' = [p \in Tasks |-> IF p = t THEN {}
                                  ELSE IF p = q THEN (children[q] \ {t}) \cup children[t]
                                  ELSE children[p]]
  /\ port' = [p \in Tasks |-> IF p = t THEN {}
                              ELSE IF Reports(t) /\ p = q THEN port[q] \cup {t}
                              ELSE port[p]]
  /\ etasks' = (etasks \ port[t]) \ (IF Reports(t) THEN {} ELSE {t})
  /\ childSig' = IF Reports(t) THEN childSig \cup {q} ELSE childSig
-----------------------------------------------------------------------------
(* Creation. *)

\* NewAddTask(), first part: InitETask() makes the ETask and enters it with the caller as
\* its parent.  CreateNewProc() has prepared to wait for a synchronous process.
InitETask(t, c) ==
  /\ Runs(t, "run") /\ life[c] = "none"
  /\ life' = [life EXCEPT ![c] = "added"]
  /\ etasks' = etasks \cup {c}
  /\ parent' = [parent EXCEPT ![c] = t]
  /\ children' = [children EXCEPT ![t] = @ \cup {c}]
  /\ target' = [target EXCEPT ![t] = c]
  /\ Goto(t, "make")
  /\ IF c \in Sync
     THEN /\ waiting' = waiting \cup {t}
          /\ oldSingle' = IF t \in single THEN oldSingle \cup {t} ELSE oldSingle \ {t}
          /\ single' = single \ {t}
     ELSE UNCHANGED <<waiting, oldSingle, single>>
  /\ UNCHANGED <<port, service, childSig, granted, leaked>>

\* The end of CreateNewProc(): SIGF_SINGLE is set again if it was.
RestoreSingle(t, c) == single' = IF c \in Sync /\ t \in oldSingle THEN single \cup {t} ELSE single

\* PrepareContext() fails, and the ETask is cleaned up as that of a task that ended.
AddTaskFails(t) ==
  LET c == target[t] IN
  /\ Runs(t, "make")
  /\ CleanupETask(c)
  /\ life' = [life EXCEPT ![c] = "gone"]
  /\ target' = [target EXCEPT ![t] = Null]
  /\ Goto(t, "run")
  /\ RestoreSingle(t, c)
  /\ UNCHANGED <<service, oldSingle, waiting, granted, leaked>>

\* Mutant: CreateNewProc() forgets the process it waits for.
TaskLaunchForget(t) ==
  LET c == target[t] IN
  /\ Runs(t, "make")
  /\ life' = [life EXCEPT ![c] = "live"]
  /\ Goto(t, IF c \in Sync THEN "sync" ELSE "run")
  /\ target' = [target EXCEPT ![t] = Null]
  /\ UNCHANGED <<family, service, signals, leaked>>

\* TaskLaunch().  CreateNewProc() goes on to wait for a synchronous process.
TaskLaunch(t) ==
  LET c == target[t] IN
  /\ Runs(t, "make")
  /\ life' = [life EXCEPT ![c] = "live"]
  /\ Goto(t, IF c \in Sync THEN "sync" ELSE "run")
  /\ target' = IF c \in Sync THEN target ELSE [target EXCEPT ![t] = Null]
  /\ UNCHANGED <<family, service, signals, leaked>>

\* internal_ChildWait(): the test of PRF_WAITINGFORCHILD, and the Wait() after it.
SyncTest(t) ==
  /\ Runs(t, "sync")
  /\ \/ /\ t \in waiting
        /\ Goto(t, "syncwait")
        /\ UNCHANGED <<target, single>>
     \/ /\ t \notin waiting
        /\ Goto(t, "run")
        /\ RestoreSingle(t, target[t])
        /\ target' = [target EXCEPT ![t] = Null]
  /\ UNCHANGED <<life, family, service, childSig, oldSingle, waiting, granted, leaked>>

SyncWake(t) ==
  /\ Runs(t, "syncwait") /\ t \in single
  /\ single' = single \ {t}
  /\ Goto(t, "sync")
  /\ UNCHANGED <<life, target, family, service, childSig, oldSingle, waiting, granted, leaked>>
-----------------------------------------------------------------------------
(* The parent's calls. *)

\* ChildWait() finds t a child that ended: the one it asked for (x), or any.
Found(t, x) == \E c \in port[t] : x \in {c, Null}

\* The loop of ChildWait() under Forbid(), with s the tasks that have SIGF_CHILD: it
\* returns, or clears the signal and waits for it.
ScanPort(t, x, s) ==
  \/ /\ Found(t, x)
     /\ Goto(t, "run")
     /\ childSig' = s
     /\ target' = [target EXCEPT ![t] = Null]
  \/ /\ ~Found(t, x)
     /\ Goto(t, "childwait")
     /\ childSig' = s \ {t}
     /\ target' = [target EXCEPT ![t] = x]

\* ChildWait() for a child t was told to expect, or (Null) for any.
ChildWait(t, x) ==
  /\ Runs(t, "run")
  /\ x # Null => x \in children[t] \cup port[t]
  /\ ScanPort(t, x, childSig)
  /\ UNCHANGED <<life, family, service, single, oldSingle, waiting, granted, leaked>>

ChildWake(t) ==
  /\ Runs(t, "childwait") /\ t \in childSig
  /\ ScanPort(t, target[t], childSig \ {t})
  /\ UNCHANGED <<life, family, service, single, oldSingle, waiting, granted, leaked>>

\* ChildFree(), which is for children that ended.
ChildFree(t, c) ==
  /\ Runs(t, "run") /\ c \in port[t]
  /\ port' = [port EXCEPT ![t] = @ \ {c}]
  /\ etasks' = etasks \ {c}
  /\ UNCHANGED <<life, pc, target, parent, children, service, signals, leaked>>

\* ChildOrphan() of one child, running or not.
ChildOrphan(t, c) ==
  /\ Runs(t, "run") /\ c \in children[t] \cup port[t]
  /\ parent' = [parent EXCEPT ![c] = Null]
  /\ children' = [children EXCEPT ![t] = @ \ {c}]
  /\ port' = [port EXCEPT ![t] = @ \ {c}]
  /\ leaked' = IF c \in children[t] THEN leaked ELSE leaked \cup {c}
  /\ UNCHANGED <<life, pc, target, etasks, service, signals>>

\* ChildOrphan(0): all the running children.
ChildOrphanAll(t) ==
  /\ Runs(t, "run") /\ children[t] # {}
  /\ parent' = [c \in Tasks |-> IF c \in children[t] THEN Null ELSE parent[c]]
  /\ children' = [children EXCEPT ![t] = {}]
  /\ UNCHANGED <<life, pc, target, port, etasks, service, signals, leaked>>
-----------------------------------------------------------------------------
(* The end. *)

\* A task ends, but for First.  A synchronous process reads et_Parent first, without Forbid().
Exit(t) ==
  /\ Runs(t, "run") /\ t # First
  /\ target' = [target EXCEPT ![t] = IF t \in Sync THEN parent[t] ELSE @]
  /\ Goto(t, IF t \in Sync THEN "free" ELSE "exit")
  /\ UNCHANGED <<life, family, service, signals, leaked>>

\* Mutant: the flag of the parent is left set.
KeepFlag(t) ==
  /\ Runs(t, "free")
  /\ Goto(t, "flagged")
  /\ UNCHANGED <<life, target, family, service, signals, leaked>>

\* It clears the flag of that task, which may have ended in between or, for an orphan, be
\* Null: the code writes to memory that is nobody's here.
ClearFlag(t) ==
  /\ Runs(t, "free")
  /\ waiting' = waiting \ {target[t]}
  /\ Goto(t, "flagged")
  /\ UNCHANGED <<life, target, family, service, childSig, single, oldSingle, granted, leaked>>

\* And it signals that task.  To signal a task that is not there any more, or Null, writes
\* into memory that is nobody's here.
SyncSignal(t) ==
  /\ Runs(t, "flagged")
  /\ single' = IF target[t] # Null /\ Live(target[t]) THEN single \cup {target[t]} ELSE single
  /\ Goto(t, "exit")
  /\ UNCHANGED <<life, target, family, service, childSig, oldSingle, waiting, granted, leaked>>

\* A process of NP_NotifyOnDeath signals its parent, before RemTask(): et_Parent is read,
\* and the signal is sent.
ReadParent(t) ==
  /\ Runs(t, "exit")
  /\ Goto(t, IF t \in Notify THEN "tell" ELSE "end")
  /\ target' = [target EXCEPT ![t] = IF t \in Notify THEN parent[t] ELSE Null]
  /\ UNCHANGED <<life, family, service, signals, leaked>>

TellParent(t) ==
  /\ Runs(t, "tell")
  /\ childSig' = IF target[t] # Null /\ Live(target[t]) THEN childSig \cup {target[t]}
                 ELSE childSig
  /\ Goto(t, "end")
  /\ target' = [target EXCEPT ![t] = Null]
  /\ UNCHANGED <<life, family, service, single, oldSingle, waiting, granted, leaked>>

\* Mutant: a dying task is removed again.
MayRemoveTwice(t) == life[t] \in {"live", "removed"}

\* RemTask() does nothing to a task that is being removed.
MayRemove(t) == life[t] = "live"

\* RemTask(NULL): the ETask is cleaned up and the task given to the service task.
RemSelf(t) ==
  /\ Runs(t, "end")
  /\ CleanupETask(t)
  /\ life' = [life EXCEPT ![t] = "removed"]
  /\ service' = Append(service, t)
  /\ UNCHANGED <<pc, target, single, oldSingle, waiting, granted, leaked>>

\* RemTask() of another task, wherever it is.
RemTask(t, u) ==
  /\ Runs(t, "run") /\ u \notin {t, First}
  /\ MayRemove(u)
  /\ CleanupETask(u)
  /\ life' = [life EXCEPT ![u] = "gone"]
  /\ UNCHANGED <<pc, target, service, single, oldSingle, waiting, granted, leaked>>

\* The service task frees the memory of a task that removed itself.
ServiceTask ==
  /\ service # <<>>
  /\ life' = [life EXCEPT ![Head(service)] = "gone"]
  /\ service' = Tail(service)
  /\ UNCHANGED <<pc, target, family, signals, leaked>>
-----------------------------------------------------------------------------
(* A semaphore beside it: the wait of ObtainSemaphore() and its grant by a release of *)
(* somebody who is not in the model.                                                   *)

ObtainSemaphore(t) ==
  /\ Runs(t, "run")
  /\ single' = single \ {t}
  /\ granted' = granted \ {t}
  /\ Goto(t, "semwait")
  /\ UNCHANGED <<life, target, family, service, childSig, oldSingle, waiting, leaked>>

GrantSemaphore(t) ==
  /\ Runs(t, "semwait") /\ t \notin granted
  /\ granted' = granted \cup {t}
  /\ single' = single \cup {t}
  /\ UNCHANGED <<life, pc, target, family, service, childSig, oldSingle, waiting, leaked>>

SemaphoreObtained(t) ==
  /\ Runs(t, "semwait") /\ t \in single
  /\ single' = single \ {t}
  /\ Goto(t, "run")
  /\ UNCHANGED <<life, target, family, service, childSig, oldSingle, waiting, granted, leaked>>
-----------------------------------------------------------------------------
(* Specification. *)

Next ==
  \/ ServiceTask
  \/ \E t \in Tasks :
       \/ AddTaskFails(t) \/ TaskLaunch(t) \/ SyncTest(t) \/ SyncWake(t)
       \/ ChildWake(t) \/ ChildOrphanAll(t)
       \/ Exit(t) \/ ClearFlag(t) \/ SyncSignal(t)
       \/ ReadParent(t) \/ TellParent(t) \/ RemSelf(t)
       \/ ObtainSemaphore(t) \/ GrantSemaphore(t) \/ SemaphoreObtained(t)
       \/ \E c \in Tasks : \/ InitETask(t, c) \/ ChildFree(t, c)
                           \/ ChildOrphan(t, c) \/ RemTask(t, c)
       \/ \E x \in Tasks \cup {Null} : ChildWait(t, x)

Spec == Init /\ [][Next]_vars

\* A task that is ready is run in the end, so it goes on where nothing of its own choice is
\* left: at the end of a process, and in a Wait() whose signal has come.
Fairness ==
  \A t \in Tasks : /\ WF_vars(ChildWake(t))
                   /\ WF_vars(SyncWake(t)) /\ WF_vars(SyncTest(t))
                   /\ WF_vars(ClearFlag(t)) /\ WF_vars(SyncSignal(t))
                   /\ WF_vars(ReadParent(t) \/ TellParent(t) \/ RemSelf(t))

FairSpec == Spec /\ Fairness
-----------------------------------------------------------------------------
(* Properties. *)

\* The tasks that have their place in a family.
Members == {t \in Tasks : life[t] \in {"added", "live"}}

\* The lists of children and the pointers to parents say the same, about tasks that exist:
\* nobody but a live task has children, and following et_Parent from a task never comes
\* back to it.  Every change of one side (a new task, the end of a parent, of a child, a
\* child let go) must change the other.
FamilyAgrees ==
  /\ \A p, c \in Tasks : c \in children[p] <=> (c \in Members /\ parent[c] = p)
  /\ \A c \in Members : parent[c] # Null => Live(parent[c])
  /\ \A S \in SUBSET Members : S # {} => \E c \in S : parent[c] \notin S

\* Every ETask has one owner who frees it: the task while it exists, then the one parent on
\* whose port it lies.  None is freed before that, and none is lost but those of ended
\* children that ChildOrphan() takes from the port.
EtasksAccounted ==
  LET listed == UNION {port[p] : p \in Tasks} IN
  /\ etasks = Members \cup listed \cup leaked
  /\ \A c \in listed \cup leaked : life[c] \in {"removed", "gone"}
  /\ listed \subseteq Notify \ leaked
  /\ \A p \in Tasks : /\ port[p] # {} => Live(p)
                      /\ \A q \in Tasks \ {p} : port[p] \cap port[q] = {}

\* A task is given to the service task once, after it has ended, and its memory is there
\* until the service task has taken it.
RemovedOnce ==
  /\ \A t \in Tasks : life[t] = "removed" <=> t \in ToSet(service)
  /\ IsInjective(service)

\* What a task leaves behind is freed once: its ETask by its owner, its memory by the
\* service task or the task that removed it.
FreedOnce == EtasksAccounted /\ RemovedOnce

\* A task that waits in ChildWait() for a child that has ended has SIGF_CHILD: the child
\* may end at any point of the scan or of the Wait(), and a signal left from another child
\* does not stand for it.
NoMissedChild ==
  \A t \in Tasks : \A c \in port[t] :
    Runs(t, "childwait") /\ target[t] \in {c, Null} => t \in childSig

\* The task t waits for is at its end and owes it an answer: a child of NP_NotifyOnDeath to
\* ChildWait(), a synchronous process to the wait in CreateNewProc().
Owed(t) ==
  LET c == target[t] IN
  \/ Runs(t, "childwait") /\ c \in Notify /\ pc[c] = "exit"
  \/ (Runs(t, "sync") \/ Runs(t, "syncwait")) /\ c \in Sync /\ pc[c] = "exit"

\* Who waits for a child returns once the child has come to its end, however the steps of
\* the two fall together; who is removed by another task on the way is let off.
WaitsForChildEnd == \A t \in Tasks : Owed(t) ~> (pc[t] = "run" \/ ~Live(t))

\* What ObtainSemaphore() says: it clears SIGF_SINGLE so as not to return at once, and when
\* Wait() returns, ReleaseSemaphore() has made the caller the owner.
SingleMeansGranted == \A t \in Tasks : Runs(t, "semwait") /\ t \in single => t \in granted
=============================================================================
