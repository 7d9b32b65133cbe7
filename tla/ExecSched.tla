----------------------------- MODULE ExecSched -----------------------------
(***************************************************************************)
(* Signals, task switching and their locks in exec.library and             *)
(* kernel.resource, non-SMP build: Wait, Signal, SetSignal, SetTaskPri,    *)
(* Forbid/Permit, Disable/Enable, the scheduler of rom/kernel, and the     *)
(* interrupts that call Signal or end the quantum.                         *)
(*                                                                         *)
(* What a task does with interrupts disabled is one step.  The points at   *)
(* which an interrupt can come in between are steps of their own: above    *)
(* all the look at the pending switch that ends Enable() and Permit()      *)
(* (TailCheck), which comes after the nesting count has gone down.         *)
(*                                                                         *)
(* TaskReady is kept as the set of tasks in state "ready" and the order of *)
(* the list (ahead: <<t, u>> when t is in front of u).  The order of       *)
(* TaskWait matters to nobody.                                             *)
(***************************************************************************)
EXTENDS Integers, FiniteSets

CONSTANTS Tasks,    \* the tasks
          Sigs,     \* the signals
          Pris,     \* the priorities in use
          InitPri,  \* the priority each task starts with
          Boot,     \* the task that runs first
          Quantum,  \* SysBase->Quantum, in VBlank ticks
          MaxNest   \* bound: how deep a task nests Forbid() and Disable()

ASSUME SchedConstantsOK ==
  /\ IsFiniteSet(Tasks) /\ Boot \in Tasks
  /\ Pris \subseteq Int /\ InitPri \in [Tasks -> Pris]
  /\ Quantum \in Nat \ {0} /\ MaxNest \in Nat

VARIABLES
  thisTask,      \* SysBase->ThisTask
  idle,          \* no task runs: cpu_Dispatch sleeps until the next interrupt
  super,         \* an interrupt is being served
  state,         \* tc_State: run, ready or wait
  ahead,         \* the order of SysBase->TaskReady
  pri,           \* tc_Node.ln_Pri
  sigWait, sigRecvd,  \* tc_SigWait, tc_SigRecvd
  tdNest, idNest,     \* SysBase->TDNestCnt, SysBase->IDNestCnt
  tcTD, tcID,    \* tc_TDNestCnt, tc_IDNestCnt: saved while a task waits, is switched away
  switchPending, \* ARF_AttnSwitch
  quantumOver, elapsed, \* SFF_QuantumOver, SysBase->Elapsed
  pc,            \* run, check (the end of Enable or Permit) or wait (inside Wait)
  forbids, disables, \* history: Forbid() and Disable() calls a task has not undone
  lowered        \* history: the running task lowered its own priority since it was dispatched

nestVars  == <<tdNest, idNest, tcTD, tcID>>
queueVars == <<thisTask, idle, state, ahead>>
timeVars  == <<quantumOver, elapsed>>
histVars  == <<forbids, disables>>
vars == <<queueVars, nestVars, timeVars, histVars, super, pri, sigWait, sigRecvd,
          switchPending, pc, lowered>>

TypeOK ==
  /\ thisTask \in Tasks /\ idle \in BOOLEAN /\ super \in BOOLEAN
  /\ state \in [Tasks -> {"run", "ready", "wait"}]
  /\ ahead \in SUBSET (Tasks \X Tasks)
  /\ pri \in [Tasks -> Pris]
  /\ sigWait \in [Tasks -> SUBSET Sigs] /\ sigRecvd \in [Tasks -> SUBSET Sigs]
  /\ tdNest \in -1 .. MaxNest - 1 /\ idNest \in -1 .. MaxNest
  /\ tcTD \in [Tasks -> -1 .. MaxNest - 1] /\ tcID \in [Tasks -> -1 .. MaxNest]
  /\ switchPending \in BOOLEAN /\ quantumOver \in BOOLEAN
  /\ elapsed \in 0 .. Quantum
  /\ pc \in [Tasks -> {"run", "check", "wait"}]
  /\ forbids \in [Tasks -> 0 .. MaxNest] /\ disables \in [Tasks -> 0 .. MaxNest]
  /\ lowered \in BOOLEAN

\* One task runs; every other has called Wait() for some signals.
Init ==
  /\ thisTask = Boot /\ idle = FALSE /\ super = FALSE
  /\ state = [t \in Tasks |-> IF t = Boot THEN "run" ELSE "wait"]
  /\ ahead = {}
  /\ pri = InitPri
  /\ sigWait \in [Tasks -> SUBSET Sigs \ {{}}]
  /\ sigRecvd = [t \in Tasks |-> {}]
  /\ tdNest = -1 /\ idNest = -1
  /\ tcTD = [t \in Tasks |-> -1]
  /\ tcID = [t \in Tasks |-> IF t = Boot THEN -1 ELSE 0]
  /\ switchPending = FALSE /\ quantumOver = FALSE /\ elapsed = Quantum
  /\ pc = [t \in Tasks |-> IF t = Boot THEN "run" ELSE "wait"]
  /\ forbids = [t \in Tasks |-> 0] /\ disables = [t \in Tasks |-> 0]
  /\ lowered = FALSE
-----------------------------------------------------------------------------
(* TaskReady. *)

Ready == {t \in Tasks : state[t] = "ready"}

\* The head of the list with the tasks R in the order A.
HeadOf(R, A) == CHOOSE t \in R : \A u \in R : <<u, t>> \notin A

\* Remove(): t leaves the order.
Removed(A, t) == {p \in A : p[1] # t /\ p[2] # t}

\* Mutant: t goes to the end of the list.
EnqueuedLast(A, R, t, p) == A \cup (R \X {t})

\* Enqueue(): t goes in front of the first task of lower priority, with the
\* priorities p.
Enqueued(A, R, t, p) ==
  A \cup {<<u, t>> : u \in {v \in R : p[v] >= p[t]}}
    \cup {<<t, u>> : u \in {v \in R : p[v] < p[t]}}
-----------------------------------------------------------------------------
(* The scheduler.  Its steps are parts of the actions below: S and A are the *)
(* states and the ready order, ids the saved tc_IDNestCnt, at that point.    *)

\* core_Dispatch: the head of TaskReady runs, with its own Disable() nesting and a
\* new quantum; with nobody ready the processor sleeps and a switch stays pending.
Dispatch(S, A, ids, pending) ==
  LET R == {t \in Tasks : S[t] = "ready"}
      h == HeadOf(R, A)
  IN
  /\ tcID' = ids
  /\ \/ /\ R = {}
        /\ idle' = TRUE
        /\ state' = S /\ ahead' = A
        /\ switchPending' = TRUE
        /\ UNCHANGED <<thisTask, idNest, timeVars, lowered>>
     \/ /\ R # {}
        /\ idle' = FALSE
        /\ thisTask' = h
        /\ state' = [S EXCEPT ![h] = "run"]
        /\ ahead' = Removed(A, h)
        /\ idNest' = ids[h]
        /\ elapsed' = Quantum /\ quantumOver' = FALSE
        /\ switchPending' = pending
        /\ lowered' = FALSE

\* The running task keeps the processor when it is the only one, and from tasks of no
\* higher priority until its quantum is over.
MayKeep(t) == Ready # {} => pri[HeadOf(Ready, ahead)] <= pri[t] /\ ~quantumOver

\* core_Schedule and, when it says so, core_Switch and core_Dispatch, for the running
\* task: it goes back to TaskReady.
Schedule ==
  LET t == thisTask IN
  \/ /\ MayKeep(t)
     /\ switchPending' = FALSE
     /\ UNCHANGED <<queueVars, idNest, tcID, timeVars, lowered>>
  \/ /\ ~MayKeep(t)
     /\ Dispatch([state EXCEPT ![t] = "ready"], Enqueued(ahead, Ready, t, pri),
                 [tcID EXCEPT ![t] = idNest], FALSE)
-----------------------------------------------------------------------------
(* The running task. *)

\* t runs user code and is at the program point p.
Runs(t, p) == t = thisTask /\ ~idle /\ ~super /\ pc[t] = p

\* Mutant: Enable() does not look for a switch.
NoCheck(t, id) == pc' = [pc EXCEPT ![t] = "run"]

\* Enable() has taken IDNestCnt down to id: below zero it will look for a switch.
AfterEnable(t, id) == pc' = [pc EXCEPT ![t] = IF id < 0 THEN "check" ELSE "run"]

Forbid(t) ==
  /\ Runs(t, "run") /\ forbids[t] < MaxNest
  /\ tdNest' = tdNest + 1
  /\ forbids' = [forbids EXCEPT ![t] = @ + 1]
  /\ UNCHANGED <<queueVars, idNest, tcTD, tcID, timeVars, disables, super, pri, sigWait,
                 sigRecvd, switchPending, pc, lowered>>

Permit(t) ==
  /\ Runs(t, "run") /\ forbids[t] > 0
  /\ tdNest' = tdNest - 1
  /\ forbids' = [forbids EXCEPT ![t] = @ - 1]
  /\ pc' = [pc EXCEPT ![t] = "check"]
  /\ UNCHANGED <<queueVars, idNest, tcTD, tcID, timeVars, disables, super, pri, sigWait,
                 sigRecvd, switchPending, lowered>>

Disable(t) ==
  /\ Runs(t, "run") /\ disables[t] < MaxNest
  /\ idNest' = idNest + 1
  /\ disables' = [disables EXCEPT ![t] = @ + 1]
  /\ UNCHANGED <<queueVars, tdNest, tcTD, tcID, timeVars, forbids, super, pri, sigWait,
                 sigRecvd, switchPending, pc, lowered>>

Enable(t) ==
  /\ Runs(t, "run") /\ disables[t] > 0
  /\ idNest' = idNest - 1
  /\ disables' = [disables EXCEPT ![t] = @ - 1]
  /\ AfterEnable(t, idNest - 1)
  /\ UNCHANGED <<queueVars, tdNest, tcTD, tcID, timeVars, forbids, super, pri, sigWait,
                 sigRecvd, switchPending, lowered>>

\* Mutant: Permit() looks at the pending switch only.
MaySwitchForbidden == switchPending

MaySwitch == tdNest < 0 /\ idNest < 0 /\ switchPending

\* The end of Permit() and Enable(): the scheduler runs if a switch is pending and
\* nothing forbids it.
TailCheck(t) ==
  /\ Runs(t, "check")
  /\ pc' = [pc EXCEPT ![t] = "run"]
  /\ \/ /\ MaySwitch
        /\ Schedule
     \/ /\ ~MaySwitch
        /\ UNCHANGED <<queueVars, idNest, tcID, timeVars, switchPending, lowered>>
  /\ UNCHANGED <<tdNest, tcTD, histVars, super, pri, sigWait, sigRecvd>>

\* Mutant: only a task that goes before the running one is woken at once.
WakesBetter(u, S) ==
  /\ state[u] = "wait" /\ (sigRecvd[u] \cup S) \cap sigWait[u] # {}
  /\ idle \/ pri[u] > pri[thisTask]

\* Signal S makes u ready when it waits for one of its signals.
Wakes(u, S) == state[u] = "wait" /\ (sigRecvd[u] \cup S) \cap sigWait[u] # {}

\* A switch is asked for when u is or becomes ready on a signal it waits for and goes
\* before the task interrupted or calling.  (An idle ThisTask has already been moved.)
AskForSwitch(u, S) ==
  switchPending' =
    (switchPending \/ (/\ (sigRecvd[u] \cup S) \cap sigWait[u] # {}
                       /\ state[u] # "run"
                       /\ pri[u] > pri[thisTask]
                       /\ state[thisTask] = "run"))

\* The body of Signal(u, S), between its Disable() and Enable().
DoSignal(u, S) ==
  /\ sigRecvd' = [sigRecvd EXCEPT ![u] = @ \cup S]
  /\ state' = IF Wakes(u, S) THEN [state EXCEPT ![u] = "ready"] ELSE state
  /\ ahead' = IF Wakes(u, S) THEN Enqueued(ahead, Ready, u, pri) ELSE ahead
  /\ AskForSwitch(u, S)

Signal(t, u, S) ==
  /\ Runs(t, "run")
  /\ DoSignal(u, S)
  /\ AfterEnable(t, idNest)
  /\ UNCHANGED <<thisTask, idle, nestVars, timeVars, histVars, super, pri, sigWait, lowered>>

\* SetSignal(): the calling task changes its own signals to S.
SetSignal(t, S) ==
  /\ Runs(t, "run")
  /\ sigRecvd' = [sigRecvd EXCEPT ![t] = S]
  /\ AfterEnable(t, idNest)
  /\ UNCHANGED <<queueVars, nestVars, timeVars, histVars, super, pri, sigWait, switchPending,
                 lowered>>

\* A ready task is taken out and put in again, behind its equals, though its priority may be
\* the same as before.
Requeue(u, p) ==
  ahead' = IF state[u] = "ready"
           THEN Enqueued(Removed(ahead, u), Ready \ {u}, u, [pri EXCEPT ![u] = p])
           ELSE ahead

SetTaskPri(t, u, p) ==
  /\ Runs(t, "run")
  /\ pri' = [pri EXCEPT ![u] = p]
  /\ Requeue(u, p)
  /\ switchPending' = (switchPending \/ (state[u] # "wait" /\ pri'[u] > pri'[t]))
  /\ lowered' = (lowered \/ (u = t /\ p < pri[t]))
  /\ AfterEnable(t, idNest)
  /\ UNCHANGED <<thisTask, idle, state, nestVars, timeVars, histVars, super, sigWait, sigRecvd>>

\* Mutant: the Forbid() nesting survives the switch.
KeepForbid(t, td) == tdNest' = td /\ tcTD' = [tcTD EXCEPT ![t] = td]

\* Wait() breaks a Forbid(): the nesting td is put away in the task.
BreakForbid(t, td) == tdNest' = -1 /\ tcTD' = [tcTD EXCEPT ![t] = td]

\* One turn of the loop in Wait(), with interrupts disabled (nesting id) and Forbid()
\* nested td deep: the signals are taken, or the task waits and another runs.
WaitLoop(t, S, td, id) ==
  \/ /\ sigRecvd[t] \cap S # {}
     /\ sigRecvd' = [sigRecvd EXCEPT ![t] = @ \ S]
     /\ idNest' = id - 1 /\ tdNest' = td
     /\ AfterEnable(t, id - 1)
     /\ UNCHANGED <<queueVars, tcTD, tcID, timeVars, sigWait, switchPending, lowered>>
  \/ /\ sigRecvd[t] \cap S = {}
     /\ sigWait' = [sigWait EXCEPT ![t] = S]
     /\ BreakForbid(t, td)
     /\ pc' = [pc EXCEPT ![t] = "wait"]
     /\ Dispatch([state EXCEPT ![t] = "wait"], ahead, [tcID EXCEPT ![t] = id], switchPending)
     /\ UNCHANGED sigRecvd

Wait(t, S) ==
  /\ Runs(t, "run")
  /\ WaitLoop(t, S, tdNest, idNest + 1)
  /\ UNCHANGED <<histVars, super, pri>>

\* The task is dispatched again inside Wait(): it gets its Forbid() nesting back and
\* tests its signals again.
WaitResume(t) ==
  /\ Runs(t, "wait")
  /\ WaitLoop(t, sigWait[t], tcTD[t], idNest)
  /\ UNCHANGED <<histVars, super, pri>>
-----------------------------------------------------------------------------
(* Interrupts. *)

Interruptible == ~super /\ (idle \/ idNest < 0)

\* An interrupt arrives while they are enabled or the processor sleeps.
Interrupt ==
  /\ Interruptible
  /\ super' = TRUE
  /\ UNCHANGED <<queueVars, nestVars, timeVars, histVars, pri, sigWait, sigRecvd,
                 switchPending, pc, lowered>>

\* Mutant: the end of the quantum does not ask for a switch.
TickQuietly ==
  /\ elapsed' = IF elapsed = 0 THEN 0 ELSE elapsed - 1
  /\ quantumOver' = (quantumOver \/ elapsed <= 1)
  /\ UNCHANGED switchPending

\* Mutant: the count of the quantum goes on below zero.
TickBelowZero ==
  /\ elapsed' = elapsed - 1
  /\ quantumOver' = (quantumOver \/ elapsed <= 1)
  /\ switchPending' = (switchPending \/ elapsed <= 1)

\* VBlankServer counts the quantum of the running task.
Tick ==
  /\ elapsed' = IF elapsed = 0 THEN 0 ELSE elapsed - 1
  /\ quantumOver' = (quantumOver \/ elapsed <= 1)
  /\ switchPending' = (switchPending \/ elapsed <= 1)

VBlankServer ==
  /\ super
  /\ Tick
  /\ UNCHANGED <<queueVars, nestVars, histVars, super, pri, sigWait, sigRecvd, pc, lowered>>

\* An interrupt handler signals u; its Enable() does nothing more.
SignalFromInterrupt(u, S) ==
  /\ super
  /\ DoSignal(u, S)
  /\ UNCHANGED <<thisTask, idle, nestVars, timeVars, histVars, super, pri, sigWait, pc, lowered>>

\* Mutant: the idle processor goes back to sleep without a look at TaskReady.
SleepOn ==
  /\ super
  /\ super' = FALSE
  /\ IF ~idle /\ tdNest < 0 /\ switchPending
     THEN Schedule
     ELSE UNCHANGED <<queueVars, idNest, tcID, timeVars, switchPending, lowered>>
  /\ UNCHANGED <<tdNest, tcTD, histVars, pri, sigWait, sigRecvd, pc>>

\* core_ExitInterrupt, or the next round of the loop in cpu_Dispatch when idle.
ExitInterrupt ==
  /\ super
  /\ super' = FALSE
  /\ \/ /\ idle
        /\ Dispatch(state, ahead, tcID, switchPending)
     \/ /\ ~idle /\ tdNest < 0 /\ switchPending
        /\ Schedule
     \/ /\ ~idle /\ ~(tdNest < 0 /\ switchPending)
        /\ UNCHANGED <<queueVars, idNest, tcID, timeVars, switchPending, lowered>>
  /\ UNCHANGED <<tdNest, tcTD, histVars, pri, sigWait, sigRecvd, pc>>
-----------------------------------------------------------------------------
TaskStep(t) ==
  \/ Forbid(t) \/ Permit(t) \/ Disable(t) \/ Enable(t)
  \/ TailCheck(t) \/ WaitResume(t)
  \/ \E u \in Tasks, s \in Sigs : Signal(t, u, {s})
  \/ \E S \in SUBSET Sigs : SetSignal(t, S)
  \/ \E u \in Tasks, p \in Pris : SetTaskPri(t, u, p)
  \/ \E S \in SUBSET Sigs \ {{}} : Wait(t, S)

InterruptStep ==
  \/ Interrupt \/ VBlankServer \/ ExitInterrupt
  \/ \E u \in Tasks, s \in Sigs : SignalFromInterrupt(u, {s})

Next == InterruptStep \/ \E t \in Tasks : TaskStep(t)

Spec == Init /\ [][Next]_vars

\* The task holds neither Forbid() nor Disable().
HoldsNothing(t) == forbids[t] = 0 /\ disables[t] = 0

\* Interrupts keep coming (the hardware holds a request while they are disabled), the
\* VBlank among them, and are left again; a task goes on through the code of exec; and a
\* task that keeps the processor is again and again outside every Forbid() and Disable(),
\* as their autodocs demand.
Fairness ==
  /\ SF_vars(Interrupt) /\ SF_vars(VBlankServer) /\ WF_vars(ExitInterrupt)
  /\ \A t \in Tasks : /\ SF_vars(TailCheck(t)) /\ SF_vars(WaitResume(t))
                      /\ []<>(thisTask # t \/ HoldsNothing(t))

FairSpec == Spec /\ Fairness
-----------------------------------------------------------------------------
(* Properties. *)

\* tc_State and the lists agree: exactly one task runs, ThisTask, unless the processor
\* sleeps, and the order is that of the ready tasks.  It stays sorted by priority whatever
\* SetTaskPri does to tasks in it: the scheduler only ever looks at its head.
StatesAgree ==
  /\ \A t \in Tasks : state[t] = "run" <=> t = thisTask /\ ~idle
  /\ \A t, u \in Ready : t # u => (<<t, u>> \in ahead <=> <<u, t>> \notin ahead)
  /\ ahead \subseteq Ready \X Ready
  /\ \A p \in ahead : pri[p[1]] >= pri[p[2]]

\* No signal is lost and none is made up: a task inside Wait() stays on TaskWait exactly
\* while none of the signals it waits for has arrived, whoever signals it, from wherever;
\* so it never sleeps through one, and the loop in Wait() never goes round for nothing.
NoLostSignal ==
  \A t \in Tasks :
    /\ state[t] = "wait" => pc[t] = "wait"
    /\ pc[t] = "wait" => (state[t] = "wait" <=> sigWait[t] \cap sigRecvd[t] = {})

\* Forbid() and Disable() are kept: a task that is not inside Wait() is never found
\* switched away while it holds either, and the nesting counts of the system are those of
\* the task that runs, restored after each Wait() that broke them.
LocksHold ==
  LET t == thisTask IN
  /\ \A u \in Tasks : state[u] = "ready" /\ pc[u] # "wait" => forbids[u] = 0 /\ disables[u] = 0
  /\ ~idle /\ pc[t] = "wait" =>
       tdNest = -1 /\ idNest = disables[t] /\ tcTD[t] = forbids[t] - 1
  /\ ~idle /\ pc[t] # "wait" =>
       tdNest = forbids[t] - 1 /\ idNest = disables[t] - 1

\* While a task of higher priority is ready, the switch that was asked for stays pending, so
\* that the last Permit() or Enable() finds it; and nobody runs on in spite of it who
\* neither forbids switches nor is about to look for one.  (A task that lowers its own
\* priority is let off: SetTaskPri compares the changed task with ThisTask, and asks for no
\* switch.)
PromptPreemption ==
  ~idle /\ ~lowered /\ (\E u \in Ready : pri[u] > pri[thisTask]) =>
    /\ switchPending
    /\ Runs(thisTask, "run") => tdNest >= 0 \/ idNest >= 0

\* The processor sleeps only while nobody is ready.
IdleMeansNobodyReady == idle /\ ~super => Ready = {}

\* Every ready task gets its turn, even when the others never wait, and forbid, switch and
\* change priorities again and again; or a task of higher priority runs.  With equal
\* priorities the processor goes round.
EveryTaskRuns ==
  \A t \in Tasks :
    state[t] = "ready" ~>
      state[t] = "run" \/ \E u \in Tasks : state[u] = "run" /\ pri[u] > pri[t]
=============================================================================
