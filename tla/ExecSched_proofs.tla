-------------------------- MODULE ExecSched_proofs --------------------------
(***************************************************************************)
(* The invariants of the scheduler, for any set of tasks, signals and      *)
(* priorities, any quantum and any nesting of Forbid() and Disable().      *)
(***************************************************************************)
EXTENDS ExecSched, TLAPS

\* The tasks R in the order A: any two are ordered, the order follows the priorities p, and
\* every part of the list has a first task.
InList(R, A, p) ==
  /\ \A t, u \in R : t # u => (<<t, u>> \in A <=> <<u, t>> \notin A)
  /\ A \subseteq R \X R
  /\ \A t, u \in R : <<t, u>> \in A => p[t] >= p[u]
  /\ \A Q \in SUBSET R : Q # {} => \E t \in Q : \A u \in Q : <<u, t>> \notin A

\* The tasks of the system, apart from their order, agree with ThisTask.
OneRuns == \A t \in Tasks : state[t] = "run" <=> t = thisTask /\ ~idle

\* What is put away for a task that does not run: its own nesting if it is inside Wait(),
\* and nothing that forbids or disables if it was switched away.
Saved ==
  \A u \in Tasks : u # thisTask \/ idle =>
    /\ pc[u] = "wait" => tcTD[u] = forbids[u] - 1 /\ tcID[u] = disables[u]
    /\ pc[u] # "wait" => forbids[u] = 0 /\ disables[u] = 0 /\ tcID[u] = -1

\* The nesting of the task that runs.
Nested ==
  LET t == thisTask IN
  /\ ~idle /\ pc[t] = "wait" =>
       tdNest = -1 /\ idNest = disables[t] /\ tcTD[t] = forbids[t] - 1
  /\ ~idle /\ pc[t] # "wait" =>
       tdNest = forbids[t] - 1 /\ idNest = disables[t] - 1
  /\ idle => tdNest = -1
  /\ super /\ ~idle => idNest < 0

\* The inductive invariant.
IInv == /\ TypeOK
        /\ OneRuns /\ InList(Ready, ahead, pri)
        /\ Saved /\ Nested
        /\ NoLostSignal
        /\ PromptPreemption
        /\ IdleMeansNobodyReady
-----------------------------------------------------------------------------
(* TaskReady. *)

\* Priorities are numbers.
LEMMA Priorities == Pris \subseteq Int
BY SchedConstantsOK

\* Enqueue() keeps the list in order.
LEMMA EnqueuedList ==
  ASSUME NEW R \in SUBSET Tasks, NEW A, NEW p \in [Tasks -> Int], NEW t \in Tasks \ R,
         InList(R, A, p)
  PROVE  InList(R \cup {t}, Enqueued(A, R, t, p), p)
<1> DEFINE E == Enqueued(A, R, t, p)
           N == R \cup {t}
<1>1. /\ \A u, v \in R : u # v => (<<u, v>> \in A <=> <<v, u>> \notin A)
      /\ A \subseteq R \X R
      /\ \A u, v \in R : <<u, v>> \in A => p[u] >= p[v]
      /\ \A Q \in SUBSET R : Q # {} => \E u \in Q : \A v \in Q : <<v, u>> \notin A
  BY DEF InList
<1>2. t \notin R /\ \A u \in N : p[u] \in Int
  OBVIOUS
<1>3. \A u, v \in R : <<u, v>> \in E <=> <<u, v>> \in A
  BY <1>2 DEF Enqueued
<1>4. \A u \in R : /\ <<u, t>> \in E <=> p[u] >= p[t]
                   /\ <<t, u>> \in E <=> p[u] < p[t]
  BY <1>1, <1>2 DEF Enqueued
<1>5. <<t, t>> \notin E
  BY <1>1, <1>2 DEF Enqueued
<1>6. E \subseteq N \X N
  BY <1>1 DEF Enqueued
<1> HIDE DEF E
<1>7. \A u, v \in N : u # v => (<<u, v>> \in E <=> <<v, u>> \notin E)
  BY <1>1, <1>2, <1>3, <1>4
<1>8. \A u, v \in N : <<u, v>> \in E => p[u] >= p[v]
  <2> SUFFICES ASSUME NEW u \in N, NEW v \in N, <<u, v>> \in E PROVE p[u] >= p[v]
    OBVIOUS
  <2>1. CASE u \in R /\ v \in R  BY <2>1, <1>1, <1>3
  <2>2. CASE u \in R /\ v = t  BY <2>2, <1>4
  <2>3. CASE u = t /\ v \in R
    <3>1. p[t] \in Int /\ p[v] \in Int  BY <2>3
    <3>2. p[v] < p[t]  BY <2>3, <1>4
    <3> QED  BY <2>3, <3>1, <3>2
  <2>4. CASE u = t /\ v = t  BY <2>4, <1>5
  <2> QED  BY <2>1, <2>2, <2>3, <2>4
<1>9. ASSUME NEW Q \in SUBSET N, Q # {}
      PROVE  \E u \in Q : \A v \in Q : <<v, u>> \notin E
  <2>1. CASE Q = {t}
    BY <2>1, <1>5
  <2>2. CASE Q # {t}
    <3> DEFINE Q1 == Q \ {t}
    <3>1. Q1 \in SUBSET R /\ Q1 # {}
      BY <2>2, <1>9
    <3>2. PICK f \in Q1 : \A v \in Q1 : <<v, f>> \notin A
      BY <3>1, <1>1
    <3>3. f \in R /\ f \in Q
      BY <3>1
    <3>4. \A v \in Q1 : p[v] <= p[f]
      <4> SUFFICES ASSUME NEW v \in Q1 PROVE p[v] <= p[f]
        OBVIOUS
      <4>1. v \in R /\ f \in R /\ <<v, f>> \notin A /\ p[v] \in Int /\ p[f] \in Int
        BY <3>1, <3>2, <3>3, <1>2
      <4>2. v # f => <<f, v>> \in A
        BY <4>1, <1>1
      <4> QED  BY <4>1, <4>2, <1>1
    <3>5. CASE p[f] >= p[t]
      <4>1. \A v \in Q : <<v, f>> \notin E
        <5> SUFFICES ASSUME NEW v \in Q PROVE <<v, f>> \notin E
          OBVIOUS
        <5>1. CASE v = t
          <6>1. p[t] \in Int /\ p[f] \in Int  BY <3>3
          <6>2. ~(p[f] < p[t])  BY <6>1, <3>5
          <6> QED  BY <5>1, <6>2, <3>3, <1>4
        <5>2. CASE v # t
          <6>1. v \in Q1 /\ v \in R  BY <5>2, <3>1
          <6> QED  BY <6>1, <3>2, <3>3, <1>3
        <5> QED  BY <5>1, <5>2
      <4> QED  BY <4>1, <3>3
    <3>6. CASE p[f] < p[t] /\ t \in Q
      <4>1. \A v \in Q : <<v, t>> \notin E
        <5> SUFFICES ASSUME NEW v \in Q PROVE <<v, t>> \notin E
          OBVIOUS
        <5>1. CASE v = t
          BY <5>1, <1>5
        <5>2. CASE v # t
          <6>1. v \in Q1 /\ v \in R /\ p[v] \in Int /\ p[f] \in Int /\ p[t] \in Int
            BY <5>2, <3>1, <3>3, <1>2
          <6>2. p[v] <= p[f]
            BY <6>1, <3>4
          <6>3. ~(p[v] >= p[t])
            BY <6>1, <6>2, <3>6
          <6> QED  BY <6>1, <6>3, <1>4
        <5> QED  BY <5>1, <5>2
      <4> QED  BY <4>1, <3>6
    <3>7. CASE t \notin Q
      BY <3>1, <3>2, <3>3, <3>7, <1>3
    <3> QED  BY <3>3, <3>5, <3>6, <3>7, <1>2
  <2> QED  BY <2>1, <2>2
<1> QED  BY <1>6, <1>7, <1>8, <1>9 DEF InList, E

\* Remove() keeps it too.
LEMMA RemovedList ==
  ASSUME NEW R, NEW A, NEW p, NEW t, InList(R, A, p)
  PROVE  InList(R \ {t}, Removed(A, t), p)
<1>1. \A u, v \in R \ {t} : <<u, v>> \in Removed(A, t) <=> <<u, v>> \in A
  BY DEF Removed
<1>2. Removed(A, t) \subseteq (R \ {t}) \X (R \ {t})
  BY DEF Removed, InList
<1>3. ASSUME NEW Q \in SUBSET (R \ {t}), Q # {}
      PROVE  \E u \in Q : \A v \in Q : <<v, u>> \notin Removed(A, t)
  BY <1>1, <1>3 DEF InList
<1> QED  BY <1>1, <1>2, <1>3 DEF InList

\* The head of the list is a task of the highest priority.
LEMMA HeadIsBest ==
  ASSUME NEW R \in SUBSET Tasks, NEW A, NEW p \in [Tasks -> Int], InList(R, A, p), R # {}
  PROVE  HeadOf(R, A) \in R /\ \A u \in R : p[u] <= p[HeadOf(R, A)]
<1>1. \E t \in R : \A u \in R : <<u, t>> \notin A
  BY DEF InList
<1>2. HeadOf(R, A) \in R /\ \A u \in R : <<u, HeadOf(R, A)>> \notin A
  BY <1>1 DEF HeadOf
<1>3. \A u \in R : p[u] <= p[HeadOf(R, A)]
  <2> DEFINE h == HeadOf(R, A)
  <2> SUFFICES ASSUME NEW u \in R PROVE p[u] <= p[h]
    OBVIOUS
  <2>1. h \in R /\ <<u, h>> \notin A /\ p[u] \in Int /\ p[h] \in Int
    BY <1>2
  <2> HIDE DEF h
  <2>2. u # h => <<h, u>> \in A
    BY <2>1 DEF InList
  <2> QED  BY <2>1, <2>2 DEF InList
<1> QED  BY <1>2, <1>3

\* Priorities matter for the tasks of the list only.
LEMMA ListPris ==
  ASSUME NEW R, NEW A, NEW p, NEW q, InList(R, A, p), \A t \in R : q[t] = p[t]
  PROVE  InList(R, A, q)
BY DEF InList
-----------------------------------------------------------------------------
(* The dispatcher. *)

\* What core_Dispatch() does to the lists, from states S in which nobody runs and the order
\* A of those that are ready.
LEMMA DispatchDoes ==
  ASSUME TypeOK, NEW S \in [Tasks -> {"ready", "wait"}], NEW A, NEW ids, NEW pending,
         InList({t \in Tasks : S[t] = "ready"}, A, pri),
         Dispatch(S, A, ids, pending), UNCHANGED pri
  PROVE  /\ OneRuns' /\ InList(Ready, ahead, pri)'
         /\ thisTask' \in Tasks /\ idle' \in BOOLEAN
         /\ state' \in [Tasks -> {"run", "ready", "wait"}]
         /\ \A t \in Tasks : state'[t] = "wait" <=> S[t] = "wait"
         /\ \/ /\ idle' = TRUE /\ Ready' = {} /\ switchPending' = TRUE
               /\ UNCHANGED <<thisTask, idNest, elapsed, quantumOver, lowered>>
            \/ /\ idle' = FALSE /\ idNest' = ids[thisTask'] /\ switchPending' = pending
               /\ elapsed' = Quantum /\ quantumOver' = FALSE /\ lowered' = FALSE
               /\ \A u \in Ready' : pri[u] <= pri[thisTask']
<1> DEFINE R == {t \in Tasks : S[t] = "ready"}
           h == HeadOf(R, A)
<1>1. R \in SUBSET Tasks /\ InList(R, A, pri) /\ pri \in [Tasks -> Int]
  BY Priorities DEF TypeOK
<1>2. CASE /\ R = {}
           /\ idle' = TRUE /\ state' = S /\ ahead' = A /\ switchPending' = TRUE
           /\ UNCHANGED <<thisTask, idNest, timeVars, lowered>>
  <2>1. Ready' = {}
    BY <1>2 DEF Ready
  <2>2. InList(Ready, ahead, pri)'
    BY <1>1, <1>2, <2>1 DEF InList
  <2>3. OneRuns'
    BY <1>2 DEF OneRuns
  <2>4. thisTask' \in Tasks
    BY <1>2 DEF TypeOK
  <2> QED  BY <1>2, <2>1, <2>2, <2>3, <2>4 DEF timeVars
<1>3. CASE /\ R # {}
           /\ idle' = FALSE
           /\ thisTask' = h
           /\ state' = [S EXCEPT ![h] = "run"]
           /\ ahead' = Removed(A, h)
           /\ idNest' = ids[h]
           /\ elapsed' = Quantum /\ quantumOver' = FALSE
           /\ switchPending' = pending
           /\ lowered' = FALSE
  <2>1. h \in R /\ \A u \in R : pri[u] <= pri[h]
    BY <1>1, <1>3, HeadIsBest
  <2>2. h \in Tasks /\ S[h] = "ready"
    BY <2>1
  <2> HIDE DEF h
  <2>3. Ready' = R \ {h}
    BY <1>3, <2>2 DEF Ready
  <2>4. InList(R \ {h}, Removed(A, h), pri)
    BY <1>1, RemovedList
  <2>5. InList(Ready, ahead, pri)'
    BY <1>3, <2>3, <2>4 DEF InList
  <2>6. OneRuns'
    BY <1>3, <2>2 DEF OneRuns
  <2>7. /\ state' \in [Tasks -> {"run", "ready", "wait"}]
        /\ \A t \in Tasks : state'[t] = "wait" <=> S[t] = "wait"
    BY <1>3, <2>2
  <2> QED  BY <1>3, <2>1, <2>2, <2>3, <2>5, <2>6, <2>7
<1> QED  BY <1>2, <1>3 DEF Dispatch

\* The dispatcher is called with interrupts off and Forbid() broken, from states S, with
\* what is put away for each task in keeping with where it is.
Dispatching(S, A, ids, pending) ==
  /\ S \in [Tasks -> {"ready", "wait"}] /\ ids \in [Tasks -> -1 .. MaxNest]
  /\ pending \in BOOLEAN
  /\ InList({t \in Tasks : S[t] = "ready"}, A, pri)
  /\ Dispatch(S, A, ids, pending)
  /\ UNCHANGED <<pri, forbids, disables>>
  /\ super' = FALSE /\ tdNest' = -1
  /\ tcTD' \in [Tasks -> -1 .. MaxNest - 1]
  /\ pc' \in [Tasks -> {"run", "check", "wait"}]
  /\ sigWait' \in [Tasks -> SUBSET Sigs] /\ sigRecvd' \in [Tasks -> SUBSET Sigs]
  /\ \A u \in Tasks :
       /\ pc'[u] = "wait" => tcTD'[u] = forbids[u] - 1 /\ ids[u] = disables[u]
       /\ pc'[u] # "wait" => forbids[u] = 0 /\ disables[u] = 0 /\ ids[u] = -1
       /\ S[u] = "wait" => pc'[u] = "wait"
       /\ pc'[u] = "wait" => (S[u] = "wait" <=> sigWait'[u] \cap sigRecvd'[u] = {})

\* Who is dispatched finds its own nesting again, and nobody better is left.
LEMMA DispatchKeeps ==
  ASSUME TypeOK, NEW S, NEW A, NEW ids, NEW pending, Dispatching(S, A, ids, pending)
  PROVE  IInv'
<1>0. /\ S \in [Tasks -> {"ready", "wait"}] /\ ids \in [Tasks -> -1 .. MaxNest]
      /\ pending \in BOOLEAN
      /\ InList({t \in Tasks : S[t] = "ready"}, A, pri)
      /\ Dispatch(S, A, ids, pending)
      /\ UNCHANGED <<pri, forbids, disables>>
      /\ super' = FALSE /\ tdNest' = -1
      /\ tcTD' \in [Tasks -> -1 .. MaxNest - 1]
      /\ pc' \in [Tasks -> {"run", "check", "wait"}]
      /\ sigWait' \in [Tasks -> SUBSET Sigs] /\ sigRecvd' \in [Tasks -> SUBSET Sigs]
      /\ \A u \in Tasks :
           /\ pc'[u] = "wait" => tcTD'[u] = forbids[u] - 1 /\ ids[u] = disables[u]
           /\ pc'[u] # "wait" => forbids[u] = 0 /\ disables[u] = 0 /\ ids[u] = -1
           /\ S[u] = "wait" => pc'[u] = "wait"
           /\ pc'[u] = "wait" => (S[u] = "wait" <=> sigWait'[u] \cap sigRecvd'[u] = {})
  BY DEF Dispatching
<1> USE <1>0
<1>1. /\ OneRuns' /\ InList(Ready, ahead, pri)'
      /\ thisTask' \in Tasks /\ idle' \in BOOLEAN
      /\ state' \in [Tasks -> {"run", "ready", "wait"}]
      /\ \A t \in Tasks : state'[t] = "wait" <=> S[t] = "wait"
      /\ \/ /\ idle' = TRUE /\ Ready' = {} /\ switchPending' = TRUE
            /\ UNCHANGED <<thisTask, idNest, elapsed, quantumOver, lowered>>
         \/ /\ idle' = FALSE /\ idNest' = ids[thisTask'] /\ switchPending' = pending
            /\ elapsed' = Quantum /\ quantumOver' = FALSE /\ lowered' = FALSE
            /\ \A u \in Ready' : pri[u] <= pri[thisTask']
  BY DispatchDoes
<1>2. tcID' = ids
  BY DEF Dispatch
<1>3. /\ Quantum \in Nat /\ MaxNest \in Nat
  BY SchedConstantsOK
<1>4. TypeOK'
  <2>1. ahead' \in SUBSET (Tasks \X Tasks)
    BY <1>1 DEF InList, Ready
  <2>2. /\ tdNest' \in -1 .. MaxNest - 1 /\ tcID' \in [Tasks -> -1 .. MaxNest]
    BY <1>2, <1>3
  <2>3. /\ idNest' \in -1 .. MaxNest /\ elapsed' \in 0 .. Quantum
        /\ quantumOver' \in BOOLEAN /\ switchPending' \in BOOLEAN /\ lowered' \in BOOLEAN
    <3>1. CASE idle' = TRUE
      BY <1>1, <3>1 DEF TypeOK
    <3>2. CASE idle' = FALSE
      <4>1. /\ idNest' = ids[thisTask'] /\ thisTask' \in Tasks /\ elapsed' = Quantum
            /\ quantumOver' = FALSE /\ lowered' = FALSE /\ switchPending' = pending
        BY <1>1, <3>2
      <4>2. Quantum \in 0 .. Quantum
        BY <1>3
      <4>3. idNest' \in -1 .. MaxNest
        BY <4>1
      <4> QED  BY <4>1, <4>2, <4>3
    <3> QED  BY <1>1, <3>1, <3>2
  <2>4. /\ pri' \in [Tasks -> Pris] /\ super' \in BOOLEAN
        /\ forbids' \in [Tasks -> 0 .. MaxNest] /\ disables' \in [Tasks -> 0 .. MaxNest]
    BY DEF TypeOK
  <2> QED  BY <1>1, <2>1, <2>2, <2>3, <2>4 DEF TypeOK
<1>5. Saved'
  BY <1>2 DEF Saved
<1>6. Nested'
  <2>1. CASE idle' = TRUE
    BY <2>1 DEF Nested
  <2>2. CASE idle' = FALSE
    <3>1. idNest' = ids[thisTask'] /\ thisTask' \in Tasks
      BY <1>1, <2>2
    <3>2. CASE pc'[thisTask'] = "wait"
      BY <2>2, <3>1, <3>2 DEF Nested
    <3>3. CASE pc'[thisTask'] # "wait"
      BY <2>2, <3>1, <3>3 DEF Nested
    <3> QED  BY <3>2, <3>3
  <2> QED  BY <1>1, <2>1, <2>2
<1>7. NoLostSignal'
  BY <1>1 DEF NoLostSignal
<1>8. PromptPreemption'
  <2>1. CASE idle' = TRUE
    BY <2>1 DEF PromptPreemption
  <2>2. CASE idle' = FALSE
    <3>1. \A u \in Ready' : pri[u] <= pri[thisTask'] /\ u \in Tasks
      BY <1>1, <2>2 DEF Ready
    <3>2. \A u \in Ready' : pri[u] \in Int /\ pri[thisTask'] \in Int
      BY <1>1, Priorities DEF TypeOK, Ready
    <3>3. \A u \in Ready' : ~(pri'[u] > pri'[thisTask'])
      BY <3>1, <3>2
    <3> QED  BY <3>3 DEF PromptPreemption
  <2> QED  BY <1>1, <2>1, <2>2
<1>9. IdleMeansNobodyReady'
  BY <1>1 DEF IdleMeansNobodyReady
<1> QED  BY <1>1, <1>4, <1>5, <1>6, <1>7, <1>8, <1>9 DEF IInv

\* The running task inside a call, with the nesting it holds.
LEMMA Running ==
  ASSUME IInv, NEW t \in Tasks, NEW p \in {"run", "check"}, Runs(t, p)
  PROVE  /\ t = thisTask /\ idle = FALSE /\ super = FALSE /\ pc[t] = p /\ state[t] = "run"
         /\ tdNest = forbids[t] - 1 /\ idNest = disables[t] - 1
         /\ forbids[t] \in 0 .. MaxNest /\ disables[t] \in 0 .. MaxNest /\ MaxNest \in Nat
BY SchedConstantsOK DEF Runs, IInv, TypeOK, OneRuns, Nested

\* The scheduler keeps the running task, or puts it back and dispatches.
LEMMA ScheduleKeeps ==
  ASSUME IInv, idle = FALSE, pc[thisTask] # "wait", tdNest < 0, idNest < 0,
         Schedule, super' = FALSE,
         UNCHANGED <<tdNest, tcTD, forbids, disables, pri, sigWait, sigRecvd>>,
         pc' \in [Tasks -> {"run", "check", "wait"}],
         \A u \in Tasks : pc'[u] = "wait" <=> pc[u] = "wait"
  PROVE  IInv'
<1> DEFINE t == thisTask
<1>1. /\ t \in Tasks /\ tdNest = forbids[t] - 1 /\ idNest = disables[t] - 1
      /\ forbids[t] \in 0 .. MaxNest /\ disables[t] \in 0 .. MaxNest /\ MaxNest \in Nat
  BY SchedConstantsOK DEF IInv, TypeOK, Nested
<1>2. forbids[t] = 0 /\ disables[t] = 0 /\ tdNest = -1 /\ idNest = -1
  BY <1>1
<1>3. pri \in [Tasks -> Int] /\ Ready \in SUBSET Tasks /\ InList(Ready, ahead, pri)
  BY Priorities DEF IInv, TypeOK, Ready
<1>4. state[t] = "run" /\ \A u \in Tasks : state[u] = "run" => u = t
  BY <1>1 DEF IInv, OneRuns
<1>5. CASE /\ MayKeep(t)
           /\ switchPending' = FALSE
           /\ UNCHANGED <<queueVars, idNest, tcID, timeVars, lowered>>
  <2>1. UNCHANGED <<thisTask, idle, state, ahead, idNest, tcID, elapsed, quantumOver, lowered>>
    BY <1>5 DEF queueVars, timeVars
  <2>2. TypeOK'
    BY <1>5, <2>1 DEF IInv, TypeOK
  <2>3. OneRuns' /\ InList(Ready, ahead, pri)' /\ Saved' /\ Nested' /\ NoLostSignal'
    <3>1. OneRuns'  BY <2>1 DEF IInv, OneRuns
    <3>2. InList(Ready, ahead, pri)'  BY <2>1, <1>3 DEF InList, Ready
    <3>3. Saved'  BY <2>1 DEF IInv, Saved
    <3>4. Nested'  BY <2>1, <1>1 DEF IInv, Nested
    <3>5. NoLostSignal'  BY <2>1 DEF IInv, NoLostSignal
    <3> QED  BY <3>1, <3>2, <3>3, <3>4, <3>5
  <2>4. PromptPreemption'
    <3>1. Ready' = Ready
      BY <2>1 DEF Ready
    <3>2. Ready # {} => \A u \in Ready : pri[u] <= pri[t]
      <4> SUFFICES ASSUME Ready # {}, NEW u \in Ready PROVE pri[u] <= pri[t]
        OBVIOUS
      <4> DEFINE h == HeadOf(Ready, ahead)
      <4>1. h \in Ready /\ \A v \in Ready : pri[v] <= pri[h]
        BY <1>3, HeadIsBest
      <4>2. pri[h] <= pri[t]
        BY <1>5 DEF MayKeep
      <4>3. pri[u] \in Int /\ pri[h] \in Int /\ pri[t] \in Int /\ pri[u] <= pri[h]
        BY <1>1, <1>3, <4>1
      <4> QED  BY <4>2, <4>3
    <3>3. \A u \in Ready : pri[u] \in Int /\ pri[t] \in Int
      BY <1>1, <1>3
    <3>4. \A u \in Ready' : ~(pri'[u] > pri'[thisTask'])
      BY <3>1, <3>2, <3>3, <2>1
    <3> QED  BY <3>4 DEF PromptPreemption
  <2>5. IdleMeansNobodyReady'
    BY <2>1 DEF IdleMeansNobodyReady
  <2> QED  BY <2>2, <2>3, <2>4, <2>5 DEF IInv
<1>6. CASE Dispatch([state EXCEPT ![t] = "ready"], Enqueued(ahead, Ready, t, pri),
                    [tcID EXCEPT ![t] = idNest], FALSE)
  <2> DEFINE S == [state EXCEPT ![t] = "ready"]
             A == Enqueued(ahead, Ready, t, pri)
             ids == [tcID EXCEPT ![t] = idNest]
  <2>1. S \in [Tasks -> {"ready", "wait"}]
    BY <1>1, <1>4 DEF IInv, TypeOK
  <2>2. ids \in [Tasks -> -1 .. MaxNest]
    BY <1>1, <1>2 DEF IInv, TypeOK
  <2>3. {u \in Tasks : S[u] = "ready"} = Ready \cup {t}
    BY <1>1 DEF IInv, TypeOK, Ready
  <2>4. t \in Tasks \ Ready
    BY <1>1, <1>4 DEF Ready
  <2>5. InList(Ready \cup {t}, A, pri)
    BY <1>3, <2>4, EnqueuedList
  <2>6. InList({u \in Tasks : S[u] = "ready"}, A, pri)
    BY <2>3, <2>5
  <2>7. /\ tdNest' = -1 /\ tcTD' \in [Tasks -> -1 .. MaxNest - 1]
        /\ sigWait' \in [Tasks -> SUBSET Sigs] /\ sigRecvd' \in [Tasks -> SUBSET Sigs]
        /\ TypeOK
    BY <1>2 DEF IInv, TypeOK
  <2>8. ASSUME NEW u \in Tasks
        PROVE  /\ pc'[u] = "wait" => tcTD'[u] = forbids[u] - 1 /\ ids[u] = disables[u]
               /\ pc'[u] # "wait" => forbids[u] = 0 /\ disables[u] = 0 /\ ids[u] = -1
               /\ S[u] = "wait" => pc'[u] = "wait"
               /\ pc'[u] = "wait" => (S[u] = "wait" <=> sigWait'[u] \cap sigRecvd'[u] = {})
    <3>1. CASE u = t
      <4>1. ids[u] = -1 /\ S[u] = "ready" /\ pc'[u] # "wait"
        BY <3>1, <1>1, <1>2 DEF IInv, TypeOK
      <4> QED  BY <3>1, <4>1, <1>2
    <3>2. CASE u # t
      <4>1. ids[u] = tcID[u] /\ S[u] = state[u] /\ tcTD' = tcTD
        BY <3>2, <1>1 DEF IInv, TypeOK
      <4>2. /\ pc[u] = "wait" => tcTD[u] = forbids[u] - 1 /\ tcID[u] = disables[u]
            /\ pc[u] # "wait" => forbids[u] = 0 /\ disables[u] = 0 /\ tcID[u] = -1
        BY <3>2 DEF IInv, Saved
      <4>3. /\ state[u] = "wait" => pc[u] = "wait"
            /\ pc[u] = "wait" => (state[u] = "wait" <=> sigWait[u] \cap sigRecvd[u] = {})
        BY DEF IInv, NoLostSignal
      <4> HIDE DEF S, ids
      <4> QED  BY <4>1, <4>2, <4>3
    <3> QED  BY <3>1, <3>2
  <2>9. Dispatch(S, A, ids, FALSE)
    BY <1>6
  <2> HIDE DEF S, A, ids
  <2>10. Dispatching(S, A, ids, FALSE)
    BY <2>1, <2>2, <2>6, <2>7, <2>8, <2>9 DEF Dispatching
  <2> QED  BY <2>7, <2>10, DispatchKeeps
<1> QED  BY <1>5, <1>6 DEF Schedule
-----------------------------------------------------------------------------
(* Forbid(), Permit(), Disable(), Enable(). *)

\* Where no state and no priority changes, neither do the lists.
LEMMA ListsSame ==
  ASSUME IInv, UNCHANGED <<thisTask, idle, state, ahead, pri>>
  PROVE  OneRuns' /\ InList(Ready, ahead, pri)' /\ Ready' = Ready
BY DEF IInv, OneRuns, InList, Ready

\* Each action keeps the invariant: Forbid(),
LEMMA ForbidKeeps == ASSUME IInv, NEW t \in Tasks, Forbid(t) PROVE IInv'
<1>1. /\ t = thisTask /\ idle = FALSE /\ super = FALSE /\ pc[t] = "run"
      /\ tdNest = forbids[t] - 1 /\ idNest = disables[t] - 1
      /\ forbids[t] \in 0 .. MaxNest /\ disables[t] \in 0 .. MaxNest /\ MaxNest \in Nat
  BY Running DEF Forbid
<1>2. /\ forbids[t] < MaxNest /\ tdNest' = tdNest + 1
      /\ forbids' = [forbids EXCEPT ![t] = @ + 1]
      /\ UNCHANGED <<thisTask, idle, state, ahead, idNest, tcTD, tcID, quantumOver, elapsed,
                     disables, super, pri, sigWait, sigRecvd, switchPending, pc, lowered>>
  BY DEF Forbid, queueVars, timeVars
<1>3. OneRuns' /\ InList(Ready, ahead, pri)' /\ Ready' = Ready
  BY <1>2, ListsSame
<1>4. /\ forbids' \in [Tasks -> 0 .. MaxNest] /\ forbids'[t] = forbids[t] + 1
      /\ \A u \in Tasks \ {t} : forbids'[u] = forbids[u]
  BY <1>1, <1>2 DEF IInv, TypeOK
<1>5. tdNest' \in -1 .. MaxNest - 1 /\ tdNest' >= 0 /\ tdNest' = forbids'[t] - 1
  BY <1>1, <1>2, <1>4
<1>6. TypeOK'
  BY <1>2, <1>4, <1>5 DEF IInv, TypeOK
<1>7. Saved'
  BY <1>1, <1>2, <1>4 DEF IInv, Saved
<1>8. Nested'
  BY <1>1, <1>2, <1>5 DEF IInv, Nested
<1>9. NoLostSignal' /\ IdleMeansNobodyReady'
  BY <1>2, <1>3 DEF IInv, NoLostSignal, IdleMeansNobodyReady
<1>10. PromptPreemption'
  BY <1>2, <1>3, <1>5 DEF IInv, PromptPreemption
<1> QED  BY <1>3, <1>6, <1>7, <1>8, <1>9, <1>10 DEF IInv

\* Permit(),
LEMMA PermitKeeps == ASSUME IInv, NEW t \in Tasks, Permit(t) PROVE IInv'
<1>1. /\ t = thisTask /\ idle = FALSE /\ super = FALSE /\ pc[t] = "run"
      /\ tdNest = forbids[t] - 1 /\ idNest = disables[t] - 1
      /\ forbids[t] \in 0 .. MaxNest /\ disables[t] \in 0 .. MaxNest /\ MaxNest \in Nat
  BY Running DEF Permit
<1>2. /\ forbids[t] > 0 /\ tdNest' = tdNest - 1
      /\ forbids' = [forbids EXCEPT ![t] = @ - 1]
      /\ pc' = [pc EXCEPT ![t] = "check"]
      /\ UNCHANGED <<thisTask, idle, state, ahead, idNest, tcTD, tcID, quantumOver, elapsed,
                     disables, super, pri, sigWait, sigRecvd, switchPending, lowered>>
  BY DEF Permit, queueVars, timeVars
<1>3. OneRuns' /\ InList(Ready, ahead, pri)' /\ Ready' = Ready
  BY <1>2, ListsSame
<1>4. /\ forbids' \in [Tasks -> 0 .. MaxNest] /\ forbids'[t] = forbids[t] - 1
      /\ \A u \in Tasks \ {t} : forbids'[u] = forbids[u]
  BY <1>1, <1>2 DEF IInv, TypeOK
<1>5. tdNest' \in -1 .. MaxNest - 1 /\ tdNest' = forbids'[t] - 1
  BY <1>1, <1>2, <1>4
<1>6. /\ pc' \in [Tasks -> {"run", "check", "wait"}] /\ pc'[t] = "check"
      /\ \A u \in Tasks \ {t} : pc'[u] = pc[u]
  BY <1>1, <1>2 DEF IInv, TypeOK
<1>7. TypeOK'
  BY <1>2, <1>4, <1>5, <1>6 DEF IInv, TypeOK
<1>8. Saved'
  BY <1>1, <1>2, <1>4, <1>6 DEF IInv, Saved
<1>9. Nested'
  BY <1>1, <1>2, <1>5, <1>6 DEF IInv, Nested
<1>10. NoLostSignal'
  <2>1. state[t] = "run"  BY <1>1 DEF IInv, OneRuns
  <2> QED  BY <1>1, <1>2, <1>6, <2>1 DEF IInv, NoLostSignal
<1>11. IdleMeansNobodyReady'
  BY <1>2, <1>3 DEF IInv, IdleMeansNobodyReady
<1>12. PromptPreemption'
  BY <1>1, <1>2, <1>3, <1>6 DEF IInv, PromptPreemption, Runs
<1> QED  BY <1>3, <1>7, <1>8, <1>9, <1>10, <1>11, <1>12 DEF IInv

\* Disable(),
LEMMA DisableKeeps == ASSUME IInv, NEW t \in Tasks, Disable(t) PROVE IInv'
<1>1. /\ t = thisTask /\ idle = FALSE /\ super = FALSE /\ pc[t] = "run"
      /\ tdNest = forbids[t] - 1 /\ idNest = disables[t] - 1
      /\ forbids[t] \in 0 .. MaxNest /\ disables[t] \in 0 .. MaxNest /\ MaxNest \in Nat
  BY Running DEF Disable
<1>2. /\ disables[t] < MaxNest /\ idNest' = idNest + 1
      /\ disables' = [disables EXCEPT ![t] = @ + 1]
      /\ UNCHANGED <<thisTask, idle, state, ahead, tdNest, tcTD, tcID, quantumOver, elapsed,
                     forbids, super, pri, sigWait, sigRecvd, switchPending, pc, lowered>>
  BY DEF Disable, queueVars, timeVars
<1>3. OneRuns' /\ InList(Ready, ahead, pri)' /\ Ready' = Ready
  BY <1>2, ListsSame
<1>4. /\ disables' \in [Tasks -> 0 .. MaxNest] /\ disables'[t] = disables[t] + 1
      /\ \A u \in Tasks \ {t} : disables'[u] = disables[u]
  BY <1>1, <1>2 DEF IInv, TypeOK
<1>5. idNest' \in -1 .. MaxNest /\ idNest' >= 0 /\ idNest' = disables'[t] - 1
  BY <1>1, <1>2, <1>4
<1>6. TypeOK'
  BY <1>2, <1>4, <1>5 DEF IInv, TypeOK
<1>7. Saved'
  BY <1>1, <1>2, <1>4 DEF IInv, Saved
<1>8. Nested'
  BY <1>1, <1>2, <1>5 DEF IInv, Nested
<1>9. NoLostSignal' /\ IdleMeansNobodyReady'
  BY <1>2, <1>3 DEF IInv, NoLostSignal, IdleMeansNobodyReady
<1>10. PromptPreemption'
  BY <1>2, <1>3, <1>5 DEF IInv, PromptPreemption
<1> QED  BY <1>3, <1>6, <1>7, <1>8, <1>9, <1>10 DEF IInv

\* What AfterEnable() leaves of the program points.
LEMMA AfterEnableDoes ==
  ASSUME IInv, NEW t \in Tasks, NEW n \in Int, AfterEnable(t, n)
  PROVE  /\ pc' \in [Tasks -> {"run", "check", "wait"}]
         /\ pc'[t] \in {"run", "check"} /\ (pc'[t] = "run" => n >= 0)
         /\ \A u \in Tasks \ {t} : pc'[u] = pc[u]
<1>1. pc \in [Tasks -> {"run", "check", "wait"}]
  BY DEF IInv, TypeOK
<1>2. CASE n < 0
  BY <1>1, <1>2 DEF AfterEnable
<1>3. CASE ~(n < 0)
  BY <1>1, <1>3 DEF AfterEnable
<1> QED  BY <1>2, <1>3

\* Enable(),
LEMMA EnableKeeps == ASSUME IInv, NEW t \in Tasks, Enable(t) PROVE IInv'
<1>1. /\ t = thisTask /\ idle = FALSE /\ super = FALSE /\ pc[t] = "run"
      /\ tdNest = forbids[t] - 1 /\ idNest = disables[t] - 1
      /\ forbids[t] \in 0 .. MaxNest /\ disables[t] \in 0 .. MaxNest /\ MaxNest \in Nat
  BY Running DEF Enable
<1>2. /\ disables[t] > 0 /\ idNest' = idNest - 1
      /\ disables' = [disables EXCEPT ![t] = @ - 1]
      /\ AfterEnable(t, idNest - 1)
      /\ UNCHANGED <<thisTask, idle, state, ahead, tdNest, tcTD, tcID, quantumOver, elapsed,
                     forbids, super, pri, sigWait, sigRecvd, switchPending, lowered>>
  BY DEF Enable, queueVars, timeVars
<1>3. OneRuns' /\ InList(Ready, ahead, pri)' /\ Ready' = Ready
  BY <1>2, ListsSame
<1>4. /\ disables' \in [Tasks -> 0 .. MaxNest] /\ disables'[t] = disables[t] - 1
      /\ \A u \in Tasks \ {t} : disables'[u] = disables[u]
  BY <1>1, <1>2 DEF IInv, TypeOK
<1>5. idNest' \in -1 .. MaxNest /\ idNest' = disables'[t] - 1
  BY <1>1, <1>2, <1>4
<1>6. /\ pc' \in [Tasks -> {"run", "check", "wait"}]
      /\ pc'[t] \in {"run", "check"} /\ (pc'[t] = "run" => idNest' >= 0)
      /\ \A u \in Tasks \ {t} : pc'[u] = pc[u]
  <2>1. idNest - 1 \in Int
    BY <1>1
  <2> QED  BY <1>2, <2>1, AfterEnableDoes
<1>7. TypeOK'
  BY <1>2, <1>4, <1>5, <1>6 DEF IInv, TypeOK
<1>8. Saved'
  BY <1>1, <1>2, <1>4, <1>6 DEF IInv, Saved
<1>9. Nested'
  BY <1>1, <1>2, <1>5, <1>6 DEF IInv, Nested
<1>10. NoLostSignal'
  <2>1. state[t] = "run"  BY <1>1 DEF IInv, OneRuns
  <2> QED  BY <1>1, <1>2, <1>6, <2>1 DEF IInv, NoLostSignal
<1>11. IdleMeansNobodyReady'
  BY <1>2, <1>3 DEF IInv, IdleMeansNobodyReady
<1>12. PromptPreemption'
  BY <1>1, <1>2, <1>3, <1>6 DEF IInv, PromptPreemption, Runs
<1> QED  BY <1>3, <1>7, <1>8, <1>9, <1>10, <1>11, <1>12 DEF IInv
-----------------------------------------------------------------------------
(* Signals. *)

\* A signal from wherever: the lists stay in order, no wait sleeps through it, and a better
\* task that it makes ready leaves the switch pending.
LEMMA DoSignalDoes ==
  ASSUME IInv, NEW u \in Tasks, NEW S \in SUBSET Sigs, DoSignal(u, S),
         UNCHANGED <<thisTask, idle, pri, sigWait, lowered>>,
         \A x \in Tasks : pc'[x] = "wait" <=> pc[x] = "wait"
  PROVE  /\ sigRecvd' \in [Tasks -> SUBSET Sigs]
         /\ state' \in [Tasks -> {"run", "ready", "wait"}]
         /\ ahead' \in SUBSET (Tasks \X Tasks)
         /\ switchPending' \in BOOLEAN
         /\ OneRuns' /\ InList(Ready, ahead, pri)' /\ NoLostSignal'
         /\ ~idle /\ ~lowered /\ (\E v \in Ready' : pri[v] > pri[thisTask]) => switchPending'
<1>1. /\ sigRecvd \in [Tasks -> SUBSET Sigs] /\ sigWait \in [Tasks -> SUBSET Sigs]
      /\ state \in [Tasks -> {"run", "ready", "wait"}]
      /\ pri \in [Tasks -> Int] /\ thisTask \in Tasks /\ idle \in BOOLEAN
      /\ Ready \in SUBSET Tasks /\ InList(Ready, ahead, pri)
  BY Priorities DEF IInv, TypeOK, Ready
<1>2. sigRecvd' = [sigRecvd EXCEPT ![u] = @ \cup S]
  BY DEF DoSignal
<1>3. /\ sigRecvd' \in [Tasks -> SUBSET Sigs] /\ sigRecvd'[u] = sigRecvd[u] \cup S
      /\ \A x \in Tasks \ {u} : sigRecvd'[x] = sigRecvd[x]
  BY <1>1, <1>2
<1>4. \A x \in Tasks : /\ state[x] = "wait" => pc[x] = "wait"
                       /\ pc[x] = "wait" => (state[x] = "wait" <=> sigWait[x] \cap sigRecvd[x] = {})
  BY DEF IInv, NoLostSignal
<1>5. switchPending' \in BOOLEAN
  BY DEF DoSignal, AskForSwitch
<1>6. switchPending => switchPending'
  BY DEF DoSignal, AskForSwitch
<1>7. CASE Wakes(u, S)
  <2>1. /\ state[u] = "wait" /\ sigWait[u] \cap sigRecvd'[u] # {}
    BY <1>7, <1>3 DEF Wakes
  <2>2. state' = [state EXCEPT ![u] = "ready"] /\ ahead' = Enqueued(ahead, Ready, u, pri)
    BY <1>7 DEF DoSignal
  <2>3. /\ state' \in [Tasks -> {"run", "ready", "wait"}] /\ state'[u] = "ready"
        /\ \A x \in Tasks \ {u} : state'[x] = state[x]
    BY <1>1, <2>2
  <2>4. u \in Tasks \ Ready /\ Ready' = Ready \cup {u}
    BY <2>1, <2>3 DEF Ready
  <2>5. InList(Ready \cup {u}, Enqueued(ahead, Ready, u, pri), pri)
    BY <1>1, <2>4, EnqueuedList
  <2>6. InList(Ready, ahead, pri)'
    BY <2>2, <2>4, <2>5 DEF InList
  <2>7. ahead' \in SUBSET (Tasks \X Tasks)
    BY <1>1, <2>2, <2>4, <2>5 DEF InList
  <2>8. OneRuns'
    BY <2>1, <2>3 DEF IInv, OneRuns
  <2>9. NoLostSignal'
    <3> SUFFICES ASSUME NEW x \in Tasks
                 PROVE  /\ state'[x] = "wait" => pc'[x] = "wait"
                        /\ pc'[x] = "wait" =>
                             (state'[x] = "wait" <=> sigWait'[x] \cap sigRecvd'[x] = {})
      BY DEF NoLostSignal
    <3>1. CASE x = u
      BY <3>1, <2>1, <2>3
    <3>2. CASE x # u
      BY <3>2, <1>3, <1>4, <2>3
    <3> QED  BY <3>1, <3>2
  <2>10. ASSUME ~idle, ~lowered, NEW v \in Ready', pri[v] > pri[thisTask]
         PROVE  switchPending'
    <3>1. CASE v = u
      <4>1. state[thisTask] = "run"
        BY <1>1, <2>10 DEF IInv, OneRuns
      <4>2. /\ (sigRecvd[u] \cup S) \cap sigWait[u] # {} /\ state[u] # "run"
            /\ pri[u] > pri[thisTask] /\ state[thisTask] = "run"
        BY <3>1, <4>1, <2>1, <2>10, <1>7 DEF Wakes
      <4> QED  BY <4>2 DEF DoSignal, AskForSwitch
    <3>2. CASE v # u
      <4>1. v \in Ready
        BY <3>2, <2>4
      <4>2. switchPending
        BY <4>1, <2>10 DEF IInv, PromptPreemption
      <4> QED  BY <4>2, <1>6
    <3> QED  BY <3>1, <3>2
  <2> QED  BY <1>3, <1>5, <2>3, <2>6, <2>7, <2>8, <2>9, <2>10
<1>8. CASE ~Wakes(u, S)
  <2>1. state' = state /\ ahead' = ahead
    BY <1>8 DEF DoSignal
  <2>2. OneRuns' /\ InList(Ready, ahead, pri)' /\ Ready' = Ready
    BY <2>1, ListsSame
  <2>3. NoLostSignal'
    <3> SUFFICES ASSUME NEW x \in Tasks
                 PROVE  /\ state'[x] = "wait" => pc'[x] = "wait"
                        /\ pc'[x] = "wait" =>
                             (state'[x] = "wait" <=> sigWait'[x] \cap sigRecvd'[x] = {})
      BY DEF NoLostSignal
    <3>1. CASE x = u /\ state[u] = "wait"
      <4>1. (sigRecvd[u] \cup S) \cap sigWait[u] = {}
        BY <3>1, <1>8 DEF Wakes
      <4> QED  BY <3>1, <4>1, <1>3, <1>4, <2>1
    <3>2. CASE x = u /\ state[u] # "wait"
      BY <3>2, <1>3, <1>4, <2>1
    <3>3. CASE x # u
      BY <3>3, <1>3, <1>4, <2>1
    <3> QED  BY <3>1, <3>2, <3>3
  <2>4. ASSUME ~idle, ~lowered, NEW v \in Ready', pri[v] > pri[thisTask]
        PROVE  switchPending'
    BY <1>6, <2>2, <2>4 DEF IInv, PromptPreemption
  <2>5. state' \in [Tasks -> {"run", "ready", "wait"}] /\ ahead' \in SUBSET (Tasks \X Tasks)
    BY <2>1 DEF IInv, TypeOK
  <2> QED  BY <1>3, <1>5, <2>2, <2>3, <2>4, <2>5
<1> QED  BY <1>7, <1>8

\* Signal() by a task,
LEMMA SignalKeeps ==
  ASSUME IInv, NEW t \in Tasks, NEW u \in Tasks, NEW S \in SUBSET Sigs, Signal(t, u, S)
  PROVE  IInv'
<1>1. /\ t = thisTask /\ idle = FALSE /\ super = FALSE /\ pc[t] = "run" /\ state[t] = "run"
      /\ tdNest = forbids[t] - 1 /\ idNest = disables[t] - 1
      /\ forbids[t] \in 0 .. MaxNest /\ disables[t] \in 0 .. MaxNest /\ MaxNest \in Nat
  BY Running DEF Signal
<1>2. /\ DoSignal(u, S) /\ AfterEnable(t, idNest)
      /\ UNCHANGED <<thisTask, idle, tdNest, idNest, tcTD, tcID, quantumOver, elapsed,
                     forbids, disables, super, pri, sigWait, lowered>>
  BY DEF Signal, nestVars, timeVars, histVars
<1>3. /\ pc' \in [Tasks -> {"run", "check", "wait"}]
      /\ pc'[t] \in {"run", "check"} /\ (pc'[t] = "run" => idNest' >= 0)
      /\ \A x \in Tasks \ {t} : pc'[x] = pc[x]
  <2>1. idNest \in Int
    BY <1>1
  <2> QED  BY <1>2, <2>1, AfterEnableDoes
<1>4. \A x \in Tasks : pc'[x] = "wait" <=> pc[x] = "wait"
  BY <1>1, <1>3
<1>5. /\ sigRecvd' \in [Tasks -> SUBSET Sigs]
      /\ state' \in [Tasks -> {"run", "ready", "wait"}]
      /\ ahead' \in SUBSET (Tasks \X Tasks)
      /\ switchPending' \in BOOLEAN
      /\ OneRuns' /\ InList(Ready, ahead, pri)' /\ NoLostSignal'
      /\ ~idle /\ ~lowered /\ (\E v \in Ready' : pri[v] > pri[thisTask]) => switchPending'
  BY <1>2, <1>4, DoSignalDoes
<1>6. TypeOK'
  BY <1>2, <1>3, <1>5 DEF IInv, TypeOK
<1>7. Saved'
  BY <1>1, <1>2, <1>3 DEF IInv, Saved
<1>8. Nested'
  BY <1>1, <1>2, <1>3 DEF IInv, Nested
<1>9. PromptPreemption'
  BY <1>1, <1>2, <1>3, <1>5 DEF PromptPreemption, Runs
<1>10. IdleMeansNobodyReady'
  BY <1>1, <1>2 DEF IdleMeansNobodyReady
<1> QED  BY <1>5, <1>6, <1>7, <1>8, <1>9, <1>10 DEF IInv

\* Signal() in an interrupt,
LEMMA SignalFromInterruptKeeps ==
  ASSUME IInv, NEW u \in Tasks, NEW S \in SUBSET Sigs, SignalFromInterrupt(u, S)
  PROVE  IInv'
<1>1. /\ super /\ DoSignal(u, S)
      /\ UNCHANGED <<thisTask, idle, tdNest, idNest, tcTD, tcID, quantumOver, elapsed,
                     forbids, disables, super, pri, sigWait, pc, lowered>>
  BY DEF SignalFromInterrupt, nestVars, timeVars, histVars
<1>2. /\ sigRecvd' \in [Tasks -> SUBSET Sigs]
      /\ state' \in [Tasks -> {"run", "ready", "wait"}]
      /\ ahead' \in SUBSET (Tasks \X Tasks)
      /\ switchPending' \in BOOLEAN
      /\ OneRuns' /\ InList(Ready, ahead, pri)' /\ NoLostSignal'
      /\ ~idle /\ ~lowered /\ (\E v \in Ready' : pri[v] > pri[thisTask]) => switchPending'
  BY <1>1, DoSignalDoes
<1>3. TypeOK'
  BY <1>1, <1>2 DEF IInv, TypeOK
<1>4. Saved' /\ Nested'
  <2>1. Saved'  BY <1>1 DEF IInv, Saved
  <2>2. Nested'  BY <1>1 DEF IInv, Nested
  <2> QED  BY <2>1, <2>2
<1>5. PromptPreemption'
  BY <1>1, <1>2 DEF PromptPreemption, Runs
<1>6. IdleMeansNobodyReady'
  BY <1>1 DEF IdleMeansNobodyReady
<1> QED  BY <1>2, <1>3, <1>4, <1>5, <1>6 DEF IInv

\* SetSignal(),
LEMMA SetSignalKeeps ==
  ASSUME IInv, NEW t \in Tasks, NEW S \in SUBSET Sigs, SetSignal(t, S)
  PROVE  IInv'
<1>1. /\ t = thisTask /\ idle = FALSE /\ super = FALSE /\ pc[t] = "run" /\ state[t] = "run"
      /\ tdNest = forbids[t] - 1 /\ idNest = disables[t] - 1
      /\ forbids[t] \in 0 .. MaxNest /\ disables[t] \in 0 .. MaxNest /\ MaxNest \in Nat
  BY Running DEF SetSignal
<1>2. /\ sigRecvd' = [sigRecvd EXCEPT ![t] = S] /\ AfterEnable(t, idNest)
      /\ UNCHANGED <<thisTask, idle, state, ahead, tdNest, idNest, tcTD, tcID, quantumOver,
                     elapsed, forbids, disables, super, pri, sigWait, switchPending, lowered>>
  BY DEF SetSignal, queueVars, nestVars, timeVars, histVars
<1>3. OneRuns' /\ InList(Ready, ahead, pri)' /\ Ready' = Ready
  BY <1>2, ListsSame
<1>4. /\ sigRecvd' \in [Tasks -> SUBSET Sigs]
      /\ \A x \in Tasks \ {t} : sigRecvd'[x] = sigRecvd[x]
  BY <1>2 DEF IInv, TypeOK
<1>5. /\ pc' \in [Tasks -> {"run", "check", "wait"}]
      /\ pc'[t] \in {"run", "check"} /\ (pc'[t] = "run" => idNest' >= 0)
      /\ \A x \in Tasks \ {t} : pc'[x] = pc[x]
  <2>1. idNest \in Int
    BY <1>1
  <2> QED  BY <1>2, <2>1, AfterEnableDoes
<1>6. TypeOK'
  BY <1>2, <1>4, <1>5 DEF IInv, TypeOK
<1>7. Saved'
  BY <1>1, <1>2, <1>5 DEF IInv, Saved
<1>8. Nested'
  BY <1>1, <1>2, <1>5 DEF IInv, Nested
<1>9. NoLostSignal'
  BY <1>1, <1>2, <1>4, <1>5 DEF IInv, NoLostSignal
<1>10. IdleMeansNobodyReady'
  BY <1>2, <1>3 DEF IInv, IdleMeansNobodyReady
<1>11. PromptPreemption'
  BY <1>1, <1>2, <1>3, <1>5 DEF IInv, PromptPreemption, Runs
<1> QED  BY <1>3, <1>6, <1>7, <1>8, <1>9, <1>10, <1>11 DEF IInv

\* SetTaskPri(): a ready task moves to its new place.
LEMMA SetTaskPriKeeps ==
  ASSUME IInv, NEW t \in Tasks, NEW u \in Tasks, NEW p \in Pris, SetTaskPri(t, u, p)
  PROVE  IInv'
<1>1. /\ t = thisTask /\ idle = FALSE /\ super = FALSE /\ pc[t] = "run" /\ state[t] = "run"
      /\ tdNest = forbids[t] - 1 /\ idNest = disables[t] - 1
      /\ forbids[t] \in 0 .. MaxNest /\ disables[t] \in 0 .. MaxNest /\ MaxNest \in Nat
  BY Running DEF SetTaskPri
<1>2. /\ pri' = [pri EXCEPT ![u] = p] /\ Requeue(u, p) /\ AfterEnable(t, idNest)
      /\ switchPending' = (switchPending \/ (state[u] # "wait" /\ pri'[u] > pri'[t]))
      /\ lowered' = (lowered \/ (u = t /\ p < pri[t]))
      /\ UNCHANGED <<thisTask, idle, state, tdNest, idNest, tcTD, tcID, quantumOver,
                     elapsed, forbids, disables, super, sigWait, sigRecvd>>
  BY DEF SetTaskPri, nestVars, timeVars, histVars
<1>3. /\ pc' \in [Tasks -> {"run", "check", "wait"}]
      /\ pc'[t] \in {"run", "check"} /\ (pc'[t] = "run" => idNest' >= 0)
      /\ \A x \in Tasks \ {t} : pc'[x] = pc[x]
  <2>1. idNest \in Int
    BY <1>1
  <2> QED  BY <1>2, <2>1, AfterEnableDoes
<1>4. /\ pri \in [Tasks -> Int] /\ pri' \in [Tasks -> Int] /\ pri' \in [Tasks -> Pris]
      /\ pri'[u] = p /\ \A x \in Tasks \ {u} : pri'[x] = pri[x]
  BY <1>2, Priorities DEF IInv, TypeOK
<1>5. Ready' = Ready /\ Ready \in SUBSET Tasks
  BY <1>2 DEF Ready
<1>6. InList(Ready, ahead', pri') /\ ahead' \in SUBSET (Tasks \X Tasks)
  <2>1. CASE state[u] = "ready"
    <3>1. u \in Ready /\ ahead' = Enqueued(Removed(ahead, u), Ready \ {u}, u, pri')
      BY <2>1, <1>2 DEF Requeue, Ready
    <3>2. InList(Ready \ {u}, Removed(ahead, u), pri)
      BY RemovedList DEF IInv
    <3>3. \A x \in Ready \ {u} : pri'[x] = pri[x]
      BY <1>4, <1>5
    <3> DEFINE R == Ready \ {u}
               A == Removed(ahead, u)
               q == pri'
    <3>4. InList(R, A, q)
      BY <3>2, <3>3, ListPris
    <3>5. R \in SUBSET Tasks /\ q \in [Tasks -> Int] /\ u \in Tasks \ R
      BY <1>4, <1>5
    <3>6. R \cup {u} = Ready
      BY <3>1
    <3> HIDE DEF R, A, q
    <3>7. InList(R \cup {u}, Enqueued(A, R, u, q), q)
      BY <3>4, <3>5, EnqueuedList
    <3>8. InList(Ready, Enqueued(A, R, u, q), q)
      BY <3>6, <3>7
    <3>9. InList(Ready, ahead', pri')
      BY <3>1, <3>8 DEF R, A, q
    <3> QED  BY <3>9, <1>5 DEF InList
  <2>2. CASE state[u] # "ready"
    <3>1. ahead' = ahead /\ u \notin Ready
      BY <2>2, <1>2 DEF Requeue, Ready
    <3>2. \A x \in Ready : pri'[x] = pri[x]
      BY <3>1, <1>4, <1>5
    <3>3. InList(Ready, ahead, pri')
      BY <3>2, ListPris DEF IInv
    <3> QED  BY <3>1, <3>3, <1>5 DEF InList
  <2> QED  BY <2>1, <2>2
<1>7. InList(Ready, ahead, pri)'
  BY <1>5, <1>6 DEF InList
<1>8. lowered' \in BOOLEAN /\ switchPending' \in BOOLEAN
  BY <1>2
<1>9. TypeOK'
  BY <1>2, <1>3, <1>4, <1>6, <1>8 DEF IInv, TypeOK
<1>10. OneRuns'
  BY <1>2 DEF IInv, OneRuns
<1>11. Saved'
  BY <1>1, <1>2, <1>3 DEF IInv, Saved
<1>12. Nested'
  BY <1>1, <1>2, <1>3 DEF IInv, Nested
<1>13. NoLostSignal'
  BY <1>1, <1>2, <1>3 DEF IInv, NoLostSignal
<1>14. IdleMeansNobodyReady'
  BY <1>1, <1>2 DEF IdleMeansNobodyReady
<1>15. PromptPreemption'
  <2>1. ASSUME ~lowered', NEW v \in Ready, pri'[v] > pri'[t]
        PROVE  switchPending'
    <3>1. v \in Tasks /\ state[v] = "ready" /\ v # t
      BY <1>1 DEF Ready
    <3>2. CASE v = u
      <4>1. state[u] # "wait" /\ pri'[u] > pri'[t]
        BY <3>1, <3>2, <2>1
      <4> QED  BY <4>1, <1>2
    <3>3. CASE v # u
      <4>1. ~lowered
        BY <2>1, <1>2
      <4>2. pri[v] > pri[t]
        <5>1. pri'[v] = pri[v] /\ pri[v] \in Int /\ pri[t] \in Int /\ pri'[t] \in Int
          BY <1>4, <3>1, <3>3
        <5>2. CASE u = t
          <6>1. ~(p < pri[t]) /\ pri'[t] = p
            BY <5>2, <1>2, <1>4, <2>1
          <6> QED  BY <5>1, <6>1, <2>1
        <5>3. CASE u # t
          BY <5>1, <5>3, <1>4, <2>1
        <5> QED  BY <5>2, <5>3
      <4>3. switchPending
        BY <1>1, <2>1, <4>1, <4>2 DEF IInv, PromptPreemption
      <4> QED  BY <4>3, <1>2
    <3> QED  BY <3>2, <3>3
  <2>2. Runs(thisTask, "run")' => idNest' >= 0
    BY <1>1, <1>2, <1>3 DEF Runs
  <2> QED  BY <1>1, <1>2, <1>5, <2>1, <2>2 DEF PromptPreemption
<1> QED  BY <1>7, <1>9, <1>10, <1>11, <1>12, <1>13, <1>14, <1>15 DEF IInv
-----------------------------------------------------------------------------
(* Waiting. *)

\* One turn of the loop in Wait(): the signals are taken and the nesting is what it was, or
\* the nesting is put away and somebody else runs.
LEMMA WaitLoopKeeps ==
  ASSUME IInv, NEW t \in Tasks, NEW S \in SUBSET Sigs, NEW td, NEW id,
         t = thisTask, idle = FALSE, super = FALSE,
         td = forbids[t] - 1, id = disables[t],
         WaitLoop(t, S, td, id),
         UNCHANGED <<forbids, disables, super, pri>>
  PROVE  IInv'
<1>1. /\ forbids[t] \in 0 .. MaxNest /\ disables[t] \in 0 .. MaxNest /\ MaxNest \in Nat
      /\ state[t] = "run" /\ \A x \in Tasks : state[x] = "run" => x = t
  BY SchedConstantsOK DEF IInv, TypeOK, OneRuns
<1>2. CASE /\ sigRecvd[t] \cap S # {}
           /\ sigRecvd' = [sigRecvd EXCEPT ![t] = @ \ S]
           /\ idNest' = id - 1 /\ tdNest' = td
           /\ AfterEnable(t, id - 1)
           /\ UNCHANGED <<queueVars, tcTD, tcID, timeVars, sigWait, switchPending, lowered>>
  <2>1. UNCHANGED <<thisTask, idle, state, ahead, tcTD, tcID, quantumOver, elapsed, sigWait,
                    switchPending, lowered>>
    BY <1>2 DEF queueVars, timeVars
  <2>2. OneRuns' /\ InList(Ready, ahead, pri)' /\ Ready' = Ready
    BY <2>1, ListsSame
  <2>3. /\ sigRecvd' \in [Tasks -> SUBSET Sigs]
        /\ \A x \in Tasks \ {t} : sigRecvd'[x] = sigRecvd[x]
    BY <1>2 DEF IInv, TypeOK
  <2>4. /\ pc' \in [Tasks -> {"run", "check", "wait"}]
        /\ pc'[t] \in {"run", "check"} /\ (pc'[t] = "run" => idNest' >= 0)
        /\ \A x \in Tasks \ {t} : pc'[x] = pc[x]
    <3>1. id - 1 \in Int
      BY <1>1
    <3> QED  BY <1>2, <3>1, AfterEnableDoes
  <2>5. tdNest' \in -1 .. MaxNest - 1 /\ idNest' \in -1 .. MaxNest
    BY <1>1, <1>2
  <2>6. TypeOK'
    BY <2>1, <2>3, <2>4, <2>5 DEF IInv, TypeOK
  <2>7. Saved'
    BY <2>1, <2>4 DEF IInv, Saved
  <2>8. Nested'
    BY <1>2, <2>1, <2>4 DEF IInv, Nested
  <2>9. NoLostSignal'
    BY <1>1, <2>1, <2>3, <2>4 DEF IInv, NoLostSignal
  <2>10. IdleMeansNobodyReady'
    BY <2>1 DEF IdleMeansNobodyReady
  <2>11. PromptPreemption'
    BY <2>1, <2>2, <2>4 DEF IInv, PromptPreemption, Runs
  <2> QED  BY <2>2, <2>6, <2>7, <2>8, <2>9, <2>10, <2>11 DEF IInv
<1>3. CASE /\ sigRecvd[t] \cap S = {}
           /\ sigWait' = [sigWait EXCEPT ![t] = S]
           /\ BreakForbid(t, td)
           /\ pc' = [pc EXCEPT ![t] = "wait"]
           /\ Dispatch([state EXCEPT ![t] = "wait"], ahead, [tcID EXCEPT ![t] = id], switchPending)
           /\ UNCHANGED sigRecvd
  <2> DEFINE W == [state EXCEPT ![t] = "wait"]
             ids == [tcID EXCEPT ![t] = id]
             pending == switchPending
  <2>1. W \in [Tasks -> {"ready", "wait"}] /\ W[t] = "wait"
        /\ \A x \in Tasks \ {t} : W[x] = state[x]
    BY <1>1 DEF IInv, TypeOK
  <2>2. ids \in [Tasks -> -1 .. MaxNest] /\ ids[t] = id
        /\ \A x \in Tasks \ {t} : ids[x] = tcID[x]
    BY <1>1 DEF IInv, TypeOK
  <2>3. Dispatch(W, ahead, ids, pending) /\ pending \in BOOLEAN
    BY <1>3 DEF IInv, TypeOK
  <2> HIDE DEF W, ids, pending
  <2>4. {x \in Tasks : W[x] = "ready"} = Ready
    BY <1>1, <2>1 DEF Ready
  <2>5. InList({x \in Tasks : W[x] = "ready"}, ahead, pri)
    BY <2>4 DEF IInv
  <2>6. /\ pc' \in [Tasks -> {"run", "check", "wait"}] /\ pc'[t] = "wait"
        /\ \A x \in Tasks \ {t} : pc'[x] = pc[x]
    BY <1>3 DEF IInv, TypeOK
  <2>7. /\ sigWait' \in [Tasks -> SUBSET Sigs] /\ sigWait'[t] = S
        /\ \A x \in Tasks \ {t} : sigWait'[x] = sigWait[x]
        /\ sigRecvd' \in [Tasks -> SUBSET Sigs] /\ sigRecvd' = sigRecvd
    BY <1>3 DEF IInv, TypeOK
  <2>8. /\ tdNest' = -1 /\ tcTD' \in [Tasks -> -1 .. MaxNest - 1] /\ tcTD'[t] = td
        /\ \A x \in Tasks \ {t} : tcTD'[x] = tcTD[x]
    <3>1. td \in -1 .. MaxNest - 1
      BY <1>1
    <3> QED  BY <1>3, <3>1 DEF BreakForbid, IInv, TypeOK
  <2>9. ASSUME NEW x \in Tasks
        PROVE  /\ pc'[x] = "wait" => tcTD'[x] = forbids[x] - 1 /\ ids[x] = disables[x]
               /\ pc'[x] # "wait" => forbids[x] = 0 /\ disables[x] = 0 /\ ids[x] = -1
               /\ W[x] = "wait" => pc'[x] = "wait"
               /\ pc'[x] = "wait" => (W[x] = "wait" <=> sigWait'[x] \cap sigRecvd'[x] = {})
    <3>1. CASE x = t
      <4>1. sigWait'[x] \cap sigRecvd'[x] = {}
        BY <3>1, <1>3, <2>7
      <4> QED  BY <3>1, <4>1, <2>1, <2>2, <2>6, <2>8
    <3>2. CASE x # t
      <4>1. /\ pc[x] = "wait" => tcTD[x] = forbids[x] - 1 /\ tcID[x] = disables[x]
            /\ pc[x] # "wait" => forbids[x] = 0 /\ disables[x] = 0 /\ tcID[x] = -1
        BY <3>2 DEF IInv, Saved
      <4>2. /\ state[x] = "wait" => pc[x] = "wait"
            /\ pc[x] = "wait" => (state[x] = "wait" <=> sigWait[x] \cap sigRecvd[x] = {})
        BY DEF IInv, NoLostSignal
      <4> QED  BY <3>2, <4>1, <4>2, <2>1, <2>2, <2>6, <2>7, <2>8
    <3> QED  BY <3>1, <3>2
  <2>10. TypeOK /\ super' = FALSE
    BY DEF IInv, TypeOK
  <2>11. /\ W \in [Tasks -> {"ready", "wait"}] /\ ids \in [Tasks -> -1 .. MaxNest]
         /\ pc' \in [Tasks -> {"run", "check", "wait"}]
         /\ sigWait' \in [Tasks -> SUBSET Sigs] /\ sigRecvd' \in [Tasks -> SUBSET Sigs]
         /\ tdNest' = -1 /\ tcTD' \in [Tasks -> -1 .. MaxNest - 1]
         /\ UNCHANGED <<pri, forbids, disables>>
    BY <2>1, <2>2, <2>6, <2>7, <2>8
  <2>12. Dispatching(W, ahead, ids, pending)
    BY <2>3, <2>5, <2>9, <2>10, <2>11 DEF Dispatching
  <2> QED  BY <2>10, <2>12, DispatchKeeps
<1> QED  BY <1>2, <1>3 DEF WaitLoop

\* Wait(),
LEMMA WaitKeeps == ASSUME IInv, NEW t \in Tasks, NEW S \in SUBSET Sigs, Wait(t, S) PROVE IInv'
<1>1. /\ t = thisTask /\ idle = FALSE /\ super = FALSE
      /\ tdNest = forbids[t] - 1 /\ idNest = disables[t] - 1
      /\ disables[t] \in 0 .. MaxNest
  BY Running DEF Wait
<1>2. idNest + 1 = disables[t]
  BY <1>1
<1> QED  BY <1>1, <1>2, WaitLoopKeeps DEF Wait, histVars

\* the return from it,
LEMMA WaitResumeKeeps == ASSUME IInv, NEW t \in Tasks, WaitResume(t) PROVE IInv'
<1>1. t = thisTask /\ idle = FALSE /\ super = FALSE /\ pc[t] = "wait"
  BY DEF WaitResume, Runs, IInv, TypeOK
<1>2. idNest = disables[t] /\ tcTD[t] = forbids[t] - 1 /\ sigWait[t] \in SUBSET Sigs
  BY <1>1 DEF IInv, Nested, TypeOK
<1> QED  BY <1>1, <1>2, WaitLoopKeeps DEF WaitResume, histVars

\* the look at a pending switch,
LEMMA TailCheckKeeps == ASSUME IInv, NEW t \in Tasks, TailCheck(t) PROVE IInv'
<1>1. /\ t = thisTask /\ idle = FALSE /\ super = FALSE /\ pc[t] = "check" /\ state[t] = "run"
      /\ tdNest = forbids[t] - 1 /\ idNest = disables[t] - 1
      /\ forbids[t] \in 0 .. MaxNest /\ disables[t] \in 0 .. MaxNest /\ MaxNest \in Nat
  BY Running DEF TailCheck
<1>2. /\ pc' = [pc EXCEPT ![t] = "run"]
      /\ UNCHANGED <<tdNest, tcTD, forbids, disables, super, pri, sigWait, sigRecvd>>
  BY DEF TailCheck, histVars
<1>3. /\ pc' \in [Tasks -> {"run", "check", "wait"}] /\ pc'[t] = "run"
      /\ \A x \in Tasks \ {t} : pc'[x] = pc[x]
  BY <1>2 DEF IInv, TypeOK
<1>4. CASE MaySwitch /\ Schedule
  <2>1. tdNest < 0 /\ idNest < 0
    BY <1>4 DEF MaySwitch
  <2>2. \A x \in Tasks : pc'[x] = "wait" <=> pc[x] = "wait"
    BY <1>1, <1>3
  <2>3. super' = FALSE /\ pc[thisTask] # "wait"
    BY <1>1, <1>2
  <2> QED  BY <1>1, <1>2, <1>3, <1>4, <2>1, <2>2, <2>3, ScheduleKeeps
<1>5. CASE /\ ~MaySwitch
           /\ UNCHANGED <<queueVars, idNest, tcID, timeVars, switchPending, lowered>>
  <2>1. UNCHANGED <<thisTask, idle, state, ahead, idNest, tcID, quantumOver, elapsed,
                    switchPending, lowered>>
    BY <1>5 DEF queueVars, timeVars
  <2>2. OneRuns' /\ InList(Ready, ahead, pri)' /\ Ready' = Ready
    BY <1>2, <2>1, ListsSame
  <2>3. TypeOK'
    BY <1>2, <1>3, <2>1 DEF IInv, TypeOK
  <2>4. Saved'
    BY <1>1, <1>2, <1>3, <2>1 DEF IInv, Saved
  <2>5. Nested'
    BY <1>1, <1>2, <1>3, <2>1 DEF IInv, Nested
  <2>6. NoLostSignal'
    BY <1>1, <1>2, <1>3, <2>1 DEF IInv, NoLostSignal
  <2>7. IdleMeansNobodyReady'
    BY <1>1, <2>1 DEF IdleMeansNobodyReady
  <2>8. PromptPreemption'
    <3>1. switchPending => tdNest >= 0 \/ idNest >= 0
      BY <1>1, <1>5 DEF MaySwitch
    <3> QED  BY <1>1, <1>2, <2>1, <2>2, <3>1 DEF IInv, PromptPreemption, Runs
  <2> QED  BY <2>2, <2>3, <2>4, <2>5, <2>6, <2>7, <2>8 DEF IInv
<1> QED  BY <1>4, <1>5 DEF TailCheck
-----------------------------------------------------------------------------
(* Interrupts. *)

\* an interrupt that comes,
LEMMA InterruptKeeps == ASSUME IInv, Interrupt PROVE IInv'
<1>1. /\ super = FALSE /\ (idle \/ idNest < 0) /\ super' = TRUE
      /\ UNCHANGED <<thisTask, idle, state, ahead, tdNest, idNest, tcTD, tcID, quantumOver,
                     elapsed, forbids, disables, pri, sigWait, sigRecvd, switchPending, pc,
                     lowered>>
  BY DEF Interrupt, Interruptible, queueVars, nestVars, timeVars, histVars, IInv, TypeOK
<1>2. OneRuns' /\ InList(Ready, ahead, pri)' /\ Ready' = Ready
  BY <1>1, ListsSame
<1>3. TypeOK'
  BY <1>1 DEF IInv, TypeOK
<1>4. Saved'  BY <1>1 DEF IInv, Saved
<1>5. Nested'  BY <1>1 DEF IInv, Nested
<1>6. NoLostSignal'  BY <1>1 DEF IInv, NoLostSignal
<1>7. IdleMeansNobodyReady'  BY <1>1 DEF IdleMeansNobodyReady
<1>8. PromptPreemption'  BY <1>1, <1>2 DEF IInv, PromptPreemption, Runs
<1> QED  BY <1>2, <1>3, <1>4, <1>5, <1>6, <1>7, <1>8 DEF IInv

\* that counts the quantum,
LEMMA VBlankServerKeeps == ASSUME IInv, VBlankServer PROVE IInv'
<1>1. /\ super = TRUE
      /\ elapsed' = (IF elapsed = 0 THEN 0 ELSE elapsed - 1)
      /\ quantumOver' = (quantumOver \/ elapsed <= 1)
      /\ switchPending' = (switchPending \/ elapsed <= 1)
      /\ UNCHANGED <<thisTask, idle, state, ahead, tdNest, idNest, tcTD, tcID, forbids,
                     disables, super, pri, sigWait, sigRecvd, pc, lowered>>
  BY DEF VBlankServer, Tick, queueVars, nestVars, histVars, IInv, TypeOK
<1>2. OneRuns' /\ InList(Ready, ahead, pri)' /\ Ready' = Ready
  BY <1>1, ListsSame
<1>3. elapsed' \in 0 .. Quantum /\ quantumOver' \in BOOLEAN /\ switchPending' \in BOOLEAN
  <2>1. elapsed \in 0 .. Quantum /\ Quantum \in Nat
    BY SchedConstantsOK DEF IInv, TypeOK
  <2>2. elapsed' \in 0 .. Quantum
    BY <2>1, <1>1
  <2> QED  BY <2>2, <1>1
<1>4. TypeOK'
  BY <1>1, <1>3 DEF IInv, TypeOK
<1>5. Saved'  BY <1>1 DEF IInv, Saved
<1>6. Nested'  BY <1>1 DEF IInv, Nested
<1>7. NoLostSignal'  BY <1>1 DEF IInv, NoLostSignal
<1>8. IdleMeansNobodyReady'  BY <1>1 DEF IdleMeansNobodyReady
<1>9. PromptPreemption'  BY <1>1, <1>2 DEF IInv, PromptPreemption, Runs
<1> QED  BY <1>2, <1>4, <1>5, <1>6, <1>7, <1>8, <1>9 DEF IInv

\* and that ends.
LEMMA ExitInterruptKeeps == ASSUME IInv, ExitInterrupt PROVE IInv'
<1>1. /\ super = TRUE /\ super' = FALSE
      /\ UNCHANGED <<tdNest, tcTD, forbids, disables, pri, sigWait, sigRecvd, pc>>
  BY DEF ExitInterrupt, histVars, IInv, TypeOK
<1>2. CASE idle /\ Dispatch(state, ahead, tcID, switchPending)
  <2> DEFINE W == state
             ids == tcID
             pending == switchPending
  <2>1. W \in [Tasks -> {"ready", "wait"}] /\ ids \in [Tasks -> -1 .. MaxNest]
        /\ pending \in BOOLEAN /\ Dispatch(W, ahead, ids, pending)
    BY <1>2 DEF IInv, TypeOK, OneRuns
  <2>2. InList({x \in Tasks : W[x] = "ready"}, ahead, pri)
    BY DEF IInv, Ready
  <2>3. /\ tdNest' = -1 /\ tcTD' \in [Tasks -> -1 .. MaxNest - 1]
        /\ pc' \in [Tasks -> {"run", "check", "wait"}]
        /\ sigWait' \in [Tasks -> SUBSET Sigs] /\ sigRecvd' \in [Tasks -> SUBSET Sigs]
    BY <1>1, <1>2 DEF IInv, TypeOK, Nested
  <2>4. ASSUME NEW x \in Tasks
        PROVE  /\ pc'[x] = "wait" => tcTD'[x] = forbids[x] - 1 /\ ids[x] = disables[x]
               /\ pc'[x] # "wait" => forbids[x] = 0 /\ disables[x] = 0 /\ ids[x] = -1
               /\ W[x] = "wait" => pc'[x] = "wait"
               /\ pc'[x] = "wait" => (W[x] = "wait" <=> sigWait'[x] \cap sigRecvd'[x] = {})
    <3>1. /\ pc[x] = "wait" => tcTD[x] = forbids[x] - 1 /\ tcID[x] = disables[x]
          /\ pc[x] # "wait" => forbids[x] = 0 /\ disables[x] = 0 /\ tcID[x] = -1
      BY <1>2 DEF IInv, Saved
    <3>2. /\ state[x] = "wait" => pc[x] = "wait"
          /\ pc[x] = "wait" => (state[x] = "wait" <=> sigWait[x] \cap sigRecvd[x] = {})
      BY DEF IInv, NoLostSignal
    <3> QED  BY <3>1, <3>2, <1>1
  <2> HIDE DEF W, ids, pending
  <2>5. Dispatching(W, ahead, ids, pending)
    BY <1>1, <2>1, <2>2, <2>3, <2>4 DEF Dispatching
  <2>6. TypeOK  BY DEF IInv
  <2> QED  BY <2>5, <2>6, DispatchKeeps
<1>3. CASE ~idle /\ tdNest < 0 /\ switchPending /\ Schedule
  <2>1. idle = FALSE /\ idNest < 0 /\ thisTask \in Tasks
    BY <1>1, <1>3 DEF IInv, TypeOK, Nested
  <2>2. pc[thisTask] # "wait"
    <3>1. disables[thisTask] \in 0 .. MaxNest /\ MaxNest \in Nat
      BY <2>1, SchedConstantsOK DEF IInv, TypeOK
    <3> QED  BY <2>1, <3>1 DEF IInv, Nested
  <2>3. /\ pc' \in [Tasks -> {"run", "check", "wait"}]
        /\ \A u \in Tasks : pc'[u] = "wait" <=> pc[u] = "wait"
    BY <1>1 DEF IInv, TypeOK
  <2> QED  BY <1>1, <1>3, <2>1, <2>2, <2>3, ScheduleKeeps
<1>4. CASE /\ ~idle /\ ~(tdNest < 0 /\ switchPending)
           /\ UNCHANGED <<queueVars, idNest, tcID, timeVars, switchPending, lowered>>
  <2>1. UNCHANGED <<thisTask, idle, state, ahead, idNest, tcID, quantumOver, elapsed,
                    switchPending, lowered>>
    BY <1>4 DEF queueVars, timeVars
  <2>2. OneRuns' /\ InList(Ready, ahead, pri)' /\ Ready' = Ready
    BY <1>1, <2>1, ListsSame
  <2>3. TypeOK'
    BY <1>1, <2>1 DEF IInv, TypeOK
  <2>4. Saved'  BY <1>1, <2>1 DEF IInv, Saved
  <2>5. Nested'  BY <1>1, <2>1 DEF IInv, Nested
  <2>6. NoLostSignal'  BY <1>1, <2>1 DEF IInv, NoLostSignal
  <2>7. IdleMeansNobodyReady'  BY <1>4, <2>1 DEF IdleMeansNobodyReady
  <2>8. PromptPreemption'
    <3>1. switchPending => tdNest >= 0
      BY <1>4 DEF IInv, TypeOK
    <3> QED  BY <1>1, <2>1, <2>2, <3>1 DEF IInv, PromptPreemption, Runs
  <2> QED  BY <2>2, <2>3, <2>4, <2>5, <2>6, <2>7, <2>8 DEF IInv
<1> QED  BY <1>2, <1>3, <1>4 DEF ExitInterrupt
-----------------------------------------------------------------------------
(* The specification. *)

\* The invariant holds at first,
LEMMA InitInv == Init => IInv
<1> SUFFICES ASSUME Init PROVE IInv
  OBVIOUS
<1>1. /\ Boot \in Tasks /\ Quantum \in Nat /\ MaxNest \in Nat /\ InitPri \in [Tasks -> Pris]
  BY SchedConstantsOK
<1>2. /\ thisTask = Boot /\ idle = FALSE /\ super = FALSE /\ ahead = {} /\ pri = InitPri
      /\ state = [t \in Tasks |-> IF t = Boot THEN "run" ELSE "wait"]
      /\ sigWait \in [Tasks -> SUBSET Sigs \ {{}}] /\ sigRecvd = [t \in Tasks |-> {}]
      /\ tdNest = -1 /\ idNest = -1
      /\ tcTD = [t \in Tasks |-> -1]
      /\ tcID = [t \in Tasks |-> IF t = Boot THEN -1 ELSE 0]
      /\ switchPending = FALSE /\ quantumOver = FALSE /\ elapsed = Quantum /\ lowered = FALSE
      /\ pc = [t \in Tasks |-> IF t = Boot THEN "run" ELSE "wait"]
      /\ forbids = [t \in Tasks |-> 0] /\ disables = [t \in Tasks |-> 0]
  BY DEF Init
<1>3. TypeOK
  <2>1. -1 \in -1 .. MaxNest - 1 /\ -1 \in -1 .. MaxNest /\ 0 \in -1 .. MaxNest
        /\ 0 \in 0 .. MaxNest /\ Quantum \in 0 .. Quantum
    BY <1>1
  <2>2. /\ state \in [Tasks -> {"run", "ready", "wait"}]
        /\ pc \in [Tasks -> {"run", "check", "wait"}]
        /\ sigWait \in [Tasks -> SUBSET Sigs] /\ sigRecvd \in [Tasks -> SUBSET Sigs]
    BY <1>2
  <2>3. /\ tcTD \in [Tasks -> -1 .. MaxNest - 1] /\ tcID \in [Tasks -> -1 .. MaxNest]
        /\ forbids \in [Tasks -> 0 .. MaxNest] /\ disables \in [Tasks -> 0 .. MaxNest]
    BY <1>2, <2>1
  <2> QED  BY <1>1, <1>2, <2>1, <2>2, <2>3 DEF TypeOK
<1>4. Ready = {}
  BY <1>2 DEF Ready
<1>5. OneRuns /\ InList(Ready, ahead, pri)
  BY <1>1, <1>2, <1>4 DEF OneRuns, InList
<1>6. Saved
  BY <1>2 DEF Saved
<1>7. Nested
  BY <1>1, <1>2 DEF Nested
<1>8. NoLostSignal
  BY <1>2 DEF NoLostSignal
<1>9. PromptPreemption /\ IdleMeansNobodyReady
  BY <1>4 DEF PromptPreemption, IdleMeansNobodyReady
<1> QED  BY <1>3, <1>5, <1>6, <1>7, <1>8, <1>9 DEF IInv

\* stays where nothing happens,
LEMMA StutterKeeps == ASSUME IInv, UNCHANGED vars PROVE IInv'
<1>1. UNCHANGED <<thisTask, idle, state, ahead, tdNest, idNest, tcTD, tcID, quantumOver,
                  elapsed, forbids, disables, super, pri, sigWait, sigRecvd, switchPending,
                  pc, lowered>>
  BY DEF vars, queueVars, nestVars, timeVars, histVars
<1>2. OneRuns' /\ InList(Ready, ahead, pri)' /\ Ready' = Ready
  BY <1>1, ListsSame
<1>3. TypeOK'  BY <1>1 DEF IInv, TypeOK
<1>4. Saved'  BY <1>1 DEF IInv, Saved
<1>5. Nested'  BY <1>1 DEF IInv, Nested
<1>6. NoLostSignal'  BY <1>1 DEF IInv, NoLostSignal
<1>7. IdleMeansNobodyReady'  BY <1>1, <1>2 DEF IInv, IdleMeansNobodyReady
<1>8. PromptPreemption'  BY <1>1, <1>2 DEF IInv, PromptPreemption, Runs
<1> QED  BY <1>2, <1>3, <1>4, <1>5, <1>6, <1>7, <1>8 DEF IInv

\* and every step keeps it,
LEMMA NextInv == IInv /\ [Next]_vars => IInv'
<1> SUFFICES ASSUME IInv, [Next]_vars PROVE IInv'
  OBVIOUS
<1>1. ASSUME NEW t \in Tasks, TaskStep(t) PROVE IInv'
  <2>1. ASSUME NEW u \in Tasks, NEW s \in Sigs, Signal(t, u, {s}) PROVE IInv'
    <3> DEFINE S == {s}
    <3>1. S \in SUBSET Sigs /\ Signal(t, u, S)  BY <2>1
    <3> HIDE DEF S
    <3> QED  BY <3>1, SignalKeeps
  <2>2. ASSUME NEW S \in SUBSET Sigs, SetSignal(t, S) PROVE IInv'
    BY <2>2, SetSignalKeeps
  <2>3. ASSUME NEW u \in Tasks, NEW p \in Pris, SetTaskPri(t, u, p) PROVE IInv'
    BY <2>3, SetTaskPriKeeps
  <2>4. ASSUME NEW S \in SUBSET Sigs, Wait(t, S) PROVE IInv'
    BY <2>4, WaitKeeps
  <2>5. CASE Forbid(t)  BY <2>5, ForbidKeeps
  <2>6. CASE Permit(t)  BY <2>6, PermitKeeps
  <2>7. CASE Disable(t)  BY <2>7, DisableKeeps
  <2>8. CASE Enable(t)  BY <2>8, EnableKeeps
  <2>9. CASE TailCheck(t)  BY <2>9, TailCheckKeeps
  <2>10. CASE WaitResume(t)  BY <2>10, WaitResumeKeeps
  <2> QED
    BY <1>1, <2>1, <2>2, <2>3, <2>4, <2>5, <2>6, <2>7, <2>8, <2>9, <2>10 DEF TaskStep
<1>2. CASE InterruptStep
  <2>1. ASSUME NEW u \in Tasks, NEW s \in Sigs, SignalFromInterrupt(u, {s}) PROVE IInv'
    <3> DEFINE S == {s}
    <3>1. S \in SUBSET Sigs /\ SignalFromInterrupt(u, S)  BY <2>1
    <3> HIDE DEF S
    <3> QED  BY <3>1, SignalFromInterruptKeeps
  <2> QED
    BY <1>2, <2>1, InterruptKeeps, VBlankServerKeeps, ExitInterruptKeeps DEF InterruptStep
<1> QED  BY <1>1, <1>2, StutterKeeps DEF Next

\* so that it holds in every reachable state.
LEMMA Invariance == Spec => []IInv
<1> QED  BY InitInv, NextInv, PTL DEF Spec
-----------------------------------------------------------------------------
\* The variables keep their types; the quantum does not wrap and no nesting goes below -1.
THEOREM TypeCorrect == Spec => []TypeOK
<1>1. IInv => TypeOK  BY DEF IInv
<1> QED  BY <1>1, Invariance, PTL

\* tc_State, ThisTask and TaskReady agree, and TaskReady is sorted, for any priorities.
THEOREM ListsAgree == Spec => []StatesAgree
<1>1. IInv => StatesAgree
  <2> SUFFICES ASSUME IInv PROVE StatesAgree
    OBVIOUS
  <2>1. ahead \subseteq Ready \X Ready
        /\ \A t, u \in Ready : <<t, u>> \in ahead => pri[t] >= pri[u]
    BY DEF IInv, InList
  <2>2. \A q \in ahead : pri[q[1]] >= pri[q[2]]
    BY <2>1
  <2> QED  BY <2>1, <2>2 DEF IInv, InList, OneRuns, StatesAgree
<1> QED  BY <1>1, Invariance, PTL

\* Wait() sleeps through no signal, and is not woken without one.
THEOREM SignalsArrive == Spec => []NoLostSignal
<1>1. IInv => NoLostSignal  BY DEF IInv
<1> QED  BY <1>1, Invariance, PTL

\* Forbid() and Disable() hold, and each task has its own nesting back after a Wait().
THEOREM Locking == Spec => []LocksHold
<1>1. IInv => LocksHold
  <2> SUFFICES ASSUME IInv PROVE LocksHold
    OBVIOUS
  <2>1. ASSUME NEW u \in Tasks, state[u] = "ready", pc[u] # "wait"
        PROVE  forbids[u] = 0 /\ disables[u] = 0
    <3>1. u # thisTask \/ idle
      BY <2>1 DEF IInv, OneRuns
    <3> QED  BY <2>1, <3>1 DEF IInv, Saved
  <2> QED  BY <2>1 DEF IInv, Nested, LocksHold
<1> QED  BY <1>1, Invariance, PTL

\* A better task gets the processor as soon as nothing forbids it.
THEOREM Preemption == Spec => []PromptPreemption
<1>1. IInv => PromptPreemption  BY DEF IInv
<1> QED  BY <1>1, Invariance, PTL

\* The processor sleeps only while nobody is ready.
THEOREM IdleJustified == Spec => []IdleMeansNobodyReady
<1>1. IInv => IdleMeansNobodyReady  BY DEF IInv
<1> QED  BY <1>1, Invariance, PTL
=============================================================================
