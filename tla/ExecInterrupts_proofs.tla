----------------------- MODULE ExecInterrupts_proofs -----------------------
(***************************************************************************)
(* The types, the queues and the announcement of software interrupts, for  *)
(* any set of software interrupts, any priorities and any nesting.         *)
(***************************************************************************)
EXTENDS ExecInterrupts, TLAPS

\* core_ExitInterrupt() is entered from tasks, never from the idle loop.
NotIdling == where \in {"exit", "leave"} => ~idling

\* The inductive invariant.
IInv == TypeOK /\ NotIdling /\ TypeTellsQueued /\ NoneForgotten
-----------------------------------------------------------------------------
(* Sequences without repetition. *)

\* One more at the end of a list.
LEMMA AppendToSet ==
  ASSUME NEW S, NEW s \in Seq(S), NEW x \in S, IsInjective(s), x \notin ToSet(s)
  PROVE  /\ Append(s, x) \in Seq(S)
         /\ IsInjective(Append(s, x))
         /\ ToSet(Append(s, x)) = ToSet(s) \cup {x}
<1>1. Append(s, x) \in Seq(S) /\ Len(Append(s, x)) = Len(s) + 1
  OBVIOUS
<1>2. /\ \A k \in 1 .. Len(s) : Append(s, x)[k] = s[k]
      /\ Append(s, x)[Len(s) + 1] = x
  OBVIOUS
<1>3. IsInjective(Append(s, x))
  BY <1>1, <1>2 DEF IsInjective, ToSet
<1>4. ToSet(Append(s, x)) = ToSet(s) \cup {x}
  BY <1>1, <1>2 DEF ToSet
<1> QED  BY <1>1, <1>3, <1>4

\* A list without its first.
LEMMA TailToSet ==
  ASSUME NEW S, NEW s \in Seq(S), s # <<>>, IsInjective(s)
  PROVE  /\ Tail(s) \in Seq(S) /\ Head(s) \in S
         /\ IsInjective(Tail(s))
         /\ ToSet(Tail(s)) = ToSet(s) \ {Head(s)}
         /\ Head(s) \in ToSet(s)
<1>1. /\ Tail(s) \in Seq(S) /\ Head(s) \in S
      /\ Len(Tail(s)) = Len(s) - 1 /\ Len(s) \in Nat \ {0}
      /\ Head(s) = s[1]
  OBVIOUS
<1>2. \A k \in 1 .. Len(s) - 1 : Tail(s)[k] = s[k + 1]
  OBVIOUS
<1>3. IsInjective(Tail(s))
  BY <1>1, <1>2 DEF IsInjective
<1>4. \A y : y \in ToSet(Tail(s)) <=> y \in ToSet(s) /\ y # Head(s)
  <2>1. ASSUME NEW y, y \in ToSet(Tail(s)) PROVE y \in ToSet(s) /\ y # Head(s)
    BY <2>1, <1>1, <1>2 DEF ToSet, IsInjective
  <2>2. ASSUME NEW y, y \in ToSet(s), y # Head(s) PROVE y \in ToSet(Tail(s))
    <3>1. PICK k \in 1 .. Len(s) : y = s[k]
      BY <2>2 DEF ToSet
    <3>2. k # 1 /\ k \in Nat
      BY <2>2, <3>1, <1>1
    <3>3. k - 1 \in 1 .. Len(s) - 1 /\ (k - 1) + 1 = k
      BY <3>1, <3>2, <1>1
    <3>4. Tail(s)[k - 1] = y
      BY <3>1, <3>3, <1>2
    <3>5. k - 1 \in DOMAIN Tail(s)
      BY <3>3, <1>1
    <3> QED  BY <3>4, <3>5 DEF ToSet
  <2> QED  BY <2>1, <2>2
<1>5. Head(s) \in ToSet(s)
  BY <1>1 DEF ToSet
<1> QED  BY <1>1, <1>3, <1>4, <1>5
-----------------------------------------------------------------------------
(* The lists. *)

\* The nesting has its range.
LEMMA Nesting == MaxNest \in Nat /\ -1 \in -1 .. MaxNest - 1 /\ (MaxNest > 0 => 0 \in -1 .. MaxNest - 1)
<1>1. MaxNest \in Nat  BY InterruptConstantsOK
<1> QED  BY <1>1

\* Every software interrupt has a level.
LEMMA LevelInLevels == ASSUME NEW i \in SoftInts PROVE Level(i) \in Levels
BY InterruptConstantsOK DEF Level, Levels

\* Highest is the greatest level with a list that is not empty.
LEMMA HighestIs ==
  /\ Highest \in Levels \cup {-1}
  /\ Highest >= 0 => queue[Highest] # <<>>
  /\ \A m \in Levels : queue[m] # <<>> => m <= Highest
<1> DEFINE P(l) == /\ l >= 0 => queue[l] # <<>>
                   /\ \A m \in Levels : queue[m] # <<>> => m <= l
<1>1. \E l \in Levels \cup {-1} : P(l)
  <2>1. CASE queue[4] # <<>>  BY <2>1 DEF Levels
  <2>2. CASE queue[4] = <<>> /\ queue[3] # <<>>  BY <2>2 DEF Levels
  <2>3. CASE queue[4] = <<>> /\ queue[3] = <<>> /\ queue[2] # <<>>  BY <2>3 DEF Levels
  <2>4. CASE /\ queue[4] = <<>> /\ queue[3] = <<>> /\ queue[2] = <<>>
             /\ queue[1] # <<>>
    BY <2>4 DEF Levels
  <2>5. CASE /\ queue[4] = <<>> /\ queue[3] = <<>> /\ queue[2] = <<>> /\ queue[1] = <<>>
             /\ queue[0] # <<>>
    BY <2>5 DEF Levels
  <2>6. CASE /\ queue[4] = <<>> /\ queue[3] = <<>> /\ queue[2] = <<>> /\ queue[1] = <<>>
             /\ queue[0] = <<>>
    BY <2>6 DEF Levels
  <2> QED  BY <2>1, <2>2, <2>3, <2>4, <2>5, <2>6
<1> QED  BY <1>1 DEF Highest

\* What Cause() leaves, whoever calls it.
LEMMA QueueKeeps ==
  ASSUME IInv, NEW i \in SoftInts, Queue(i)
  PROVE  /\ queue' \in [Levels -> Seq(SoftInts)]
         /\ type' \in [SoftInts -> {"interrupt", "softint"}]
         /\ flag' \in BOOLEAN
         /\ TypeTellsQueued'
         /\ (queue' = queue /\ flag' = flag) \/ flag'
<1>1. CASE type[i] = "softint"
  BY <1>1 DEF Queue, IInv, TypeOK, TypeTellsQueued, Queued, Level
<1>2. CASE type[i] # "softint"
  <2> DEFINE l == Level(i)
  <2>1. l \in Levels /\ queue[l] \in Seq(SoftInts) /\ IsInjective(queue[l])
    BY LevelInLevels DEF IInv, TypeOK, TypeTellsQueued
  <2>2. i \notin ToSet(queue[l])
    BY <1>2 DEF IInv, TypeTellsQueued, Queued
  <2>3. /\ Append(queue[l], i) \in Seq(SoftInts)
        /\ IsInjective(Append(queue[l], i))
        /\ ToSet(Append(queue[l], i)) = ToSet(queue[l]) \cup {i}
    BY <2>1, <2>2, AppendToSet
  <2>4. /\ queue' = [queue EXCEPT ![l] = Append(@, i)]
        /\ type' = [type EXCEPT ![i] = "softint"]
        /\ flag' = TRUE
    BY <1>2 DEF Queue
  <2>5. /\ queue \in [Levels -> Seq(SoftInts)]
        /\ type \in [SoftInts -> {"interrupt", "softint"}]
        /\ \A j \in SoftInts : type[j] = "softint" <=> j \in ToSet(queue[Level(j)])
        /\ \A m \in Levels : IsInjective(queue[m])
                             /\ \A j \in ToSet(queue[m]) : Level(j) = m
    BY DEF IInv, TypeOK, TypeTellsQueued, Queued
  <2>6. /\ queue' \in [Levels -> Seq(SoftInts)]
        /\ type' \in [SoftInts -> {"interrupt", "softint"}]
    BY <2>1, <2>3, <2>4, <2>5
  <2>7. /\ queue'[l] = Append(queue[l], i)
        /\ \A m \in Levels \ {l} : queue'[m] = queue[m]
        /\ \A j \in SoftInts : type'[j] = IF j = i THEN "softint" ELSE type[j]
    BY <2>1, <2>4, <2>5
  <2>8. \A j \in SoftInts : type'[j] = "softint" <=> j \in ToSet(queue'[Level(j)])
    <3> SUFFICES ASSUME NEW j \in SoftInts
                 PROVE  type'[j] = "softint" <=> j \in ToSet(queue'[Level(j)])
      OBVIOUS
    <3>1. Level(j) \in Levels  BY LevelInLevels
    <3>2. CASE j = i  BY <3>2, <2>3, <2>7
    <3>3. CASE j # i /\ Level(j) = l  BY <3>3, <2>3, <2>5, <2>7
    <3>4. CASE j # i /\ Level(j) # l  BY <3>1, <3>4, <2>5, <2>7
    <3> QED  BY <3>2, <3>3, <3>4
  <2>9. \A m \in Levels : IsInjective(queue'[m]) /\ \A j \in ToSet(queue'[m]) : Level(j) = m
    <3> SUFFICES ASSUME NEW m \in Levels
                 PROVE  IsInjective(queue'[m]) /\ \A j \in ToSet(queue'[m]) : Level(j) = m
      OBVIOUS
    <3>1. CASE m = l  BY <3>1, <2>3, <2>5, <2>7
    <3>2. CASE m # l  BY <3>2, <2>5, <2>7
    <3> QED  BY <3>1, <3>2
  <2>10. TypeTellsQueued'
    BY <2>8, <2>9 DEF TypeTellsQueued, Queued, Level
  <2> QED  BY <2>4, <2>6, <2>10
<1> QED  BY <1>1, <1>2

\* What the dispatcher leaves when it takes a software interrupt.
LEMMA TakeKeeps ==
  ASSUME IInv, NEW l \in Levels, queue[l] # <<>>, Take(l)
  PROVE  /\ queue' \in [Levels -> Seq(SoftInts)]
         /\ type' \in [SoftInts -> {"interrupt", "softint"}]
         /\ running' \in SoftInts
         /\ TypeTellsQueued'
<1> DEFINE i == Head(queue[l])
<1>1. /\ queue \in [Levels -> Seq(SoftInts)]
      /\ type \in [SoftInts -> {"interrupt", "softint"}]
      /\ \A j \in SoftInts : type[j] = "softint" <=> j \in ToSet(queue[Level(j)])
      /\ \A m \in Levels : IsInjective(queue[m])
                           /\ \A j \in ToSet(queue[m]) : Level(j) = m
  BY DEF IInv, TypeOK, TypeTellsQueued, Queued
<1>2. /\ Tail(queue[l]) \in Seq(SoftInts) /\ i \in SoftInts
      /\ IsInjective(Tail(queue[l]))
      /\ ToSet(Tail(queue[l])) = ToSet(queue[l]) \ {i}
      /\ i \in ToSet(queue[l])
  BY <1>1, TailToSet
<1>3. /\ queue' = [queue EXCEPT ![l] = Tail(@)]
      /\ type' = [type EXCEPT ![i] = "interrupt"]
      /\ running' = i
  BY DEF Take
<1>4. /\ queue' \in [Levels -> Seq(SoftInts)]
      /\ type' \in [SoftInts -> {"interrupt", "softint"}]
  BY <1>1, <1>2, <1>3
<1>5. /\ queue'[l] = Tail(queue[l])
      /\ \A m \in Levels \ {l} : queue'[m] = queue[m]
      /\ \A j \in SoftInts : type'[j] = IF j = i THEN "interrupt" ELSE type[j]
  BY <1>1, <1>2, <1>3
<1>6. Level(i) = l
  BY <1>1, <1>2
<1>7. \A j \in SoftInts : type'[j] = "softint" <=> j \in ToSet(queue'[Level(j)])
  <2> SUFFICES ASSUME NEW j \in SoftInts
               PROVE  type'[j] = "softint" <=> j \in ToSet(queue'[Level(j)])
    OBVIOUS
  <2>1. Level(j) \in Levels  BY LevelInLevels
  <2>2. CASE j = i  BY <2>2, <1>2, <1>5, <1>6
  <2>3. CASE j # i /\ Level(j) = l  BY <2>3, <1>1, <1>2, <1>5
  <2>4. CASE j # i /\ Level(j) # l  BY <2>1, <2>4, <1>1, <1>5
  <2> QED  BY <2>2, <2>3, <2>4
<1>8. \A m \in Levels : IsInjective(queue'[m]) /\ \A j \in ToSet(queue'[m]) : Level(j) = m
  <2> SUFFICES ASSUME NEW m \in Levels
               PROVE  IsInjective(queue'[m]) /\ \A j \in ToSet(queue'[m]) : Level(j) = m
    OBVIOUS
  <2>1. CASE m = l  BY <2>1, <1>1, <1>2, <1>5
  <2>2. CASE m # l  BY <2>2, <1>1, <1>5
  <2> QED  BY <2>1, <2>2
<1>9. TypeTellsQueued'
  BY <1>7, <1>8 DEF TypeTellsQueued, Queued, Level
<1> QED  BY <1>2, <1>3, <1>4, <1>9
-----------------------------------------------------------------------------
(* The steps. *)

\* The invariant holds at first.
LEMMA InitInv == Init => IInv
<1> SUFFICES ASSUME Init PROVE IInv
  OBVIOUS
<1>1. TypeOK
    <2>1. queue \in [Levels -> Seq(SoftInts)] /\ type \in [SoftInts -> {"interrupt", "softint"}]
    BY DEF Init
  <2>2. flag \in BOOLEAN /\ running \in SoftInts \cup {None}
    BY DEF Init
  <2>3. where \in Places /\ idling \in BOOLEAN /\ irq \in BOOLEAN /\ ints \in BOOLEAN
    BY DEF Init, Places
  <2>6. idNest \in -1 .. MaxNest - 1
    BY Nesting DEF Init
  <2>4. (irq => ~ints) /\ (running # None <=> where = "soft")
    BY DEF Init
  <2>5. where \in {"user", "tail"} => ~idling /\ (ints \/ irq <=> idNest < 0)
    BY DEF Init
  <2> QED  BY <2>1, <2>2, <2>3, <2>4, <2>5, <2>6 DEF TypeOK
<1>2. TypeTellsQueued
  <2>1. \A i \in SoftInts : Level(i) \in Levels
    BY LevelInLevels
  <2>2. ToSet(<<>>) = {} /\ IsInjective(<<>>)
    BY DEF ToSet, IsInjective
  <2> QED  BY <2>1, <2>2 DEF Init, TypeTellsQueued, Queued
<1> QED  BY <1>1, <1>2 DEF Init, IInv, NotIdling, NoneForgotten

\* A step that leaves the lists alone.
LEMMA QuietKeeps ==
  ASSUME IInv, UNCHANGED <<queue, type>>
  PROVE  TypeTellsQueued'
BY DEF IInv, TypeTellsQueued, Queued, Level

\* The steps of the task keep it,
LEMMA UserStepKeeps == ASSUME IInv, UserStep PROVE IInv'
<1>1. CASE Disable
  <2>1. /\ Runs("user") /\ idNest < MaxNest - 1 /\ idNest' = idNest + 1 /\ ints' = FALSE
        /\ UNCHANGED <<queue, type, flag, running, where, idling, irq>>
    BY <1>1 DEF Disable, softVars
  <2>2. idNest \in -1 .. MaxNest - 1 /\ MaxNest \in Nat
    BY Nesting DEF IInv, TypeOK
  <2>3. idNest' \in -1 .. MaxNest - 1 /\ ~(idNest' < 0)
    BY <2>1, <2>2
  <2> QED  BY <2>1, <2>3, QuietKeeps DEF Runs, IInv, TypeOK, NotIdling, NoneForgotten
<1>2. CASE Enable
  <2>1. /\ Runs("user") /\ idNest >= 0 /\ idNest' = idNest - 1 /\ ints' = (idNest' < 0)
        /\ where' = IF idNest' < 0 THEN "tail" ELSE "user"
        /\ UNCHANGED <<queue, type, flag, running, idling, irq>>
    BY <1>2 DEF Enable, softVars
  <2>2. idNest \in -1 .. MaxNest - 1 /\ MaxNest \in Nat
    BY Nesting DEF IInv, TypeOK
  <2>3. idNest' \in -1 .. MaxNest - 1
    BY <2>1, <2>2
  <2>4. irq = FALSE /\ where = "user" /\ idling = FALSE
    BY <2>1 DEF Runs, IInv, TypeOK
  <2>5. CASE idNest' < 0
    <3>1. ints' = TRUE /\ where' = "tail"
      BY <2>1, <2>5
    <3> QED  BY <2>1, <2>3, <2>4, <2>5, <3>1, QuietKeeps DEF IInv, TypeOK, NotIdling, NoneForgotten, Places
  <2>6. CASE ~(idNest' < 0)
    <3>0. (idNest' < 0) = FALSE
      BY <2>6
    <3>1. ints' = FALSE /\ where' = "user"
      <4>1. ints' = FALSE
        BY <2>1, <3>0, Zenon
      <4>2. where' = "user"
        BY <2>1, <2>6
      <4> QED  BY <4>1, <4>2
    <3> QED  BY <2>1, <2>3, <2>4, <2>6, <3>1, QuietKeeps DEF IInv, TypeOK, NotIdling, NoneForgotten, Places
  <2> QED  BY <2>5, <2>6
<1>3. CASE EnableTail
  <2>1. where = "tail" /\ irq = FALSE /\ idling = FALSE /\ running = None
    BY <1>3 DEF EnableTail, Runs, IInv, TypeOK
  <2>2. UNCHANGED <<queue, type, flag, running, idling, irq, idNest>>
    BY <1>3 DEF EnableTail, softVars
  <2>3. CASE flag /\ where' = "exit" /\ ints' = FALSE
    BY <2>1, <2>2, <2>3, QuietKeeps DEF IInv, TypeOK, NotIdling, NoneForgotten, Places
  <2>4. CASE where' = "user" /\ UNCHANGED ints
    BY <2>1, <2>2, <2>4, QuietKeeps DEF IInv, TypeOK, NotIdling, NoneForgotten, Places
  <2>5. CASE where' = "sched" /\ ints' = FALSE
    BY <2>1, <2>2, <2>5, QuietKeeps DEF IInv, TypeOK, NotIdling, NoneForgotten, Places
  <2> QED  BY <1>3, <2>3, <2>4, <2>5 DEF EnableTail
<1>4. CASE Wait
  BY <1>4, QuietKeeps DEF Wait, Runs, softVars, IInv, TypeOK, NotIdling, NoneForgotten, Places
<1>5. ASSUME NEW i \in SoftInts, UserCause(i) PROVE IInv'
  <2>1. Queue(i) /\ Runs("user") /\ UNCHANGED <<running, idling, irq, ints, idNest>>
        /\ where' = IF idNest < 0 THEN "tail" ELSE "user"
    BY <1>5 DEF UserCause
  <2>2. /\ queue' \in [Levels -> Seq(SoftInts)]
        /\ type' \in [SoftInts -> {"interrupt", "softint"}]
        /\ flag' \in BOOLEAN
        /\ TypeTellsQueued'
        /\ (queue' = queue /\ flag' = flag) \/ flag'
    BY <2>1, QueueKeeps
  <2> QED  BY <2>1, <2>2 DEF Runs, IInv, TypeOK, NotIdling, NoneForgotten, Places
<1> QED  BY <1>1, <1>2, <1>3, <1>4, <1>5 DEF UserStep

\* those of an interrupt,
LEMMA IrqStepKeeps == ASSUME IInv, IrqStep PROVE IInv'
<1>1. CASE Interrupt
  BY <1>1, QuietKeeps DEF Interrupt, softVars, IInv, TypeOK, NotIdling, NoneForgotten
<1>2. CASE InterruptEnd
  BY <1>2, QuietKeeps DEF InterruptEnd, softVars, IInv, TypeOK, NotIdling, NoneForgotten, Places
<1>3. ASSUME NEW i \in SoftInts, HandlerCause(i) PROVE IInv'
  <2>1. Queue(i) /\ UNCHANGED <<running, where, idling, irq, ints, idNest>>
    BY <1>3 DEF HandlerCause, cpuVars
  <2>2. /\ queue' \in [Levels -> Seq(SoftInts)]
        /\ type' \in [SoftInts -> {"interrupt", "softint"}]
        /\ flag' \in BOOLEAN
        /\ TypeTellsQueued'
        /\ (queue' = queue /\ flag' = flag) \/ flag'
    BY <2>1, QueueKeeps
  <2> QED  BY <2>1, <2>2 DEF IInv, TypeOK, NotIdling, NoneForgotten
<1> QED  BY <1>1, <1>2, <1>3 DEF IrqStep

\* One turn of the dispatcher: with no list to take from, all are empty.
LEMMA FetchKeeps == ASSUME IInv, Fetch PROVE IInv'
<1>1. Runs("fetch") /\ UNCHANGED <<idling, irq, idNest>>
  BY DEF Fetch
<1>2. CASE Highest < 0 /\ Finish
  <2>1. \A m \in Levels : queue[m] = <<>>
    BY <1>2, HighestIs DEF Levels
  <2> QED
    BY <1>1, <1>2, <2>1, QuietKeeps DEF Finish, Runs, softVars, IInv, TypeOK, NotIdling, NoneForgotten, Places
<1>3. CASE /\ Highest >= 0
           /\ Take(Highest)
           /\ where' = "soft" /\ ints' = TRUE
           /\ UNCHANGED flag
  <2>1. Highest \in Levels /\ queue[Highest] # <<>>
    BY <1>3, HighestIs DEF Levels
  <2> HIDE DEF Highest
  <2>2. /\ queue' \in [Levels -> Seq(SoftInts)]
        /\ type' \in [SoftInts -> {"interrupt", "softint"}]
        /\ running' \in SoftInts
        /\ TypeTellsQueued'
    BY <1>3, <2>1, TakeKeeps
  <2> QED
    BY <1>1, <1>3, <2>2, InterruptConstantsOK DEF Runs, IInv, TypeOK, NotIdling, NoneForgotten, Places
<1> QED  BY <1>2, <1>3 DEF Fetch

\* and those of the kernel,
LEMMA KernelStepKeeps == ASSUME IInv, KernelStep PROVE IInv'
<1>1. CASE ExitInterrupt
  BY <1>1, QuietKeeps DEF ExitInterrupt, CallSoftInts, Runs, IInv, TypeOK, NotIdling, NoneForgotten, Places
<1>2. CASE Leave
  <2>1. where = "leave" /\ irq = FALSE /\ idling = FALSE /\ running = None
    BY <1>2 DEF Leave, Runs, IInv, TypeOK, NotIdling
  <2>2. UNCHANGED <<queue, type, flag, running, irq, idling>>
    BY <1>2 DEF Leave, softVars
  <2>3. CASE where' = "sched" /\ UNCHANGED <<ints, idNest>>
    BY <2>1, <2>2, <2>3, QuietKeeps DEF IInv, TypeOK, NotIdling, NoneForgotten, Places
  <2>4. CASE where' \in {"user", "tail"} /\ idNest' = -1 /\ ints' = TRUE
    BY <2>1, <2>2, <2>4, QuietKeeps, Nesting DEF IInv, TypeOK, NotIdling, NoneForgotten, Places
  <2> QED  BY <1>2, <2>3, <2>4 DEF Leave
<1>3. CASE Fetch
  BY <1>3, FetchKeeps
<1>4. CASE SoftEnd
  BY <1>4, QuietKeeps, InterruptConstantsOK DEF SoftEnd, Runs, IInv, TypeOK, NotIdling, NoneForgotten, Places
<1>5. CASE Dispatch
  <2>1. where = "sched" /\ irq = FALSE /\ running = None
    BY <1>5 DEF Dispatch, Runs, IInv, TypeOK
  <2>2. UNCHANGED <<queue, type, flag, running, irq>>
    BY <1>5 DEF Dispatch, softVars
  <2>3. CASE where' \in {"user", "tail"} /\ idNest' = -1 /\ ints' = TRUE /\ idling' = FALSE
    <3>1. idNest' \in -1 .. MaxNest - 1 /\ idNest' < 0
      BY <2>3, Nesting
    <3> QED  BY <2>1, <2>2, <2>3, <3>1, QuietKeeps DEF IInv, TypeOK, NotIdling, NoneForgotten, Places
  <2>4. CASE MaxNest > 0 /\ where' = "user" /\ idNest' = 0 /\ ints' = FALSE /\ idling' = FALSE
    <3>1. idNest' \in -1 .. MaxNest - 1 /\ ~(idNest' < 0)
      BY <2>4, Nesting
    <3> QED  BY <2>1, <2>2, <2>4, <3>1, QuietKeeps DEF IInv, TypeOK, NotIdling, NoneForgotten, Places
  <2>5. CASE where' = "halt" /\ idling' = TRUE /\ ints' = TRUE /\ UNCHANGED idNest
    BY <2>1, <2>2, <2>5, QuietKeeps DEF IInv, TypeOK, NotIdling, NoneForgotten, Places
  <2> QED  BY <1>5, <2>3, <2>4, <2>5 DEF Dispatch, Resume
<1>6. CASE Woken
  BY <1>6, QuietKeeps DEF Woken, CallSoftInts, Runs, IInv, TypeOK, NotIdling, NoneForgotten, Places
<1>7. ASSUME NEW i \in SoftInts, SoftCause(i) PROVE IInv'
  <2>1. Queue(i) /\ Runs("soft") /\ ints' = FALSE /\ UNCHANGED <<running, where, idling, irq, idNest>>
    BY <1>7 DEF SoftCause
  <2>2. /\ queue' \in [Levels -> Seq(SoftInts)]
        /\ type' \in [SoftInts -> {"interrupt", "softint"}]
        /\ flag' \in BOOLEAN
        /\ TypeTellsQueued'
        /\ (queue' = queue /\ flag' = flag) \/ flag'
    BY <2>1, QueueKeeps
  <2> QED  BY <2>1, <2>2 DEF Runs, IInv, TypeOK, NotIdling, NoneForgotten
<1> QED  BY <1>1, <1>2, <1>3, <1>4, <1>5, <1>6, <1>7 DEF KernelStep

\* so that every step does.
LEMMA NextInv == IInv /\ [Next]_vars => IInv'
<1> SUFFICES ASSUME IInv, [Next]_vars PROVE IInv'
  OBVIOUS
<1>1. CASE UNCHANGED vars
  BY <1>1 DEF vars, softVars, cpuVars, IInv, TypeOK, NotIdling, TypeTellsQueued, NoneForgotten, Queued, Level
<1> QED  BY <1>1, UserStepKeeps, IrqStepKeeps, KernelStepKeeps DEF Next

\* It holds in every reachable state.
LEMMA Invariance == Spec => []IInv
<1> QED  BY InitInv, NextInv, PTL DEF Spec
-----------------------------------------------------------------------------
\* The variables keep their types, and interrupts are on exactly where the code has them
\* on: outside every Disable() of a task, and never inside the handlers of devices.
THEOREM TypeCorrect == Spec => []TypeOK
<1>1. IInv => TypeOK  BY DEF IInv
<1> QED  BY <1>1, Invariance, PTL

\* ln_Type tells whether a software interrupt is queued, once, in its list, for any
\* software interrupts and priorities.
THEOREM TypesTell == Spec => []TypeTellsQueued
<1>1. IInv => TypeTellsQueued  BY DEF IInv
<1> QED  BY <1>1, Invariance, PTL

\* No software interrupt that was caused is forgotten: SFF_SoftInt is set or the dispatcher
\* is at work.
THEOREM NothingForgotten == Spec => []NoneForgotten
<1>1. IInv => NoneForgotten  BY DEF IInv
<1> QED  BY <1>1, Invariance, PTL
=============================================================================
