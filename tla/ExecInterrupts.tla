--------------------------- MODULE ExecInterrupts ---------------------------
(***************************************************************************)
(* Software interrupts of exec.library on the i386-pc kernel: Cause(),     *)
(* SoftIntDispatch(), and the places that call it: the exit from an        *)
(* interrupt or from the system call of Enable(), and the idle loop.       *)
(*                                                                         *)
(* One processor.  "where" is the code that runs or was interrupted last,  *)
(* irq says that the handlers of a device interrupt run on top of it.      *)
(* Handlers run with interrupts off and so do not nest in each other.  The *)
(* tasks are one piece of code, "user", that stands for whichever of them  *)
(* runs; what core_Schedule() and core_Dispatch() decide is ExecSched.     *)
(***************************************************************************)
EXTENDS Integers, Sequences, FiniteSets, SequencesExt

CONSTANTS SoftInts,  \* the struct Interrupts that are caused
          Pri,       \* their ln_Pri
          None,      \* no software interrupt
          MaxNest    \* bound: how deep a task nests Disable()

ASSUME InterruptConstantsOK ==
  /\ Pri \in [SoftInts -> -32 .. 47]
  /\ None \notin SoftInts
  /\ MaxNest \in Nat

Levels == 0 .. 4

Places == {"user",   \* a task
           "tail",   \* the end of Enable(), interrupts on again
           "exit",   \* core_ExitInterrupt()
           "fetch",  \* SoftIntDispatch(), between two handlers
           "soft",   \* the handler of a software interrupt
           "leave",  \* core_ExitInterrupt() after the software interrupts
           "sched",  \* core_Schedule(), cpu_Switch(), core_Dispatch()
           "halt",   \* the processor sleeps
           "woken"}  \* the idle loop after it

VARIABLES
  queue,    \* SysBase->SoftInts
  type,     \* ln_Type of each software interrupt
  flag,     \* SFF_SoftInt
  running,  \* the software interrupt whose handler runs
  where,
  idling,   \* where is inside the idle loop of cpu_Dispatch()
  irq,
  ints,     \* the processor accepts interrupts
  idNest    \* IDNestCnt of the task that runs

softVars == <<queue, type, flag, running>>
cpuVars  == <<where, idling, irq, ints, idNest>>
vars == <<softVars, cpuVars>>

TypeOK ==
  /\ queue \in [Levels -> Seq(SoftInts)]
  /\ type \in [SoftInts -> {"interrupt", "softint"}]
  /\ flag \in BOOLEAN
  /\ running \in SoftInts \cup {None}
  /\ where \in Places /\ idling \in BOOLEAN /\ irq \in BOOLEAN /\ ints \in BOOLEAN
  /\ idNest \in -1 .. MaxNest - 1
  /\ irq => ~ints
  /\ running # None <=> where = "soft"
  /\ where \in {"user", "tail"} => ~idling /\ (ints \/ irq <=> idNest < 0)

Init ==
  /\ queue = [l \in Levels |-> <<>>]
  /\ type = [i \in SoftInts |-> "interrupt"]
  /\ flag = FALSE /\ running = None
  /\ where = "user" /\ idling = FALSE /\ irq = FALSE /\ ints = TRUE /\ idNest = -1
-----------------------------------------------------------------------------
(* Cause. *)

\* The list a software interrupt goes to.
Level(i) == (Pri[i] + 32) \div 16

\* What Cause() does with interrupts disabled: nothing when i is queued already.
Queue(i) ==
  \/ type[i] = "softint" /\ UNCHANGED <<queue, type, flag>>
  \/ /\ type[i] # "softint"
     /\ queue' = [queue EXCEPT ![Level(i)] = Append(@, i)]
     /\ type' = [type EXCEPT ![i] = "softint"]
     /\ flag' = TRUE
-----------------------------------------------------------------------------
(* The running task. *)

Runs(p) == where = p /\ ~irq

\* Disable() and Enable(): interrupts are off until the last Enable(), which goes on to its
\* tail.
Disable ==
  /\ Runs("user") /\ idNest < MaxNest - 1
  /\ idNest' = idNest + 1 /\ ints' = FALSE
  /\ UNCHANGED <<softVars, where, idling, irq>>

\* Mutant: every Enable() turns interrupts on.
EnableAlways ==
  /\ Runs("user") /\ idNest >= 0
  /\ idNest' = idNest - 1
  /\ ints' = TRUE
  /\ where' = IF idNest' < 0 THEN "tail" ELSE "user"
  /\ UNCHANGED <<softVars, idling, irq>>

Enable ==
  /\ Runs("user") /\ idNest >= 0
  /\ idNest' = idNest - 1
  /\ ints' = (idNest' < 0)
  /\ where' = IF idNest' < 0 THEN "tail" ELSE "user"
  /\ UNCHANGED <<softVars, idling, irq>>

\* Cause() of a task: its own Enable() may be the last.
UserCause(i) ==
  /\ Runs("user")
  /\ Queue(i)
  /\ where' = IF idNest < 0 THEN "tail" ELSE "user"
  /\ UNCHANGED <<running, idling, irq, ints, idNest>>

\* The tail of Enable(): KrnCause() when a software interrupt is announced, KrnSchedule()
\* when a switch is pending.  Both system calls turn interrupts off.
EnableTail ==
  /\ Runs("tail")
  /\ \/ /\ flag
        /\ where' = "exit" /\ ints' = FALSE
     \/ /\ ~flag
        /\ where' = "user" /\ UNCHANGED ints
     \/ /\ ~flag
        /\ where' = "sched" /\ ints' = FALSE
  /\ UNCHANGED <<softVars, idling, irq, idNest>>

\* Wait(): KrnSwitch(), called under Disable().
Wait ==
  /\ Runs("user")
  /\ where' = "sched" /\ ints' = FALSE
  /\ UNCHANGED <<softVars, idling, irq, idNest>>

\* A task goes on: after Wait() under Disable(), elsewhere with interrupts on.
Resume ==
  /\ idling' = FALSE
  /\ \/ where' \in {"user", "tail"} /\ idNest' = -1 /\ ints' = TRUE
     \/ MaxNest > 0 /\ where' = "user" /\ idNest' = 0 /\ ints' = FALSE
-----------------------------------------------------------------------------
(* Device interrupts. *)

\* The processor takes an interrupt through a gate that turns interrupts off.
Interrupt ==
  /\ ints
  /\ irq' = TRUE /\ ints' = FALSE
  /\ UNCHANGED <<softVars, where, idling, idNest>>

HandlerCause(i) ==
  /\ irq
  /\ Queue(i)
  /\ UNCHANGED <<running, cpuVars>>

\* core_IRQHandle() ends: it goes on to core_ExitInterrupt() only when it interrupted a
\* task.
InterruptEnd ==
  /\ irq
  /\ irq' = FALSE
  /\ \/ /\ where \in {"user", "tail"}
        /\ where' = "exit" /\ UNCHANGED ints
     \/ /\ where \notin {"user", "tail"}
        /\ where' = IF where = "halt" THEN "woken" ELSE where
        /\ ints' = TRUE
  /\ UNCHANGED <<softVars, idling, idNest>>
-----------------------------------------------------------------------------
(* The kernel. *)

\* SoftIntDispatch() is called, or not, and the code at p comes next.
CallSoftInts(p) ==
  /\ flag' = FALSE
  /\ where' = IF flag THEN "fetch" ELSE p
  /\ UNCHANGED <<queue, type, running>>

\* core_ExitInterrupt() begins.
ExitInterrupt ==
  /\ Runs("exit")
  /\ CallSoftInts("leave")
  /\ UNCHANGED <<idling, irq, ints, idNest>>

\* core_ExitInterrupt() ends: back to the task or, if a switch is pending, to the
\* scheduler.
Leave ==
  /\ Runs("leave")
  /\ \/ /\ where' = "sched"
        /\ UNCHANGED <<idling, ints, idNest>>
     \/ /\ where' \in {"user", "tail"} /\ idNest' = -1 /\ ints' = TRUE
        /\ UNCHANGED idling
  /\ UNCHANGED <<softVars, irq>>

\* Mutant: the loop over the lists stops before the last.
HighestAboveZero == CHOOSE l \in Levels \cup {-1} :
                      /\ l >= 0 => l > 0 /\ queue[l] # <<>>
                      /\ \A m \in Levels \ {0} : queue[m] # <<>> => m <= l

\* The list SoftIntDispatch() takes from, -1 for none.
Highest == CHOOSE l \in Levels \cup {-1} :
             /\ l >= 0 => queue[l] # <<>>
             /\ \A m \in Levels : queue[m] # <<>> => m <= l

\* The lists are empty: SoftIntDispatch() turns interrupts on and returns.
Finish ==
  /\ where' = IF idling THEN "sched" ELSE "leave"
  /\ ints' = TRUE
  /\ UNCHANGED softVars

\* Mutant: the type is left as it is.
TakeKeepType(l) ==
  /\ queue' = [queue EXCEPT ![l] = Tail(@)]
  /\ running' = Head(queue[l])
  /\ UNCHANGED type

\* Mutant: the software interrupt caused last is taken first.
TakeLast(l) ==
  /\ queue' = [queue EXCEPT ![l] = Front(@)]
  /\ type' = [type EXCEPT ![Last(queue[l])] = "interrupt"]
  /\ running' = Last(queue[l])

\* The first software interrupt of list l leaves it and may be caused again from here on.
Take(l) ==
  /\ queue' = [queue EXCEPT ![l] = Tail(@)]
  /\ type' = [type EXCEPT ![Head(queue[l])] = "interrupt"]
  /\ running' = Head(queue[l])

\* One turn of the loop of SoftIntDispatch(), interrupts off, up to the call of a handler
\* with interrupts on.
Fetch ==
  /\ Runs("fetch")
  /\ \/ /\ Highest < 0
        /\ Finish
     \/ /\ Highest >= 0
        /\ Take(Highest)
        /\ where' = "soft" /\ ints' = TRUE
        /\ UNCHANGED flag
  /\ UNCHANGED <<idling, irq, idNest>>

\* A handler causes a software interrupt: Disable() turns interrupts off, and Enable() does
\* not turn them on again in supervisor mode.
SoftCause(i) ==
  /\ Runs("soft")
  /\ Queue(i)
  /\ ints' = FALSE
  /\ UNCHANGED <<running, where, idling, irq, idNest>>

SoftEnd ==
  /\ Runs("soft")
  /\ running' = None /\ where' = "fetch"
  /\ UNCHANGED <<queue, type, flag, idling, irq, ints, idNest>>

\* The scheduler lets a task run or, with nobody ready, the processor sleep.
Dispatch ==
  /\ Runs("sched")
  /\ \/ Resume
     \/ where' = "halt" /\ idling' = TRUE /\ ints' = TRUE /\ UNCHANGED idNest
  /\ UNCHANGED <<softVars, irq>>

\* The idle loop looks for software interrupts after each interrupt.
Woken ==
  /\ Runs("woken")
  /\ CallSoftInts("sched")
  /\ ints' = FALSE
  /\ UNCHANGED <<idling, irq, idNest>>
-----------------------------------------------------------------------------
UserStep == Disable \/ Enable \/ EnableTail \/ Wait \/ \E i \in SoftInts : UserCause(i)

IrqStep == Interrupt \/ InterruptEnd \/ \E i \in SoftInts : HandlerCause(i)

KernelStep ==
  \/ ExitInterrupt \/ Leave \/ Fetch \/ SoftEnd \/ Dispatch \/ Woken
  \/ \E i \in SoftInts : SoftCause(i)

Next == UserStep \/ IrqStep \/ KernelStep

Spec == Init /\ [][Next]_vars

\* Interrupts keep coming, the VBlank at least, and are left again; they leave the kernel and
\* the handlers of software interrupts, which return, the time to go on; and tasks do not
\* pass the processor on inside Disable() for ever, as its autodoc demands.
Fairness ==
  /\ SF_vars(Interrupt) /\ WF_vars(InterruptEnd) /\ []<>(idNest < 0 \/ idling)
  /\ SF_vars(ExitInterrupt) /\ SF_vars(Leave) /\ SF_vars(Fetch) /\ SF_vars(SoftEnd)
  /\ SF_vars(Dispatch) /\ SF_vars(Woken)

FairSpec == Spec /\ Fairness
-----------------------------------------------------------------------------
(* Properties. *)

Queued(i) == type[i] = "softint"

\* ln_Type tells whether a software interrupt is queued, once and in the list of its
\* priority, though tasks, interrupt handlers and handlers of software interrupts cause it
\* while the dispatcher takes it out: Cause() decides by ln_Type alone.
TypeTellsQueued ==
  /\ \A i \in SoftInts : Queued(i) <=> i \in ToSet(queue[Level(i)])
  /\ \A l \in Levels : IsInjective(queue[l]) /\ \A i \in ToSet(queue[l]) : Level(i) = l

\* A queued software interrupt is never forgotten: it is announced, or the dispatcher is
\* still going to look at the lists.  SFF_SoftInt is cleared before the lists are emptied,
\* and causes that come in between leave it set.
NoneForgotten ==
  (\E l \in Levels : queue[l] # <<>>) => flag \/ where \in {"fetch", "soft"}

\* A software interrupt that was caused runs, unless one of a higher level is queued
\* meanwhile, whoever caused it: a cause that comes after the dispatcher has returned, and
\* before the interrupt that called it, is seen at the next one.
ServedUnlessHigher ==
  \A i \in SoftInts :
    Queued(i) ~> running = i \/ \E j \in SoftInts : Queued(j) /\ Level(j) > Level(i)

\* The scheduler runs with interrupts off (apic_intr.c and syscall.c, before they call the
\* kernel: "Disable interrupts for a while"): no handler that signals a task finds
\* TaskReady while core_Dispatch() works on it.
SchedulerAlone == where = "sched" => ~ints /\ ~irq
=============================================================================
