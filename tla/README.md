# AROS exec, modelled

AROS is a reimplementation of AmigaOS: one address space, preemptive tasks, message
passing. Its core is `exec.library` (`rom/exec`) over `kernel.resource` (`rom/kernel`).
This directory models that core and two of the devices built on it, checks the models with
TLC and proves theorems about them with TLAPS. It is the single-processor build
(`__AROSEXEC_SMP__` undefined) for the PC (`arch/all-pc`, `arch/i386-pc`) throughout.

## The system

| part | state it keeps | operations | how it meets the others |
|---|---|---|---|
| scheduler (`rom/kernel/kernel_scheduler.c`, `rom/exec/{wait,signal,settaskpri,...}.c`) | `ThisTask`, `TaskReady` (sorted by priority), `TaskWait`, `TDNestCnt`, `IDNestCnt`, `SFF_QuantumOver`, the pending-switch flag, per task state, priority, signals, saved nesting | `Wait`, `Signal`, `SetSignal`, `SetTaskPri`, `Forbid`/`Permit`, `Disable`/`Enable`, `core_Schedule`, `core_Switch`, `core_Dispatch`, VBlank server, `core_ExitInterrupt`, idle loop | interrupts preempt tasks between any two instructions outside `Disable()` |
| signal semaphores (`semaphores.c`, `obtainsemaphore*.c`, `releasesemaphore*.c`, `procure.c`, `vacate.c`) | `ss_NestCount`, `ss_QueueCount`, `ss_Owner`, `ss_WaitQueue` of requests by tasks and by messages | obtain, attempt, shared or exclusive; release; `Procure`/`Vacate`; lists of semaphores | every call runs under `Forbid()`, which `Wait(SIGF_SINGLE)` breaks; grants signal the waiter |
| message ports and I/O requests (`putmsg.c`, `getmsg.c`, `replymsg.c`, `waitport.c`, `doio.c`, `sendio.c`, `checkio.c`, `waitio.c`) | `mp_MsgList`, `ln_Type`, `IOF_QUICK`, the signal of the port | send, reply, wait, take | lists under `Disable()`, wakeups by `Signal()` |
| timer.device (`rom/timer`, `arch/all-pc/timer`) | three lists of requests sorted by time, `tb_Elapsed`, `tb_CurrentTime`, `tb_prev_tick`, the hardware's alarm | `TR_ADDREQUEST` per unit, get and set the time, abort, interrupt with VBlank emulation | called by tasks; answers from its interrupt |
| console.device (`rom/devs/console`) | `commandPort`, `readRequests`, the input buffer and pastes of a unit, `consoleTaskLock` | `CMD_READ`, `AbortIO`, `con_inject`, the console task, the input handler | a task of its own, a semaphore, two ports |
| tasks: creation, removal, families (`newaddtask.c`, `remtask.c`, `exec_util.c`, `child*.c`, `service.c`, `rom/dos/createnewproc.c`) | `tc_State`, `et_Parent`, `et_Children`, `et_TaskMsgPort`, the service port, `PRF_WAITINGFORCHILD` | `NewAddTask`, `RemTask`, `ChildWait`, `ChildFree`, `ChildOrphan`, the service task, notification and synchronous processes | a task that ends hands its children and its ETask to its parent; signals `SIGF_CHILD`, `SIGF_SINGLE` |
| software interrupts (`cause.c`, `kernel_intr.c`, `enable.c`, `apic_intr.c`) | five lists, `ln_Type` of each interrupt, `SFF_SoftInt`, the processor's interrupt flag | `Cause`, `SoftIntDispatch`, its callers at the exit from interrupts, in `Enable()` and in the idle loop | caused from tasks, device interrupts and each other; the scheduler runs after them |
| interrupt servers, task exceptions (`intservers.c`, `exception.c`) | server chains, `tc_SigExcept` | add, remove, dispatch; `SetExcept` | not modelled yet |
| memory (`memory.c`, `memory_nommu.c`, `allocmem.c`, `addmemhandler.c`, pools) | per region a list of free chunks (`mh_First`, `mc_Next`, `mc_Bytes`, `mh_Free`) and an index into it (`mhac_PrevChunks`); `ex_MemHandlers`, `LowMemSem`; pools | `AllocMem`, `FreeMem`, `AllocAbs`, `AvailMem`, `AddMemHandler`, `RemMemHandler`, pools | lists under `Forbid()`, handlers under a semaphore; `AllocMem` holds nothing between its tries; pools use the same allocator |
| libraries, lddemon, task storage, AVL trees, dos, file systems, drivers, user interface | | | not modelled; reasons in `PROJECT.json` |

What is hard here is what the single address space makes possible: a task can be
preempted between two writes, `Wait()` silently breaks `Forbid()` and `Disable()`, one
signal stands for several events, the owner of a node can free it the moment it is
marked done, and lists are shared by tasks and interrupts under three different locks
(`Forbid()`, `Disable()`, semaphores). The list `hazards` in `PROJECT.json` places each of
these at its line.

## Modules

**ExecSemaphore** (`MCExecSemaphore`, proofs in `ExecSemaphore_proofs`). A call runs
between `Forbid()` and `Permit()` and is one step; the return from `Wait(SIGF_SINGLE)` is a
step of its own, and so is each further wait of `ObtainSemaphoreList`. The wait queue is a
set of clients (tasks and messages) with the order between them, which the provers handle
better than a sequence. `held`, `exclHeld` and `bidder` are history: who was granted what.
`SetSingle` stands for code that leaves `SIGF_SINGLE` behind, such as `CreateNewProc`. A
release may be made by another task than the one that obtained, as `ReleaseSemaphore` looks
only at the counters: any task may give back a hold of another whose call for it has returned
(`Returned`). `BidAnsweredOnce` follows a message beyond its grant or withdrawal: a bid that
`Vacate` withdrew has one reply and an `ssm_Semaphore` of `NULL`.
`ListWithBids` says whether a task may list-obtain a semaphore for which it also has a bid
by message. With `TRUE`, `ListObtainsAll` fails: the walk takes a grant to the bid for its own
and returns with its request still queued. Every configuration has it `FALSE`.

**RWLock** is what one semaphore promises: a lock with shared and exclusive holders that
nest, and requests that are granted, withdrawn or given up, without a word of counters,
queues, owners or signals. ExecSemaphore instantiates it for every semaphore
(`ImplementsRWLock`): the holders are the history variables of who was granted what and the
requests are those of the queue; `sem_core` checks it, and `ExecSemaphore_proofs` proves it.
Each client acts for one user, `acts`: a task for itself, a message for the task that sent it,
which may change only while it neither holds nor waits. Who comes in at once and who joins the
line is decided for that user (`MayEnter`), so that nobody but the user it is reserved for gets
into a lock that is held exclusively.

**ExecSched** (`MCExecSched`, proofs in `ExecSched_proofs`). The running task executes one call at a time; calls are
split where interrupts may come in: `Permit`/`Enable` first count down, then look at the
pending switch (`TailCheck`); `Wait` moves the task to `TaskWait` and switches, and
continues when dispatched (`WaitResume`). `Interrupt`, `VBlankServer`,
`SignalFromInterrupt` and `ExitInterrupt` are the interrupt side; `idle` is the loop of
`cpu_Dispatch`, in which `ThisTask` still names the task that went to sleep. The scheduler runs with
interrupts off, as its comments demand; `softints_sched` shows where that is not kept.

**ExecIO** (proofs in `ExecIO_proofs`). The sender's side of ports and I/O requests. `WaitIO` is a test, a sleep and a
test again; `WaitPort` likewise; `Wait()` is one step that takes the signal, which
`ExecSched` justifies (`NoLostSignal`). It has no specification of its
own: a device module extends it and adds the other side.

**TimerDevice** extends ExecIO (`MCTimerDevice`, proofs in `TimerDevice_proofs`). `now` is the counter of the hardware;
`tb_Elapsed` and `tb_CurrentTime` follow it only when it is read. Each list operation is
one step under `Disable()`; the programming of the alarm is a second one (`Setup`), as in
`arch/all-pc/timer/beginio.c`. `TimerInt` does what the interrupt does in one step: read
the clock, answer the due requests of the three lists, requeue the device's own VBlank
request, set the alarm. A reply is one step, unlike those of ConsoleDevice: the code makes it in the
interrupt, under `Disable()`, or for the very task that would look for it. `alarm` abstracts the 16-bit count-down; its minimum of two ticks
is left out. A task calls `AbortIO` only for a request it has sent and not collected: the code
calls `Remove()` on whatever is not marked as replied, one that was done quickly included.
`refused` records the requests for `UNIT_ECLOCK`, which `BeginIO` neither queues nor replies;
`PendingIffListed` leaves them out, and the liveness run does not send them.

**ConsoleDevice** extends ExecIO (`MCConsoleDevice`, proofs in `ConsoleDevice_proofs`). The console task's loop, step by step
between the points where another task can see a difference. `PutMsg` and `ReplyMsg` are
split here (mark, link, signal), and so is the `Remove()` of `AbortIO`, whose two writes
are not protected by `Disable()`. `Below` says that the tasks have lower priority than the
console task, so that they run only while it sleeps. Nothing in the code says so; the order of
reads and their progress are claimed for such tasks only, and what holds without it is in the
proofs. `strays` are the removals of a request from a port it is not on yet.

**ExecInterrupts** (`MCExecInterrupts`, proofs in `ExecInterrupts_proofs`). One processor: `where` is the code that runs, and
a device interrupt (`irq`) runs on top of it. `ints` is the interrupt flag of the processor,
which `Disable()`, the gates, `KrnSti()` and `KrnCli()` of the dispatcher and the end of the
system call set. The tasks are one piece of code, since `Cause()` does not care who calls it,
and what the scheduler decides is left to ExecSched: here it only takes its time.

**ExecTasks** (`MCExecTasks`, proofs in `ExecTasks_proofs`). What runs under one `Forbid()`
is a step: the making of an ETask and the start of the task in `NewAddTask` are two, with
everything that may happen to the family in between; so are the test and the wait of
`ChildWait` and of the wait for a synchronous process, and the steps at the end of a
process, which run without `Forbid()`: it reads `et_Parent` (`Exit`), clears the flag of that
task (`ClearFlag`) and signals it (`SyncSignal`), whatever has become of it in between. A write
or a signal to `NULL` or to a task that is gone has no effect in the model, while the code writes
to memory that is somebody else's; no property catches that. A task is created at most once, so it
stands for its ETask and its unique ID too. The orders of `et_Children` and of the port matter to nobody and
both are sets. `ChildFree` is called for children that ended and `ChildWait` for children
there are, as their autodocs say.

**MemHeader** is the allocator of exec as operators on one region: a record of the chunks and
of the index that remembers where to start a search, with `stdAlloc` and `stdDealloc` from
record to record. It follows the code down to the order of its calls to `mhac_MemChunkClaimed`
and `mhac_MemChunkCreated`, since what may go wrong here is an entry that outlives its chunk.
`Joined` is the end of `stdDealloc`, which merges the block with its neighbours.
`First` stands for the field `mh_First`, which the code takes for a chunk in front of the others.

**ExecMemory** (`MCExecMemory`, proofs in `ExecMemory_proofs`) extends it with the callers. Each allocation and release is one
step, as it runs under `Forbid()`; `AllocMem` is a step per try and per call of a handler,
since it holds nothing between them and only `LowMemSem` during a handler. A handler may free
blocks, and add and remove handlers, itself included; other tasks may do so too while nobody
has the semaphore. A removed handler keeps its links, as `Remove()` leaves them, and the walk may stand
on it. `FreeMem` and `AllocAbs` are not tied to a task: they are what all others do. Blocks are
freed as they were asked for. Handlers may have equal priorities; one that is added goes behind
its equals. `owed` is history: the handlers without whose word the call may not fail. Those
on the list when it begins belong to it, and any handler that says `MEM_TRY_AGAIN` to it;
who says there is nothing to free, or is removed, does not. One exception is needed: if a handler
is removed and added again during the call, that call owes nothing to its equals (`gone` tells
which have been removed). It may stand on that handler, which is now behind them, and go on from
there. The header has one region that its context was taken from already.

**FreeStore** is what the allocator promises: a request is granted where nothing is and refused
only when there is no such place. ExecMemory implements it (`ImplementsStore`): every failed try
is a refusal that the store can justify, whatever the index knew.

Semaphores are built on signals, ports on signals, devices on ports. Each module takes
what the one below guarantees as a step: ExecSemaphore and ExecIO use a `Wait()` that
loses no signal (checked in ExecSched), ConsoleDevice a lock that excludes (proved for
ExecSemaphore), and ExecTasks signals that arrive.

## Runs

Every run finishes within minutes; the exact bounds are in the `.cfg` files.

| run | what it asks | bounds |
|---|---|---|
| `sem_core` | counters, queue, grants and signals agree; exclusive use excludes; wakeups neither lost nor false; bids answered once; order of grants; `ObtainSemaphoreList` obtains all; each semaphore implements `RWLock` | 3 tasks, 1 message, 2 semaphores that are also a list, one of them taken twice by a task and bid for: an exclusive waiter between shared ones with a bid in the queue; each of the list free, held by another, or granted while the walk is at the other |
| `sched_core` | states, `ThisTask` and `TaskReady` agree and the list is sorted; no wait sleeps through a signal or ends without one; locks hold against switches; a better task gets the processor at once; idle means nobody ready; every ready task runs again unless a better one does | 2 tasks of two priorities that change, 1 signal, `Forbid` and `Disable` inside each other but not in themselves (`ExecSched_proofs` has any depth), interrupts anywhere |
| `timer_core` | requests pending exactly when listed, lists sorted, VBlank queued, the alarm early enough, nothing early, nothing due left | 2 tasks with a request each, `UNIT_MICROHZ`, `UNIT_WAITUNTIL` and `UNIT_ECLOCK`, intervals of 1 and 2, requests up to time 2 with VBlank every 2 |
| `timer_waits` | replies on the port and none lost (`RepliesKept`), every request answered and every wait for one ended | 1 task with 2 requests on one port, `UNIT_MICROHZ` and `UNIT_VBLANK` |
| `console_core` | no read starved with input there, replies on the port of their owner and told, reads served in order, every read answered | 1 task below the console task's priority, 2 reads of different length, buffer of 3, pastes of 2, aborts |
| `softints` | `ln_Type` tells what is queued; no software interrupt forgotten; each served, unless higher ones are caused | 2 software interrupts of one level and 1 higher, `Disable` 2 deep |
| `tasks_core` | families agree; ETasks and tasks freed once; no child missed; who waits for a child returns when it has ended | 3 tasks: one without options, one with notification, one synchronous with notification |
| `memory_core` | chunks and `mh_Free` are exactly what nobody has, no entry of the index is stale (`MemorySound`); `AllocMem` fails a try only with no chunk big enough (`ImplementsStore`), and fails for good only when all handlers have nothing more to free (`WhoFailsAskedAll`) | 8 units of memory, blocks of 1 and 4, a range of `AllocAbs` across three units, an index with 2 levels (from 2 and 4 units, in the code's proportions), 1 task in `AllocMem`, from the start of memory with 3 handlers, 2 of them of equal priority, or from its end without; any number of blocks before a handler is added, blocks and handlers at most 4 together after that (`BlocksOrHandlers`) |

The bounds: two requests are enough to have an order in a list, to share a signal, and to
be one due and one not; three tasks are enough for a holder and two different waiters, or
for a task behind two others in `TaskReady`. A third request or a fourth task only repeats
these. Time, nesting, pastes and buffers are bounded by constants named as bounds. Eight units of
memory hold three chunks with blocks between them, chunks below, at and above the levels of
the index, and a search that starts behind the chunk that would do. The constraint
`BlocksOrHandlers` keeps the product of the two halves of ExecMemory small: the allocator has all
its states, the walk sees of the memory only whether a try succeeds, which one block more or less
decides, and the three handlers may all come and go. `sem_core`
uses the symmetry of the tasks: no definition names one, and what `CHOOSE` picks (the first
request of a queue, the next semaphore of the list) is unique.

The runs `sem_list_mismatch`, `console_abort`, `softints_sched` and `tasks_single` are expected
to fail: each checks one sentence of the code's own comments that the code does not keep.
The list `findings` quotes them:

* `ObtainSemaphoreList` counts awaited semaphores but decrements for all of them, and raises
  the alert for a damaged semaphore on mixed lists.
* `AbortIO` of console.device unlinks from `commandPort` without `Disable()`.
* `SoftIntDispatch` returns with interrupts on to callers that turned them off for the
  scheduler.
* A synchronous process clears the flag of its parent first and signals `SIGF_SINGLE` after
  it; the signal may come when the parent waits for a semaphore, and ends that wait without
  the semaphore.

More of the kind were met while modelling and have no run:

* A release with a shared request at the head also grants those behind a queued exclusive
  one (`releasesemaphore.c:131`, against `semaphores.c:121`).
* The grant to a bid mistaken by `ObtainSemaphoreList` (above).
* A request sent to `UNIT_ECLOCK` is never answered (`rom/timer/lowlevel.c:225`).
* `TR_SETSYSTIME` restarts the counter the up time is read from, which loses the ticks since
  the last reading (`arch/all-pc/timer/ticks.c:124`).
* `ReplyMsg` marks a message as replied (`replymsg.c:61`) before it links it to the port:
  a client that preempts it in between takes the request off a list it is not on
  (`waitio.c:66`). It takes a client of the priority of the console task or above:
  `NoStrayRemove` of `MCConsoleDevice` fails with `Below = FALSE`, in a trace of 14 states. No run
  checks it. `Strays_In_Window` says that nothing else leads there.
* A memory handler that is removed and added again while an `AllocMem` stands on it makes that
  call miss the handlers of equal priority, which are before it now (`memory.c:1169`,
  `addmemhandler.c:54`). Without its exception, `WhoFailsAskedAll` fails in 12 states.
* `SetTaskPri` enqueues a ready task anew behind its equals even if its priority stays the same
  (`settaskpri.c:102`): with three tasks or more, somebody who keeps doing that can keep a task
  from ever running. `EveryTaskRuns` is checked with two.
* `CreateNewProc` says that a synchronous process is still there after it was started
  (`createnewproc.c:508`); it may have run to its end.
* A process that ends signals `et_Parent` (`createnewproc.c:892`), which is `NULL` for an
  orphan, and which it reads without `Forbid()`.
* `RemTask` of another task takes it off its list without `Disable()` (`remtask.c:99`), and
  leaves the parent of a synchronous process waiting for ever.
* `ChildOrphan` of a child that ended leaves an ETask nobody frees; `ChildFree` of one that
  runs frees the ETask it uses.
* A memory handler that was removed may still be called: `checkMemHandlers` reads the next
  handler before it calls one (`memory.c:1169`), which the handler may remove, and
  `cmhs_CurNode` outlives the semaphore between two tries of the allocation; the comment there
  says "Handlers can remove themselves from the list while being invoked, thus we need to be
  careful!" (`memory.c:1164`). The walk goes on over the links of the removed node.
* Only `MEM_TRY_AGAIN` makes `AllocMem` try again; what a handler freed that says
  `MEM_ALL_DONE`, such as that of diskfont (`diskfont_init.c:114`), helps the next call.

## Fairness

* ExecSched: interrupts come again and again, and the VBlank server runs in them; a task
  that holds the processor gets through the exec call it is in; and a task does not stay
  inside `Forbid()` or `Disable()` for ever (`[]<>(thisTask # t \/ HoldsNothing(t))`), which
  the autodocs of both demand. Nothing is assumed about a task ever waiting.
* TimerDevice: time passes, the interrupt comes, a task inside `BeginIO` or `WaitIO` goes
  on. That requests are sent, aborted or collected is never assumed.
* ConsoleDevice: the console task runs when it can; keys come again and again; they do not
  come faster than the console task works (`[]<>Asleep`), since otherwise tasks below its
  priority need never run; and a task inside the device goes on when it may.
* ExecInterrupts: interrupts come again and again and are left again; they leave the kernel
  and the handlers the time to go on; tasks do not hand the processor round inside
  `Disable()` for ever, as its autodoc demands.
* ExecTasks: a task that is ready is run in the end, so it gets through the end of a process
  and goes on after a `Wait()` whose signal has come. That a task ends, or ever waits, frees
  or creates anything, is never assumed.
* Semaphores have no liveness run: shared holders may keep an exclusive request waiting for
  ever, by design.

## Proofs

`ExecSemaphore_proofs` proves, for any finite sets of tasks and messages, any semaphores,
any list and any nesting bound, under `ListWithBids = FALSE`:

* `TypeCorrect`, `Counting` (`CountsAgree`, `NestCountsGrants`), `Exclusion`
  (`MutualExclusion`), `Wakeups` (`WakeMeansGranted`, `NoLostWakeup`), `Serving`
  (`WaitersHaveHolder`, `SharedWaitsForOwner`), `ListComplete` (`ListObtainsAll`).

All follow from one inductive invariant, `IInv` (`Invariance`). None of the properties is
inductive alone: mutual exclusion rests on `ss_Owner` (`OwnerHolds`: everyone who holds acts
for the owner; without an owner nobody was granted exclusive use); the owner is decided by
the counters when a semaphore is released (`SemInv`: counters, queue and grants agree); who
is served then depends on the queue being ordered with a first request (`Ordered`) and on
shared requests waiting only behind an owner (`Served`); and a wakeup means a grant only
because a request is queued nowhere but in the call that queued it (`TaskState`,
`ListState`, `BidState`). The lemmas are of three kinds: what one take, enqueue, dequeue or
release does to one semaphore (`TakenKeeps`, `QueuedKeeps`, `DequeueKeeps`, `ReleaseKeeps`),
that the others are untouched, and one lemma per action that puts these together
(`ObtainWakeKeeps`, `SetSingleKeeps`, ...).

The assumption is the one the code needs: with a bid by message of the task that
list-obtains the same semaphore, `ListObtainsAll` is false.

`Refinement`: every semaphore implements `RWLock`, each step being one of the lock's or a
stutter, from the same invariant; for each take and each request it is shown that the lock lets
in, or sends to the line, that client for the user it acts for. `WakeupsArrive` and
`BidsAnswered` add the two invariants about signals and bids, the latter for granted and for
withdrawn bids.

`ExecTasks_proofs` proves for any set of tasks and any choice of notification and synchronous
processes: `TypeCorrect`, `FamiliesAgree`, `AllFreedOnce` and `NoChildMissed`. The inductive
invariant adds to the properties only what `NewAddTask` has in hand between its two steps
(`Making`: the task it makes is its child and nobody else is making it).

`ExecSched_proofs` proves for any tasks, signals, priorities, quantum and nesting bound:
`TypeCorrect`, `ListsAgree` (`StatesAgree`), `SignalsArrive` (`NoLostSignal`), `Locking`
(`LocksHold`), `Preemption` (`PromptPreemption`) and `IdleJustified`
(`IdleMeansNobodyReady`). `sched_core` checks two tasks; these theorems are what carries its
result to any number. The inductive invariant adds three things to the properties. `InList`:
the order of `TaskReady` is total, follows the priorities, and every part of the list has a
first; `core_Schedule()` and `core_Dispatch()` look at the head alone, so that preemption
and idleness hold only if the head is the best task, and `Enqueue()` and the removal by
`SetTaskPri()` have to keep that. `Saved`: the nesting of a task that was switched away is in
its `tc_TDNestCnt` and `tc_IDNestCnt` and fits the call it is in; without it nothing is known
of the locks of a task that comes back. `Nested`: what the counters of the system may be for
each point the running task can be at.

`ExecInterrupts_proofs` proves for any software interrupts, levels and nesting bound:
`TypeCorrect`, `TypesTell` (`TypeTellsQueued`) and `NothingForgotten` (`NoneForgotten`). Needed
besides the properties is `NotIdling`: the idle loop runs with the locks broken, so that the
`Enable()` that would look at the lists again is not due there.

`ExecMemory_proofs` is about two halves of the same actions. On the allocator it proves
`Memory_Sound` (`MemorySound`) and `Store_Implemented` (`ImplementsStore`: the refinement of
FreeStore, step by step) for any tasks, any region and unit (`HeaderConstantsOK`: a region of whole
units that does not begin at address 0, which is `NULL`), any number of levels of the index, any
ranges in the region, and any finite set of sizes. The sizes are machine words, so finitely many;
the store's `MaxRequest` needs a greatest one. `memory_core` checks eight units and two sizes.

* The invariant is `HeapInv`. It says address by address, without sequences or units, that the chunks and the
  blocks share the memory out (`HeapOK`), that the list is linked in order with a gap between two
  chunks (`Links`), that the index names only what is linked and leads on (`Known`), and that a call
  under way is about one of the sizes. `MemorySound` is not inductive: it compares numbers of units and
  a sequence that a recursion yields, while the actions change links.
* `Links` survives each thing that happens to a chunk, one lemma each: it is removed, inserted,
  resized or replaced by a part of it (`RemoveChunk`, `InsertChunk`, `ResizeChunk`,
  `ReplaceChunk`). `TakenIs`, `AllocIs`, `ReservedIs` and `DeallocIs` put these together: what is
  taken or given back is that and nothing else (`Took`, `Gave`), or, for `AllocIs`, no chunk is
  big enough. The last case is where the second search matters: the first one, from an entry of the
  index, may miss a chunk.
* `Walk` follows the links as a recursive function. What it yields (`TrailLeadsOn`, `ChunksAre`) is
  proved by well-founded induction on the distance to the end of the region, on a set of addresses
  instead of a predicate, since the provers cannot instantiate the library's induction rules. This
  holds because links lead to higher addresses.
* `HeapIsSound` and `StoreStep` then translate from addresses to units: a block of any size,
  wherever in its units it begins, has the units that `RoundDown` and `RoundUp` give it
  (`BlockOf`, `UnitsOf`), and two blocks have no unit in common, so a block given back is one
  interval of the store and the others stay.

On the walk over the handlers it proves `AllAsked` (`WhoFailsAskedAll`) for any tasks, handlers and
priorities, equal ones included, needing nothing of the allocator. The walk may stand on a handler that
was removed, so the order of the list says nothing about where it goes on. The invariant gives each
handler an age, the time of its last adding, so that priority and age are an order that the list
follows (`AgesInv`, `ListInv`). It says that some set of handlers holds the list and the place of
the walk, that links do not lead out of it, and that no link in it passes, in that order, a handler
the call owes a question (`Leads`): a removed handler keeps links that were the list's when it was
removed. Adding a handler gives it a new age and moves nobody else; but the walk may stand on it,
and then its equals are no longer ahead, hence the exception.

`ExecIO_proofs` has the lemmas both devices need: about sequences and the sets of their
elements (`ConcatList`, `RemoveList`, `AppendList`, ...), about the part of the replies that
goes to one port, and that the invariant of ports and replies, `IOInv`, is kept by what a
client does and by `PutReplies`. The library's induction is out of the provers' reach, as it
takes an operator; where a least element is needed (the head of a list of times, the first
place in a sequence) a lemma takes it from the well-foundedness of the numbers.

`TimerDevice_proofs` proves for any tasks, requests, units, intervals and any period of the
VBlank: `TypeCorrect`, `Lists_Sound` (`ListsSound`), `Alarm` (`AlarmInTime`), `Replies`
(`RepliesKept`) and the action property `Intervals` (`NotEarly`). `NotEarly` speaks of the time
that really passed, while the code compares times on the clock of the device, which follows the
counter only when somebody reads it. The invariant adds to the properties what lies between the
two: the clock is never ahead of the last reading (`UpTimeBehind`), and a request that may not be
answered yet still has at least its rest of the interval to go on that clock, however far the
clock is behind (`DueLater`). `AlarmInTime` is inductive with these, as it leaves out the time
between the adding of a request and the programming of the alarm, where the head of a list may be
earlier than the alarm and only the task inside `BeginIO()` makes up for it; `RepliesKept` needs
the invariant of ports and replies of ExecIO (`IOInv`).

`ConsoleDevice_proofs` proves for any tasks, reads, buffer and pastes, any priorities and
whoever aborts: `TypeCorrect`, `Reads_Fed` (`NoStarvedRead`) and `Replies_Reach`
(`ReplyReachesOwner`). The invariant, `IInv`, says for each place of the console task what may
be held beside what input: `Fed` has to follow a paste from the moment it is added, through
the signal that is not yet sent, to the loop that will look at it, while each answer may use
up input for which the next read then waits. `Strays_In_Window` (`StrayOnlyInWindow`, which
no run checks) says, for any priorities too, that a `Remove()` in `WaitIO()` misses the port only
while the console task is between the mark and the link of that very reply. Two results need
assumptions that are properties of the callers, not of the driver, and that the code's comments
take for granted:

* `In_Order` (`ReadsInOrder`) and `None_Lost` (`NoCommandLost`) assume `Below` (the tasks have lower
  priority than the console task) and `Alone` (whoever aborts reads is the only one that sends
  any). `console_abort` is the counterexample without `Alone`. Their invariant is `Ordered`: the reads held, the one in hand and those on
  the port are, one after the other, those sent and not answered (`order`), but for the one
  that is being aborted.

Only model-checked: all liveness (properties with `~>`, `<>` and fairness), which is beyond the
prover, as is `ENABLED`.

## Plan

Done, in this order: ExecSemaphore with its proofs; ExecSched; ExecIO with TimerDevice and
ConsoleDevice; RWLock and the proof that ExecSemaphore implements it; ExecTasks and
ExecInterrupts with proofs; the proofs about ExecSched; MemHeader, ExecMemory and FreeStore,
with the proof about the handlers; the proofs about TimerDevice and ConsoleDevice; the proof that
the chunks and the index stay sound and that ExecMemory implements FreeStore. Left:

1. Atomic signals as an abstract specification that ExecSched implements, and ExecIO over it.
2. Server chains of interrupts (`AddIntServer`, `RemIntServer`) and task exceptions
   (`SetExcept`), beside ExecInterrupts.
3. Memory: pools over MemHeader; several regions.
4. ExecLibrary and lddemon (open counts, delayed expunge), task storage; then `dos.library`
   packets and file locks over ExecIO.

## Not modelled

The SMP build and its spinlocks; nested interrupts; `tc_Switch` and `tc_Launch` hooks;
stack checks; ports other than `PA_SIGNAL`; the hardware of other boards; rendering,
key maps and the units of the console; of memory, the choice of a region by its attributes,
managed memory, `AvailMem`, MungWall, the alerts for damaged lists, the memory of the index
itself and pools. The remaining components are listed in `PROJECT.json`
with the reason for each.
