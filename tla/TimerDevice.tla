---------------------------- MODULE TimerDevice ----------------------------
(***************************************************************************)
(* timer.device (rom/timer, with the hardware part of arch/all-pc/timer)   *)
(* and the tasks that use it.  Requests are kept in three lists sorted by  *)
(* time; an alarm clock is programmed for the head of the first; its       *)
(* interrupt replies the requests that are due, and a request of the       *)
(* device's own in that list stands for the VBlank.                        *)
(*                                                                         *)
(* now is the time the hardware counts.  tb_Elapsed and tb_CurrentTime     *)
(* follow it only when the counter is read (EClockAdd).  A list operation  *)
(* runs with interrupts disabled and is one step; between it and the       *)
(* programming of the alarm anything can happen.                           *)
(***************************************************************************)
EXTENDS ExecIO, FiniteSetsExt

CONSTANTS VBlank,   \* tb_vblank_timerequest
          Period,   \* 1000000 / VBlankFrequency
          Reload,   \* tb_ReloadValue: the alarm is never set later than this from now
          Units,    \* the units in use: of "micro", "vblank", "until", "eclock"
          Delays,   \* the tr_time of requests
          Times,    \* the values of TR_SETSYSTIME
          MaxTime   \* bound: nothing is asked for beyond this time

ASSUME TimerConstantsOK ==
  /\ VBlank \notin Requests \cup {None}
  /\ {Period, Reload, MaxTime} \subseteq Nat \ {0}
  /\ Units \subseteq {"micro", "vblank", "until", "eclock"}
  /\ Delays \subseteq Nat /\ Times \subseteq Nat

Lists == {"micro", "vblank", "until"}
Timed == Requests \cup {VBlank}

VARIABLES
  now,      \* the hardware counter
  prev,     \* tb_prev_tick: the counter when it was read last
  elapsed,  \* tb_Elapsed
  sysTime,  \* tb_CurrentTime
  time,     \* tr_time of each request
  list,     \* tb_Lists
  alarm,    \* when the hardware interrupts
  stale,    \* history: how far tb_Elapsed was behind when the alarm was set
  due,      \* history: the earliest time the request may be answered at
  refused   \* history: the requests BeginIO() neither queued nor replied

clockVars == <<now, prev, elapsed, sysTime>>
devVars == <<time, list, alarm, stale, due, refused>>
vars == <<ioVars, clockVars, devVars>>

TypeOK ==
  /\ IOTypeOK
  /\ now \in Nat /\ prev \in 0 .. now /\ elapsed \in 0 .. now
  /\ sysTime \in Nat
  /\ time \in [Timed -> Nat]
  /\ list \in [Lists -> Seq(Timed)]
  /\ alarm \in Nat /\ stale \in Nat /\ due \in [Requests -> Nat]
  /\ refused \subseteq Requests

Init ==
  /\ IOInit
  /\ now = 0 /\ prev = 0 /\ elapsed = 0 /\ sysTime = 0
  /\ time = [r \in Timed |-> IF r = VBlank THEN Period ELSE 0]
  /\ list = [l \in Lists |-> IF l = "micro" THEN <<VBlank>> ELSE <<>>]
  /\ alarm = IF Period < Reload THEN Period ELSE Reload
  /\ stale = 0 /\ due = [r \in Requests |-> 0] /\ refused = {}
-----------------------------------------------------------------------------
(* Time. *)

\* EClockUpdate: the time since the last reading is added to both clocks.
ElapsedNow == elapsed + (now - prev)
SysTimeNow == sysTime + (now - prev)

EClockUpdate ==
  /\ elapsed' = ElapsedNow /\ sysTime' = SysTimeNow /\ prev' = now
  /\ UNCHANGED now

\* Mutant: TR_SETSYSTIME moves the clock of the intervals too.
EClockSetBoth(v) == sysTime' = v /\ elapsed' = v /\ prev' = now /\ UNCHANGED now

\* TR_SETSYSTIME and EClockSet: the reading starts anew, without the time since the last.
EClockSet(v) == sysTime' = v /\ prev' = now /\ UNCHANGED <<now, elapsed>>

\* Mutant: the alarm is set for the last request.
DelayForLast(l, T, e) ==
  IF l = <<>> THEN Reload ELSE Min({Reload, Max({0, T[Last(l)] - e})})

\* The delay Timer0Setup programs for the first request of l, with the times T.
DelayFor(l, T, e) ==
  IF l = <<>> THEN Reload ELSE Min({Reload, Max({0, T[Head(l)] - e})})

\* Timer0Setup: the delay counts from the value of tb_Elapsed read before, and only then
\* the clocks are brought up to date.  An interrupt that is pending stays so.
Timer0Setup ==
  /\ alarm' = IF now >= alarm THEN alarm ELSE now + DelayFor(list["micro"], time, elapsed)
  /\ stale' = now - prev
  /\ EClockUpdate
-----------------------------------------------------------------------------
(* The lists. *)

\* Mutant: a request goes to the end.
PlaceLast(l, T, v) == Len(l) + 1

\* The place of a request for the time v: in front of the first for a later time.
PlaceFor(l, T, v) == Cardinality({i \in DOMAIN l : \A j \in 1 .. i : T[l[j]] <= v}) + 1

\* addToWaitList
Inserted(l, T, r, v) == InsertAt(l, PlaceFor(l, T, v), r)

\* The requests a pass over l replies: the loop ends at the first that is not done.
Done(l, e) == SubSeq(l, 1, Cardinality({i \in DOMAIN l : \A j \in 1 .. i : time[l[j]] <= e}))

Rest(l, e) == SubSeq(l, Len(Done(l, e)) + 1, Len(l))

\* The VBlank request is put back for the next VBlank.
RequeueVBlank(l, e) == Inserted(l, time, VBlank, e + Period)

\* The VBlank request is among those that are due at e.
VBlankDue(e) == VBlank \in ToSet(Done(list["micro"], e))

\* Mutant: the requests of the VBlank unit are taken off their lists and forgotten.
RepliedMicroOnly(e, s) == SelectSeq(Done(list["micro"], e), LAMBDA r : r # VBlank)

\* TimerProcessMicroHZ, with TimerProcessVBlank when the VBlank request is among the due,
\* at the elapsed time e and the system time s: the requests replied in their order.
Replied(e, s) ==
  LET micro == Done(list["micro"], e) IN
  IF ~VBlankDue(e) THEN micro
  ELSE LET k == SelectInSeq(micro, LAMBDA r : r = VBlank)
       IN SubSeq(micro, 1, k - 1) \o Done(list["vblank"], e) \o Done(list["until"], s)
            \o SubSeq(micro, k + 1, Len(micro))

\* The lists after that pass.
ListsAfter(e, s) ==
  LET micro == Rest(list["micro"], e) IN
  IF ~VBlankDue(e) THEN [list EXCEPT !["micro"] = micro]
  ELSE [l \in Lists |-> CASE l = "micro"  -> RequeueVBlank(micro, e)
                          [] l = "vblank" -> Rest(list[l], e)
                          [] l = "until"  -> Rest(list[l], s)]
-----------------------------------------------------------------------------
(* The hardware and its interrupt. *)

\* Time passes, beyond MaxTime only to let the requests under way be served.
Clock ==
  /\ \/ now < MaxTime
     \/ now < alarm /\ \E l \in Lists : ToSet(list[l]) \ {VBlank} # {}
  /\ now' = now + 1
  /\ UNCHANGED <<prev, elapsed, sysTime, devVars, ioVars>>

\* TimerInt: at the alarm or, with interrupts disabled at that time, later.
TimerInt ==
  LET e == ElapsedNow
      replies == Replied(e, SysTimeNow)
      lists == ListsAfter(e, SysTimeNow)
      T == [r \in Timed |-> IF r \in ToSet(replies) THEN 0
                            ELSE IF r = VBlank /\ VBlankDue(e) THEN e + Period ELSE time[r]]
  IN
  /\ now >= alarm
  /\ EClockUpdate
  /\ list' = lists /\ time' = T
  /\ type' = [r \in Requests |-> IF r \in ToSet(replies) THEN "reply" ELSE type[r]]
  /\ PutReplies(replies)
  /\ alarm' = now + DelayFor(lists["micro"], T, e) /\ stale' = 0
  /\ due' = [r \in Requests |-> IF r \in ToSet(replies) THEN 0 ELSE due[r]]
  /\ UNCHANGED <<refused, quick, pc, current, inUse, strays>>

\* GetUpTime and GetSysTime called as functions, which interrupts and any task may do.
GetUpTime == EClockUpdate /\ UNCHANGED <<devVars, ioVars>>
-----------------------------------------------------------------------------
(* The vectors of the device, called by the task t.  q: the request is started by     *)
(* DoIO(), with IOF_QUICK, and DoIO() waits for it unless it was done quickly.         *)

\* The request r is done inside BeginIO: it is replied unless the caller wanted it quick.
DoneAtOnce(t, r, q) ==
  /\ IF q THEN /\ type' = [type EXCEPT ![r] = "message"]
               /\ UNCHANGED <<replyPort, signal, inUse>>
          ELSE /\ type' = [type EXCEPT ![r] = "reply"]
               /\ inUse' = inUse \cup {r}
               /\ PutReplies(<<r>>)
  /\ quick' = [quick EXCEPT ![r] = q]
  /\ UNCHANGED <<pc, current, strays>>

\* The request r stays with the device; the caller goes to p next.
Started(t, r, q, p) ==
  /\ type' = [type EXCEPT ![r] = "message"]
  /\ quick' = [quick EXCEPT ![r] = FALSE]
  /\ inUse' = inUse \cup {r}
  /\ pc' = [pc EXCEPT ![t] = p]
  /\ current' = [current EXCEPT ![t] = IF q THEN r ELSE None]
  /\ UNCHANGED <<replyPort, signal, strays>>

\* Where the caller goes after BeginIO: DoIO() waits.
Afterwards(q) == IF q THEN "testio" ELSE "run"

\* Mutant: the hardware is left as it is.
NoSetup(l, r, q) == Afterwards(q)

\* A request at the head of a list makes BeginIO program the alarm.
AfterAdding(l, r, q) == IF Head(l) = r THEN "device" ELSE Afterwards(q)

MaySend(t, r) == pc[t] = "run" /\ r \in OwnedBy(t) \ inUse

\* TR_ADDREQUEST for an interval.
AddInterval(t, r, u, d, q) ==
  LET v == ElapsedNow + d
      l == Inserted(list[u], time, r, v)
  IN
  /\ MaySend(t, r) /\ now + d <= MaxTime
  /\ EClockUpdate
  /\ time' = [time EXCEPT ![r] = v] /\ due' = [due EXCEPT ![r] = now + d]
  /\ list' = [list EXCEPT ![u] = l]
  /\ Started(t, r, q, AfterAdding(l, r, q))
  /\ refused' = refused \ {r}
  /\ UNCHANGED <<alarm, stale>>

\* TR_ADDREQUEST for a time of day.
AddUntil(t, r, v, q) ==
  LET l == Inserted(list["until"], time, r, v) IN
  /\ MaySend(t, r) /\ now + v - SysTimeNow <= MaxTime
  /\ EClockUpdate
  /\ UNCHANGED due
  /\ \/ /\ SysTimeNow >= v
        /\ time' = [time EXCEPT ![r] = 0]
        /\ DoneAtOnce(t, r, q)
        /\ UNCHANGED list
     \/ /\ SysTimeNow < v
        /\ time' = [time EXCEPT ![r] = v]
        /\ list' = [list EXCEPT !["until"] = l]
        /\ Started(t, r, q, AfterAdding(l, r, q))
  /\ refused' = refused \ {r}
  /\ UNCHANGED <<alarm, stale>>

\* TR_ADDREQUEST on UNIT_ECLOCK or UNIT_WAITECLOCK: io_Error is set and no more, so that
\* a request sent without IOF_QUICK is never answered.
AddEClock(t, r, q) ==
  /\ MaySend(t, r) /\ "eclock" \in Units
  /\ type' = [type EXCEPT ![r] = "message"] /\ quick' = [quick EXCEPT ![r] = q]
  /\ inUse' = IF q THEN inUse ELSE inUse \cup {r}
  /\ refused' = refused \cup {r}
  /\ UNCHANGED <<replyPort, signal, strays, pc, current, clockVars, time, list, alarm, stale, due>>

\* TR_GETSYSTIME.
GetSysTime(t, r, q) ==
  /\ MaySend(t, r)
  /\ EClockUpdate
  /\ DoneAtOnce(t, r, q)
  /\ refused' = refused \ {r}
  /\ UNCHANGED <<time, list, alarm, stale, due>>

\* TR_SETSYSTIME.
SetSysTime(t, r, v, q) ==
  /\ MaySend(t, r) /\ now < MaxTime
  /\ EClockSet(v)
  /\ DoneAtOnce(t, r, q)
  /\ refused' = refused \ {r}
  /\ UNCHANGED <<time, list, alarm, stale, due>>

\* The end of BeginIO in arch/all-pc/timer, for a request at the head of its list.
Setup(t) ==
  /\ pc[t] = "device"
  /\ Timer0Setup
  /\ pc' = [pc EXCEPT ![t] = Afterwards(current[t] # None)]
  /\ UNCHANGED <<time, list, due, refused, type, quick, replyPort, signal, current, inUse, strays>>

\* Mutant: the request is taken off its list even when it was replied.
AbortReplied(r) == TRUE

MayAbort(r) == type[r] # "reply"

\* AbortIO, which a task may call for a request it has sent: whatever was not replied is
\* taken for a request in one of the lists.
AbortIO(t, r) ==
  /\ pc[t] = "run" /\ r \in OwnedBy(t) \cap inUse
  /\ MayAbort(r)
  /\ list' = [l \in Lists |-> RemoveFirst(list[l], r)]
  /\ strays' = IF \A l \in Lists : r \notin ToSet(list[l]) THEN strays \cup {r} ELSE strays
  /\ time' = [time EXCEPT ![r] = 0]
  /\ due' = [due EXCEPT ![r] = 0]
  /\ refused' = refused \ {r}
  /\ IF quick[r] THEN UNCHANGED <<type, replyPort, signal>>
     ELSE type' = [type EXCEPT ![r] = "reply"] /\ PutReplies(<<r>>)
  /\ UNCHANGED <<clockVars, alarm, stale, quick, pc, current, inUse>>
-----------------------------------------------------------------------------
DeviceStep(t) ==
  \E r \in Requests :
    \/ AbortIO(t, r)
    \/ \E q \in BOOLEAN :
         \/ \E u \in Units \cap {"micro", "vblank"}, d \in Delays : AddInterval(t, r, u, d, q)
         \/ \E v \in Times : "until" \in Units /\ AddUntil(t, r, v, q)
         \/ AddEClock(t, r, q)
         \/ GetSysTime(t, r, q)
         \/ \E v \in Times : SetSysTime(t, r, v, q)

Next ==
  \/ Clock \/ TimerInt \/ GetUpTime
  \/ \E t \in Tasks : Setup(t) \/ DeviceStep(t) \/ (ClientStep(t) /\ UNCHANGED <<clockVars, devVars>>)

Spec == Init /\ [][Next]_vars

\* Time passes, the interrupt comes, and a task goes on through the code it is in.
Fairness ==
  /\ WF_vars(Clock) /\ WF_vars(TimerInt)
  /\ \A t \in Tasks : WF_vars(Setup(t)) /\ WF_vars(TestIO(t) /\ UNCHANGED <<clockVars, devVars>>)
                      /\ WF_vars(Wake(t) /\ UNCHANGED <<clockVars, devVars>>)

FairSpec == Spec /\ Fairness
-----------------------------------------------------------------------------
(* Properties. *)

\* The request r is with the device.
Pending(r) == \E l \in Lists : r \in ToSet(list[l])

\* A request sent, accepted and not yet answered is in exactly one of the lists, once, and
\* nothing else is: an answer, an abort and an addition agree on who owns the request.
\* The device's own request is always queued: without it neither the VBlank nor two of
\* the three lists would be served again.
PendingIffListed ==
  /\ \A r \in Requests : Pending(r) <=> r \in inUse \ refused /\ type[r] = "message"
  /\ \A l \in Lists : IsInjective(list[l])
  /\ \A l, m \in Lists : l # m => ToSet(list[l]) \cap ToSet(list[m]) = {}
  /\ VBlank \in ToSet(list["micro"])

\* The lists stay sorted while their requests come from clocks that are read, set and
\* requeued at different moments: the interrupt looks no further than the first request
\* that is not due.
ListsSorted ==
  \A l \in Lists : \A i, j \in DOMAIN list[l] : i < j => time[list[l][i]] <= time[list[l][j]]

\* The lists are what the interrupt and AbortIO() take them for.
ListsSound == PendingIffListed /\ ListsSorted

\* The alarm is early enough for the first request, but for the time that passed between
\* the reading of the clock and the programming: requests of other tasks, aborts and
\* interrupts in between do not leave the hardware set for an old head.
AlarmInTime ==
  (\A t \in Tasks : pc[t] # "device") =>
    alarm <= Max({now, prev + time[Head(list["micro"])] - elapsed + stale})

\* No interval ends early, whatever is done to the system time meanwhile.
NotEarly ==
  [][\A r \in Requests : type[r] = "message" /\ type'[r] = "reply" =>
       now >= due[r] \/ \E t \in Tasks : AbortIO(t, r)]_vars

\* Every request sent is answered, and a task that waits for one goes on, though the replies
\* to others share the signal.
EveryRequestAnswered ==
  /\ \A r \in Requests : r \in inUse /\ type[r] = "message" ~> type[r] = "reply"
  /\ \A t \in Tasks : pc[t] = "testio" ~> pc[t] = "run"
=============================================================================
