------------------------------- MODULE ExecIO -------------------------------
(***************************************************************************)
(* Message ports and I/O requests of exec.library as the task that sends a *)
(* request sees them: ReplyMsg, GetMsg, WaitPort, CheckIO, WaitIO.  SendIO *)
(* and DoIO call the BeginIO vector of a device, so the modules of devices *)
(* (TimerDevice, ConsoleDevice) extend this one and compose its actions.   *)
(*                                                                         *)
(* Every task has one reply port, and its signal is shared by all the      *)
(* requests of the task.  Wait() is one step that takes the signal: that   *)
(* it loses none and wakes for none that is not there is what ExecSched    *)
(* shows.  A task can be interrupted between any two steps.                *)
(***************************************************************************)
EXTENDS Integers, Sequences, SequencesExt, FiniteSets

CONSTANTS Tasks,     \* the tasks that send requests
          Requests,  \* struct IORequest
          Owner,     \* the task a request belongs to, with its mn_ReplyPort
          None       \* no request

ASSUME IOConstantsOK ==
  /\ IsFiniteSet(Tasks) /\ IsFiniteSet(Requests)
  /\ Owner \in [Requests -> Tasks] /\ None \notin Requests

VARIABLES
  type,       \* ln_Type: none, message (sent) or reply
  quick,      \* IOF_QUICK in io_Flags
  replyPort,  \* mp_MsgList of each task's reply port
  signal,     \* the tasks whose reply port's signal has arrived
  pc,         \* where a task is: run, testio and sleepio (WaitIO), testport and
              \* sleepport (WaitPort), device (inside a vector of the device)
  current,    \* the request WaitIO or the device is called for
  inUse,      \* history: sent, and its completion not yet collected by the task
  strays      \* history: requests taken by Remove() from no list at all

ioVars == <<type, quick, replyPort, signal, pc, current, inUse, strays>>

IOTypeOK ==
  /\ type \in [Requests -> {"none", "message", "reply"}]
  /\ quick \in [Requests -> BOOLEAN]
  /\ replyPort \in [Tasks -> Seq(Requests)]
  /\ signal \subseteq Tasks
  /\ pc \in [Tasks -> {"run", "testio", "sleepio", "testport", "sleepport", "device"}]
  /\ current \in [Tasks -> Requests \cup {None}]
  /\ inUse \subseteq Requests /\ strays \subseteq Requests

IOInit ==
  /\ type = [r \in Requests |-> "none"]
  /\ quick = [r \in Requests |-> FALSE]
  /\ replyPort = [t \in Tasks |-> <<>>]
  /\ signal = {}
  /\ pc = [t \in Tasks |-> "run"] /\ current = [t \in Tasks |-> None]
  /\ inUse = {} /\ strays = {}

OwnedBy(t) == {r \in Requests : Owner[r] = t}

\* CheckIO: the request was not done quick and is not replied.
Busy(r) == ~quick[r] /\ type[r] = "message"

\* Those of the requests s that belong to the task t, in their order.
Part(s, t) ==
  LET mine == {i \in DOMAIN s : Owner[s[i]] = t}
  IN [k \in 1 .. Cardinality(mine) |->
        s[CHOOSE i \in mine : Cardinality({j \in mine : j <= i}) = k]]

\* Mutant: the reply is linked but nobody is told.
ReplySilently(s) ==
  /\ replyPort' = [t \in Tasks |-> replyPort[t] \o Part(s, t)]
  /\ signal' = signal

\* InternalPutMsg of the requests s to their reply ports, by an interrupt or with nobody
\* looking in between.
PutReplies(s) ==
  /\ replyPort' = [t \in Tasks |-> replyPort[t] \o Part(s, t)]
  /\ signal' = signal \cup {Owner[r] : r \in ToSet(s)}

\* Wait() for the signal of the reply port.
TakeSignal(t) == t \in signal /\ signal' = signal \ {t}

\* WaitIO(): the task starts to wait for a request it has sent.
WaitIO(t, r) ==
  /\ pc[t] = "run" /\ r \in inUse \cap OwnedBy(t)
  /\ pc' = [pc EXCEPT ![t] = "testio"]
  /\ current' = [current EXCEPT ![t] = r]
  /\ UNCHANGED <<type, quick, replyPort, signal, inUse, strays>>

\* The test of the loop of WaitIO, and its end: a replied request is removed from the
\* list it is on, which should be that of the reply port.
TestIO(t) ==
  LET r == current[t] IN
  /\ pc[t] = "testio"
  /\ \/ /\ Busy(r)
        /\ pc' = [pc EXCEPT ![t] = "sleepio"]
        /\ UNCHANGED <<replyPort, current, inUse, strays>>
     \/ /\ ~Busy(r)
        /\ replyPort' = [replyPort EXCEPT ![t] = IF type[r] = "reply" THEN RemoveFirst(@, r) ELSE @]
        /\ strays' = IF type[r] = "reply" /\ r \notin ToSet(replyPort[t])
                     THEN strays \cup {r} ELSE strays
        /\ inUse' = inUse \ {r}
        /\ current' = [current EXCEPT ![t] = None]
        /\ pc' = [pc EXCEPT ![t] = "run"]
  /\ UNCHANGED <<type, quick, signal>>

\* Wait() in WaitIO or WaitPort returns; the test comes again.
Wake(t) ==
  /\ pc[t] \in {"sleepio", "sleepport"}
  /\ TakeSignal(t)
  /\ pc' = [pc EXCEPT ![t] = IF @ = "sleepio" THEN "testio" ELSE "testport"]
  /\ UNCHANGED <<type, quick, replyPort, current, inUse, strays>>

\* WaitPort(): the test for an empty list, first and again after each Wait().
WaitPort(t) ==
  /\ \/ pc[t] = "run" /\ inUse \cap OwnedBy(t) # {} /\ replyPort[t] = <<>>
     \/ pc[t] = "testport"
  /\ pc' = [pc EXCEPT ![t] = IF replyPort[t] = <<>> THEN "sleepport" ELSE "run"]
  /\ UNCHANGED <<type, quick, replyPort, signal, current, inUse, strays>>

\* GetMsg() takes the first reply.
GetMsg(t) ==
  /\ pc[t] = "run" /\ replyPort[t] # <<>>
  /\ replyPort' = [replyPort EXCEPT ![t] = Tail(@)]
  /\ inUse' = inUse \ {Head(replyPort[t])}
  /\ UNCHANGED <<type, quick, signal, pc, current, strays>>

ClientStep(t) ==
  \/ \E r \in Requests : WaitIO(t, r)
  \/ TestIO(t) \/ Wake(t) \/ WaitPort(t) \/ GetMsg(t)
-----------------------------------------------------------------------------
(* Properties that any device has to keep. *)

\* A request marked as replied whose owner has not collected it yet is on its reply
\* port, once, and nothing else is there: WaitIO() may call Remove() on it.
RepliedIsQueued ==
  /\ \A r \in inUse : type[r] = "reply" => r \in ToSet(replyPort[Owner[r]])
  /\ \A t \in Tasks :
       /\ IsInjective(replyPort[t])
       /\ \A r \in ToSet(replyPort[t]) : type[r] = "reply" /\ Owner[r] = t /\ r \in inUse

\* No wait goes on past the answer: a task sleeps in WaitIO() only while its request is
\* busy, and in WaitPort() only while its port is empty, unless the signal is there.
\* One signal stands for several replies and is taken by whichever call waits first.
NoLostReply ==
  \A t \in Tasks : t \notin signal =>
    /\ pc[t] = "sleepio" => Busy(current[t])
    /\ pc[t] = "sleepport" => replyPort[t] = <<>>

\* What a task may rely on when it collects a reply, however it waits for it.
RepliesKept == RepliedIsQueued /\ NoLostReply
=============================================================================
