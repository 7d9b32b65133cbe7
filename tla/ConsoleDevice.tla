--------------------------- MODULE ConsoleDevice ---------------------------
(***************************************************************************)
(* console.device (rom/devs/console): reads.  BeginIO puts a CMD_READ on   *)
(* the command port of the console task, which answers it from the input   *)
(* buffer of the unit or holds it until there is input.  Input comes from  *)
(* the input handler, which hands over one event at a time and waits for   *)
(* its reply, and from con_inject(), which a CMD_WRITE or the user's paste *)
(* key calls.  AbortIO works on the lists of the console task itself,      *)
(* under consoleTaskLock.                                                  *)
(*                                                                         *)
(* There is one unit.  Characters are counted.  PutMsg and ReplyMsg are    *)
(* not one step here: a task of higher priority can run between the mark   *)
(* on the message, its linking and the signal.  Getting consoleTaskLock is *)
(* one step, as ExecSemaphore shows it may be taken.                       *)
(***************************************************************************)
EXTENDS ExecIO, FiniteSetsExt

CONSTANTS Length,   \* io_Length of each request
          Buffer,   \* CON_INPUTBUF_SIZE
          Paste,    \* the size of what con_inject() adds
          MaxPaste, \* bound: pastes that are queued at a time
          Aborters, \* the tasks that call AbortIO()
          Below     \* the tasks have lower priority than the console task

ASSUME ConsoleConstantsOK ==
  /\ Length \in [Requests -> Nat \ {0}]
  /\ {Buffer, Paste} \subseteq Nat \ {0} /\ MaxPaste \in Nat
  /\ Aborters \subseteq Tasks /\ Below \in BOOLEAN
  /\ None \notin Tasks /\ "console" \notin Tasks /\ None # "console"

VARIABLES
  commandPort, \* what GetMsg() finds on commandPort
  cut,         \* commandPort has lost its connection to what is added at its end
  reads,       \* readRequests
  chars,       \* numStoredChars
  pasted,      \* pasteData: what is left of each
  event,       \* the message of the input handler: none, on inputPort, or taken
  signals,     \* tc_SigRecvd of the console task
  cpc,         \* where the console task is
  woke,        \* wakeupsig
  command,     \* req: the command taken from commandPort
  replying,    \* the request inside ReplyMsg()
  after,       \* where answer_requests() returns to
  back,        \* where answer_read_request() returns to
  lock,        \* who holds consoleTaskLock
  at,          \* where a task inside the device is
  order        \* history: the reads not yet answered, in the order they were sent

ioPart == <<commandPort, cut, reads>>
inputPart == <<chars, pasted, event>>
taskPart == <<cpc, woke, command, replying, after, back>>
devVars == <<ioPart, inputPart, taskPart, signals, lock, at, order>>
vars == <<ioVars, devVars>>

TypeOK ==
  /\ IOTypeOK
  /\ commandPort \in Seq(Requests) /\ reads \in Seq(Requests) /\ cut \in BOOLEAN
  /\ chars \in 0 .. Buffer
  /\ pasted \in Seq(1 .. Paste)
  /\ event \in {"none", "key", "paste", "taken"}
  /\ signals \subseteq {"command", "input", "paste"} /\ woke \subseteq {"command", "input", "paste"}
  /\ cpc \in {"wait", "lock", "paste", "input", "done", "command", "read", "answer", "link", "tell"}
  /\ {command, replying} \subseteq Requests \cup {None}
  /\ lock \in Tasks \cup {None, "console"}
  /\ at \in [Tasks -> {"out", "tell", "locked", "unlinking", "cutting", "unlock", "injected"}]
  /\ order \in Seq(Requests)

Init ==
  /\ IOInit
  /\ commandPort = <<>> /\ cut = FALSE /\ reads = <<>>
  /\ chars = 0 /\ pasted = <<>> /\ event = "none" /\ signals = {}
  /\ cpc = "wait" /\ woke = {} /\ command = None /\ replying = None
  /\ after = "input" /\ back = "command"
  /\ lock = None /\ at = [t \in Tasks |-> "out"] /\ order = <<>>
-----------------------------------------------------------------------------
(* The console task. *)

Goto(p) == cpc' = p

\* Mutant: the room in the buffer is not looked at.
CopiedAll == Head(pasted)

\* pasteData(): as much of the first paste as the buffer has room for.
Copied == Min({Head(pasted), Buffer - chars})

PasteData ==
  /\ chars' = chars + Copied
  /\ pasted' = IF Copied = Head(pasted) THEN Tail(pasted)
               ELSE <<Head(pasted) - Copied>> \o Tail(pasted)

\* answer_read_request(), up to the mark that ReplyMsg() sets first.
AnswerRead(r, p) ==
  /\ chars' = chars - Min({chars, Length[r]})
  /\ type' = [type EXCEPT ![r] = "reply"]
  /\ replying' = r /\ back' = p
  /\ order' = RemoveFirst(order, r)
  /\ Goto("link")

\* Wait() returns with every signal that has arrived.
ConsoleWakes ==
  /\ cpc = "wait" /\ signals # {}
  /\ woke' = signals /\ signals' = {}
  /\ Goto("lock")
  /\ UNCHANGED <<ioVars, ioPart, inputPart, command, replying, after, back, lock, at, order>>

ConsoleLocks ==
  /\ cpc = "lock" /\ lock = None
  /\ lock' = "console"
  /\ Goto("paste")
  /\ UNCHANGED <<ioVars, ioPart, inputPart, woke, command, replying, after, back, signals, at, order>>

\* The loop over held reads when something was pasted.
ConsolePastes ==
  /\ cpc = "paste"
  /\ IF "paste" \in woke /\ reads # <<>> /\ pasted # <<>>
     THEN PasteData /\ Goto("answer") /\ after' = IF Copied > 0 THEN "paste" ELSE "input"
     ELSE Goto("input") /\ UNCHANGED <<chars, pasted, after>>
  /\ UNCHANGED <<ioVars, ioPart, event, woke, command, replying, back, signals, lock, at, order>>

\* Mutant: con_inject() leaves it to the next command to look.
InjectQuietly == signals

\* The signal of con_inject().
Injected == signals \cup {"paste"}

\* The message of the input handler: a key, lost if the buffer is full, or the paste key,
\* on which the console task itself calls con_inject().
ConsoleInput ==
  /\ cpc = "input"
  /\ \/ /\ "input" \in woke /\ event = "key"
        /\ chars' = Min({Buffer, chars + 1}) /\ event' = "taken"
        /\ Goto("answer") /\ after' = "done"
        /\ UNCHANGED <<pasted, signals>>
     \/ /\ "input" \in woke /\ event = "paste"
        /\ pasted' = Append(pasted, Paste) /\ event' = "taken"
        /\ signals' = Injected
        /\ Goto("answer") /\ after' = "done"
        /\ UNCHANGED chars
     \/ /\ "input" \notin woke \/ event = "none"
        /\ Goto("command")
        /\ UNCHANGED <<inputPart, after, signals>>
  /\ UNCHANGED <<ioVars, ioPart, woke, command, replying, back, lock, at, order>>

\* The reply to the input handler, which takes it and may hand over the next event.
ConsoleEventDone ==
  /\ cpc = "done"
  /\ event' = "none"
  /\ Goto("input")
  /\ UNCHANGED <<ioVars, ioPart, chars, pasted, woke, command, replying, after, back, signals, lock, at, order>>

\* Mutant: input is looked for only when keys come.
PasteLater == FALSE

\* A command makes the console task look for pasted input first.
PasteForCommand == pasted # <<>>

\* GetMsg(commandPort) and pasteData(), or the end of the round.  Taking the last message
\* that can be reached makes the list whole again.
ConsoleCommand ==
  /\ cpc = "command"
  /\ \/ /\ "command" \in woke /\ commandPort # <<>>
        /\ command' = Head(commandPort) /\ commandPort' = Tail(commandPort)
        /\ cut' = (cut /\ Len(commandPort) > 1)
        /\ IF PasteForCommand THEN PasteData /\ Goto("answer") /\ after' = "read"
                              ELSE Goto("read") /\ UNCHANGED <<chars, pasted, after>>
        /\ UNCHANGED lock
     \/ /\ "command" \notin woke \/ commandPort = <<>>
        /\ lock' = None
        /\ Goto("wait")
        /\ UNCHANGED <<commandPort, cut, chars, pasted, command, after>>
  /\ UNCHANGED <<ioVars, reads, event, woke, replying, back, signals, at, order>>

\* Mutant: a read that has to wait goes before the others.
HeldFirst(r) == <<r>> \o reads

\* Mutant: a read that has to wait is forgotten.
HeldNot(r) == reads

Held(r) == Append(reads, r)

\* CMD_READ: answered from the buffer, or put on hold.
ConsoleRead ==
  /\ cpc = "read"
  /\ IF chars # 0 THEN AnswerRead(command, "command") /\ UNCHANGED reads
     ELSE /\ reads' = Held(command)
          /\ Goto("command")
          /\ UNCHANGED <<chars, type, replying, back, order>>
  /\ command' = None
  /\ UNCHANGED <<quick, replyPort, signal, pc, current, inUse, strays, commandPort, cut,
                 pasted, event, woke, after, signals, lock, at>>

\* answer_requests()
ConsoleAnswers ==
  /\ cpc = "answer"
  /\ IF reads # <<>> /\ chars # 0
     THEN AnswerRead(Head(reads), "answer") /\ reads' = Tail(reads)
     ELSE Goto(after) /\ UNCHANGED <<chars, type, replying, back, reads, order>>
  /\ UNCHANGED <<quick, replyPort, signal, pc, current, inUse, strays, commandPort, cut,
                 pasted, event, woke, command, after, signals, lock, at>>

\* InternalPutMsg() in the console task: the reply is linked, then signalled.
ConsoleLinks ==
  /\ cpc = "link"
  /\ replyPort' = [replyPort EXCEPT ![Owner[replying]] = Append(@, replying)]
  /\ Goto("tell")
  /\ UNCHANGED <<type, quick, signal, pc, current, inUse, strays, ioPart, inputPart, woke,
                 command, replying, after, back, signals, lock, at, order>>

\* Mutant: the owner is told only when its port was empty.
ToldIfFirst(t) == IF Len(replyPort[t]) = 1 THEN {t} ELSE {}

\* PA_SIGNAL, for every message.
Told(t) == {t}

ConsoleTells ==
  /\ cpc = "tell"
  /\ signal' = signal \cup Told(Owner[replying])
  /\ replying' = None
  /\ Goto(back)
  /\ UNCHANGED <<type, quick, replyPort, pc, current, inUse, strays, ioPart, inputPart, woke,
                 command, after, back, signals, lock, at, order>>

ConsoleStep ==
  \/ ConsoleWakes \/ ConsoleLocks \/ ConsolePastes \/ ConsoleInput \/ ConsoleEventDone
  \/ ConsoleCommand \/ ConsoleRead \/ ConsoleAnswers \/ ConsoleLinks \/ ConsoleTells
-----------------------------------------------------------------------------
(* The input handler, in the task of input.device, whose priority is higher. *)

HandlerSends ==
  /\ event = "none"
  /\ event' \in {"key"} \cup (IF Len(pasted) < MaxPaste THEN {"paste"} ELSE {})
  /\ signals' = signals \cup {"input"}
  /\ UNCHANGED <<ioVars, ioPart, chars, pasted, taskPart, lock, at, order>>
-----------------------------------------------------------------------------
(* The tasks that read and write. *)

Asleep == (cpc = "wait" /\ signals = {}) \/ (cpc = "lock" /\ lock # None)

\* The task t can run: it is not below a console task that has something to do.
Runs(t) == Below => Asleep

Enters(t, p) == pc' = [pc EXCEPT ![t] = "device"] /\ at' = [at EXCEPT ![t] = p]
GoesTo(t, p) == at' = [at EXCEPT ![t] = p] /\ UNCHANGED pc
Leaves(t, p) == pc' = [pc EXCEPT ![t] = p] /\ at' = [at EXCEPT ![t] = "out"]

\* BeginIO with CMD_READ, up to the linking of the message.  q: called by DoIO().
SendRead(t, r, q) ==
  /\ Runs(t) /\ pc[t] = "run" /\ r \in OwnedBy(t) \ inUse
  /\ type' = [type EXCEPT ![r] = "message"]
  /\ quick' = [quick EXCEPT ![r] = FALSE]
  /\ inUse' = inUse \cup {r}
  /\ IF cut \/ \E u \in Tasks : at[u] = "cutting"
     THEN cut' = TRUE /\ UNCHANGED commandPort
     ELSE commandPort' = Append(commandPort, r) /\ UNCHANGED cut
  /\ current' = [current EXCEPT ![t] = IF q THEN r ELSE None]
  /\ order' = Append(order, r)
  /\ Enters(t, "tell")
  /\ UNCHANGED <<replyPort, signal, strays, reads, inputPart, taskPart, signals, lock>>

\* The signal of PutMsg(); then DoIO() waits.
TellConsole(t) ==
  /\ Runs(t) /\ at[t] = "tell"
  /\ signals' = signals \cup {"command"}
  /\ Leaves(t, IF current[t] # None THEN "testio" ELSE "run")
  /\ UNCHANGED <<type, quick, replyPort, signal, current, inUse, strays, ioPart, inputPart,
                 taskPart, lock, order>>

\* con_inject() under consoleTaskLock, on behalf of a CMD_WRITE, and its signal after.
Inject(t) ==
  /\ Runs(t) /\ pc[t] = "run" /\ lock = None /\ Len(pasted) < MaxPaste
  /\ pasted' = Append(pasted, Paste)
  /\ Enters(t, "injected")
  /\ UNCHANGED <<type, quick, replyPort, signal, current, inUse, strays, ioPart, chars, event,
                 taskPart, signals, lock, order>>

InjectSignals(t) ==
  /\ Runs(t) /\ at[t] = "injected"
  /\ signals' = Injected
  /\ Leaves(t, "run")
  /\ UNCHANGED <<type, quick, replyPort, signal, current, inUse, strays, ioPart, inputPart,
                 taskPart, lock, order>>

\* AbortIO: the lock.
AbortLocks(t, r) ==
  /\ Runs(t) /\ t \in Aborters /\ pc[t] = "run" /\ r \in OwnedBy(t) \cap inUse /\ lock = None
  /\ lock' = t
  /\ current' = [current EXCEPT ![t] = r]
  /\ Enters(t, "locked")
  /\ UNCHANGED <<type, quick, replyPort, signal, inUse, strays, ioPart, inputPart, taskPart, signals, order>>

\* The test, and the first of the two writes of Remove(), which runs without Disable():
\* the list can no longer be walked to the request, but if it was the last one what is
\* added now is linked to it.
AbortUnlinks(t) ==
  LET r == current[t] IN
  /\ Runs(t) /\ at[t] = "locked"
  /\ IF type[r] = "reply" THEN GoesTo(t, "unlock") /\ UNCHANGED ioPart
     ELSE /\ reads' = RemoveFirst(reads, r)
          /\ commandPort' = RemoveFirst(commandPort, r)
          /\ GoesTo(t, IF commandPort # <<>> /\ Last(commandPort) = r THEN "cutting" ELSE "unlinking")
          /\ UNCHANGED cut
  /\ UNCHANGED <<type, quick, replyPort, signal, current, inUse, strays, inputPart, taskPart,
                 signals, lock, order>>

\* The second write, and ReplyMsg() to the task itself.
AbortReplies(t) ==
  /\ Runs(t) /\ at[t] \in {"unlinking", "cutting"}
  /\ type' = [type EXCEPT ![current[t]] = "reply"]
  /\ PutReplies(<<current[t]>>)
  /\ order' = RemoveFirst(order, current[t])
  /\ GoesTo(t, "unlock")
  /\ UNCHANGED <<quick, current, inUse, strays, ioPart, inputPart, taskPart, signals, lock>>

AbortUnlocks(t) ==
  /\ Runs(t) /\ at[t] = "unlock"
  /\ lock' = None
  /\ current' = [current EXCEPT ![t] = None]
  /\ Leaves(t, "run")
  /\ UNCHANGED <<type, quick, replyPort, signal, inUse, strays, ioPart, inputPart, taskPart, signals, order>>

InsideDevice(t) ==
  \/ TellConsole(t) \/ InjectSignals(t)
  \/ AbortUnlinks(t) \/ AbortReplies(t) \/ AbortUnlocks(t)

Client(t) == Runs(t) /\ ClientStep(t) /\ UNCHANGED devVars

TaskStep(t) ==
  \/ InsideDevice(t) \/ Client(t) \/ Inject(t)
  \/ \E r \in Requests : AbortLocks(t, r) \/ \E q \in BOOLEAN : SendRead(t, r, q)

Next == ConsoleStep \/ HandlerSends \/ \E t \in Tasks : TaskStep(t)

Spec == Init /\ [][Next]_vars

\* The console task and a task inside the device go on, keys come again and again, and
\* no faster than the console task deals with them.
Fairness ==
  /\ WF_vars(ConsoleStep) /\ WF_vars(HandlerSends)
  /\ \A t \in Tasks : SF_vars(InsideDevice(t))
  /\ []<>Asleep

FairSpec == Spec /\ Fairness
-----------------------------------------------------------------------------
(* Properties. *)

\* Every read that was sent and is not answered is in the hands of the console task: on
\* its port, held, just taken, or being taken away by AbortIO(); in one place only.
NoCommandLost ==
  \A r \in inUse : type[r] = "message" =>
    \/ r \in ToSet(commandPort \o reads) /\ IsInjective(commandPort \o reads)
    \/ r = command
    \/ \E t \in Tasks : current[t] = r /\ at[t] \in {"unlinking", "cutting"}

\* The console task does not sleep with reads held and input there, in the buffer or
\* pasted, unless the task that pasted it is just about to tell.
NoStarvedRead ==
  cpc = "wait" /\ signals = {} /\ reads # <<>> =>
    chars = 0 /\ (pasted = <<>> \/ \E t \in Tasks : at[t] = "injected")

\* Reads get the input in the order they were sent in, though some are held and some
\* still on the port when it comes.
ReadsInOrder ==
  [][\A r \in Requests : replying # r /\ replying' = r =>
       r = Head(order)]_vars

\* A request is on its reply port and its owner told, or the console task is about to do so.
ReplyReachesOwner ==
  \A t \in Tasks : \A r \in inUse \cap OwnedBy(t) : type[r] = "reply" =>
    \/ replying = r
    \/ r \in ToSet(replyPort[t]) /\ (pc[t] = "sleepio" /\ current[t] = r => t \in signal)

\* Whatever the priorities are, WaitIO() removes a read from a port it is not on only in the
\* window that ReplyMsg() leaves (replymsg.c:61): the console task has marked this very read
\* as replied and has yet to link it.
StrayOnlyInWindow ==
  [][\A r \in Requests : r \in strays' \ strays => replying = r /\ cpc = "link"]_vars

\* Every read is answered, if only keys come.
EveryReadAnswered ==
  \A r \in Requests : r \in inUse /\ type[r] = "message" ~> type[r] = "reply"
=============================================================================
