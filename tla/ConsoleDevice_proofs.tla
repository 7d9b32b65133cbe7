----------------------- MODULE ConsoleDevice_proofs -----------------------
(***************************************************************************)
(* Proofs about ConsoleDevice.  IInv holds whatever the priorities of the  *)
(* tasks are and whoever aborts reads: it gives the types, that no read    *)
(* starves beside input and that every reply reaches the owner.  Ordered   *)
(* needs two assumptions that ConsoleAbort shows to be necessary: the      *)
(* tasks do not run while the console task has something to do, and a      *)
(* task that aborts reads is the only one that sends any.                  *)
(***************************************************************************)
EXTENDS ConsoleDevice, ExecIO_proofs

\* The console task answers held reads, and goes on at the place in after.
Answering == cpc = "answer" \/ (cpc \in {"link", "tell"} /\ back = "answer")

\* The variables of the console task say where it is.
Registers ==
  /\ after \in {"paste", "input", "done", "read"} /\ back \in {"command", "answer"}
  /\ replying # None <=> cpc \in {"link", "tell"}
  /\ command # None <=> cpc = "read" \/ (Answering /\ after = "read")

\* consoleTaskLock is held by those who work on the lists, one at a time.
Locked ==
  /\ lock = "console" <=> cpc \notin {"wait", "lock"}
  /\ \A t \in Tasks : lock = t <=> at[t] \in {"locked", "unlinking", "cutting", "unlock"}

\* The task t will look at the request in current again.
UsesCurrent(t) ==
  \/ pc[t] \in {"testio", "sleepio"}
  \/ at[t] \in {"locked", "unlinking", "cutting"}
  \/ at[t] = "tell" /\ current[t] # None

\* A task waits for, sends or aborts a read of its own that it has not collected.
OwnReads ==
  /\ \A r \in Requests : ~quick[r]
  /\ \A t \in Tasks :
       /\ at[t] # "out" <=> pc[t] = "device"
       /\ UsesCurrent(t) => current[t] \in inUse /\ Owner[current[t]] = t

\* Somebody has pasted, and the console task will look.
PasteTold == "paste" \in signals \/ \E t \in Tasks : at[t] = "injected"

\* The console task is at the loop over held reads that a paste made it enter, or before it.
PasteHandled == "paste" \in woke /\ (cpc \in {"lock", "paste"} \/ (Answering /\ after = "paste"))

\* Reads are held beside input only while the console task is about to answer them, beside
\* something pasted only while it has yet to look at that; and a read that has just been
\* taken from the port is held only if nothing is there, or what is was pasted since.
Fed ==
  /\ reads # <<>> /\ chars # 0 => Answering
  /\ reads # <<>> /\ pasted # <<>> => PasteTold \/ PasteHandled
  /\ command # None /\ pasted # <<>> => PasteTold \/ (reads = <<>> /\ chars # 0)

\* A reply that is linked but not told of is on its port.
Delivered ==
  /\ \A t \in Tasks : \A r \in ToSet(replyPort[t]) : Owner[r] = t
  /\ cpc = "tell" /\ replying \in inUse /\ type[replying] = "reply"
       => replying \in ToSet(replyPort[Owner[replying]])
  /\ ReplyReachesOwner

IInv == TypeOK /\ Registers /\ Locked /\ OwnReads /\ Fed /\ Delivered

\* Whoever aborts reads owns all of them.
Alone == \A t \in Aborters : Requests \subseteq OwnedBy(t)

\* What the console task has not answered yet, in the order in which it will.
Sent == reads \o (IF command = None THEN <<>> ELSE <<command>>) \o commandPort

Aborting(t) == at[t] \in {"unlinking", "cutting"}

\* The reads that are not answered are marked as sent, a request is on a reply port only when
\* it is marked as replied, and once; the console task replies what it has marked.
Marked ==
  /\ ToSet(order) = {r \in inUse : type[r] = "message"}
  /\ \A r \in inUse : type[r] # "none"
  /\ \A t \in Tasks :
       /\ Aborting(t) => type[current[t]] = "message"
       /\ IsInjective(replyPort[t])
       /\ \A r \in ToSet(replyPort[t]) : type[r] = "reply" /\ r \in inUse
  /\ replying # None => type[replying] = "reply" /\ replying \in inUse
  /\ cpc = "link" => replying \notin ToSet(replyPort[Owner[replying]])

\* The console task will answer the reads in the order they were sent in, but for the one
\* that is being aborted.
InLine ==
  /\ ~cut
  /\ \A t \in Tasks : at[t] \in {"locked", "unlinking", "cutting"} => t \in Aborters
  /\ IsInjective(order)
  /\ (\A t \in Tasks : ~Aborting(t)) => Sent = order
  /\ \A t \in Tasks : Aborting(t) => Sent = RemoveFirst(order, current[t])

Ordered == Marked /\ InLine
-----------------------------------------------------------------------------
(* The console task. *)

\* What the provers need of the constants.
LEMMA ConstantTypes ==
  /\ Length \in [Requests -> Nat \ {0}] /\ Buffer \in Nat \ {0} /\ Paste \in Nat \ {0}
  /\ Owner \in [Requests -> Tasks] /\ None \notin Requests
  /\ None \notin Tasks /\ "console" \notin Tasks /\ None # "console"
BY ConsoleConstantsOK, IOConstantsOK

\* pasteData() copies something unless the buffer is full, and leaves something in it.
LEMMA PasteFacts ==
  ASSUME IInv, pasted # <<>>
  PROVE  /\ Copied \in Nat /\ (chars = 0 => Copied > 0)
         /\ PasteData => chars' \in 0 .. Buffer /\ chars' # 0 /\ pasted' \in Seq(1 .. Paste)
<1> DEFINE h == Head(pasted)
           c == Copied
<1>1. /\ h \in 1 .. Paste /\ Tail(pasted) \in Seq(1 .. Paste)
      /\ chars \in 0 .. Buffer /\ Buffer \in Nat \ {0} /\ Paste \in Nat \ {0}
  BY ConstantTypes, TailAny DEF IInv, TypeOK
<1>2. c = IF h <= Buffer - chars THEN h ELSE Buffer - chars
  <2>1. h \in Int /\ Buffer - chars \in Int
    BY <1>1
  <2> HIDE DEF h
  <2> QED  BY <2>1, MinOfTwo DEF Copied, h
<1>3. c \in Nat /\ c <= h /\ (chars = 0 => c > 0) /\ chars + c \in 0 .. Buffer /\ chars + c # 0
  <2> HIDE DEF h, c
  <2> QED  BY <1>1, <1>2
<1>4. ASSUME PasteData PROVE chars' \in 0 .. Buffer /\ chars' # 0 /\ pasted' \in Seq(1 .. Paste)
  <2>1. chars' = chars + c /\ pasted' = IF c = h THEN Tail(pasted) ELSE <<h - c>> \o Tail(pasted)
    BY <1>4 DEF PasteData
  <2> HIDE DEF h, c
  <2>2. CASE c = h
    BY <2>1, <2>2, <1>1, <1>3
  <2>3. CASE c # h
    <3>1. h - c \in 1 .. Paste
      BY <2>3, <1>1, <1>3
    <3>2. <<h - c>> \in Seq(1 .. Paste)
      BY <3>1, OneList
    <3>3. <<h - c>> \o Tail(pasted) \in Seq(1 .. Paste)
      BY <3>2, <1>1, ConcatList
    <3> QED  BY <3>3, <2>1, <2>3, <1>3
  <2> QED  BY <2>2, <2>3
<1> QED  BY <1>3, <1>4

\* answer_read_request() takes no more than there is.
LEMMA AnswerFacts ==
  ASSUME IInv, NEW r \in Requests, NEW p, AnswerRead(r, p)
  PROVE  /\ chars' \in 0 .. Buffer /\ (chars' # 0 => chars # 0)
         /\ type' \in [Requests -> {"none", "message", "reply"}]
         /\ \A x \in Requests : type'[x] = IF x = r THEN "reply" ELSE type[x]
         /\ order' \in Seq(Requests)
         /\ replying' = r /\ r # None /\ back' = p /\ cpc' = "link"
<1>1. chars \in 0 .. Buffer /\ Length[r] \in Nat \ {0} /\ Buffer \in Nat
  BY ConstantTypes DEF IInv, TypeOK
<1>2. Min({chars, Length[r]}) = IF chars <= Length[r] THEN chars ELSE Length[r]
  <2>1. chars \in Int /\ Length[r] \in Int
    BY <1>1
  <2> QED  BY <2>1, MinOfTwo
<1>3. chars' = chars - Min({chars, Length[r]})
  BY DEF AnswerRead
<1>4. chars' \in 0 .. Buffer /\ (chars' # 0 => chars # 0)
  BY <1>1, <1>2, <1>3
<1>5. order' \in Seq(Requests)
  BY RemoveAny DEF AnswerRead, IInv, TypeOK
<1>6. type' = [type EXCEPT ![r] = "reply"] /\ type \in [Requests -> {"none", "message", "reply"}]
  BY DEF AnswerRead, IInv, TypeOK, IOTypeOK
<1> QED  BY <1>4, <1>5, <1>6, ConstantTypes DEF AnswerRead, Goto

\* What does not change of the requests while the console task works on its own.
LEMMA SameRequests ==
  ASSUME IInv, UNCHANGED <<ioVars, at>>
  PROVE  IOTypeOK' /\ OwnReads'
BY DEF IInv, TypeOK, IOTypeOK, OwnReads, UsesCurrent, ioVars

\* Where nobody touches ports, replies and the read in hand, replies reach as before.
LEMMA SameReplies ==
  ASSUME IInv, UNCHANGED <<ioVars, replying>>, cpc' # "tell"
  PROVE  Delivered'
BY DEF IInv, Delivered, ReplyReachesOwner, ioVars

\* The steps of the console task keep the invariant: Wait() returns,
LEMMA WakesKeeps ==
  ASSUME IInv, ConsoleWakes
  PROVE  IInv'
<1>1. /\ cpc = "wait" /\ cpc' = "lock" /\ woke' = signals /\ signals' = {}
      /\ UNCHANGED <<ioVars, ioPart, inputPart, command, replying, after, back, lock, at, order>>
  BY DEF ConsoleWakes, Goto
<1>2. TypeOK'
  BY <1>1, SameRequests DEF IInv, TypeOK, ioPart, inputPart
<1>3. Registers' /\ Locked' /\ Fed'
  BY <1>1 DEF IInv, Registers, Locked, Fed, Answering, PasteTold, PasteHandled, ioPart, inputPart
<1> QED  BY <1>1, <1>2, <1>3, SameRequests, SameReplies DEF IInv

\* it locks the unit,
LEMMA LocksKeeps ==
  ASSUME IInv, ConsoleLocks
  PROVE  IInv'
<1>1. /\ cpc = "lock" /\ cpc' = "paste" /\ lock = None /\ lock' = "console"
      /\ UNCHANGED <<ioVars, ioPart, inputPart, woke, command, replying, after, back, signals, at, order>>
  BY DEF ConsoleLocks, Goto
<1>2. TypeOK'
  BY <1>1, SameRequests DEF IInv, TypeOK, ioPart, inputPart
<1>3. Registers' /\ Fed'
  BY <1>1 DEF IInv, Registers, Fed, Answering, PasteTold, PasteHandled, ioPart, inputPart
<1>4. Locked'
  BY <1>1, ConstantTypes DEF IInv, Locked
<1> QED  BY <1>1, <1>2, <1>3, <1>4, SameRequests, SameReplies DEF IInv

\* looks at the reads held when something was pasted,
LEMMA PastesKeeps ==
  ASSUME IInv, ConsolePastes
  PROVE  IInv'
<1>1. /\ cpc = "paste"
      /\ UNCHANGED <<ioVars, ioPart, event, woke, command, replying, back, signals, lock, at, order>>
  BY DEF ConsolePastes
<1>2. CASE /\ "paste" \in woke /\ reads # <<>> /\ pasted # <<>>
           /\ PasteData /\ cpc' = "answer" /\ after' = IF Copied > 0 THEN "paste" ELSE "input"
  <2>1. chars = 0
    BY <1>1, <1>2 DEF IInv, Fed, Answering
  <2>2. after' = "paste" /\ chars' \in 0 .. Buffer /\ pasted' \in Seq(1 .. Paste)
    BY <1>2, <2>1, PasteFacts
  <2>3. TypeOK'
    BY <1>1, <1>2, <2>2, SameRequests DEF IInv, TypeOK, ioPart
  <2>4. Registers' /\ Locked' /\ Fed'
    BY <1>1, <1>2, <2>2 DEF IInv, Registers, Locked, Fed, Answering, PasteTold, PasteHandled, ioPart
  <2> QED  BY <1>1, <1>2, <2>3, <2>4, SameRequests, SameReplies DEF IInv
<1>3. CASE /\ ~("paste" \in woke /\ reads # <<>> /\ pasted # <<>>)
           /\ cpc' = "input" /\ UNCHANGED <<chars, pasted, after>>
  <2>1. TypeOK'
    BY <1>1, <1>3, SameRequests DEF IInv, TypeOK, ioPart
  <2>2. Registers' /\ Locked' /\ Fed'
    BY <1>1, <1>3 DEF IInv, Registers, Locked, Fed, Answering, PasteTold, PasteHandled, ioPart
  <2> QED  BY <1>1, <1>3, <2>1, <2>2, SameRequests, SameReplies DEF IInv
<1> QED  BY <1>2, <1>3 DEF ConsolePastes, Goto

\* takes the message of the input handler,
LEMMA InputKeeps ==
  ASSUME IInv, ConsoleInput
  PROVE  IInv'
<1>1. /\ cpc = "input"
      /\ UNCHANGED <<ioVars, ioPart, woke, command, replying, back, lock, at, order>>
  BY DEF ConsoleInput
<1>2. CASE /\ chars' = Min({Buffer, chars + 1}) /\ event' = "taken"
           /\ cpc' = "answer" /\ after' = "done" /\ UNCHANGED <<pasted, signals>>
  <2>1. chars' \in 0 .. Buffer
    <3>1. chars \in 0 .. Buffer /\ Buffer \in Nat
      BY ConstantTypes DEF IInv, TypeOK
    <3>2. Min({Buffer, chars + 1}) = IF Buffer <= chars + 1 THEN Buffer ELSE chars + 1
      BY <3>1, MinOfTwo
    <3> QED  BY <3>1, <3>2, <1>2
  <2>2. TypeOK'
    BY <1>1, <1>2, <2>1, SameRequests DEF IInv, TypeOK, ioPart
  <2>3. Registers' /\ Locked' /\ Fed'
    BY <1>1, <1>2 DEF IInv, Registers, Locked, Fed, Answering, PasteTold, PasteHandled, ioPart
  <2> QED  BY <1>1, <1>2, <2>2, <2>3, SameRequests, SameReplies DEF IInv
<1>3. CASE /\ pasted' = Append(pasted, Paste) /\ event' = "taken" /\ signals' = signals \cup {"paste"}
           /\ cpc' = "answer" /\ after' = "done" /\ UNCHANGED chars
  <2>1. pasted' \in Seq(1 .. Paste)
    <3>1. pasted \in Seq(1 .. Paste) /\ Paste \in 1 .. Paste
      BY ConstantTypes DEF IInv, TypeOK
    <3> QED  BY <3>1, <1>3, AppendList
  <2>2. TypeOK'
    BY <1>1, <1>3, <2>1, SameRequests DEF IInv, TypeOK, ioPart
  <2>3. Registers' /\ Locked' /\ Fed'
    BY <1>1, <1>3 DEF IInv, Registers, Locked, Fed, Answering, PasteTold, PasteHandled, ioPart
  <2> QED  BY <1>1, <1>3, <2>2, <2>3, SameRequests, SameReplies DEF IInv
<1>4. CASE cpc' = "command" /\ UNCHANGED <<inputPart, after, signals>>
  <2>1. TypeOK'
    BY <1>1, <1>4, SameRequests DEF IInv, TypeOK, ioPart, inputPart
  <2>2. Registers' /\ Locked' /\ Fed'
    BY <1>1, <1>4 DEF IInv, Registers, Locked, Fed, Answering, PasteTold, PasteHandled, ioPart, inputPart
  <2> QED  BY <1>1, <1>4, <2>1, <2>2, SameRequests, SameReplies DEF IInv
<1> QED  BY <1>2, <1>3, <1>4 DEF ConsoleInput, Goto, Injected

\* replies to it,
LEMMA EventDoneKeeps ==
  ASSUME IInv, ConsoleEventDone
  PROVE  IInv'
<1>1. /\ cpc = "done" /\ cpc' = "input" /\ event' = "none"
      /\ UNCHANGED <<ioVars, ioPart, chars, pasted, woke, command, replying, after, back, signals,
                     lock, at, order>>
  BY DEF ConsoleEventDone, Goto
<1>2. TypeOK'
  BY <1>1, SameRequests DEF IInv, TypeOK, ioPart
<1>3. Registers' /\ Locked' /\ Fed'
  BY <1>1 DEF IInv, Registers, Locked, Fed, Answering, PasteTold, PasteHandled, ioPart
<1> QED  BY <1>1, <1>2, <1>3, SameRequests, SameReplies DEF IInv

\* takes a read from its port,
LEMMA CommandKeeps ==
  ASSUME IInv, ConsoleCommand
  PROVE  IInv'
<1>1. /\ cpc = "command" /\ command = None /\ commandPort \in Seq(Requests)
      /\ UNCHANGED <<ioVars, reads, event, woke, replying, back, signals, at, order>>
  BY DEF ConsoleCommand, IInv, TypeOK, Registers, Answering
<1>2. CASE /\ commandPort # <<>> /\ command' = Head(commandPort) /\ commandPort' = Tail(commandPort)
           /\ cut' = (cut /\ Len(commandPort) > 1) /\ UNCHANGED lock
  <2>1. /\ command' \in Requests /\ command' # None /\ commandPort' \in Seq(Requests)
        /\ cut' \in BOOLEAN
    BY <1>1, <1>2, TailAny, ConstantTypes
  <2>2. CASE pasted # <<>> /\ PasteData /\ cpc' = "answer" /\ after' = "read"
    <3>1. chars' \in 0 .. Buffer /\ chars' # 0 /\ pasted' \in Seq(1 .. Paste)
      BY <2>2, PasteFacts
    <3>2. TypeOK'
      BY <1>1, <1>2, <2>1, <2>2, <3>1, SameRequests DEF IInv, TypeOK
    <3>3. Registers' /\ Locked'
      BY <1>1, <1>2, <2>1, <2>2 DEF IInv, Registers, Locked, Answering
    <3>4. Fed'
      BY <1>1, <1>2, <2>1, <2>2, <3>1 DEF IInv, Fed, Answering, PasteTold, PasteHandled
    <3> QED  BY <1>1, <2>2, <3>2, <3>3, <3>4, SameRequests, SameReplies DEF IInv
  <2>3. CASE pasted = <<>> /\ cpc' = "read" /\ UNCHANGED <<chars, pasted, after>>
    <3>1. TypeOK'
      BY <1>1, <1>2, <2>1, <2>3, SameRequests DEF IInv, TypeOK
    <3>2. Registers' /\ Locked'
      BY <1>1, <1>2, <2>1, <2>3 DEF IInv, Registers, Locked, Answering
    <3>3. Fed'
      BY <1>1, <1>2, <2>3 DEF IInv, Fed, Answering
    <3> QED  BY <1>1, <2>3, <3>1, <3>2, <3>3, SameRequests, SameReplies DEF IInv
  <2> QED  BY <1>1, <1>2, <2>2, <2>3 DEF ConsoleCommand, Goto, PasteForCommand
<1>3. CASE lock' = None /\ cpc' = "wait" /\ UNCHANGED <<commandPort, cut, chars, pasted, command, after>>
  <2>1. TypeOK'
    BY <1>1, <1>3, SameRequests DEF IInv, TypeOK
  <2>2. Registers' /\ Fed'
    BY <1>1, <1>3 DEF IInv, Registers, Fed, Answering, PasteTold, PasteHandled
  <2>3. Locked'
    BY <1>1, <1>3, ConstantTypes DEF IInv, Locked
  <2> QED  BY <1>1, <1>3, <2>1, <2>2, <2>3, SameRequests, SameReplies DEF IInv
<1> QED  BY <1>2, <1>3 DEF ConsoleCommand, Goto

\* What an answer changes of the requests.
LEMMA AnswerDelivers ==
  ASSUME IInv, NEW r \in Requests, NEW p, AnswerRead(r, p), replying = None,
         UNCHANGED <<quick, replyPort, signal, pc, current, inUse, strays, at>>
  PROVE  IOTypeOK' /\ OwnReads' /\ Delivered'
<1>1. /\ type' \in [Requests -> {"none", "message", "reply"}]
      /\ \A x \in Requests : type'[x] = IF x = r THEN "reply" ELSE type[x]
      /\ replying' = r /\ cpc' = "link"
  BY AnswerFacts
<1>2. IOTypeOK' /\ OwnReads'
  BY <1>1 DEF IInv, TypeOK, IOTypeOK, OwnReads, UsesCurrent
<1>3. ReplyReachesOwner'
  <2> SUFFICES ASSUME NEW t \in Tasks, NEW x \in inUse \cap OwnedBy(t), type'[x] = "reply", x # r
               PROVE  /\ x \in ToSet(replyPort[t])
                      /\ pc[t] = "sleepio" /\ current[t] = x => t \in signal
    BY <1>1 DEF ReplyReachesOwner
  <2>1. x \in Requests /\ x # None /\ type[x] = "reply"
    BY <1>1, ConstantTypes DEF OwnedBy
  <2> QED  BY <2>1 DEF IInv, Delivered, ReplyReachesOwner
<1> QED  BY <1>1, <1>2, <1>3 DEF IInv, Delivered

\* and queues it or finds input for it,
LEMMA ReadKeeps ==
  ASSUME IInv, ConsoleRead
  PROVE  IInv'
<1>1. /\ cpc = "read" /\ command \in Requests /\ replying = None /\ command' = None
      /\ UNCHANGED <<quick, replyPort, signal, pc, current, inUse, strays, commandPort, cut,
                     pasted, event, woke, after, signals, lock, at>>
  BY DEF ConsoleRead, IInv, TypeOK, Registers
<1>2. CASE chars # 0 /\ AnswerRead(command, "command") /\ UNCHANGED reads
  <2>1. /\ chars' \in 0 .. Buffer /\ (chars' # 0 => chars # 0) /\ order' \in Seq(Requests)
        /\ replying' = command /\ back' = "command" /\ cpc' = "link"
    BY <1>1, <1>2, AnswerFacts
  <2>2. IOTypeOK' /\ OwnReads' /\ Delivered'
    BY <1>1, <1>2, AnswerDelivers
  <2>3. TypeOK'
    BY <1>1, <1>2, <2>1, <2>2 DEF IInv, TypeOK
  <2>4. Registers' /\ Locked'
    BY <1>1, <2>1, ConstantTypes DEF IInv, Registers, Locked, Answering
  <2>5. Fed'
    BY <1>1, <1>2, <2>1 DEF IInv, Fed, Answering, PasteTold, PasteHandled
  <2> QED  BY <2>2, <2>3, <2>4, <2>5 DEF IInv
<1>3. CASE chars = 0 /\ reads' = Append(reads, command) /\ cpc' = "command"
           /\ UNCHANGED <<chars, type, replying, back, order>>
  <2>1. reads' \in Seq(Requests)
    BY <1>1, <1>3, AppendList DEF IInv, TypeOK
  <2>2. TypeOK'
    BY <1>1, <1>3, <2>1, SameRequests DEF IInv, TypeOK, IOTypeOK
  <2>3. Registers' /\ Locked'
    BY <1>1, <1>3 DEF IInv, Registers, Locked, Answering
  <2>4. Fed'
    BY <1>1, <1>3, ConstantTypes DEF IInv, Fed, Answering, PasteTold, PasteHandled
  <2>5. OwnReads' /\ Delivered'
    BY <1>1, <1>3, SameRequests, SameReplies DEF ioVars
  <2> QED  BY <2>2, <2>3, <2>4, <2>5 DEF IInv
<1> QED  BY <1>2, <1>3 DEF ConsoleRead, Goto, Held

\* takes the input and marks the reply,
LEMMA AnswersKeeps ==
  ASSUME IInv, ConsoleAnswers
  PROVE  IInv'
<1>1. /\ cpc = "answer" /\ replying = None
      /\ UNCHANGED <<quick, replyPort, signal, pc, current, inUse, strays, commandPort, cut,
                     pasted, event, woke, command, after, signals, lock, at>>
  BY DEF ConsoleAnswers, IInv, Registers
<1>2. CASE reads # <<>> /\ chars # 0 /\ AnswerRead(Head(reads), "answer") /\ reads' = Tail(reads)
  <2>1. Head(reads) \in Requests /\ reads' \in Seq(Requests)
    BY <1>2, TailAny DEF IInv, TypeOK
  <2>2. /\ chars' \in 0 .. Buffer /\ (chars' # 0 => chars # 0) /\ order' \in Seq(Requests)
        /\ replying' \in Requests /\ back' = "answer" /\ cpc' = "link"
    BY <1>2, <2>1, AnswerFacts
  <2>3. IOTypeOK' /\ OwnReads' /\ Delivered'
    BY <1>1, <1>2, <2>1, AnswerDelivers
  <2>4. TypeOK'
    BY <1>1, <1>2, <2>1, <2>2, <2>3 DEF IInv, TypeOK
  <2>5. Registers' /\ Locked'
    BY <1>1, <2>2, ConstantTypes DEF IInv, Registers, Locked, Answering
  <2>6. Fed'
    BY <1>1, <1>2, <2>2 DEF IInv, Fed, Answering, PasteTold, PasteHandled
  <2> QED  BY <2>3, <2>4, <2>5, <2>6 DEF IInv
<1>3. CASE /\ ~(reads # <<>> /\ chars # 0) /\ cpc' = after
           /\ UNCHANGED <<chars, type, replying, back, reads, order>>
  <2>1. after \in {"paste", "input", "done", "read"}
    BY DEF IInv, Registers
  <2>2. IOTypeOK' /\ OwnReads' /\ Delivered'
    BY <1>1, <1>3, <2>1, SameRequests, SameReplies DEF ioVars
  <2>3. TypeOK'
    BY <1>1, <1>3, <2>1, <2>2 DEF IInv, TypeOK
  <2>4. Registers' /\ Locked'
    BY <1>1, <1>3, <2>1 DEF IInv, Registers, Locked, Answering
  <2>5. Fed'
    BY <1>1, <1>3, <2>1 DEF IInv, Fed, Answering, PasteTold, PasteHandled
  <2> QED  BY <2>2, <2>3, <2>4, <2>5 DEF IInv
<1> QED  BY <1>2, <1>3 DEF ConsoleAnswers, Goto

\* links it to the port,
LEMMA LinksKeeps ==
  ASSUME IInv, ConsoleLinks
  PROVE  IInv'
<1> DEFINE o == Owner[replying]
<1>1. /\ cpc = "link" /\ cpc' = "tell" /\ replying \in Requests /\ o \in Tasks
      /\ replyPort' = [replyPort EXCEPT ![o] = Append(@, replying)]
      /\ UNCHANGED <<type, quick, signal, pc, current, inUse, strays, ioPart, inputPart, woke,
                     command, replying, after, back, signals, lock, at, order>>
  BY ConstantTypes DEF ConsoleLinks, Goto, IInv, TypeOK, Registers
<1>2. /\ replyPort \in [Tasks -> Seq(Requests)]
      /\ \A t \in Tasks : \A r \in ToSet(replyPort[t]) : Owner[r] = t
  BY DEF IInv, TypeOK, IOTypeOK, Delivered
<1>3. /\ Append(replyPort[o], replying) \in Seq(Requests)
      /\ ToSet(Append(replyPort[o], replying)) = ToSet(replyPort[o]) \cup {replying}
  BY <1>1, <1>2, AppendList
<1>4. /\ replyPort' \in [Tasks -> Seq(Requests)]
      /\ \A t \in Tasks \ {o} : replyPort'[t] = replyPort[t]
      /\ ToSet(replyPort'[o]) = ToSet(replyPort[o]) \cup {replying}
  BY <1>1, <1>2, <1>3
<1>5. IOTypeOK' /\ OwnReads'
  BY <1>1, <1>4 DEF IInv, TypeOK, IOTypeOK, OwnReads, UsesCurrent
<1>6. TypeOK'
  BY <1>1, <1>5 DEF IInv, TypeOK, ioPart, inputPart
<1>7. Registers' /\ Locked'
  BY <1>1 DEF IInv, Registers, Locked, Answering, ioPart, inputPart
<1>8. Fed'
  BY <1>1 DEF IInv, Fed, Answering, PasteTold, PasteHandled, ioPart, inputPart
<1>9. Delivered'
  BY <1>1, <1>2, <1>4 DEF IInv, Delivered, ReplyReachesOwner, OwnedBy
<1> QED  BY <1>5, <1>6, <1>7, <1>8, <1>9 DEF IInv

\* and signals the task.
LEMMA TellsKeeps ==
  ASSUME IInv, ConsoleTells
  PROVE  IInv'
<1>1. /\ cpc = "tell" /\ cpc' = back /\ back \in {"command", "answer"}
      /\ replying \in Requests /\ Owner[replying] \in Tasks /\ replying' = None
      /\ signal' = signal \cup {Owner[replying]}
      /\ UNCHANGED <<type, quick, replyPort, pc, current, inUse, strays, ioPart, inputPart, woke,
                     command, after, back, signals, lock, at, order>>
  BY ConstantTypes DEF ConsoleTells, Goto, Told, IInv, TypeOK, Registers
<1>2. IOTypeOK' /\ OwnReads'
  BY <1>1 DEF IInv, TypeOK, IOTypeOK, OwnReads, UsesCurrent
<1>3. TypeOK'
  BY <1>1, <1>2 DEF IInv, TypeOK, ioPart, inputPart
<1>4. Registers' /\ Locked'
  BY <1>1 DEF IInv, Registers, Locked, Answering, ioPart, inputPart
<1>5. Fed'
  BY <1>1 DEF IInv, Fed, Answering, PasteTold, PasteHandled, ioPart, inputPart
<1>6. Delivered'
  BY <1>1 DEF IInv, Delivered, ReplyReachesOwner, OwnedBy
<1> QED  BY <1>2, <1>3, <1>4, <1>5, <1>6 DEF IInv

\* So do the input handler that sends,
LEMMA SendsKeeps ==
  ASSUME IInv, HandlerSends
  PROVE  IInv'
<1>1. /\ event' \in {"key", "paste"} /\ signals' = signals \cup {"input"}
      /\ UNCHANGED <<ioVars, ioPart, chars, pasted, taskPart, lock, at, order>>
  BY DEF HandlerSends
<1>2. TypeOK'
  BY <1>1, SameRequests DEF IInv, TypeOK, ioPart, taskPart
<1>3. Registers' /\ Locked' /\ Fed'
  BY <1>1 DEF IInv, Registers, Locked, Fed, Answering, PasteTold, PasteHandled, ioPart, taskPart
<1>4. Delivered'
  BY <1>1 DEF IInv, Delivered, ReplyReachesOwner, ioVars, taskPart
<1> QED  BY <1>1, <1>2, <1>3, <1>4, SameRequests DEF IInv
-----------------------------------------------------------------------------
(* The tasks. *)

\* A step of a task that leaves the console task, its lists and its input alone.
LEMMA SameConsole ==
  ASSUME IInv, UNCHANGED <<ioPart, inputPart, taskPart, signals>>,
         \A t \in Tasks : at[t] = "injected" => at'[t] = "injected"
  PROVE  Registers' /\ Fed'
BY DEF IInv, Registers, Fed, Answering, PasteTold, PasteHandled, ioPart, inputPart, taskPart

\* What a task does inside the device moves only that task.
LEMMA OneMoves ==
  ASSUME IInv, NEW t \in Tasks, NEW p,
         p \in {"out", "tell", "locked", "unlinking", "cutting", "unlock", "injected"},
         at' = [at EXCEPT ![t] = p]
  PROVE  /\ at' \in [Tasks -> {"out", "tell", "locked", "unlinking", "cutting", "unlock", "injected"}]
         /\ \A u \in Tasks : at'[u] = IF u = t THEN p ELSE at[u]
BY DEF IInv, TypeOK

\* a task that links a read to the port,
LEMMA SendReadKeeps ==
  ASSUME IInv, NEW t \in Tasks, NEW r \in Requests, NEW q \in BOOLEAN, SendRead(t, r, q)
  PROVE  IInv'
<1>1. /\ pc[t] = "run" /\ r \notin inUse /\ Owner[r] = t /\ r # None
      /\ type' = [type EXCEPT ![r] = "message"] /\ quick' = [quick EXCEPT ![r] = FALSE]
      /\ inUse' = inUse \cup {r}
      /\ current' = [current EXCEPT ![t] = IF q THEN r ELSE None]
      /\ order' = Append(order, r)
      /\ pc' = [pc EXCEPT ![t] = "device"] /\ at' = [at EXCEPT ![t] = "tell"]
      /\ UNCHANGED <<replyPort, signal, strays, reads, inputPart, taskPart, signals, lock>>
  BY ConstantTypes DEF SendRead, Enters, OwnedBy
<1>2. /\ \A u \in Tasks : at'[u] = IF u = t THEN "tell" ELSE at[u]
      /\ \A u \in Tasks : pc'[u] = IF u = t THEN "device" ELSE pc[u]
      /\ \A u \in Tasks : current'[u] = IF u = t THEN (IF q THEN r ELSE None) ELSE current[u]
      /\ \A x \in Requests : type'[x] = IF x = r THEN "message" ELSE type[x]
      /\ at[t] = "out"
  BY <1>1 DEF IInv, TypeOK, IOTypeOK, OwnReads, UsesCurrent
<1>3. commandPort' \in Seq(Requests) /\ cut' \in BOOLEAN /\ order' \in Seq(Requests)
  <2>1. commandPort \in Seq(Requests) /\ order \in Seq(Requests) /\ cut \in BOOLEAN
    BY DEF IInv, TypeOK
  <2>2. Append(commandPort, r) \in Seq(Requests) /\ Append(order, r) \in Seq(Requests)
    BY <2>1, AppendList
  <2>3. \/ cut' = TRUE /\ commandPort' = commandPort
        \/ cut' = cut /\ commandPort' = Append(commandPort, r)
    BY DEF SendRead
  <2> QED  BY <1>1, <2>1, <2>2, <2>3
<1>4. IOTypeOK'
  BY <1>1 DEF IInv, TypeOK, IOTypeOK
<1>5. TypeOK'
  BY <1>1, <1>3, <1>4 DEF IInv, TypeOK, inputPart, taskPart
<1>6. Registers' /\ Fed'
  BY <1>1, <1>2 DEF IInv, Registers, Fed, Answering, PasteTold, PasteHandled, inputPart, taskPart
<1>7. Locked'
  BY <1>1, <1>2 DEF IInv, Locked, taskPart
<1>8. OwnReads'
  BY <1>1, <1>2 DEF IInv, TypeOK, IOTypeOK, OwnReads, UsesCurrent
<1>9. Delivered'
  BY <1>1, <1>2 DEF IInv, Delivered, ReplyReachesOwner, OwnedBy, taskPart
<1> QED  BY <1>5, <1>6, <1>7, <1>8, <1>9 DEF IInv

\* or signals the console task,
LEMMA TellKeeps ==
  ASSUME IInv, NEW t \in Tasks, TellConsole(t)
  PROVE  IInv'
<1> DEFINE p == IF current[t] # None THEN "testio" ELSE "run"
<1>1. /\ at[t] = "tell" /\ signals' = signals \cup {"command"}
      /\ pc' = [pc EXCEPT ![t] = p] /\ at' = [at EXCEPT ![t] = "out"]
      /\ UNCHANGED <<type, quick, replyPort, signal, current, inUse, strays, ioPart, inputPart,
                     taskPart, lock, order>>
  BY DEF TellConsole, Leaves
<1>2. /\ \A u \in Tasks : at'[u] = IF u = t THEN "out" ELSE at[u]
      /\ \A u \in Tasks : pc'[u] = IF u = t THEN p ELSE pc[u]
  BY <1>1 DEF IInv, TypeOK, IOTypeOK
<1>3. IOTypeOK'
  BY <1>1 DEF IInv, TypeOK, IOTypeOK
<1>4. TypeOK'
  BY <1>1, <1>3 DEF IInv, TypeOK, ioPart, inputPart, taskPart
<1>5. Registers' /\ Fed'
  BY <1>1, <1>2 DEF IInv, Registers, Fed, Answering, PasteTold, PasteHandled, ioPart, inputPart, taskPart
<1>6. Locked'
  BY <1>1, <1>2 DEF IInv, Locked, taskPart
<1>7. OwnReads'
  BY <1>1, <1>2 DEF IInv, OwnReads, UsesCurrent
<1>8. Delivered'
  BY <1>1, <1>2 DEF IInv, Delivered, ReplyReachesOwner, taskPart
<1> QED  BY <1>4, <1>5, <1>6, <1>7, <1>8 DEF IInv

\* one that pastes,
LEMMA InjectKeeps ==
  ASSUME IInv, NEW t \in Tasks, Inject(t)
  PROVE  IInv'
<1>1. /\ pc[t] = "run" /\ pasted' = Append(pasted, Paste)
      /\ pc' = [pc EXCEPT ![t] = "device"] /\ at' = [at EXCEPT ![t] = "injected"]
      /\ UNCHANGED <<type, quick, replyPort, signal, current, inUse, strays, ioPart, chars, event,
                     taskPart, signals, lock, order>>
  BY DEF Inject, Enters
<1>2. /\ \A u \in Tasks : at'[u] = IF u = t THEN "injected" ELSE at[u]
      /\ \A u \in Tasks : pc'[u] = IF u = t THEN "device" ELSE pc[u]
      /\ at[t] = "out"
  BY <1>1 DEF IInv, TypeOK, IOTypeOK, OwnReads, UsesCurrent
<1>3. pasted' \in Seq(1 .. Paste)
  <2>1. pasted \in Seq(1 .. Paste) /\ Paste \in 1 .. Paste
    BY ConstantTypes DEF IInv, TypeOK
  <2> QED  BY <2>1, <1>1, AppendList
<1>4. IOTypeOK'
  BY <1>1 DEF IInv, TypeOK, IOTypeOK
<1>5. TypeOK'
  BY <1>1, <1>3, <1>4 DEF IInv, TypeOK, ioPart, taskPart
<1>6. Registers' /\ Fed'
  BY <1>1, <1>2 DEF IInv, Registers, Fed, Answering, PasteTold, PasteHandled, ioPart, taskPart
<1>7. Locked'
  BY <1>1, <1>2 DEF IInv, Locked, taskPart
<1>8. OwnReads'
  BY <1>1, <1>2 DEF IInv, OwnReads, UsesCurrent
<1>9. Delivered'
  BY <1>1, <1>2 DEF IInv, Delivered, ReplyReachesOwner, taskPart
<1> QED  BY <1>5, <1>6, <1>7, <1>8, <1>9 DEF IInv

\* or signals for that,
LEMMA InjectSignalsKeeps ==
  ASSUME IInv, NEW t \in Tasks, InjectSignals(t)
  PROVE  IInv'
<1>1. /\ at[t] = "injected" /\ signals' = signals \cup {"paste"}
      /\ pc' = [pc EXCEPT ![t] = "run"] /\ at' = [at EXCEPT ![t] = "out"]
      /\ UNCHANGED <<type, quick, replyPort, signal, current, inUse, strays, ioPart, inputPart,
                     taskPart, lock, order>>
  BY DEF InjectSignals, Leaves, Injected
<1>2. /\ \A u \in Tasks : at'[u] = IF u = t THEN "out" ELSE at[u]
      /\ \A u \in Tasks : pc'[u] = IF u = t THEN "run" ELSE pc[u]
  BY <1>1 DEF IInv, TypeOK, IOTypeOK
<1>3. IOTypeOK'
  BY <1>1 DEF IInv, TypeOK, IOTypeOK
<1>4. TypeOK'
  BY <1>1, <1>3 DEF IInv, TypeOK, ioPart, inputPart, taskPart
<1>5. Registers' /\ Fed'
  BY <1>1, <1>2 DEF IInv, Registers, Fed, Answering, PasteTold, PasteHandled, ioPart, inputPart, taskPart
<1>6. Locked'
  BY <1>1, <1>2 DEF IInv, Locked, taskPart
<1>7. OwnReads'
  BY <1>1, <1>2 DEF IInv, OwnReads, UsesCurrent
<1>8. Delivered'
  BY <1>1, <1>2 DEF IInv, Delivered, ReplyReachesOwner, taskPart
<1> QED  BY <1>4, <1>5, <1>6, <1>7, <1>8 DEF IInv

\* AbortIO() that locks the unit,
LEMMA AbortLocksKeeps ==
  ASSUME IInv, NEW t \in Tasks, NEW r \in Requests, AbortLocks(t, r)
  PROVE  IInv'
<1>1. /\ pc[t] = "run" /\ r \in inUse /\ Owner[r] = t /\ lock = None /\ lock' = t
      /\ current' = [current EXCEPT ![t] = r]
      /\ pc' = [pc EXCEPT ![t] = "device"] /\ at' = [at EXCEPT ![t] = "locked"]
      /\ UNCHANGED <<type, quick, replyPort, signal, inUse, strays, ioPart, inputPart, taskPart,
                     signals, order>>
  BY DEF AbortLocks, Enters, OwnedBy
<1>2. /\ \A u \in Tasks : at'[u] = IF u = t THEN "locked" ELSE at[u]
      /\ \A u \in Tasks : pc'[u] = IF u = t THEN "device" ELSE pc[u]
      /\ \A u \in Tasks : current'[u] = IF u = t THEN r ELSE current[u]
      /\ at[t] = "out"
  BY <1>1 DEF IInv, TypeOK, IOTypeOK, OwnReads, UsesCurrent
<1>3. IOTypeOK'
  BY <1>1 DEF IInv, TypeOK, IOTypeOK
<1>4. TypeOK'
  BY <1>1, <1>3 DEF IInv, TypeOK, ioPart, inputPart, taskPart
<1>5. Registers' /\ Fed'
  BY <1>1, <1>2, SameConsole
<1>6. Locked'
  BY <1>1, <1>2, ConstantTypes DEF IInv, Locked, taskPart
<1>7. OwnReads'
  BY <1>1, <1>2 DEF IInv, OwnReads, UsesCurrent
<1>8. Delivered'
  BY <1>1, <1>2 DEF IInv, Delivered, ReplyReachesOwner, taskPart
<1> QED  BY <1>4, <1>5, <1>6, <1>7, <1>8 DEF IInv

\* removes the read,
LEMMA AbortUnlinksKeeps ==
  ASSUME IInv, NEW t \in Tasks, AbortUnlinks(t)
  PROVE  IInv'
<1>1. /\ at[t] = "locked"
      /\ UNCHANGED <<type, quick, replyPort, signal, pc, current, inUse, strays, cut, inputPart,
                     taskPart, signals, lock, order>>
  BY DEF AbortUnlinks, GoesTo, ioPart
<1>2. PICK p \in {"unlock", "unlinking", "cutting"} : at' = [at EXCEPT ![t] = p]
  BY DEF AbortUnlinks, GoesTo
<1>3. /\ at' \in [Tasks -> {"out", "tell", "locked", "unlinking", "cutting", "unlock", "injected"}]
      /\ \A u \in Tasks : at'[u] = IF u = t THEN p ELSE at[u]
  BY <1>2, OneMoves
<1>4. /\ reads' \in Seq(Requests) /\ commandPort' \in Seq(Requests)
      /\ reads' # <<>> => reads # <<>>
  <2>1. reads \in Seq(Requests) /\ commandPort \in Seq(Requests)
    BY DEF IInv, TypeOK
  <2>2. \/ UNCHANGED <<reads, commandPort>>
        \/ reads' = RemoveFirst(reads, current[t]) /\ commandPort' = RemoveFirst(commandPort, current[t])
    BY DEF AbortUnlinks, ioPart
  <2>3. /\ RemoveFirst(reads, current[t]) \in Seq(Requests)
        /\ RemoveFirst(commandPort, current[t]) \in Seq(Requests)
    BY <2>1, RemoveAny
  <2>4. reads = <<>> => RemoveFirst(reads, current[t]) = <<>>
    BY <2>1, RemoveAny
  <2> QED  BY <2>1, <2>2, <2>3, <2>4
<1>5. IOTypeOK'
  BY <1>1 DEF IInv, TypeOK, IOTypeOK
<1>6. TypeOK'
  BY <1>1, <1>3, <1>4, <1>5 DEF IInv, TypeOK, inputPart, taskPart
<1>7. Registers'
  BY <1>1 DEF IInv, Registers, Answering, taskPart
<1>8. Fed'
  BY <1>1, <1>3, <1>4 DEF IInv, Fed, Answering, PasteTold, PasteHandled, inputPart, taskPart
<1>9. Locked'
  BY <1>1, <1>3 DEF IInv, Locked, taskPart
<1>10. OwnReads'
  BY <1>1, <1>3 DEF IInv, OwnReads, UsesCurrent
<1>11. Delivered'
  BY <1>1 DEF IInv, Delivered, ReplyReachesOwner, taskPart
<1> QED  BY <1>6, <1>7, <1>8, <1>9, <1>10, <1>11 DEF IInv

\* replies it,
LEMMA AbortRepliesKeeps ==
  ASSUME IInv, NEW t \in Tasks, AbortReplies(t)
  PROVE  IInv'
<1> DEFINE r == current[t]
<1>1. /\ at[t] \in {"unlinking", "cutting"} /\ r \in inUse /\ Owner[r] = t /\ r \in Requests
      /\ type' = [type EXCEPT ![r] = "reply"] /\ PutReplies(<<r>>)
      /\ order' = RemoveFirst(order, r) /\ at' = [at EXCEPT ![t] = "unlock"]
      /\ UNCHANGED <<quick, pc, current, inUse, strays, ioPart, inputPart, taskPart, signals, lock>>
  BY DEF AbortReplies, GoesTo, IInv, TypeOK, IOTypeOK, OwnReads, UsesCurrent
<1> HIDE DEF r
<1>2. /\ at' \in [Tasks -> {"out", "tell", "locked", "unlinking", "cutting", "unlock", "injected"}]
      /\ \A u \in Tasks : at'[u] = IF u = t THEN "unlock" ELSE at[u]
  BY <1>1, OneMoves
<1>3. ASSUME NEW u \in Tasks
      PROVE  /\ replyPort'[u] \in Seq(Requests)
             /\ ToSet(replyPort'[u]) = ToSet(replyPort[u]) \cup {x \in {r} : Owner[x] = u}
  <2> DEFINE s == <<r>>
             w == replyPort[u]
             v == Part(s, u)
  <2>1. s \in Seq(Requests) /\ IsInjective(s) /\ ToSet(s) = {r}
    BY <1>1, OneList
  <2>2. replyPort'[u] = w \o v /\ w \in Seq(Requests)
    BY <1>1 DEF PutReplies, IInv, TypeOK, IOTypeOK
  <2> HIDE DEF s
  <2>3. v \in Seq(Requests) /\ ToSet(v) = {x \in ToSet(s) : Owner[x] = u}
    BY <2>1, PartList
  <2> HIDE DEF w, v
  <2>4. w \o v \in Seq(Requests) /\ ToSet(w \o v) = ToSet(w) \cup ToSet(v)
    BY <2>2, <2>3, ConcatList
  <2> QED  BY <2>1, <2>2, <2>3, <2>4 DEF w
<1>4. replyPort' \in [Tasks -> Seq(Requests)]
  BY <1>1, <1>3 DEF PutReplies
<1>5. signal' = signal \cup {t}
  <2>1. ToSet(<<r>>) = {r}
    BY OneList
  <2> QED  BY <2>1, <1>1 DEF PutReplies
<1>6. order' \in Seq(Requests)
  BY <1>1, RemoveAny DEF IInv, TypeOK
<1>7. /\ type' \in [Requests -> {"none", "message", "reply"}]
      /\ \A x \in Requests : type'[x] = IF x = r THEN "reply" ELSE type[x]
  BY <1>1 DEF IInv, TypeOK, IOTypeOK
<1>8. IOTypeOK'
  BY <1>1, <1>4, <1>5, <1>7 DEF IInv, TypeOK, IOTypeOK
<1>9. TypeOK'
  BY <1>1, <1>2, <1>6, <1>8 DEF IInv, TypeOK, ioPart, inputPart, taskPart
<1>10. Registers' /\ Fed'
  BY <1>1, <1>2, SameConsole
<1>11. Locked'
  BY <1>1, <1>2 DEF IInv, Locked, taskPart
<1>12. OwnReads'
  BY <1>1, <1>2 DEF IInv, OwnReads, UsesCurrent
<1>13. Delivered'
  <2>1. \A u \in Tasks : \A x \in ToSet(replyPort'[u]) : Owner[x] = u
    BY <1>3 DEF IInv, Delivered
  <2>2. ASSUME NEW u \in Tasks, NEW x \in inUse \cap OwnedBy(u), type'[x] = "reply", x # r
        PROVE  \/ replying = x
               \/ x \in ToSet(replyPort'[u]) /\ (pc[u] = "sleepio" /\ current[u] = x => u \in signal')
    <3>1. type[x] = "reply"
      BY <2>2, <1>7 DEF OwnedBy
    <3> QED  BY <3>1, <1>3, <1>5 DEF IInv, Delivered, ReplyReachesOwner
  <2>3. r \in ToSet(replyPort'[t]) /\ t \in signal'
    BY <1>1, <1>3, <1>5
  <2>4. ReplyReachesOwner'
    BY <2>2, <2>3, <1>1 DEF ReplyReachesOwner, OwnedBy, taskPart
  <2>5. ASSUME cpc = "tell", replying \in inUse, type'[replying] = "reply"
        PROVE  replying \in ToSet(replyPort'[Owner[replying]])
    <3>1. CASE replying = r
      BY <3>1, <2>3, <1>1
    <3>2. CASE replying # r
      <4>1. replying \in Requests /\ Owner[replying] \in Tasks
        BY <2>5, ConstantTypes DEF IInv, TypeOK, IOTypeOK
      <4>2. replying \in ToSet(replyPort[Owner[replying]])
        BY <4>1, <3>2, <2>5, <1>7 DEF IInv, Delivered
      <4> QED  BY <4>1, <4>2, <1>3
    <3> QED  BY <3>1, <3>2
  <2> QED  BY <2>1, <2>4, <2>5, <1>1 DEF Delivered, taskPart
<1> QED  BY <1>9, <1>10, <1>11, <1>12, <1>13 DEF IInv

\* and unlocks the unit,
LEMMA AbortUnlocksKeeps ==
  ASSUME IInv, NEW t \in Tasks, AbortUnlocks(t)
  PROVE  IInv'
<1>1. /\ at[t] = "unlock" /\ lock' = None
      /\ current' = [current EXCEPT ![t] = None]
      /\ pc' = [pc EXCEPT ![t] = "run"] /\ at' = [at EXCEPT ![t] = "out"]
      /\ UNCHANGED <<type, quick, replyPort, signal, inUse, strays, ioPart, inputPart, taskPart,
                     signals, order>>
  BY DEF AbortUnlocks, Leaves
<1>2. /\ \A u \in Tasks : at'[u] = IF u = t THEN "out" ELSE at[u]
      /\ \A u \in Tasks : pc'[u] = IF u = t THEN "run" ELSE pc[u]
      /\ \A u \in Tasks : current'[u] = IF u = t THEN None ELSE current[u]
  BY <1>1 DEF IInv, TypeOK, IOTypeOK
<1>3. IOTypeOK'
  BY <1>1 DEF IInv, TypeOK, IOTypeOK
<1>4. TypeOK'
  BY <1>1, <1>3 DEF IInv, TypeOK, ioPart, inputPart, taskPart
<1>5. Registers' /\ Fed'
  BY <1>1, <1>2, SameConsole
<1>6. Locked'
  BY <1>1, <1>2, ConstantTypes DEF IInv, Locked, taskPart
<1>7. OwnReads'
  BY <1>1, <1>2 DEF IInv, OwnReads, UsesCurrent
<1>8. Delivered'
  BY <1>1, <1>2 DEF IInv, Delivered, ReplyReachesOwner, taskPart
<1> QED  BY <1>4, <1>5, <1>6, <1>7, <1>8 DEF IInv

\* While a task is outside the device the console and its lists stay as they are.
LEMMA SameDevice ==
  ASSUME IInv, UNCHANGED devVars
  PROVE  Registers' /\ Locked' /\ Fed' /\ (IOTypeOK' => TypeOK')
<1>1. UNCHANGED <<ioPart, inputPart, taskPart, signals, lock, at, order>>
  BY DEF devVars
<1>2. Registers' /\ Fed'
  BY <1>1, SameConsole
<1>3. Locked'
  BY <1>1 DEF IInv, Locked, taskPart
<1>4. IOTypeOK' => TypeOK'
  BY <1>1 DEF IInv, TypeOK, ioPart, inputPart, taskPart
<1> QED  BY <1>2, <1>3, <1>4

\* The task t is done with its read r, which leaves its port, whose list becomes s.
Leaving(t, r, s) ==
  /\ s \in Seq(Requests) /\ Owner[r] = t /\ pc[t] \in {"run", "testio"}
  /\ \A x \in ToSet(s) : x \in ToSet(replyPort[t])
  /\ \A x \in ToSet(replyPort[t]) : x # r => x \in ToSet(s)
  /\ replyPort' = [replyPort EXCEPT ![t] = s] /\ inUse' = inUse \ {r}
  /\ pc' = [pc EXCEPT ![t] = "run"]
  /\ current' \in [Tasks -> Requests \cup {None}] /\ \A u \in Tasks \ {t} : current'[u] = current[u]
  /\ strays' \subseteq Requests
  /\ UNCHANGED <<type, quick, signal, devVars>>

\* and a task that takes a reply off its port.
LEMMA LeavingKeeps ==
  ASSUME IInv, NEW t \in Tasks, NEW r, NEW s, Leaving(t, r, s)
  PROVE  IInv'
<1>1. /\ s \in Seq(Requests) /\ Owner[r] = t /\ pc[t] \in {"run", "testio"}
      /\ \A x \in ToSet(s) : x \in ToSet(replyPort[t])
      /\ \A x \in ToSet(replyPort[t]) : x # r => x \in ToSet(s)
      /\ replyPort' = [replyPort EXCEPT ![t] = s] /\ inUse' = inUse \ {r}
      /\ pc' = [pc EXCEPT ![t] = "run"]
      /\ current' \in [Tasks -> Requests \cup {None}] /\ \A u \in Tasks \ {t} : current'[u] = current[u]
      /\ strays' \subseteq Requests
      /\ UNCHANGED <<type, quick, signal, devVars>>
  BY DEF Leaving
<1>2. /\ \A u \in Tasks : replyPort'[u] = IF u = t THEN s ELSE replyPort[u]
      /\ \A u \in Tasks : pc'[u] = IF u = t THEN "run" ELSE pc[u]
      /\ UNCHANGED <<at, replying, cpc>> /\ at[t] = "out"
  BY <1>1 DEF IInv, TypeOK, IOTypeOK, OwnReads, devVars, taskPart
<1>3. IOTypeOK'
  BY <1>1 DEF IInv, TypeOK, IOTypeOK
<1>4. OwnReads'
  BY <1>1, <1>2 DEF IInv, OwnReads, UsesCurrent
<1>5. Delivered'
  <2>1. \A u \in Tasks : \A x \in ToSet(replyPort'[u]) : Owner[x] = u
    BY <1>1, <1>2 DEF IInv, Delivered
  <2>2. ASSUME NEW u \in Tasks, NEW x \in inUse', x \in ToSet(replyPort[u]) PROVE x \in ToSet(replyPort'[u])
    BY <2>2, <1>1, <1>2
  <2>3. ReplyReachesOwner'
    BY <2>2, <1>1, <1>2 DEF IInv, Delivered, ReplyReachesOwner, OwnedBy
  <2>4. ASSUME cpc = "tell", replying \in inUse', type[replying] = "reply"
        PROVE  replying \in ToSet(replyPort'[Owner[replying]])
    <3>1. replying \in inUse /\ Owner[replying] \in Tasks
      BY <2>4, <1>1, ConstantTypes DEF IInv, TypeOK, IOTypeOK
    <3>2. replying \in ToSet(replyPort[Owner[replying]])
      BY <2>4, <3>1 DEF IInv, Delivered
    <3> QED  BY <3>1, <3>2, <2>2, <2>4
  <2> QED  BY <2>1, <2>3, <2>4, <1>1, <1>2 DEF Delivered
<1> QED  BY <1>1, <1>3, <1>4, <1>5, SameDevice DEF IInv

\* The step of a task that moves only its own place, with what it waits for.
LEMMA MovesKeep ==
  ASSUME IInv, NEW t \in Tasks, NEW p \in {"run", "testio", "sleepio", "testport", "sleepport"},
         pc[t] # "device", pc' = [pc EXCEPT ![t] = p],
         NEW c, current' = [current EXCEPT ![t] = c], c \in Requests \cup {None},
         p \in {"testio", "sleepio"} => c \in inUse /\ Owner[c] = t,
         p = "sleepio" => type[c] # "reply",
         signal' = signal \/ signal' = signal \ {t},
         UNCHANGED <<type, quick, replyPort, inUse, strays, devVars>>
  PROVE  IInv'
<1>1. /\ \A u \in Tasks : pc'[u] = IF u = t THEN p ELSE pc[u]
      /\ \A u \in Tasks : current'[u] = IF u = t THEN c ELSE current[u]
      /\ UNCHANGED <<at, replying, cpc>> /\ at[t] = "out"
  BY DEF IInv, TypeOK, IOTypeOK, OwnReads, devVars, taskPart
<1>2. IOTypeOK'
  BY DEF IInv, TypeOK, IOTypeOK
<1>3. OwnReads'
  BY <1>1 DEF IInv, OwnReads, UsesCurrent
<1>4. Delivered'
  BY <1>1 DEF IInv, Delivered, ReplyReachesOwner, OwnedBy
<1> QED  BY <1>2, <1>3, <1>4, SameDevice DEF IInv

\* WaitIO() that finds the reply takes it off the port,
LEMMA TestLeaves ==
  ASSUME IInv, NEW t \in Tasks, TestIO(t), UNCHANGED devVars, ~Busy(current[t])
  PROVE  Leaving(t, current[t], replyPort'[t])
<1> DEFINE r == current[t]
           s == IF type[r] = "reply" THEN RemoveFirst(replyPort[t], r) ELSE replyPort[t]
<1>1. /\ pc[t] = "testio"
      /\ replyPort' = [replyPort EXCEPT ![t] = s]
      /\ strays' = IF type[r] = "reply" /\ r \notin ToSet(replyPort[t])
                   THEN strays \cup {r} ELSE strays
      /\ inUse' = inUse \ {r}
      /\ current' = [current EXCEPT ![t] = None]
      /\ pc' = [pc EXCEPT ![t] = "run"]
      /\ UNCHANGED <<type, quick, signal>>
  BY DEF TestIO
<1>2. r \in Requests /\ Owner[r] = t
  BY <1>1 DEF IInv, TypeOK, IOTypeOK, OwnReads, UsesCurrent
<1>3. replyPort[t] \in Seq(Requests) /\ replyPort \in [Tasks -> Seq(Requests)]
  BY DEF IInv, TypeOK, IOTypeOK
<1>4. /\ s \in Seq(Requests) /\ \A x \in ToSet(s) : x \in ToSet(replyPort[t])
      /\ \A x \in ToSet(replyPort[t]) : x # r => x \in ToSet(s)
  BY <1>3, RemoveAny
<1> HIDE DEF s
<1>5. replyPort'[t] = s
  BY <1>1, <1>3
<1>6. /\ current' \in [Tasks -> Requests \cup {None}] /\ \A u \in Tasks \ {t} : current'[u] = current[u]
      /\ strays' \subseteq Requests
  BY <1>1, <1>2 DEF IInv, TypeOK, IOTypeOK
<1> QED  BY <1>1, <1>2, <1>4, <1>5, <1>6 DEF Leaving

\* so does GetMsg().
LEMMA GetLeaves ==
  ASSUME IInv, NEW t \in Tasks, GetMsg(t), UNCHANGED devVars
  PROVE  Leaving(t, Head(replyPort[t]), Tail(replyPort[t]))
<1>1. /\ pc[t] = "run" /\ replyPort[t] # <<>>
      /\ replyPort' = [replyPort EXCEPT ![t] = Tail(replyPort[t])]
      /\ inUse' = inUse \ {Head(replyPort[t])}
      /\ UNCHANGED <<type, quick, signal, pc, current, strays>>
  BY DEF GetMsg
<1>2. replyPort[t] \in Seq(Requests) /\ pc' = [pc EXCEPT ![t] = "run"]
      /\ current \in [Tasks -> Requests \cup {None}] /\ strays \subseteq Requests
  BY <1>1 DEF IInv, TypeOK, IOTypeOK
<1>3. /\ Tail(replyPort[t]) \in Seq(Requests) /\ Head(replyPort[t]) \in ToSet(replyPort[t])
      /\ \A x \in ToSet(Tail(replyPort[t])) : x \in ToSet(replyPort[t])
      /\ \A x \in ToSet(replyPort[t]) : x # Head(replyPort[t]) => x \in ToSet(Tail(replyPort[t]))
  BY <1>1, <1>2, TailAny
<1>4. Owner[Head(replyPort[t])] = t
  BY <1>3 DEF IInv, Delivered
<1> QED  BY <1>1, <1>2, <1>3, <1>4 DEF Leaving

\* What a client does on its side of the ports keeps the invariant,
LEMMA ClientStepKeeps ==
  ASSUME IInv, NEW t \in Tasks, ClientStep(t), UNCHANGED devVars
  PROVE  IInv'
<1> DEFINE c == current[t]
<1>0. /\ c \in Requests \cup {None} /\ current' = current => current' = [current EXCEPT ![t] = c]
      /\ c \in Requests \cup {None}
  BY DEF IInv, TypeOK, IOTypeOK
<1>1. ASSUME NEW r \in Requests, WaitIO(t, r) PROVE IInv'
  <2>1. /\ pc[t] # "device" /\ pc' = [pc EXCEPT ![t] = "testio"]
        /\ r \in inUse /\ Owner[r] = t /\ current' = [current EXCEPT ![t] = r]
        /\ UNCHANGED <<type, quick, replyPort, signal, inUse, strays, devVars>>
    BY <1>1 DEF WaitIO, OwnedBy
  <2> QED  BY <2>1, MovesKeep
<1>2. ASSUME TestIO(t) PROVE IInv'
  <2>1. CASE Busy(c)
    <3>1. /\ pc[t] = "testio" /\ pc' = [pc EXCEPT ![t] = "sleepio"] /\ type[c] # "reply"
          /\ UNCHANGED <<type, quick, replyPort, signal, current, inUse, strays, devVars>>
      BY <1>2, <2>1 DEF TestIO, Busy
    <3>2. c \in inUse /\ Owner[c] = t
      BY <3>1 DEF IInv, OwnReads, UsesCurrent
    <3> HIDE DEF c
    <3> QED  BY <3>1, <3>2, <1>0, MovesKeep
  <2>2. CASE ~Busy(c)
    BY <1>2, <2>2, TestLeaves, LeavingKeeps
  <2> QED  BY <2>1, <2>2
<1>3. ASSUME Wake(t) PROVE IInv'
  <2>1. PICK p \in {"testio", "testport"} : pc' = [pc EXCEPT ![t] = p] /\ (p = "testio" => pc[t] = "sleepio")
    BY <1>3 DEF Wake
  <2>2. /\ pc[t] # "device" /\ signal' = signal \ {t}
        /\ UNCHANGED <<type, quick, replyPort, current, inUse, strays, devVars>>
    BY <1>3 DEF Wake, TakeSignal
  <2>3. p = "testio" => c \in inUse /\ Owner[c] = t
    BY <2>1 DEF IInv, OwnReads, UsesCurrent
  <2> HIDE DEF c
  <2> QED  BY <2>1, <2>2, <2>3, <1>0, MovesKeep
<1>4. ASSUME WaitPort(t) PROVE IInv'
  <2>1. PICK p \in {"run", "sleepport"} : pc' = [pc EXCEPT ![t] = p]
    BY <1>4 DEF WaitPort
  <2>2. /\ pc[t] # "device"
        /\ UNCHANGED <<type, quick, replyPort, signal, current, inUse, strays, devVars>>
    BY <1>4 DEF WaitPort
  <2> HIDE DEF c
  <2> QED  BY <2>1, <2>2, <1>0, MovesKeep
<1>5. ASSUME GetMsg(t) PROVE IInv'
  BY <1>5, GetLeaves, LeavingKeeps
<1> QED  BY <1>1, <1>2, <1>3, <1>4, <1>5 DEF ClientStep
-----------------------------------------------------------------------------
(* The invariant. *)

\* which holds at first,
LEMMA InitInv ==
  ASSUME Init
  PROVE  IInv
<1>1. IOTypeOK /\ (\A t \in Tasks : replyPort[t] = <<>>) /\ inUse = {}
      /\ \A t \in Tasks : pc[t] = "run"
  BY ConstantTypes DEF Init, IOInit, IOTypeOK
<1>2. TypeOK
  <2>1. <<>> \in Seq(Requests) /\ <<>> \in Seq(1 .. Paste) /\ 0 \in 0 .. Buffer
    BY ConstantTypes
  <2> QED  BY <1>1, <2>1, ConstantTypes DEF Init, TypeOK
<1>3. Registers /\ Locked /\ Fed
  BY ConstantTypes DEF Init, Registers, Locked, Fed, Answering
<1>4. OwnReads
  BY <1>1 DEF Init, IOInit, OwnReads, UsesCurrent
<1>5. Delivered
  BY <1>1, EmptyList DEF Init, Delivered, ReplyReachesOwner
<1> QED  BY <1>2, <1>3, <1>4, <1>5 DEF IInv

\* and which every step of a task keeps,
LEMMA TaskKeeps ==
  ASSUME IInv, NEW t \in Tasks, TaskStep(t)
  PROVE  IInv'
<1>1. CASE InsideDevice(t)
  BY <1>1, TellKeeps, InjectSignalsKeeps, AbortUnlinksKeeps, AbortRepliesKeeps, AbortUnlocksKeeps
     DEF InsideDevice
<1>2. CASE Client(t)
  BY <1>2, ClientStepKeeps DEF Client
<1>3. CASE Inject(t)
  BY <1>3, InjectKeeps
<1>4. ASSUME NEW r \in Requests, AbortLocks(t, r) PROVE IInv'
  BY <1>4, AbortLocksKeeps
<1>5. ASSUME NEW r \in Requests, NEW q \in BOOLEAN, SendRead(t, r, q) PROVE IInv'
  BY <1>5, SendReadKeeps
<1> QED  BY <1>1, <1>2, <1>3, <1>4, <1>5 DEF TaskStep

\* and every step.
LEMMA NextInv ==
  ASSUME IInv, [Next]_vars
  PROVE  IInv'
<1>1. CASE ConsoleStep
  BY <1>1, WakesKeeps, LocksKeeps, PastesKeeps, InputKeeps, EventDoneKeeps, CommandKeeps, ReadKeeps,
     AnswersKeeps, LinksKeeps, TellsKeeps DEF ConsoleStep
<1>2. CASE UNCHANGED vars
  <2>1. UNCHANGED <<ioVars, devVars>> /\ UNCHANGED at /\ UNCHANGED ioVars
    BY <1>2 DEF vars, devVars
  <2>2. IOTypeOK' /\ OwnReads' /\ Registers' /\ Locked' /\ Fed' /\ TypeOK'
    BY <2>1, SameRequests, SameDevice
  <2>3. Delivered'
    BY <2>1 DEF IInv, Delivered, ReplyReachesOwner, ioVars, devVars, taskPart
  <2> QED  BY <2>2, <2>3 DEF IInv
<1> QED  BY <1>1, <1>2, SendsKeeps, TaskKeeps DEF Next

\* The inductive invariant holds.
THEOREM Invariance == Spec => []IInv
<1>1. Init => IInv
  BY InitInv
<1>2. IInv /\ [Next]_vars => IInv'
  BY NextInv
<1> QED  BY <1>1, <1>2, PTL DEF Spec

\* The console task, its lists and its buffer keep their types: no more is stored than
\* CON_INPUTBUF_SIZE, however much is pasted.
THEOREM TypeCorrect == Spec => []TypeOK
<1>1. IInv => TypeOK
  BY DEF IInv
<1> QED  BY <1>1, Invariance, PTL

\* The console task never sleeps with reads held beside input, unless whoever pasted it is
\* about to tell.
THEOREM Reads_Fed == Spec => []NoStarvedRead
<1>1. IInv => NoStarvedRead
  BY DEF IInv, NoStarvedRead, Fed, Answering, PasteTold, PasteHandled
<1> QED  BY <1>1, Invariance, PTL

\* A reply is on the port of the owner of the read and the owner is told, however the tasks
\* and the console task interrupt each other.
THEOREM Replies_Reach == Spec => []ReplyReachesOwner
<1>1. IInv => ReplyReachesOwner
  BY DEF IInv, Delivered
<1> QED  BY <1>1, Invariance, PTL

\* One step of the system: a task takes a reply off its port only where it finds it, but
\* in the window between the mark of the reply and its linking.
LEMMA StepStrays ==
  ASSUME IInv, [Next]_vars, NEW r \in Requests, r \in strays', r \notin strays
  PROVE  replying = r /\ cpc = "link"
<1>1. ASSUME NEW t \in Tasks, TestIO(t) PROVE replying = r /\ cpc = "link"
  <2>1. r = current[t] /\ type[r] = "reply" /\ r \notin ToSet(replyPort[t]) /\ pc[t] = "testio"
    BY <1>1 DEF TestIO
  <2>2. r \in inUse /\ Owner[r] = t
    BY <2>1 DEF IInv, OwnReads, UsesCurrent
  <2>3. replying = r
    BY <2>1, <2>2 DEF IInv, Delivered, ReplyReachesOwner, OwnedBy
  <2>4. cpc \in {"link", "tell"}
    BY <2>3, ConstantTypes DEF IInv, Registers
  <2>5. cpc # "tell"
    BY <2>1, <2>2, <2>3 DEF IInv, Delivered
  <2> QED  BY <2>3, <2>4, <2>5
<1>2. ASSUME NEW t \in Tasks, Client(t) PROVE replying = r /\ cpc = "link"
  BY <1>1, <1>2 DEF Client, ClientStep, WaitIO, Wake, WaitPort, GetMsg
<1>3. ASSUME NEW t \in Tasks, TaskStep(t), ~Client(t) PROVE strays' = strays
  <2>1. CASE InsideDevice(t)
    BY <2>1 DEF InsideDevice, TellConsole, InjectSignals, AbortUnlinks, AbortReplies, AbortUnlocks
  <2>2. CASE Inject(t)
    BY <2>2 DEF Inject
  <2>3. CASE \E q \in Requests : AbortLocks(t, q) \/ \E d \in BOOLEAN : SendRead(t, q, d)
    BY <2>3 DEF AbortLocks, SendRead
  <2> QED  BY <1>3, <2>1, <2>2, <2>3 DEF TaskStep
<1>4. ConsoleStep => strays' = strays
  BY DEF ConsoleStep, ConsoleWakes, ConsoleLocks, ConsolePastes, ConsoleInput, ConsoleEventDone,
     ConsoleCommand, ConsoleRead, ConsoleAnswers, ConsoleLinks, ConsoleTells, ioVars
<1>5. HandlerSends \/ UNCHANGED vars => strays' = strays
  BY DEF HandlerSends, vars, ioVars
<1> QED  BY <1>2, <1>3, <1>4, <1>5 DEF Next

\* The Remove() of WaitIO() misses the port only between the mark of the reply and its linking,
\* whatever the priorities of the tasks: a read whose reply is linked is on the port until its
\* owner takes it, and no abort and no other reply changes that.
THEOREM Strays_In_Window == Spec => StrayOnlyInWindow
<1>1. IInv /\ [Next]_vars => [\A r \in Requests : r \in strays' \ strays => replying = r /\ cpc = "link"]_vars
  BY StepStrays
<1> QED  BY <1>1, Invariance, PTL DEF Spec, StrayOnlyInWindow
-----------------------------------------------------------------------------
(* The order of the reads. *)

\* Two lists that make up a list have nothing in common and may change places.
LEMMA BothLists ==
  ASSUME NEW S, NEW s \in Seq(S), NEW u \in Seq(S), IsInjective(s \o u)
  PROVE  /\ IsInjective(s) /\ IsInjective(u) /\ ToSet(s) \cap ToSet(u) = {}
         /\ IsInjective(u \o s)
<1> DEFINE m == Len(s)
           n == Len(u)
           w == s \o u
<1>1. m \in Nat /\ n \in Nat /\ DOMAIN w = 1 .. m + n /\ DOMAIN s = 1 .. m /\ DOMAIN u = 1 .. n
  OBVIOUS
<1>2. \A i \in 1 .. m + n : w[i] = IF i <= m THEN s[i] ELSE u[i - m]
  BY ConcatProperties
<1>3. \A i, j \in 1 .. m + n : w[i] = w[j] => i = j
  BY <1>1 DEF IsInjective
<1> HIDE DEF m, n, w
<1>4. \A i \in 1 .. m : w[i] = s[i] /\ i \in 1 .. m + n
  BY <1>1, <1>2
<1>5. \A i \in 1 .. n : w[m + i] = u[i] /\ m + i \in 1 .. m + n
  <2> SUFFICES ASSUME NEW i \in 1 .. n PROVE w[m + i] = u[i] /\ m + i \in 1 .. m + n
    OBVIOUS
  <2>1. m + i \in 1 .. m + n /\ ~(m + i <= m) /\ (m + i) - m = i
    BY <1>1
  <2> QED  BY <2>1, <1>2
<1>6. IsInjective(s)
  BY <1>1, <1>3, <1>4 DEF IsInjective
<1>7. IsInjective(u)
  <2>1. \A i, j \in 1 .. n : u[i] = u[j] => m + i = m + j
    BY <1>3, <1>5
  <2>2. \A i, j \in 1 .. n : u[i] = u[j] => i = j
    BY <2>1, <1>1
  <2> QED  BY <2>2, <1>1 DEF IsInjective
<1>8. ToSet(s) \cap ToSet(u) = {}
  <2> SUFFICES ASSUME NEW x \in ToSet(s), x \in ToSet(u) PROVE FALSE
    OBVIOUS
  <2>1. PICK i \in 1 .. m : s[i] = x
    BY <1>1 DEF ToSet
  <2>2. PICK j \in 1 .. n : u[j] = x
    BY <1>1 DEF ToSet
  <2>3. i = m + j
    BY <2>1, <2>2, <1>3, <1>4, <1>5
  <2> QED  BY <2>3, <1>1
<1>9. ToSet(u) \cap ToSet(s) = {}
  BY <1>8
<1> QED  BY <1>6, <1>7, <1>8, <1>9, ConcatList

\* Taking an element out of two lists that have nothing in common takes it out of the list
\* that they make up.
LEMMA RemoveFromBoth ==
  ASSUME NEW S, NEW s \in Seq(S), NEW u \in Seq(S), IsInjective(s \o u), NEW x
  PROVE  RemoveFirst(s \o u, x) = RemoveFirst(s, x) \o RemoveFirst(u, x)
<1> DEFINE m == Len(s)
           n == Len(u)
           w == s \o u
<1>1. /\ m \in Nat /\ n \in Nat /\ w \in Seq(S) /\ Len(w) = m + n /\ DOMAIN w = 1 .. m + n
      /\ DOMAIN s = 1 .. m /\ DOMAIN u = 1 .. n
      /\ \A i \in 1 .. m + n : w[i] = IF i <= m THEN s[i] ELSE u[i - m]
  <2>1. m \in Nat /\ n \in Nat /\ w \in Seq(S) /\ Len(w) = m + n /\ DOMAIN w = 1 .. m + n
        /\ DOMAIN s = 1 .. m /\ DOMAIN u = 1 .. n
    OBVIOUS
  <2> QED  BY <2>1, ConcatProperties
<1>2. \A i \in 1 .. m : w[i] = s[i] /\ i \in 1 .. m + n
  BY <1>1
<1>3. \A i \in 1 .. n : w[m + i] = u[i] /\ m + i \in 1 .. m + n
  <2> SUFFICES ASSUME NEW i \in 1 .. n PROVE w[m + i] = u[i] /\ m + i \in 1 .. m + n
    OBVIOUS
  <2>1. m + i \in 1 .. m + n /\ ~(m + i <= m) /\ (m + i) - m = i
    BY <1>1
  <2> QED  BY <2>1, <1>1
<1> HIDE DEF m, n, w
<1>4. IsInjective(w) /\ w = s \o u
  BY DEF w
<1>5. IsInjective(s) /\ IsInjective(u)
  BY BothLists
<1> DEFINE a == RemoveFirst(s, x)
           b == RemoveFirst(u, x)
           c == RemoveFirst(w, x)
<1>6. /\ a \in Seq(S) /\ b \in Seq(S) /\ c \in Seq(S)
      /\ x \notin ToSet(s) => a = s
      /\ x \notin ToSet(u) => b = u
      /\ x \notin ToSet(w) => c = w
  BY <1>1, <1>4, <1>5, RemoveList
<1>7. /\ \A y : y \in ToSet(s) <=> \E i \in 1 .. m : s[i] = y
      /\ \A y : y \in ToSet(u) <=> \E i \in 1 .. n : u[i] = y
      /\ \A y : y \in ToSet(w) <=> \E i \in 1 .. m + n : w[i] = y
  BY <1>1 DEF ToSet
<1>8. CASE x \notin ToSet(w)
  <2>1. x \notin ToSet(s) /\ x \notin ToSet(u)
    BY <1>8, <1>2, <1>3, <1>7
  <2> QED  BY <2>1, <1>4, <1>6, <1>8 DEF a, b, c
<1>9. CASE x \in ToSet(w)
  <2>1. PICK k \in 1 .. m + n :
          /\ w[k] = x /\ Len(c) = (m + n) - 1
          /\ \A i \in 1 .. (m + n) - 1 : c[i] = IF i < k THEN w[i] ELSE w[i + 1]
    <3>0. w \in Seq(S) /\ IsInjective(w)
      BY <1>1, <1>4
    <3>1. \E k \in 1 .. Len(w) :
            /\ w[k] = x /\ Len(c) = Len(w) - 1
            /\ \A i \in 1 .. Len(w) - 1 : c[i] = IF i < k THEN w[i] ELSE w[i + 1]
      BY <3>0, <1>9, RemoveList
    <3> QED  BY <3>1, <1>1
  <2>2. \A i \in 1 .. m + n : w[i] = x => i = k
    BY <2>1, <1>1, <1>4 DEF IsInjective
  <2>3. CASE k <= m
    <3>1. x \notin ToSet(u)
      <4> SUFFICES ASSUME NEW i \in 1 .. n, u[i] = x PROVE FALSE
        BY <1>7
      <4>1. m + i = k
        BY <1>3, <2>2
      <4> QED  BY <4>1, <2>3, <1>1
    <3>2. k \in 1 .. m /\ s[k] = x
      BY <2>1, <2>3, <1>1, <1>2
    <3>3. PICK l \in 1 .. m :
            /\ s[l] = x /\ Len(a) = m - 1
            /\ \A i \in 1 .. m - 1 : a[i] = IF i < l THEN s[i] ELSE s[i + 1]
      <4>1. x \in ToSet(s)
        BY <3>2, <1>7
      <4>2. \E l \in 1 .. Len(s) :
              /\ s[l] = x /\ Len(a) = Len(s) - 1
              /\ \A i \in 1 .. Len(s) - 1 : a[i] = IF i < l THEN s[i] ELSE s[i + 1]
        BY <4>1, <1>5, RemoveList
      <4> QED  BY <4>2 DEF m
    <3>4. l = k
      BY <3>3, <1>2, <2>2
    <3>5. b = u
      BY <3>1, <1>6
    <3> HIDE DEF a, b, c
    <3>6. /\ Len(a \o u) = (m - 1) + n /\ a \o u \in Seq(S)
          /\ \A i \in 1 .. (m - 1) + n : (a \o u)[i] = IF i <= m - 1 THEN a[i] ELSE u[i - (m - 1)]
      <4>1. a \in Seq(S) /\ Len(a) = m - 1 /\ Len(u) = n
        BY <1>6, <3>3 DEF n
      <4>2. /\ Len(a \o u) = Len(a) + Len(u) /\ a \o u \in Seq(S)
            /\ \A i \in 1 .. Len(a) + Len(u) :
                 (a \o u)[i] = IF i <= Len(a) THEN a[i] ELSE u[i - Len(a)]
        BY <4>1, ConcatProperties
      <4> QED  BY <4>1, <4>2
    <3>7. ASSUME NEW i \in 1 .. (m + n) - 1 PROVE c[i] = (a \o u)[i]
      <4>1. CASE i < k
        <5>1. i \in 1 .. m - 1 /\ i \in 1 .. m /\ i <= m - 1
          BY <4>1, <3>2, <1>1
        <5>2. c[i] = s[i] /\ a[i] = s[i]
          BY <4>1, <5>1, <2>1, <3>3, <3>4, <1>2
        <5> QED  BY <5>1, <5>2, <3>6, <1>1
      <4>2. CASE ~(i < k) /\ i <= m - 1
        <5>1. i \in 1 .. m - 1 /\ i + 1 \in 1 .. m
          BY <4>2, <1>1
        <5>2. c[i] = s[i + 1] /\ a[i] = s[i + 1]
          BY <4>2, <5>1, <2>1, <3>3, <3>4, <1>2
        <5> QED  BY <4>2, <5>2, <3>6, <1>1
      <4>3. CASE ~(i < k) /\ ~(i <= m - 1)
        <5>1. i - (m - 1) \in 1 .. n /\ m + (i - (m - 1)) = i + 1
          BY <4>3, <1>1
        <5>2. c[i] = u[i - (m - 1)]
          BY <4>3, <5>1, <2>1, <1>3
        <5> QED  BY <4>3, <5>2, <3>6, <1>1
      <4> QED  BY <4>1, <4>2, <4>3
    <3>8. Len(c) = Len(a \o u) /\ Len(c) = (m + n) - 1
      BY <2>1, <3>6, <1>1
    <3>9. c = a \o u
      BY <3>6, <3>7, <3>8, <1>6, SeqEqual
    <3> QED  BY <3>5, <3>9, <1>4 DEF a, b, c
  <2>4. CASE ~(k <= m)
    <3>0. k - m \in 1 .. n /\ m + (k - m) = k
      BY <2>4, <1>1
    <3>1. x \notin ToSet(s)
      <4> SUFFICES ASSUME NEW i \in 1 .. m, s[i] = x PROVE FALSE
        BY <1>7
      <4>1. i = k
        BY <1>2, <2>2
      <4> QED  BY <4>1, <2>4, <1>1
    <3>2. u[k - m] = x
      BY <2>1, <3>0, <1>3
    <3>3. PICK l \in 1 .. n :
            /\ u[l] = x /\ Len(b) = n - 1
            /\ \A i \in 1 .. n - 1 : b[i] = IF i < l THEN u[i] ELSE u[i + 1]
      <4>1. x \in ToSet(u)
        BY <3>0, <3>2, <1>7
      <4>2. \E l \in 1 .. Len(u) :
              /\ u[l] = x /\ Len(b) = Len(u) - 1
              /\ \A i \in 1 .. Len(u) - 1 : b[i] = IF i < l THEN u[i] ELSE u[i + 1]
        BY <4>1, <1>5, RemoveList
      <4> QED  BY <4>2 DEF n
    <3>4. m + l = k
      BY <3>3, <1>3, <2>2
    <3>5. a = s
      BY <3>1, <1>6
    <3> HIDE DEF a, b, c
    <3>6. /\ Len(s \o b) = m + (n - 1) /\ s \o b \in Seq(S)
          /\ \A i \in 1 .. m + (n - 1) : (s \o b)[i] = IF i <= m THEN s[i] ELSE b[i - m]
      <4>1. b \in Seq(S) /\ Len(b) = n - 1 /\ Len(s) = m
        BY <1>6, <3>3 DEF m
      <4>2. /\ Len(s \o b) = Len(s) + Len(b) /\ s \o b \in Seq(S)
            /\ \A i \in 1 .. Len(s) + Len(b) :
                 (s \o b)[i] = IF i <= Len(s) THEN s[i] ELSE b[i - Len(s)]
        BY <4>1, ConcatProperties
      <4> QED  BY <4>1, <4>2
    <3>7. ASSUME NEW i \in 1 .. (m + n) - 1 PROVE c[i] = (s \o b)[i]
      <4>1. CASE i <= m
        <5>1. i \in 1 .. m /\ i < k
          BY <4>1, <2>4, <1>1
        <5>2. c[i] = s[i]
          BY <5>1, <2>1, <1>2
        <5> QED  BY <4>1, <5>2, <3>6, <1>1
      <4>2. CASE ~(i <= m) /\ i < k
        <5>1. i - m \in 1 .. n - 1 /\ i - m \in 1 .. n /\ m + (i - m) = i /\ i - m < l
          BY <4>2, <3>4, <3>0, <1>1
        <5>2. c[i] = u[i - m] /\ b[i - m] = u[i - m]
          BY <4>2, <5>1, <2>1, <3>3, <1>3
        <5> QED  BY <4>2, <5>2, <3>6, <1>1
      <4>3. CASE ~(i < k)
        <5>1. i - m \in 1 .. n - 1 /\ (i - m) + 1 \in 1 .. n /\ m + ((i - m) + 1) = i + 1
              /\ ~(i - m < l) /\ ~(i <= m)
          BY <4>3, <3>4, <2>4, <1>1
        <5>2. c[i] = u[(i - m) + 1] /\ b[i - m] = u[(i - m) + 1]
          BY <4>3, <5>1, <2>1, <3>3, <1>3
        <5> QED  BY <5>1, <5>2, <3>6, <1>1
      <4> QED  BY <4>1, <4>2, <4>3
    <3>8. Len(c) = Len(s \o b) /\ Len(c) = (m + n) - 1
      BY <2>1, <3>6, <1>1
    <3>9. c = s \o b
      BY <3>6, <3>7, <3>8, <1>6, SeqEqual
    <3> QED  BY <3>5, <3>9, <1>4 DEF a, b, c
  <2> QED  BY <2>3, <2>4
<1> QED  BY <1>8, <1>9

\* The front of two lists is the front of the first one.
LEMMA FrontList ==
  ASSUME NEW S, NEW s \in Seq(S), NEW u \in Seq(S), s # <<>>
  PROVE  s \o u # <<>> /\ Head(s \o u) = Head(s) /\ Tail(s \o u) = Tail(s) \o u
<1> DEFINE w == s \o u
           a == Tail(w)
           t == Tail(s)
           b == t \o u
<1>1. Len(s) \in Nat \ {0} /\ Len(u) \in Nat /\ t \in Seq(S) /\ Len(t) = Len(s) - 1
      /\ \A i \in 1 .. Len(t) : t[i] = s[i + 1]
  BY HeadTailProperties, LenProperties, EmptySeq
<1>2. w \in Seq(S) /\ Len(w) = Len(s) + Len(u)
      /\ \A i \in 1 .. Len(s) + Len(u) : w[i] = IF i <= Len(s) THEN s[i] ELSE u[i - Len(s)]
  BY ConcatProperties
<1> HIDE DEF t
<1>3. b \in Seq(S) /\ Len(b) = Len(t) + Len(u)
      /\ \A i \in 1 .. Len(t) + Len(u) : b[i] = IF i <= Len(t) THEN t[i] ELSE u[i - Len(t)]
  BY <1>1, ConcatProperties
<1> HIDE DEF w, b
<1>4. w # <<>>
  BY <1>1, <1>2
<1>5. a \in Seq(S) /\ Len(a) = Len(w) - 1 /\ \A i \in 1 .. Len(a) : a[i] = w[i + 1]
  BY <1>2, <1>4, HeadTailProperties
<1>6. Head(w) = w[1] /\ Head(s) = s[1] /\ w[1] = s[1]
  <2>1. 1 \in 1 .. Len(s) + Len(u) /\ 1 <= Len(s)
    BY <1>1
  <2> QED  BY <2>1, <1>1, <1>2
<1> HIDE DEF a
<1>7. Len(a) = Len(b) /\ Len(a) = Len(s) + Len(u) - 1
  BY <1>1, <1>2, <1>3, <1>5
<1>8. ASSUME NEW i \in 1 .. Len(a) PROVE a[i] = b[i]
  <2>1. a[i] = w[i + 1] /\ i + 1 \in 1 .. Len(s) + Len(u) /\ i \in 1 .. Len(t) + Len(u)
    BY <1>1, <1>5, <1>7
  <2>2. CASE i <= Len(t)
    <3>1. i + 1 <= Len(s) /\ i \in 1 .. Len(t)
      BY <2>2, <1>1
    <3> QED  BY <3>1, <2>1, <2>2, <1>1, <1>2, <1>3
  <2>3. CASE ~(i <= Len(t))
    <3>1. ~(i + 1 <= Len(s)) /\ (i + 1) - Len(s) = i - Len(t)
      BY <2>3, <1>1
    <3> QED  BY <3>1, <2>1, <2>3, <1>2, <1>3
  <2> QED  BY <2>2, <2>3
<1>9. a = b
  BY <1>3, <1>5, <1>7, <1>8, SeqEqual
<1> QED  BY <1>4, <1>6, <1>9 DEF a, b, w, t

\* To remove the first is to take the tail.
LEMMA RemoveHead ==
  ASSUME NEW S, NEW s \in Seq(S), s # <<>>, IsInjective(s)
  PROVE  RemoveFirst(s, Head(s)) = Tail(s)
<1> DEFINE a == RemoveFirst(s, Head(s))
           t == Tail(s)
<1>1. Len(s) \in Nat \ {0} /\ t \in Seq(S) /\ Len(t) = Len(s) - 1 /\ Head(s) = s[1]
      /\ DOMAIN s = 1 .. Len(s) /\ \A i \in 1 .. Len(t) : t[i] = s[i + 1]
  BY HeadTailProperties, LenProperties, EmptySeq
<1>2. Head(s) \in ToSet(s)
  BY TailAny
<1>3. a \in Seq(S)
  BY RemoveList
<1>4. PICK k \in 1 .. Len(s) :
        /\ s[k] = Head(s) /\ Len(a) = Len(s) - 1
        /\ \A i \in 1 .. Len(s) - 1 : a[i] = IF i < k THEN s[i] ELSE s[i + 1]
  BY <1>2, RemoveList
<1>5. k = 1
  <2> HIDE DEF a, t
  <2>1. DOMAIN s = 1 .. Len(s) /\ 1 \in 1 .. Len(s) /\ k \in 1 .. Len(s)
    BY <1>1
  <2>2. s[k] = s[1]
    BY <1>1, <1>4
  <2> QED  BY <2>1, <2>2 DEF IsInjective
<1> HIDE DEF a, t
<1>6. \A i \in 1 .. Len(a) : a[i] = t[i]
  BY <1>1, <1>4, <1>5
<1>7. a = t
  BY <1>1, <1>3, <1>4, <1>6, SeqEqual
<1> QED  BY <1>7 DEF a, t

\* A sequence is its head and its tail.
LEMMA HeadAndTail ==
  ASSUME NEW S, NEW s \in Seq(S), s # <<>>
  PROVE  Head(s) \in S /\ Tail(s) \in Seq(S) /\ <<Head(s)>> \o Tail(s) = s
<1>1. Len(s) \in Nat \ {0} /\ Tail(s) \in Seq(S) /\ Head(s) = s[1] /\ Head(s) \in S
  BY HeadTailProperties, LenProperties, EmptySeq
<1>2. 1 \in 1 .. Len(s) /\ Len(s) \in 1 .. Len(s)
  BY <1>1
<1>3. SubSeq(s, 1, Len(s)) = <<s[1]>> \o SubSeq(s, 1 + 1, Len(s))
  BY <1>2, SubSeqRecursiveFirst
<1>4. SubSeq(s, 1, Len(s)) = s
  BY SubSeqFull
<1>5. Tail(s) = SubSeq(s, 2, Len(s))
  BY TailIsSubSeq
<1> QED  BY <1>1, <1>3, <1>4, <1>5

\* Sent with and without a command taken from the port.
LEMMA SentIs ==
  ASSUME IInv
  PROVE  /\ Sent \in Seq(Requests) /\ reads \in Seq(Requests) /\ commandPort \in Seq(Requests)
         /\ command = None => Sent = reads \o commandPort
         /\ command # None => /\ command \in Requests
                              /\ Sent = reads \o (<<command>> \o commandPort)
<1>1. /\ reads \in Seq(Requests) /\ commandPort \in Seq(Requests) /\ <<>> \in Seq(Requests)
      /\ command \in Requests \cup {None}
  BY DEF IInv, TypeOK
<1>2. CASE command = None
  <2>1. reads \o <<>> = reads
    BY <1>1, ConcatEmptySeq
  <2>2. Sent = reads \o commandPort
    BY <1>2, <2>1 DEF Sent
  <2> QED  BY <2>2, <1>1, <1>2, ConcatProperties
<1>3. CASE command # None
  <2>1. command \in Requests /\ <<command>> \in Seq(Requests)
    BY <1>1, <1>3
  <2>2. (reads \o <<command>>) \o commandPort = reads \o (<<command>> \o commandPort)
    BY <1>1, <2>1, ConcatAssociative
  <2>3. <<command>> \o commandPort \in Seq(Requests)
    BY <1>1, <2>1, ConcatProperties
  <2>4. reads \o (<<command>> \o commandPort) \in Seq(Requests)
    BY <1>1, <2>3, ConcatProperties
  <2> QED  BY <1>1, <1>3, <2>1, <2>2, <2>4 DEF Sent
<1> QED  BY <1>2, <1>3

\* GetMsg(commandPort) keeps the order.
LEMMA TakingKeepsOrder ==
  ASSUME IInv, command = None, commandPort # <<>>
  PROVE  reads \o (<<Head(commandPort)>> \o Tail(commandPort)) = Sent
<1>1. commandPort \in Seq(Requests) /\ Sent = reads \o commandPort
  BY SentIs
<1> QED  BY <1>1, HeadAndTail

\* So does holding the read that was taken.
LEMMA HoldingKeepsOrder ==
  ASSUME IInv, command # None
  PROVE  Append(reads, command) \o commandPort = Sent
<1>1. command \in Requests /\ reads \in Seq(Requests) /\ commandPort \in Seq(Requests)
      /\ Sent = reads \o (<<command>> \o commandPort)
  BY SentIs
<1>2. <<command>> \in Seq(Requests)
  BY <1>1
<1>3. Append(reads, command) = reads \o <<command>>
  BY <1>1, AppendIsConcat
<1>4. (reads \o <<command>>) \o commandPort = reads \o (<<command>> \o commandPort)
  BY <1>1, <1>2, ConcatAssociative
<1> QED  BY <1>1, <1>3, <1>4

\* Where no reply is marked or linked, what is marked stays as it is,
LEMMA SameMarked ==
  ASSUME Marked, UNCHANGED <<type, inUse, replyPort, order, at, current, replying>>,
         cpc' # "link" \/ cpc' = cpc
  PROVE  Marked'
BY DEF Marked, Aborting

\* and so does the order where nothing is sent, taken or answered.
LEMMA SameInLine ==
  ASSUME InLine, UNCHANGED <<cut, order, at, current>>, Sent' = Sent
  PROVE  InLine'
BY DEF InLine, Aborting

\* Nobody aborts while the console task works on the lists, or is not in the way of others.
LEMMA NobodyAborts ==
  ASSUME IInv, InLine, cpc \notin {"wait", "lock"}
  PROVE  (\A t \in Tasks : ~Aborting(t)) /\ Sent = order
BY ConstantTypes DEF IInv, Locked, InLine, Aborting

\* Steps that handle no read keep the order.
LEMMA QuietStepsOrder ==
  ASSUME IInv, Ordered,
         ConsoleWakes \/ ConsoleLocks \/ ConsolePastes \/ ConsoleInput \/ ConsoleEventDone \/ HandlerSends
  PROVE  Ordered'
<1>1. /\ UNCHANGED <<type, inUse, replyPort, order, at, current, replying>>
      /\ UNCHANGED <<cut, reads, command, commandPort>>
      /\ cpc' # "link" \/ cpc' = cpc
  BY DEF ConsoleWakes, ConsoleLocks, ConsolePastes, ConsoleInput, ConsoleEventDone, HandlerSends, Goto,
     ioVars, ioPart, inputPart, taskPart
<1> QED  BY <1>1, SameMarked, SameInLine DEF Ordered, Sent

\* A read taken from the port was the next one in line,
LEMMA CommandOrder ==
  ASSUME IInv, Ordered, ConsoleCommand
  PROVE  Ordered'
<1>1. /\ UNCHANGED <<type, inUse, replyPort, order, at, current, replying, reads>>
      /\ cpc = "command" /\ cpc' # "link" /\ command = None
  BY DEF ConsoleCommand, Goto, ioVars, IInv, Registers, Answering
<1>2. CASE commandPort # <<>> /\ command' = Head(commandPort) /\ commandPort' = Tail(commandPort)
           /\ cut' = (cut /\ Len(commandPort) > 1)
  <2>1. commandPort \in Seq(Requests) /\ Head(commandPort) # None
    BY <1>2, ConstantTypes, TailAny DEF IInv, TypeOK
  <2>2. command' \in Requests /\ command' # None
    BY <1>2, <2>1, ConstantTypes, TailAny
  <2>3. /\ <<command'>> \in Seq(Requests) /\ commandPort' \in Seq(Requests)
        /\ reads \in Seq(Requests)
    BY <1>2, <2>1, <2>2, TailAny DEF IInv, TypeOK
  <2>4. Sent' = (reads \o <<command'>>) \o commandPort'
    BY <2>2, <1>1 DEF Sent
  <2>5. Sent' = reads \o (<<command'>> \o commandPort')
    BY <2>3, <2>4, ConcatAssociative
  <2>6. Sent' = Sent
    BY <2>5, <1>1, <1>2, TakingKeepsOrder
  <2>7. ~cut /\ ~cut'
    BY <1>2 DEF Ordered, InLine
  <2> QED  BY <1>1, <2>6, <2>7, SameMarked DEF Ordered, InLine, Aborting
<1>3. CASE UNCHANGED <<commandPort, cut, command>>
  <2>1. Sent' = Sent
    BY <1>1, <1>3 DEF Sent
  <2> QED  BY <1>1, <1>3, <2>1, SameMarked, SameInLine DEF Ordered
<1> QED  BY <1>2, <1>3 DEF ConsoleCommand

\* The read that is answered is the first of those not answered.
LEMMA AnswerOrder ==
  ASSUME IInv, Ordered, NEW r \in Requests, NEW p, AnswerRead(r, p), cpc \notin {"wait", "lock"},
         order # <<>>, r = Head(order), Sent' = Tail(order),
         UNCHANGED <<inUse, replyPort, cut, at, current>>
  PROVE  Ordered'
<1>1. order \in Seq(Requests) /\ IsInjective(order)
  BY DEF IInv, TypeOK, Ordered, InLine
<1>2. order' = Tail(order)
  BY <1>1, RemoveHead DEF AnswerRead
<1>3. IsInjective(Tail(order)) /\ ToSet(Tail(order)) = ToSet(order) \ {r} /\ r \in ToSet(order)
  BY <1>1, TailList
<1>4. \A t \in Tasks : ~Aborting(t) /\ ~Aborting(t)'
  BY NobodyAborts DEF Ordered, Aborting
<1>5. /\ \A x \in Requests : type'[x] = IF x = r THEN "reply" ELSE type[x]
      /\ replying' = r /\ cpc' = "link"
  BY AnswerFacts
<1>6. inUse \subseteq Requests /\ Owner[r] \in Tasks
  BY ConstantTypes DEF IInv, TypeOK, IOTypeOK
<1>7. /\ ToSet(order) = {x \in inUse : type[x] = "message"}
      /\ \A x \in inUse : type[x] # "none"
      /\ \A t \in Tasks : /\ IsInjective(replyPort[t])
                          /\ \A x \in ToSet(replyPort[t]) : type[x] = "reply" /\ x \in inUse
  BY DEF Ordered, Marked
<1>8. r \in inUse /\ type[r] = "message"
  BY <1>3, <1>7
<1>9. \A t \in Tasks : r \notin ToSet(replyPort[t])
  BY <1>7, <1>8
<1>10. ToSet(order') = {x \in inUse : type'[x] = "message"}
  BY <1>2, <1>3, <1>5, <1>6, <1>7
<1>11. \A t \in Tasks : \A x \in ToSet(replyPort[t]) : type'[x] = "reply" /\ x \in inUse
  BY <1>5, <1>6, <1>7
<1>12. \A x \in inUse : type'[x] # "none"
  BY <1>5, <1>6, <1>7
<1>13. Marked'
  BY <1>4, <1>5, <1>6, <1>7, <1>8, <1>9, <1>10, <1>11, <1>12 DEF Marked
<1>14. InLine'
  BY <1>2, <1>3, <1>4 DEF Ordered, InLine
<1> QED  BY <1>13, <1>14 DEF Ordered

\* A CMD_READ is answered at once only if no read is held.
LEMMA ReadTakesFirst ==
  ASSUME IInv, Ordered, cpc = "read", chars # 0, command \in Requests
  PROVE  reads = <<>> /\ order # <<>> /\ Head(order) = command /\ Tail(order) = commandPort
<1>1. reads = <<>>
  BY DEF IInv, Fed, Answering
<1>2. command # None
  BY ConstantTypes
<1>3. Sent = reads \o (<<command>> \o commandPort) /\ commandPort \in Seq(Requests) /\ Sent = order
  BY <1>2, SentIs, NobodyAborts DEF Ordered
<1>4. <<command>> \in Seq(Requests) /\ <<command>> # <<>> /\ Head(<<command>>) = command
      /\ Tail(<<command>>) = <<>>
  OBVIOUS
<1>5. <<command>> \o commandPort \in Seq(Requests)
  BY <1>3, <1>4, ConcatProperties
<1>6. order = <<command>> \o commandPort
  BY <1>1, <1>3, <1>5, ConcatEmptySeq
<1>7. /\ <<command>> \o commandPort # <<>>
      /\ Head(<<command>> \o commandPort) = Head(<<command>>)
      /\ Tail(<<command>> \o commandPort) = Tail(<<command>>) \o commandPort
  BY <1>3, <1>4, FrontList
<1>8. <<>> \o commandPort = commandPort
  BY <1>3, ConcatEmptySeq
<1> QED  BY <1>1, <1>4, <1>6, <1>7, <1>8

\* queues behind those held,
LEMMA ReadOrder ==
  ASSUME IInv, Ordered, ConsoleRead
  PROVE  Ordered'
<1>1. /\ cpc = "read" /\ command \in Requests /\ command' = None /\ replying = None
      /\ UNCHANGED <<replyPort, current, inUse, commandPort, cut, at>>
  BY DEF ConsoleRead, IInv, TypeOK, Registers
<1>2. CASE chars # 0 /\ AnswerRead(command, "command") /\ UNCHANGED reads
  <2>1. reads = <<>> /\ order # <<>> /\ Head(order) = command /\ Tail(order) = commandPort
    BY <1>1, <1>2, ReadTakesFirst
  <2>2. Sent' = commandPort
    <3>1. commandPort \in Seq(Requests) /\ <<>> \in Seq(Requests)
      BY DEF IInv, TypeOK
    <3>2. <<>> \o <<>> = <<>> /\ <<>> \o commandPort = commandPort
      BY <3>1, ConcatEmptySeq
    <3>3. Sent' = (<<>> \o <<>>) \o commandPort
      BY <1>1, <1>2, <2>1 DEF Sent
    <3> QED  BY <3>2, <3>3
  <2> QED  BY <1>1, <1>2, <2>1, <2>2, AnswerOrder
<1>3. CASE reads' = Append(reads, command) /\ cpc' = "command" /\ UNCHANGED <<type, replying, order>>
  <2>1. command # None
    BY <1>1, ConstantTypes
  <2>2. Append(reads, command) \in Seq(Requests) /\ commandPort \in Seq(Requests)
    BY <1>1, AppendList DEF IInv, TypeOK
  <2>3. Append(reads, command) \o <<>> = Append(reads, command)
    BY <2>2, ConcatEmptySeq
  <2>4. Sent' = Append(reads, command) \o commandPort
    BY <1>1, <1>3, <2>3 DEF Sent
  <2>5. Sent' = Sent
    BY <2>1, <2>4, HoldingKeepsOrder
  <2> QED  BY <1>1, <1>3, <2>5, SameMarked, SameInLine DEF Ordered
<1> QED  BY <1>2, <1>3 DEF ConsoleRead, Goto, Held

\* A read that is held is answered before those not looked at.
LEMMA HeldTakesFirst ==
  ASSUME IInv, Ordered, cpc = "answer", reads # <<>>
  PROVE  /\ order # <<>> /\ Head(order) = Head(reads)
         /\ reads' = Tail(reads) /\ UNCHANGED <<command, commandPort>> => Sent' = Tail(order)
<1> DEFINE u == IF command = None THEN commandPort ELSE <<command>> \o commandPort
           x == IF command = None THEN <<>> ELSE <<command>>
<1>1. /\ Sent = order /\ reads \in Seq(Requests) /\ commandPort \in Seq(Requests)
      /\ Sent = reads \o u
  BY SentIs, NobodyAborts DEF Ordered
<1>2. x \in Seq(Requests) /\ x \o commandPort = u
  <2>1. command = None \/ <<command>> \in Seq(Requests)
    BY DEF IInv, TypeOK
  <2>2. <<>> \o commandPort = commandPort /\ <<>> \in Seq(Requests)
    BY <1>1, ConcatEmptySeq
  <2>3. CASE command = None
    BY <2>2, <2>3
  <2>4. CASE command # None
    BY <2>1, <2>4
  <2> QED  BY <2>3, <2>4
<1> HIDE DEF u
<1>3. u \in Seq(Requests)
  BY <1>1, <1>2, ConcatProperties
<1>4. order # <<>> /\ Head(order) = Head(reads) /\ Tail(order) = Tail(reads) \o u
  BY <1>1, <1>3, FrontList
<1>5. ASSUME reads' = Tail(reads), UNCHANGED <<command, commandPort>> PROVE Sent' = Tail(order)
  <2>1. Tail(reads) \in Seq(Requests)
    BY <1>1, TailAny
  <2>2. Sent' = (Tail(reads) \o x) \o commandPort
    BY <1>5 DEF Sent
  <2> HIDE DEF x
  <2>3. (Tail(reads) \o x) \o commandPort = Tail(reads) \o (x \o commandPort)
    <3> DEFINE y == Tail(reads)
    <3>1. x \in Seq(Requests) /\ y \in Seq(Requests) /\ commandPort \in Seq(Requests)
      BY <1>1, <1>2, <2>1
    <3> HIDE DEF y
    <3>2. (y \o x) \o commandPort = y \o (x \o commandPort)
      BY <3>1, ConcatAssociative
    <3> QED  BY <3>2 DEF y
  <2> QED  BY <2>2, <2>3, <1>2, <1>4
<1> QED  BY <1>4, <1>5

\* is answered when it is the first of them,
LEMMA AnswersOrder ==
  ASSUME IInv, Ordered, ConsoleAnswers
  PROVE  Ordered'
<1>1. /\ cpc = "answer" /\ UNCHANGED <<replyPort, current, inUse, commandPort, cut, at, command>>
  BY DEF ConsoleAnswers
<1>2. CASE reads # <<>> /\ AnswerRead(Head(reads), "answer") /\ reads' = Tail(reads)
  <2>1. Head(reads) \in Requests
    BY <1>2, TailAny DEF IInv, TypeOK
  <2>2. order # <<>> /\ Head(order) = Head(reads) /\ Sent' = Tail(order)
    BY <1>1, <1>2, HeldTakesFirst
  <2> QED  BY <1>1, <1>2, <2>1, <2>2, AnswerOrder
<1>3. CASE cpc' = after /\ UNCHANGED <<type, replying, reads, order>>
  <2>1. cpc' # "link"
    BY <1>3 DEF IInv, Registers
  <2>2. Sent' = Sent
    BY <1>1, <1>3 DEF Sent
  <2> QED  BY <1>1, <1>3, <2>1, <2>2, SameMarked, SameInLine DEF Ordered
<1> QED  BY <1>2, <1>3 DEF ConsoleAnswers, Goto

\* is linked when it has left the line,
LEMMA LinksOrder ==
  ASSUME IInv, Ordered, ConsoleLinks
  PROVE  Ordered'
<1> DEFINE o == Owner[replying]
<1>1. /\ cpc = "link" /\ cpc' = "tell" /\ replying \in Requests /\ o \in Tasks /\ replying # None
      /\ replyPort' = [replyPort EXCEPT ![o] = Append(@, replying)]
      /\ UNCHANGED <<type, current, inUse, cut, reads, commandPort, command, replying, at, order>>
  BY ConstantTypes DEF ConsoleLinks, Goto, IInv, TypeOK, Registers, ioPart
<1>2. /\ replyPort \in [Tasks -> Seq(Requests)] /\ replying \notin ToSet(replyPort[o])
      /\ type[replying] = "reply" /\ replying \in inUse
      /\ \A t \in Tasks : IsInjective(replyPort[t])
      /\ \A t \in Tasks : \A r \in ToSet(replyPort[t]) : type[r] = "reply" /\ r \in inUse
  BY <1>1 DEF IInv, TypeOK, IOTypeOK, Ordered, Marked
<1>3. /\ IsInjective(Append(replyPort[o], replying))
      /\ ToSet(Append(replyPort[o], replying)) = ToSet(replyPort[o]) \cup {replying}
  BY <1>1, <1>2, AppendList
<1>4. /\ \A t \in Tasks \ {o} : replyPort'[t] = replyPort[t]
      /\ replyPort'[o] = Append(replyPort[o], replying)
  BY <1>1, <1>2
<1>5. \A t \in Tasks : /\ IsInjective(replyPort'[t])
                       /\ \A r \in ToSet(replyPort'[t]) : type[r] = "reply" /\ r \in inUse
  BY <1>2, <1>3, <1>4
<1>6. Marked'
  BY <1>1, <1>5 DEF Ordered, Marked, Aborting
<1>7. InLine'
  BY <1>1, SameInLine DEF Ordered, Sent
<1> QED  BY <1>6, <1>7 DEF Ordered

\* and is let go of when the task was told.
LEMMA TellsOrder ==
  ASSUME IInv, Ordered, ConsoleTells
  PROVE  Ordered'
<1>1. /\ cpc' \in {"command", "answer"} /\ replying' = None
      /\ UNCHANGED <<type, current, inUse, replyPort, cut, reads, commandPort, command, at, order>>
  BY DEF ConsoleTells, Goto, IInv, Registers, ioPart
<1>2. Marked'
  BY <1>1 DEF Ordered, Marked, Aborting
<1>3. InLine'
  BY <1>1, SameInLine DEF Ordered, Sent
<1> QED  BY <1>2, <1>3 DEF Ordered

\* A task that is below the console task runs only when that has nothing in hand.
LEMMA Undisturbed ==
  ASSUME Below, IInv, NEW t \in Tasks, Runs(t)
  PROVE  cpc \in {"wait", "lock"} /\ replying = None /\ command = None
<1>1. cpc \in {"wait", "lock"}
  BY DEF Runs, Asleep
<1> QED  BY <1>1 DEF IInv, Registers, Answering

\* A read is sent to the end of the line.
LEMMA SendReadOrder ==
  ASSUME Below, Alone, IInv, Ordered, NEW t \in Tasks, NEW r \in Requests, NEW q \in BOOLEAN,
         SendRead(t, r, q)
  PROVE  Ordered'
<1>1. /\ pc[t] = "run" /\ r \notin inUse /\ Owner[r] = t
      /\ type' = [type EXCEPT ![r] = "message"] /\ inUse' = inUse \cup {r}
      /\ order' = Append(order, r) /\ at' = [at EXCEPT ![t] = "tell"]
      /\ UNCHANGED <<replyPort, reads, command, replying, cpc>>
  BY DEF SendRead, Enters, OwnedBy, taskPart
<1>2. replying = None /\ command = None /\ cpc # "link"
  BY Undisturbed DEF SendRead
<1>3. /\ at[t] = "out" /\ \A u \in Tasks : at'[u] = IF u = t THEN "tell" ELSE at[u]
      /\ \A x \in Requests : type'[x] = IF x = r THEN "message" ELSE type[x]
      /\ inUse \subseteq Requests
  BY <1>1 DEF IInv, TypeOK, IOTypeOK, OwnReads
<1>4. \A u \in Tasks : at[u] \notin {"locked", "unlinking", "cutting"}
  <2> SUFFICES ASSUME NEW u \in Tasks, at[u] \in {"locked", "unlinking", "cutting"} PROVE FALSE
    OBVIOUS
  <2>1. u \in Aborters
    BY DEF Ordered, InLine
  <2>2. Owner[r] = u
    BY <2>1 DEF Alone, OwnedBy
  <2> QED  BY <2>2, <1>1, <1>3
<1>5. /\ ~cut /\ ~cut' /\ commandPort' = Append(commandPort, r)
  BY <1>4 DEF Ordered, InLine, SendRead
<1>6. \A u \in Tasks : ~Aborting(u) /\ ~Aborting(u)' /\ at'[u] \notin {"locked", "unlinking", "cutting"}
  BY <1>3, <1>4 DEF Aborting
<1>7. /\ ToSet(order) = {x \in inUse : type[x] = "message"} /\ IsInjective(order)
      /\ \A x \in inUse : type[x] # "none"
      /\ \A u \in Tasks : /\ IsInjective(replyPort[u])
                          /\ \A x \in ToSet(replyPort[u]) : type[x] = "reply" /\ x \in inUse
  BY DEF Ordered, Marked, InLine
<1>8. order \in Seq(Requests) /\ r \notin ToSet(order)
  BY <1>1, <1>7 DEF IInv, TypeOK
<1>9. ToSet(order') = ToSet(order) \cup {r} /\ IsInjective(order')
  BY <1>1, <1>7, <1>8, AppendList
<1>10. ToSet(order') = {x \in inUse' : type'[x] = "message"}
  BY <1>1, <1>3, <1>7, <1>9
<1>11. \A x \in inUse' : type'[x] # "none"
  BY <1>1, <1>3, <1>7
<1>12. \A u \in Tasks : \A x \in ToSet(replyPort[u]) : type'[x] = "reply" /\ x \in inUse'
  BY <1>1, <1>3, <1>7
<1>13. Marked'
  BY <1>1, <1>2, <1>6, <1>7, <1>10, <1>11, <1>12 DEF Marked
<1>14. Sent' = order'
  <2>1. /\ reads \in Seq(Requests) /\ commandPort \in Seq(Requests) /\ order = reads \o commandPort
        /\ <<r>> \in Seq(Requests)
    BY <1>2, <1>6, SentIs DEF Ordered, InLine
  <2>2. commandPort' = commandPort \o <<r>> /\ order' = order \o <<r>>
    BY <1>1, <1>5, <1>8, <2>1, AppendIsConcat
  <2>3. (reads \o commandPort) \o <<r>> = reads \o (commandPort \o <<r>>)
    BY <2>1, ConcatAssociative
  <2>4. reads \o <<>> = reads
    BY <2>1, ConcatEmptySeq
  <2>5. Sent' = reads \o commandPort'
    BY <1>1, <1>2, <2>4 DEF Sent
  <2> QED  BY <2>1, <2>2, <2>3, <2>5
<1>15. InLine'
  BY <1>5, <1>6, <1>9, <1>14 DEF InLine
<1> QED  BY <1>13, <1>15 DEF Ordered

\* The steps of a task that leave the reads alone.
LEMMA SmallStepsOrder ==
  ASSUME IInv, Ordered, NEW t \in Tasks,
         \/ TellConsole(t) \/ Inject(t) \/ InjectSignals(t) \/ AbortUnlocks(t)
         \/ \E r \in Requests : AbortLocks(t, r)
  PROVE  Ordered'
<1>1. /\ UNCHANGED <<type, inUse, replyPort, order, cut, reads, commandPort, command, replying, cpc>>
  BY DEF TellConsole, Inject, InjectSignals, AbortUnlocks, AbortLocks, ioPart, taskPart
<1>2. PICK p \in {"out", "injected", "locked"} : at' = [at EXCEPT ![t] = p] /\ (p = "locked" => t \in Aborters)
  BY DEF TellConsole, Inject, InjectSignals, AbortUnlocks, AbortLocks, Leaves, Enters
<1>3. ~Aborting(t) /\ \A u \in Tasks \ {t} : current'[u] = current[u]
  <2>1. CASE TellConsole(t)
    BY <2>1 DEF TellConsole, Aborting
  <2>2. CASE Inject(t)
    BY <2>2 DEF Inject, Aborting, IInv, OwnReads
  <2>3. CASE InjectSignals(t)
    BY <2>3 DEF InjectSignals, Aborting
  <2>4. CASE AbortUnlocks(t)
    BY <2>4 DEF AbortUnlocks, Aborting, IInv, TypeOK, IOTypeOK
  <2>5. CASE \E r \in Requests : AbortLocks(t, r)
    <3>1. PICK r \in Requests : current' = [current EXCEPT ![t] = r] /\ pc[t] = "run"
      BY <2>5 DEF AbortLocks
    <3>2. current \in [Tasks -> Requests \cup {None}]
      BY DEF IInv, TypeOK, IOTypeOK
    <3>3. at[t] = "out"
      BY <3>1 DEF IInv, OwnReads
    <3> QED  BY <3>1, <3>2, <3>3 DEF Aborting
  <2> QED  BY <2>1, <2>2, <2>3, <2>4, <2>5
<1>4. /\ \A u \in Tasks : Aborting(u)' <=> Aborting(u)
      /\ \A u \in Tasks : Aborting(u) => current'[u] = current[u]
      /\ \A u \in Tasks : at'[u] \in {"locked", "unlinking", "cutting"}
                             => u \in Aborters \/ at[u] \in {"locked", "unlinking", "cutting"}
  BY <1>2, <1>3 DEF Aborting, IInv, TypeOK
<1>5. Marked'
  BY <1>1, <1>4 DEF Ordered, Marked
<1>6. Sent' = Sent
  BY <1>1 DEF Sent
<1>7. InLine'
  BY <1>1, <1>4, <1>6 DEF Ordered, InLine
<1> QED  BY <1>5, <1>7 DEF Ordered

\* AbortIO() takes one out of the middle,
LEMMA AbortUnlinksOrder ==
  ASSUME Below, IInv, Ordered, NEW t \in Tasks, AbortUnlinks(t)
  PROVE  Ordered'
<1>1. /\ at[t] = "locked" /\ cpc \in {"wait", "lock"} /\ command = None
      /\ UNCHANGED <<type, inUse, replyPort, order, cut, command, replying, cpc, current>>
  BY Undisturbed DEF AbortUnlinks, GoesTo, ioPart, taskPart
<1>2. PICK p \in {"unlock", "unlinking", "cutting"} : at' = [at EXCEPT ![t] = p]
  BY DEF AbortUnlinks, GoesTo
<1>3. \A u \in Tasks : at'[u] = IF u = t THEN p ELSE at[u]
  BY <1>2 DEF IInv, TypeOK
<1>4. \A u \in Tasks : ~Aborting(u) /\ (u # t => ~Aborting(u)')
  BY <1>1, <1>3, ConstantTypes DEF IInv, Locked, Aborting
<1>5. Sent = order /\ Sent = reads \o commandPort
  BY <1>1, <1>4, SentIs DEF Ordered, InLine
<1>6. current[t] \in inUse /\ type[current[t]] # "none" /\ current[t] \in Requests
  BY <1>1 DEF IInv, TypeOK, IOTypeOK, OwnReads, UsesCurrent, Ordered, Marked
<1>7. t \in Aborters
  BY <1>1 DEF Ordered, InLine
<1>8. CASE type[current[t]] = "reply"
  <2>1. p = "unlock" /\ UNCHANGED <<reads, commandPort>>
    <3>1. at' = [at EXCEPT ![t] = "unlock"] /\ UNCHANGED <<reads, commandPort>>
      BY <1>8 DEF AbortUnlinks, GoesTo, ioPart
    <3> QED  BY <3>1, <1>3 DEF IInv, TypeOK
  <2>2. \A u \in Tasks : ~Aborting(u)'
    BY <2>1, <1>3, <1>4 DEF Aborting
  <2>3. Marked'
    BY <2>2, <1>1 DEF Ordered, Marked
  <2>4. InLine'
    BY <2>1, <2>2, <1>1, <1>3, <1>5 DEF Ordered, InLine, Sent
  <2> QED  BY <2>3, <2>4 DEF Ordered
<1>9. CASE type[current[t]] # "reply"
  <2>1. type[current[t]] = "message"
    BY <1>6, <1>9 DEF IInv, TypeOK, IOTypeOK
  <2>2. reads' = RemoveFirst(reads, current[t]) /\ commandPort' = RemoveFirst(commandPort, current[t])
    BY <1>9 DEF AbortUnlinks
  <2>3. Aborting(t)'
    <3>1. at'[t] \in {"unlinking", "cutting"}
      BY <1>9 DEF AbortUnlinks, GoesTo, IInv, TypeOK
    <3> QED  BY <3>1 DEF Aborting
  <2>4. Sent' = RemoveFirst(order, current[t])
    <3>1. reads \in Seq(Requests) /\ commandPort \in Seq(Requests) /\ IsInjective(reads \o commandPort)
      BY <1>5, SentIs DEF Ordered, InLine
    <3>2. RemoveFirst(reads \o commandPort, current[t])
            = RemoveFirst(reads, current[t]) \o RemoveFirst(commandPort, current[t])
      BY <3>1, RemoveFromBoth
    <3>3. reads' \in Seq(Requests)
      BY <2>2, <3>1, RemoveAny
    <3>4. reads' \o <<>> = reads'
      BY <3>3, ConcatEmptySeq
    <3>5. Sent' = reads' \o commandPort'
      BY <1>1, <3>4 DEF Sent
    <3> QED  BY <3>2, <3>5, <2>2, <1>5
  <2>5. Marked'
    BY <2>1, <1>1, <1>4 DEF Ordered, Marked
  <2>6. InLine'
    BY <2>3, <2>4, <1>1, <1>3, <1>4, <1>7 DEF Ordered, InLine
  <2> QED  BY <2>5, <2>6 DEF Ordered
<1> QED  BY <1>8, <1>9

\* and replies that one.
LEMMA AbortRepliesOrder ==
  ASSUME Below, IInv, Ordered, NEW t \in Tasks, AbortReplies(t)
  PROVE  Ordered'
<1> DEFINE r == current[t]
<1>1. /\ Aborting(t) /\ r \in inUse /\ Owner[r] = t /\ r \in Requests
      /\ type' = [type EXCEPT ![r] = "reply"] /\ PutReplies(<<r>>)
      /\ order' = RemoveFirst(order, r) /\ at' = [at EXCEPT ![t] = "unlock"]
      /\ UNCHANGED <<current, inUse, cut, reads, command, commandPort, replying, cpc>>
  BY DEF AbortReplies, GoesTo, IInv, TypeOK, IOTypeOK, OwnReads, UsesCurrent, Aborting, ioPart, taskPart
<1>2. replying = None /\ cpc # "link"
  BY Undisturbed DEF AbortReplies
<1>3. /\ type[r] = "message" /\ Sent = RemoveFirst(order, r)
      /\ ToSet(order) = {x \in inUse : type[x] = "message"} /\ IsInjective(order)
      /\ \A x \in inUse : type[x] # "none"
      /\ \A u \in Tasks : /\ IsInjective(replyPort[u])
                          /\ \A x \in ToSet(replyPort[u]) : type[x] = "reply" /\ x \in inUse
  BY <1>1 DEF Ordered, Marked, InLine
<1>4. \A u \in Tasks : at'[u] = IF u = t THEN "unlock" ELSE at[u]
  BY <1>1 DEF IInv, TypeOK
<1>5. \A u \in Tasks : ~Aborting(u)'
  BY <1>1, <1>4, ConstantTypes DEF IInv, Locked, Aborting
<1> HIDE DEF r
<1>6. /\ \A x \in Requests : type'[x] = IF x = r THEN "reply" ELSE type[x]
      /\ inUse \subseteq Requests
  BY <1>1 DEF IInv, TypeOK, IOTypeOK
<1>7. /\ ToSet(order') = ToSet(order) \ {r} /\ IsInjective(order')
  <2>1. order \in Seq(Requests)
    BY DEF IInv, TypeOK
  <2> QED  BY <2>1, <1>1, <1>3, RemoveList
<1>8. ToSet(order') = {x \in inUse : type'[x] = "message"}
  BY <1>3, <1>6, <1>7
<1>9. ASSUME NEW u \in Tasks
      PROVE  /\ IsInjective(replyPort'[u])
             /\ \A x \in ToSet(replyPort'[u]) : type'[x] = "reply" /\ x \in inUse
  <2> DEFINE z == <<r>>
             w == replyPort[u]
             v == Part(z, u)
  <2>1. z \in Seq(Requests) /\ IsInjective(z) /\ ToSet(z) = {r}
    BY <1>1, OneList
  <2>2. replyPort'[u] = w \o v /\ w \in Seq(Requests) /\ IsInjective(w)
        /\ \A x \in ToSet(w) : type[x] = "reply" /\ x \in inUse
    BY <1>1, <1>3 DEF PutReplies, IInv, TypeOK, IOTypeOK
  <2> HIDE DEF z
  <2>3. v \in Seq(Requests) /\ IsInjective(v) /\ ToSet(v) = {x \in ToSet(z) : Owner[x] = u}
    BY <2>1, PartList
  <2>4. r \notin ToSet(w)
    BY <2>2, <1>3
  <2> HIDE DEF w, v
  <2>5. ToSet(w) \cap ToSet(v) = {}
    BY <2>1, <2>3, <2>4
  <2>6. /\ ToSet(w \o v) = ToSet(w) \cup ToSet(v)
        /\ IsInjective(w) /\ IsInjective(v) /\ ToSet(w) \cap ToSet(v) = {} => IsInjective(w \o v)
    BY <2>2, <2>3, ConcatList
  <2>7. \A x \in ToSet(w \o v) : x = r \/ x \in ToSet(w)
    BY <2>1, <2>3, <2>6
  <2> QED  BY <2>2, <2>3, <2>5, <2>6, <2>7, <1>1, <1>6
<1>10. \A x \in inUse : type'[x] # "none"
  BY <1>3, <1>6
<1>11. Marked'
  BY <1>1, <1>2, <1>5, <1>8, <1>9, <1>10 DEF Marked
<1>12. Sent' = order'
  BY <1>1, <1>3 DEF Sent
<1>13. \A u \in Tasks : at'[u] \in {"locked", "unlinking", "cutting"} => u \in Aborters
  BY <1>4 DEF Ordered, InLine
<1>14. InLine'
  BY <1>1, <1>5, <1>7, <1>12, <1>13 DEF Ordered, InLine
<1> QED  BY <1>11, <1>14 DEF Ordered

\* Who takes a reply off its port leaves the line as it is,
LEMMA LeavingOrder ==
  ASSUME IInv, Ordered, NEW t \in Tasks, NEW r, NEW s, Leaving(t, r, s), replying = None,
         cpc # "link", IsInjective(s), r \notin ToSet(s), type[r] = "reply"
  PROVE  Ordered'
<1>1. /\ pc[t] \in {"run", "testio"}
      /\ \A x \in ToSet(s) : x \in ToSet(replyPort[t])
      /\ replyPort' = [replyPort EXCEPT ![t] = s] /\ inUse' = inUse \ {r}
      /\ \A u \in Tasks \ {t} : current'[u] = current[u]
      /\ UNCHANGED <<type, cut, reads, commandPort, command, at, order, replying, cpc>>
  BY DEF Leaving, devVars, ioPart, taskPart
<1>2. \A u \in Tasks : replyPort'[u] = IF u = t THEN s ELSE replyPort[u]
  BY <1>1 DEF IInv, TypeOK, IOTypeOK
<1>3. ~Aborting(t)
  BY <1>1 DEF IInv, OwnReads, Aborting
<1>4. \A u \in Tasks : Aborting(u) => Aborting(u)' /\ current'[u] = current[u]
  BY <1>1, <1>3 DEF Aborting
<1>5. \A u \in Tasks \ {t} : r \notin ToSet(replyPort[u])
  BY DEF Leaving, IInv, Delivered
<1>6. Marked'
  <2>1. ToSet(order) = {x \in inUse' : type[x] = "message"}
    BY <1>1 DEF Ordered, Marked
  <2>2. \A u \in Tasks : /\ IsInjective(replyPort'[u])
                         /\ \A x \in ToSet(replyPort'[u]) : type[x] = "reply" /\ x \in inUse'
    BY <1>1, <1>2, <1>5 DEF Ordered, Marked
  <2> QED  BY <2>1, <2>2, <1>1, <1>3 DEF Ordered, Marked, Aborting
<1>7. InLine'
  <2>1. Sent' = Sent
    BY <1>1 DEF Sent
  <2> QED  BY <2>1, <1>1, <1>3 DEF Ordered, InLine, Aborting
<1> QED  BY <1>6, <1>7 DEF Ordered

\* and so do clients in general.
LEMMA ClientOrder ==
  ASSUME Below, IInv, Ordered, NEW t \in Tasks, Client(t)
  PROVE  Ordered'
<1>1. /\ replying = None /\ cpc # "link" /\ ClientStep(t) /\ UNCHANGED devVars
      /\ UNCHANGED <<replying, cpc, order, at, cut, reads, commandPort, command>>
  BY Undisturbed DEF Client, devVars, ioPart, taskPart
<1>2. /\ replyPort[t] \in Seq(Requests) /\ IsInjective(replyPort[t])
      /\ \A x \in ToSet(replyPort[t]) : type[x] = "reply"
  BY DEF IInv, TypeOK, IOTypeOK, Ordered, Marked
<1>3. ASSUME TestIO(t), ~Busy(current[t]) PROVE Ordered'
  <2>1. pc[t] = "testio" /\ current[t] \in inUse /\ current[t] \in Requests
    BY <1>3 DEF TestIO, IInv, TypeOK, IOTypeOK, OwnReads, UsesCurrent
  <2>2. type[current[t]] = "reply"
    BY <1>3, <2>1 DEF Busy, IInv, TypeOK, IOTypeOK, OwnReads, Ordered, Marked
  <2>3. replyPort'[t] = RemoveFirst(replyPort[t], current[t])
    BY <1>3, <2>2 DEF TestIO, IInv, TypeOK, IOTypeOK
  <2>4. IsInjective(replyPort'[t]) /\ ToSet(replyPort'[t]) = ToSet(replyPort[t]) \ {current[t]}
    BY <1>2, <2>3, RemoveList
  <2> QED  BY <1>1, <1>3, <2>2, <2>4, TestLeaves, LeavingOrder
<1>4. ASSUME GetMsg(t) PROVE Ordered'
  <2>1. replyPort[t] # <<>>
    BY <1>4 DEF GetMsg
  <2>2. /\ IsInjective(Tail(replyPort[t])) /\ Head(replyPort[t]) \in ToSet(replyPort[t])
        /\ ToSet(Tail(replyPort[t])) = ToSet(replyPort[t]) \ {Head(replyPort[t])}
    BY <1>2, <2>1, TailList
  <2> QED  BY <1>1, <1>2, <1>4, <2>2, GetLeaves, LeavingOrder
<1>5. ASSUME UNCHANGED <<type, inUse, replyPort>>, pc[t] # "device",
             \A u \in Tasks \ {t} : current'[u] = current[u]
      PROVE  Ordered'
  <2>1. ~Aborting(t)
    BY <1>5 DEF IInv, OwnReads, Aborting
  <2>2. Marked'
    BY <2>1, <1>1, <1>5 DEF Ordered, Marked, Aborting
  <2>3. Sent' = Sent
    BY <1>1 DEF Sent
  <2>4. InLine'
    BY <2>1, <2>3, <1>1, <1>5 DEF Ordered, InLine, Aborting
  <2> QED  BY <2>2, <2>4 DEF Ordered
<1>6. ASSUME (\E r \in Requests : WaitIO(t, r)) \/ (TestIO(t) /\ Busy(current[t])) \/ Wake(t) \/ WaitPort(t)
      PROVE  Ordered'
  <2>1. /\ UNCHANGED <<type, inUse, replyPort>> /\ pc[t] # "device"
        /\ \A u \in Tasks \ {t} : current'[u] = current[u]
    BY <1>6 DEF WaitIO, TestIO, Wake, WaitPort, IInv, TypeOK, IOTypeOK
  <2> QED  BY <2>1, <1>5
<1> QED  BY <1>1, <1>3, <1>4, <1>6 DEF ClientStep

\* The line is empty at first,
LEMMA InitOrder ==
  ASSUME Init
  PROVE  Ordered
<1>1. /\ order = <<>> /\ reads = <<>> /\ commandPort = <<>> /\ command = None /\ ~cut
      /\ inUse = {} /\ replying = None /\ cpc = "wait"
      /\ \A t \in Tasks : replyPort[t] = <<>> /\ at[t] = "out"
  BY DEF Init, IOInit
<1>2. <<>> \in Seq(Requests)
  OBVIOUS
<1>3. <<>> \o <<>> = <<>>
  BY <1>2, ConcatEmptySeq
<1>4. Sent = order
  BY <1>1, <1>3 DEF Sent
<1> QED  BY <1>1, <1>4, EmptyList DEF Ordered, Marked, InLine, Aborting

\* and every step keeps its order,
LEMMA NextOrder ==
  ASSUME Below, Alone, IInv, Ordered, [Next]_vars
  PROVE  Ordered'
<1>1. CASE ConsoleStep \/ HandlerSends
  BY <1>1, QuietStepsOrder, CommandOrder, ReadOrder, AnswersOrder, LinksOrder, TellsOrder DEF ConsoleStep
<1>2. ASSUME NEW t \in Tasks, TaskStep(t) PROVE Ordered'
  BY <1>2, SendReadOrder, SmallStepsOrder, AbortUnlinksOrder, AbortRepliesOrder, ClientOrder
     DEF TaskStep, InsideDevice
<1>3. CASE UNCHANGED vars
  <2>1. /\ UNCHANGED <<type, inUse, replyPort, order, at, current, replying>>
        /\ UNCHANGED <<cut, reads, command, commandPort, cpc>>
    BY <1>3 DEF vars, ioVars, devVars, ioPart, taskPart
  <2> QED  BY <2>1, SameMarked, SameInLine DEF Ordered, Sent
<1> QED  BY <1>1, <1>2, <1>3 DEF Next

\* so that it is kept always.
LEMMA OrderInvariant == ASSUME Below, Alone PROVE Spec => []Ordered
<1>1. Init => Ordered
  BY InitOrder
<1>2. IInv /\ Ordered /\ [Next]_vars => Ordered'
  BY NextOrder
<1> QED  BY <1>1, <1>2, Invariance, PTL DEF Spec

\* Who is in line is on the port, held or in hand: no command is lost.
LEMMA OrderedLosesNone ==
  ASSUME IInv, Ordered
  PROVE  NoCommandLost
<1> SUFFICES ASSUME NEW r \in inUse, type[r] = "message"
             PROVE  \/ r \in ToSet(commandPort \o reads) /\ IsInjective(commandPort \o reads)
                    \/ r = command
                    \/ \E t \in Tasks : current[t] = r /\ at[t] \in {"unlinking", "cutting"}
  BY DEF NoCommandLost
<1>1. r \in ToSet(order) /\ IsInjective(order) /\ order \in Seq(Requests)
  BY DEF Ordered, Marked, InLine, IInv, TypeOK
<1>2. CASE \E t \in Tasks : Aborting(t) /\ current[t] = r
  BY <1>2 DEF Aborting
<1>3. CASE ~\E t \in Tasks : Aborting(t) /\ current[t] = r
  <2>1. r \in ToSet(Sent) /\ IsInjective(Sent)
    <3>1. CASE \A t \in Tasks : ~Aborting(t)
      BY <3>1, <1>1 DEF Ordered, InLine
    <3>2. ASSUME NEW t \in Tasks, Aborting(t) PROVE r \in ToSet(Sent) /\ IsInjective(Sent)
      <4>1. Sent = RemoveFirst(order, current[t]) /\ current[t] # r
        BY <3>2, <1>3 DEF Ordered, InLine
      <4> QED  BY <4>1, <1>1, RemoveList
    <3> QED  BY <3>1, <3>2
  <2>2. CASE command = None
    <3>1. Sent = reads \o commandPort /\ reads \in Seq(Requests) /\ commandPort \in Seq(Requests)
      BY <2>2, SentIs
    <3>2. IsInjective(reads \o commandPort) /\ r \in ToSet(reads \o commandPort)
      BY <3>1, <2>1
    <3>3. IsInjective(commandPort \o reads)
      BY <3>1, <3>2, BothLists
    <3>4. ToSet(reads \o commandPort) = ToSet(reads) \cup ToSet(commandPort)
      BY <3>1, ConcatList
    <3>5. ToSet(commandPort \o reads) = ToSet(commandPort) \cup ToSet(reads)
      BY <3>1, ConcatList
    <3> QED  BY <3>2, <3>3, <3>4, <3>5
  <2>3. CASE command # None /\ r # command
    <3> DEFINE u == <<command>> \o commandPort
    <3>1. /\ Sent = reads \o u /\ reads \in Seq(Requests) /\ commandPort \in Seq(Requests)
          /\ <<command>> \in Seq(Requests) /\ ToSet(<<command>>) = {command}
      BY <2>3, SentIs, OneList
    <3>2. u \in Seq(Requests) /\ ToSet(u) = {command} \cup ToSet(commandPort)
      <4> DEFINE v == <<command>>
      <4>1. v \in Seq(Requests) /\ ToSet(v) = {command} /\ u = v \o commandPort
        BY <3>1
      <4> HIDE DEF u, v
      <4>2. v \o commandPort \in Seq(Requests) /\ ToSet(v \o commandPort) = ToSet(v) \cup ToSet(commandPort)
        BY <3>1, <4>1, ConcatList
      <4> QED  BY <4>1, <4>2
    <3>3. IsInjective(reads \o u) /\ r \in ToSet(reads \o u)
      BY <2>1, <3>1
    <3> HIDE DEF u
    <3>4. IsInjective(reads) /\ IsInjective(u) /\ ToSet(reads) \cap ToSet(u) = {}
      BY <3>1, <3>2, <3>3, BothLists
    <3>5. IsInjective(commandPort)
      BY <3>1, <3>4, BothLists DEF u
    <3>6. ToSet(reads \o u) = ToSet(reads) \cup ToSet(u)
      BY <3>1, <3>2, ConcatList
    <3>7. ToSet(commandPort) \cap ToSet(reads) = {}
      BY <3>2, <3>4
    <3>8. /\ ToSet(commandPort \o reads) = ToSet(commandPort) \cup ToSet(reads)
          /\ IsInjective(commandPort) /\ IsInjective(reads) /\ ToSet(commandPort) \cap ToSet(reads) = {}
               => IsInjective(commandPort \o reads)
      BY <3>1, ConcatList
    <3> QED  BY <2>3, <3>2, <3>3, <3>4, <3>5, <3>6, <3>7, <3>8
  <2> QED  BY <2>2, <2>3
<1> QED  BY <1>2, <1>3

\* While a task that aborts reads is the only one that sends any, and no task runs while the
\* console task has something to do, no read is lost on its way and none is in two places.
\* The run console_abort shows that it happens when another task sends.
THEOREM None_Lost == ASSUME Below, Alone PROVE Spec => []NoCommandLost
<1>1. IInv /\ Ordered => NoCommandLost
  BY OrderedLosesNone
<1> QED  BY <1>1, Invariance, OrderInvariant, PTL

\* One step of the system: the console task replies the read that was sent first.
LEMMA StepInOrder ==
  ASSUME IInv, Ordered, [Next]_vars, NEW r \in Requests, replying # r, replying' = r
  PROVE  r = Head(order)
<1>1. CASE ConsoleRead
  <2>1. chars # 0 /\ AnswerRead(command, "command") /\ cpc = "read" /\ command \in Requests
    BY <1>1 DEF ConsoleRead, IInv, TypeOK, Registers
  <2>2. r = command
    BY <2>1 DEF AnswerRead
  <2> QED  BY <2>1, <2>2, ReadTakesFirst
<1>2. CASE ConsoleAnswers
  <2>1. reads # <<>> /\ AnswerRead(Head(reads), "answer") /\ cpc = "answer"
    BY <1>2 DEF ConsoleAnswers
  <2>2. r = Head(reads)
    BY <2>1 DEF AnswerRead
  <2> QED  BY <2>1, <2>2, HeldTakesFirst
<1>3. ASSUME UNCHANGED replying \/ replying' = None PROVE FALSE
  BY <1>3, ConstantTypes
<1>4. ASSUME ConsoleStep, ~ConsoleRead, ~ConsoleAnswers PROVE UNCHANGED replying \/ replying' = None
  BY <1>4 DEF ConsoleStep, ConsoleWakes, ConsoleLocks, ConsolePastes, ConsoleInput, ConsoleEventDone,
     ConsoleCommand, ConsoleLinks, ConsoleTells
<1>5. ASSUME NEW t \in Tasks, TaskStep(t) PROVE UNCHANGED replying
  <2>1. CASE InsideDevice(t)
    BY <2>1 DEF InsideDevice, TellConsole, InjectSignals, AbortUnlinks, AbortReplies, AbortUnlocks, taskPart
  <2>2. CASE Client(t) \/ Inject(t)
    BY <2>2 DEF Client, Inject, devVars, taskPart
  <2>3. CASE \E x \in Requests : AbortLocks(t, x) \/ \E q \in BOOLEAN : SendRead(t, x, q)
    BY <2>3 DEF AbortLocks, SendRead, taskPart
  <2> QED  BY <1>5, <2>1, <2>2, <2>3 DEF TaskStep
<1>6. CASE HandlerSends \/ UNCHANGED vars
  BY <1>3, <1>6 DEF HandlerSends, vars, devVars, taskPart
<1> QED  BY <1>1, <1>2, <1>3, <1>4, <1>5, <1>6 DEF Next

\* Under the same assumptions reads get the input in the order they were sent in, whatever is
\* held, on the port, or aborted when it comes.
THEOREM In_Order == ASSUME Below, Alone PROVE Spec => ReadsInOrder
<1>1. IInv /\ Ordered /\ [Next]_vars
        => [\A r \in Requests : replying # r /\ replying' = r => r = Head(order)]_vars
  BY StepInOrder
<1> QED  BY <1>1, Invariance, OrderInvariant, PTL DEF Spec, ReadsInOrder
=============================================================================
