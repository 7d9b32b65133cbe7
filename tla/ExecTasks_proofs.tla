-------------------------- MODULE ExecTasks_proofs --------------------------
(***************************************************************************)
(* Proofs about ExecTasks for any set of tasks and any choice of which are *)
(* processes of NP_NotifyOnDeath and of NP_Synchronous: the families, the  *)
(* ownership of the ETasks, the signal of ChildWait() and the hand-over to *)
(* the service task.                                                       *)
(***************************************************************************)
EXTENDS ExecTasks, SequenceTheorems, TLAPS

\* Two tasks never create the same one, it exists while they do, and has not run.
Making ==
  /\ \A t \in Tasks : Runs(t, "make") =>
       /\ life[target[t]] = "added"
       /\ \A u \in Tasks \ {t} : Runs(u, "make") => target[u] # target[t]
  /\ \A t \in Tasks : life[t] \in {"none", "added"} => pc[t] = "run"

\* The inductive invariant.
IInv == /\ TypeOK
        /\ FamilyAgrees
        /\ EtasksAccounted
        /\ NoMissedChild
        /\ RemovedOnce
        /\ Making

-----------------------------------------------------------------------------
(* CleanupETask() of a task of a family, with the change of its state.  It is what three *)
(* actions do.                                                                           *)

LeavesAs(u, d) ==
  /\ u \in Members
  /\ d \in {"removed", "gone"}
  /\ CleanupETask(u)
  /\ life' = [life EXCEPT ![u] = d]
  /\ leaked' = leaked

\* It keeps the types.
LEMMA CleanupTypes ==
  ASSUME TypeOK, NEW u \in Tasks, NEW d, LeavesAs(u, d)
  PROVE  /\ life' \in [Tasks -> {"none", "added", "live", "removed", "gone"}]
         /\ parent' \in [Tasks -> Tasks \cup {Null}]
         /\ children' \in [Tasks -> SUBSET Tasks]
         /\ port' \in [Tasks -> SUBSET Tasks]
         /\ etasks' \subseteq Tasks /\ leaked' \subseteq Tasks /\ childSig' \subseteq Tasks
BY TaskConstantsOK DEF TypeOK, LeavesAs, CleanupETask, Adopt, Reports

\* It only adds signals, and the parent has one when it has got an ETask.
LEMMA CleanupSignals ==
  ASSUME TypeOK, NEW u \in Tasks, NEW d, LeavesAs(u, d)
  PROVE  /\ childSig \subseteq childSig'
         /\ \A p \in Tasks : port'[p] # port[p] => p = u \/ p \in childSig'
         /\ Members' = Members \ {u}
BY TaskConstantsOK DEF TypeOK, LeavesAs, CleanupETask, Reports, Members

\* It keeps the families together: the children of u go to the parent of u.
LEMMA CleanupFamily ==
  ASSUME TypeOK, FamilyAgrees, NEW u \in Tasks, NEW d, LeavesAs(u, d)
  PROVE  FamilyAgrees'
<1> DEFINE q == parent[u]
<1>1. Members' = Members \ {u}
  BY CleanupSignals
<1>2. \A c \in Tasks : parent'[c] = IF c = u THEN Null ELSE IF c \in children[u] THEN q ELSE parent[c]
  BY DEF TypeOK, LeavesAs, CleanupETask, Adopt
<1>3. \A p \in Tasks : children'[p] = IF p = u THEN {}
                                      ELSE IF p = q THEN (children[q] \ {u}) \cup children[u]
                                      ELSE children[p]
  BY DEF TypeOK, LeavesAs, CleanupETask
<1>4. \A p, c \in Tasks : c \in children[p] <=> c \in Members /\ parent[c] = p
  BY DEF FamilyAgrees
<1>5. \A c \in Members : parent[c] # Null => Live(parent[c])
  BY DEF FamilyAgrees
<1>6. \A S \in SUBSET Members : S # {} => \E c \in S : parent[c] \notin S
  BY DEF FamilyAgrees
<1>7. u \in Members /\ q # u /\ q \in Tasks \cup {Null} /\ Null \notin Tasks
  <2>1. u \in Members /\ q \in Tasks \cup {Null} /\ Null \notin Tasks
    BY TaskConstantsOK DEF LeavesAs, TypeOK
  <2>2. {u} \in SUBSET Members
    BY <2>1
  <2>3. q # u
    BY <2>2, <1>6
  <2> QED  BY <2>1, <2>3
<1>8. \A p, c \in Tasks : c \in children'[p] <=> c \in Members' /\ parent'[c] = p
  <2> TAKE p, c \in Tasks
  <2>1. CASE c = u
    <3>1. u \notin children[u]
      BY <1>4, <1>7
    <3>2. p # u /\ p # q => u \notin children[p]
      BY <1>4
    <3> QED  BY <2>1, <3>1, <3>2, <1>1, <1>3
  <2>2. CASE c # u /\ c \in children[u]
    <3>1. c \in Members /\ parent[c] = u /\ parent'[c] = q /\ c \in Members'
      BY <2>2, <1>1, <1>2, <1>4
    <3>2. p # u => (c \in children'[p] <=> p = q)
      BY <2>2, <3>1, <1>3, <1>4
    <3> QED  BY <3>1, <3>2, <1>3, <1>7
  <2>3. CASE c # u /\ c \notin children[u]
    <3>1. parent'[c] = parent[c] /\ (c \in Members' <=> c \in Members)
      BY <2>3, <1>1, <1>2
    <3>2. c \in Members => parent[c] # u
      BY <2>3, <1>4
    <3>3. p # u => (c \in children'[p] <=> c \in children[p])
      BY <2>3, <1>3
    <3> QED  BY <3>1, <3>2, <3>3, <1>3, <1>4
  <2> QED  BY <2>1, <2>2, <2>3
<1>9. \A c \in Members' : parent'[c] # Null => life'[parent'[c]] = "live"
  <2> SUFFICES ASSUME NEW c \in Members', parent'[c] # Null
               PROVE  life'[parent'[c]] = "live"
    OBVIOUS
  <2>1. c \in Members /\ c # u /\ c \in Tasks
    BY <1>1 DEF Members
  <2>2. parent'[c] # u /\ parent'[c] \in Tasks /\ Live(parent'[c])
    <3>1. CASE c \in children[u]
      BY <3>1, <2>1, <1>2, <1>5, <1>7
    <3>2. CASE c \notin children[u]
      BY <3>2, <2>1, <1>2, <1>4, <1>5 DEF TypeOK
    <3> QED  BY <3>1, <3>2
  <2> QED  BY <2>2 DEF Live, LeavesAs, TypeOK
<1>10. \A S \in SUBSET Members' : S # {} => \E c \in S : parent'[c] \notin S
  <2> SUFFICES ASSUME NEW S \in SUBSET Members', S # {}
               PROVE  \E c \in S : parent'[c] \notin S
    OBVIOUS
  <2>1. S \in SUBSET Members /\ u \notin S /\ S \cup {u} \in SUBSET Members /\ S \subseteq Tasks
    BY <1>1, <1>7 DEF Members
  <2>2. PICK c \in S : parent[c] \notin S
    BY <2>1, <1>6
  <2>3. PICK e \in S \cup {u} : parent[e] \notin S \cup {u}
    BY <2>1, <1>6
  <2>4. CASE c \notin children[u]
    BY <2>4, <2>2, <2>1, <1>2
  <2>5. CASE c \in children[u] /\ e = u
    BY <2>5, <2>3, <2>1, <1>2
  <2>6. CASE e # u
    <3>1. e \in S /\ e \notin children[u]
      BY <2>6, <2>3, <2>1, <1>4
    <3> QED  BY <3>1, <2>3, <2>1, <1>2
  <2> QED  BY <2>4, <2>5, <2>6
<1> QED  BY <1>8, <1>9, <1>10 DEF FamilyAgrees, Members, Live

\* It keeps the ETasks accounted for: that of u goes to the port of the parent or is freed,
\* and those on the port of u are freed.
LEMMA CleanupEtasks ==
  ASSUME TypeOK, FamilyAgrees, EtasksAccounted, NEW u \in Tasks, NEW d, LeavesAs(u, d)
  PROVE  EtasksAccounted'
<1> DEFINE q == parent[u]
           listed == UNION {port[p] : p \in Tasks}
<1>1. Members' = Members \ {u} /\ u \in Members /\ Members \subseteq Tasks
  BY CleanupSignals DEF LeavesAs, Members
<1>2. /\ etasks = Members \cup listed \cup leaked
      /\ \A c \in listed \cup leaked : life[c] \in {"removed", "gone"}
      /\ listed \subseteq Notify \ leaked
      /\ \A p \in Tasks : /\ port[p] # {} => Live(p)
                          /\ \A r \in Tasks \ {p} : port[p] \cap port[r] = {}
  BY DEF EtasksAccounted
<1>3. u \notin listed \cup leaked
  BY <1>1, <1>2 DEF Members
<1>4. q # u /\ (q # Null => q \in Tasks /\ Live(q)) /\ Null \notin Tasks
  <2>1. {u} \in SUBSET Members
    BY <1>1
  <2> QED  BY <1>1, <2>1, TaskConstantsOK DEF FamilyAgrees, TypeOK
<1>5. \A p \in Tasks : port'[p] = IF p = u THEN {}
                                  ELSE IF Reports(u) /\ p = q THEN port[p] \cup {u}
                                  ELSE port[p]
  BY DEF LeavesAs, CleanupETask, TypeOK
<1>6. /\ etasks' = (etasks \ port[u]) \ (IF Reports(u) THEN {} ELSE {u})
      /\ leaked' = leaked
  BY DEF LeavesAs, CleanupETask
<1>7. \A p, r \in Tasks : \A c : c \in port[p] /\ c \in port[r] => p = r
  BY <1>2
<1> DEFINE after == UNION {port'[p] : p \in Tasks}
<1>8. \A c : c \in listed <=> \E p \in Tasks : c \in port[p]
  OBVIOUS
<1>9. \A c : c \in after <=> \E p \in Tasks : c \in port'[p]
  OBVIOUS
<1> HIDE DEF listed, after
<1>10. \A c : c \in after <=> (c \in listed /\ c \notin port[u]) \/ (Reports(u) /\ c = u)
  <2> TAKE c
  <2>1. ASSUME NEW p \in Tasks, c \in port'[p]
        PROVE  (c \in listed /\ c \notin port[u]) \/ (Reports(u) /\ c = u)
    <3>1. p # u /\ (c \in port[p] \/ (Reports(u) /\ c = u))
      BY <2>1, <1>5
    <3> QED  BY <3>1, <1>7, <1>8
  <2>2. ASSUME c \in listed, c \notin port[u]
        PROVE  \E r \in Tasks : c \in port'[r]
    <3>1. PICK p \in Tasks : c \in port[p] /\ p # u
      BY <2>2, <1>8
    <3> QED  BY <3>1, <1>5
  <2>3. ASSUME Reports(u), c = u
        PROVE  \E r \in Tasks : c \in port'[r]
    BY <2>3, <1>5, <1>4 DEF Reports
  <2> QED  BY <2>1, <2>2, <2>3, <1>9
<1>11. etasks' = Members' \cup after \cup leaked'
  <2>1. \A c : c \in port[u] => c \in listed /\ c \notin Members /\ c \notin leaked /\ c # u
    BY <1>1, <1>2, <1>3, <1>8 DEF Members
  <2>2. \A c : c \in etasks' <=> c \in Members' \/ c \in after \/ c \in leaked'
    BY <2>1, <1>1, <1>2, <1>3, <1>6, <1>10
  <2> QED  BY <2>2
<1>12. \A c \in Tasks : life'[c] = IF c = u THEN d ELSE life[c]
  BY DEF LeavesAs, TypeOK
<1>13. \A c \in after \cup leaked' : life'[c] \in {"removed", "gone"}
  <2>1. \A c \in listed \cup leaked : c \in Tasks
    BY <1>8 DEF TypeOK
  <2> QED  BY <2>1, <1>2, <1>6, <1>10, <1>12 DEF LeavesAs
<1>14. after \subseteq Notify \ leaked'
  BY <1>2, <1>3, <1>6, <1>10 DEF Reports
<1>15. \A p \in Tasks : port'[p] # {} => life'[p] = "live"
  <2> SUFFICES ASSUME NEW p \in Tasks, port'[p] # {}
               PROVE  life'[p] = "live"
    OBVIOUS
  <2>1. p # u /\ Live(p)
    BY <1>2, <1>4, <1>5 DEF Reports
  <2> QED  BY <2>1, <1>12 DEF Live
<1>16. \A p, r \in Tasks : \A c : c \in port'[p] /\ c \in port'[r] => p = r
  <2> TAKE p, r \in Tasks
  <2> TAKE c
  <2>1. c \in port[p] \/ c \in port[r] => c # u
    BY <1>3, <1>8
  <2> QED  BY <2>1, <1>5, <1>7
<1>17. \A p \in Tasks : /\ port'[p] # {} => Live(p)'
                        /\ \A r \in Tasks \ {p} : port'[p] \cap port'[r] = {}
  <2> TAKE p \in Tasks
  <2>1. \A r \in Tasks \ {p} : port'[p] \cap port'[r] = {}
    BY <1>16
  <2> QED  BY <2>1, <1>15 DEF Live
<1> QED  BY <1>11, <1>13, <1>14, <1>17 DEF EtasksAccounted, after

-----------------------------------------------------------------------------
(* The other steps. *)

\* A step that changes neither the families nor who exists.
LEMMA FamiliesKept ==
  ASSUME FamilyAgrees, EtasksAccounted, UNCHANGED <<life, family, leaked>>
  PROVE  FamilyAgrees' /\ EtasksAccounted'
BY DEF FamilyAgrees, EtasksAccounted, Members, Live, family

\* A step of one task that changes neither the families nor who exists keeps the rest as
\* well, if it does not begin to create a task and keeps its signal when it goes on to
\* wait in ChildWait().
LEMMA OwnStep ==
  ASSUME IInv, NEW t \in Tasks, TypeOK',
         Live(t), UNCHANGED <<life, family, leaked, service>>,
         \A u \in Tasks \ {t} : pc'[u] = pc[u] /\ target'[u] = target[u],
         pc'[t] = "make" => pc[t] = "make" /\ target'[t] = target[t],
         \A u \in childSig : u \in childSig' \/ u = t,
         pc'[t] = "childwait" => \A c \in port[t] : target'[t] \in {c, Null} => t \in childSig'
  PROVE  IInv'
<1>1. FamilyAgrees' /\ EtasksAccounted'
  BY FamiliesKept DEF IInv
<1>2. NoMissedChild'
  BY DEF IInv, NoMissedChild, Runs, Live, family
<1>3. RemovedOnce'
  BY DEF IInv, RemovedOnce
<1>4. Making'
  BY DEF IInv, Making, Runs, Live
<1> QED  BY <1>1, <1>2, <1>3, <1>4 DEF IInv

\* A new task enters the family of its creator.
LEMMA InitETaskKeeps ==
  ASSUME IInv, NEW t \in Tasks, NEW c \in Tasks, InitETask(t, c)
  PROVE  IInv'
<1> USE DEF IInv
<1>1. TypeOK'
  BY TaskConstantsOK DEF TypeOK, InitETask, Runs, Live, Goto, Places
<1>2. /\ \A e \in Tasks : life'[e] = IF e = c THEN "added" ELSE life[e]
      /\ \A e \in Tasks : parent'[e] = IF e = c THEN t ELSE parent[e]
      /\ \A p \in Tasks : children'[p] = IF p = t THEN children[p] \cup {c} ELSE children[p]
      /\ life[t] = "live" /\ life[c] = "none" /\ t # c
      /\ port' = port /\ leaked' = leaked /\ etasks' = etasks \cup {c} /\ service' = service
      /\ \A e \in Tasks : pc'[e] = IF e = t THEN "make" ELSE pc[e]
      /\ \A e \in Tasks : target'[e] = IF e = t THEN c ELSE target[e]
      /\ childSig' = childSig
  BY DEF TypeOK, InitETask, Runs, Live, Goto
<1>3. Members' = Members \cup {c} /\ c \notin Members /\ t \in Members
  BY <1>2 DEF Members
<1>4. FamilyAgrees'
  <2>1. \A p, e \in Tasks : e \in children'[p] <=> e \in Members' /\ parent'[e] = p
    <3>1. \A p \in Tasks : c \notin children[p]
      BY <1>3 DEF FamilyAgrees
    <3>2. \A p, e \in Tasks : e \in children[p] <=> e \in Members /\ parent[e] = p
      BY DEF FamilyAgrees
    <3> TAKE p, e \in Tasks
    <3>3. CASE e = c
      BY <3>1, <3>3, <1>2, <1>3
    <3>4. CASE e # c
      <4>1. e \in children'[p] <=> e \in children[p]
        <5>1. CASE p = t
          <6>1. children'[p] = children[p] \cup {c}
            BY <5>1, <1>2
          <6> QED  BY <6>1, <3>4
        <5>2. CASE p # t
          BY <5>2, <1>2
        <5> QED  BY <5>1, <5>2
      <4>2. parent'[e] = parent[e] /\ (e \in Members' <=> e \in Members)
        BY <3>4, <1>2, <1>3
      <4> QED  BY <3>2, <4>1, <4>2
    <3> QED  BY <3>3, <3>4
  <2>2. \A e \in Members' : parent'[e] # Null => life'[parent'[e]] = "live"
    <3> SUFFICES ASSUME NEW e \in Members', parent'[e] # Null
                 PROVE  life'[parent'[e]] = "live"
      OBVIOUS
    <3>1. CASE e = c
      BY <3>1, <1>2
    <3>2. CASE e # c
      <4>1. e \in Members /\ e \in Tasks /\ parent'[e] = parent[e] /\ parent[e] \in Tasks
        BY <3>2, <1>2, <1>3 DEF Members, TypeOK
      <4>2. life[parent[e]] = "live"
        BY <4>1 DEF FamilyAgrees, Live
      <4> QED  BY <4>1, <4>2, <1>2
    <3> QED  BY <3>1, <3>2
  <2>3. \A S \in SUBSET Members' : S # {} => \E e \in S : parent'[e] \notin S
    <3> SUFFICES ASSUME NEW S \in SUBSET Members', S # {}
                 PROVE  \E e \in S : parent'[e] \notin S
      OBVIOUS
    <3>1. CASE S = {c}
      BY <3>1, <1>2
    <3>2. CASE S # {c}
      <4>1. S \ {c} \in SUBSET Members /\ S \ {c} # {}
        BY <3>2, <1>3
      <4>2. PICK e \in S \ {c} : parent[e] \notin S \ {c}
        BY <4>1 DEF FamilyAgrees
      <4>3. e \in Tasks /\ e \in Members /\ parent'[e] = parent[e]
        BY <4>1, <1>2 DEF Members
      <4>4. parent[e] # c
        BY <4>3, <1>2, TaskConstantsOK DEF FamilyAgrees, Live
      <4> QED  BY <4>2, <4>3, <4>4
    <3> QED  BY <3>1, <3>2
  <2> QED  BY <2>1, <2>2, <2>3 DEF FamilyAgrees, Live, Members
<1>5. EtasksAccounted'
  <2> DEFINE listed == UNION {port[p] : p \in Tasks}
  <2>1. listed \cup leaked \subseteq Tasks
    BY DEF TypeOK
  <2>2. /\ etasks = Members \cup listed \cup leaked
        /\ \A e \in listed \cup leaked : life[e] \in {"removed", "gone"}
        /\ listed \subseteq Notify \ leaked
    BY DEF EtasksAccounted
  <2>3. \A p \in Tasks : /\ port[p] # {} => life[p] = "live"
                         /\ \A q \in Tasks \ {p} : port[p] \cap port[q] = {}
    BY DEF EtasksAccounted, Live
  <2>4. UNION {port'[p] : p \in Tasks} = listed
    BY <1>2
  <2> HIDE DEF listed
  <2>5. \A e \in listed \cup leaked : life'[e] \in {"removed", "gone"}
    BY <2>1, <2>2, <1>2
  <2>6. etasks' = Members' \cup listed \cup leaked
    BY <2>2, <1>2, <1>3
  <2>7. \A p \in Tasks : /\ port'[p] # {} => life'[p] = "live"
                         /\ \A q \in Tasks \ {p} : port'[p] \cap port'[q] = {}
    BY <2>3, <1>2
  <2> QED  BY <2>2, <2>4, <2>5, <2>6, <2>7, <1>2 DEF EtasksAccounted, Live
<1>6. NoMissedChild'
  BY <1>2 DEF NoMissedChild, Runs, Live
<1>7. RemovedOnce'
  BY <1>2 DEF RemovedOnce
<1>8. Making'
  <2>1. \A e \in Tasks : life[e] = "live" /\ pc[e] = "make" =>
          target[e] \in Tasks /\ target[e] # c /\ life[target[e]] = "added"
    BY <1>2 DEF Making, Runs, Live, TypeOK
  <2> QED  BY <2>1, <1>2 DEF Making, Runs, Live
<1> QED  BY <1>1, <1>4, <1>5, <1>6, <1>7, <1>8

\* The end of a task, or of the attempt to create one, whoever does it.
LEMMA LeavingKeeps ==
  ASSUME IInv, NEW u \in Tasks, NEW d, LeavesAs(u, d), TypeOK',
         RemovedOnce',
         \A e \in Tasks : \/ pc'[e] = pc[e] /\ target'[e] = target[e]
                          \/ pc'[e] = "run",
         \A e \in Tasks : Live(e) /\ pc'[e] = "make" => target[e] # u
  PROVE  IInv'
<1>1. FamilyAgrees' /\ EtasksAccounted'
  BY CleanupFamily, CleanupEtasks DEF IInv
<1>2. /\ \A e \in Tasks : life'[e] = IF e = u THEN d ELSE life[e]
      /\ d \in {"removed", "gone"}
  BY DEF LeavesAs, IInv, TypeOK
<1>3. childSig \subseteq childSig' /\ \A p \in Tasks : port'[p] # port[p] => p = u \/ p \in childSig'
  BY CleanupSignals DEF IInv
<1>4. NoMissedChild'
  BY <1>2, <1>3 DEF IInv, NoMissedChild, Runs, Live
<1>5. Making'
  <2>1. \A e \in Tasks : life[e] = "live" /\ pc'[e] = "make" =>
          target'[e] \in Tasks /\ target'[e] # u /\ life[target'[e]] = "added"
    BY DEF IInv, Making, Runs, Live, TypeOK
  <2> QED  BY <2>1, <1>2 DEF IInv, Making, Runs, Live
<1> QED  BY <1>1, <1>4, <1>5 DEF IInv

-----------------------------------------------------------------------------
(* The invariant. *)

\* The invariant holds at first.
LEMMA InitInv == Init => IInv
<1> SUFFICES ASSUME Init PROVE IInv
  OBVIOUS
<1> USE TaskConstantsOK DEF Init
<1>1. TypeOK
  BY DEF TypeOK, Places
<1>2. Members = {First}
  BY DEF Members
<1>3. FamilyAgrees
  BY <1>2 DEF FamilyAgrees, Live
<1>4. EtasksAccounted
  BY <1>2 DEF EtasksAccounted
<1>5. NoMissedChild /\ Making
  BY DEF NoMissedChild, Making, Runs
<1>6. RemovedOnce
  BY DEF RemovedOnce, ToSet, IsInjective
<1> QED  BY <1>1, <1>3, <1>4, <1>5, <1>6 DEF IInv

\* A task removes itself.
LEMMA RemSelfKeeps ==
  ASSUME IInv, NEW t \in Tasks, RemSelf(t)
  PROVE  IInv'
<1>1. LeavesAs(t, "removed")
  BY DEF RemSelf, LeavesAs, Runs, Live, Members
<1>2. TypeOK'
  BY <1>1, CleanupTypes DEF RemSelf, IInv, TypeOK
<1>3. /\ life[t] = "live" /\ service \in Seq(Tasks)
      /\ \A e \in Tasks : life[e] = "removed" <=> e \in ToSet(service)
      /\ IsInjective(service)
  BY DEF RemSelf, Runs, Live, IInv, TypeOK, RemovedOnce
<1>4. \A e \in Tasks : life'[e] = IF e = t THEN "removed" ELSE life[e]
  BY DEF RemSelf, IInv, TypeOK
<1>5. service' = Append(service, t)
  BY DEF RemSelf
<1>6. t \notin ToSet(service)
  BY <1>3
<1>7. ToSet(service') = ToSet(service) \cup {t}
  BY <1>3, <1>5 DEF ToSet
<1>8. IsInjective(service')
  BY <1>3, <1>5, <1>6 DEF ToSet, IsInjective
<1>9. RemovedOnce'
  BY <1>3, <1>4, <1>7, <1>8 DEF RemovedOnce
<1>10. \A e \in Tasks : Live(e) /\ pc'[e] = "make" => target[e] # t
  BY <1>3 DEF RemSelf, IInv, Making, Runs, Live
<1> QED  BY <1>1, <1>2, <1>9, <1>10, LeavingKeeps DEF RemSelf

\* The service task frees a removed task.
LEMMA ServiceTaskKeeps ==
  ASSUME IInv, ServiceTask
  PROVE  IInv'
<1> DEFINE h == Head(service)
<1>1. /\ service \in Seq(Tasks) /\ service # <<>>
      /\ \A e \in Tasks : life[e] = "removed" <=> e \in ToSet(service)
      /\ IsInjective(service)
  BY DEF ServiceTask, IInv, TypeOK, RemovedOnce
<1>2. h \in Tasks /\ h \in ToSet(service) /\ life[h] = "removed"
  BY <1>1 DEF ToSet
<1>3. service' = Tail(service) /\ life' = [life EXCEPT ![h] = "gone"]
  BY DEF ServiceTask
<1>4. UNCHANGED <<pc, target, parent, children, port, etasks, childSig, single, oldSingle,
                  waiting, granted, leaked>>
  BY DEF ServiceTask, family, signals
<1>5. TypeOK'
  BY <1>1, <1>2, <1>3, <1>4 DEF IInv, TypeOK
<1>6. \A e \in Tasks : life'[e] = IF e = h THEN "gone" ELSE life[e]
  BY <1>3 DEF IInv, TypeOK
<1>7. Members' = Members /\ \A e \in Tasks : Live(e)' <=> Live(e)
  BY <1>2, <1>6 DEF Members, Live
<1>8. FamilyAgrees'
  <2>1. \A e \in Members : parent[e] \in Tasks \cup {Null} /\ e \in Tasks
    BY DEF IInv, TypeOK, Members
  <2>2. \A e \in Members : parent[e] # Null => Live(parent[e])'
    BY <2>1, <1>4, <1>7 DEF IInv, FamilyAgrees
  <2> QED  BY <2>2, <1>4, <1>7 DEF IInv, FamilyAgrees
<1>9. EtasksAccounted'
  <2> DEFINE listed == UNION {port[p] : p \in Tasks}
  <2>1. listed \cup leaked \subseteq Tasks
    BY DEF IInv, TypeOK
  <2>2. \A c \in listed \cup leaked : life'[c] \in {"removed", "gone"}
    BY <2>1, <1>6 DEF IInv, EtasksAccounted
  <2> QED  BY <2>2, <1>4, <1>7 DEF IInv, EtasksAccounted
<1>10. NoMissedChild' /\ Making'
  <2> USE DEF Live
  <2>1. \A e \in Tasks : life[e] = "live" /\ pc[e] = "make" =>
          target[e] \in Tasks /\ life[target[e]] = "added"
    BY DEF IInv, Making, Runs, Live, TypeOK
  <2>2. NoMissedChild'
    BY <1>4, <1>7 DEF IInv, NoMissedChild, Runs
  <2>3. \A e \in Tasks : life[e] = "live" /\ pc[e] = "make" => life'[target[e]] = "added"
    BY <2>1, <1>2, <1>6
  <2>4. Making'
    <3>1. \A e \in Tasks : life'[e] \in {"none", "added"} => pc'[e] = "run"
      BY <1>4, <1>6 DEF IInv, Making
    <3>2. \A e \in Tasks : Runs(e, "make")' <=> Runs(e, "make")
      BY <1>4, <1>7 DEF Runs
    <3> QED  BY <2>3, <3>1, <3>2, <1>4 DEF IInv, Making, Runs
  <2> QED  BY <2>2, <2>4
<1>11. RemovedOnce'
  <2>1. /\ Len(service) \in Nat \ {0} /\ Len(service') = Len(service) - 1
        /\ \A i \in 1 .. Len(service') : service'[i] = service[i + 1]
        /\ h = service[1] /\ service' \in Seq(Tasks)
    BY <1>1, <1>3
  <2>2. DOMAIN service = 1 .. Len(service) /\ DOMAIN service' = 1 .. Len(service')
    BY <2>1, <1>1
  <2>3. IsInjective(service')
    BY <2>1, <2>2, <1>1 DEF IsInjective
  <2>4. \A e : e \in ToSet(service') <=> e \in ToSet(service) /\ e # h
    <3> TAKE e
    <3>1. ASSUME e \in ToSet(service')
          PROVE  e \in ToSet(service) /\ e # h
      <4>1. PICK i \in 1 .. Len(service') : e = service'[i]
        BY <3>1, <2>2 DEF ToSet
      <4>2. i + 1 \in 1 .. Len(service) /\ i + 1 # 1 /\ 1 \in 1 .. Len(service)
            /\ e = service[i + 1]
        BY <4>1, <2>1
      <4> QED  BY <4>2, <2>1, <2>2, <1>1 DEF ToSet, IsInjective
    <3>2. ASSUME e \in ToSet(service), e # h
          PROVE  e \in ToSet(service')
      <4>1. PICK i \in 1 .. Len(service) : e = service[i]
        BY <3>2, <2>2 DEF ToSet
      <4>2. i # 1
        BY <4>1, <3>2, <2>1
      <4>3. i - 1 \in 1 .. Len(service') /\ e = service'[i - 1]
        BY <4>1, <4>2, <2>1
      <4> QED  BY <4>3, <2>2 DEF ToSet
    <3> QED  BY <3>1, <3>2
  <2> QED  BY <2>3, <2>4, <1>1, <1>2, <1>6 DEF RemovedOnce
<1> QED  BY <1>5, <1>8, <1>9, <1>10, <1>11 DEF IInv

\* Another task is removed.
LEMMA RemTaskKeeps ==
  ASSUME IInv, NEW t \in Tasks, NEW u \in Tasks, RemTask(t, u)
  PROVE  IInv'
<1>1. life[u] = "live" /\ life' = [life EXCEPT ![u] = "gone"] /\ service' = service
  BY DEF RemTask, MayRemove
<1>2. LeavesAs(u, "gone")
  BY <1>1 DEF RemTask, LeavesAs, Members
<1>3. TypeOK'
  BY <1>2, CleanupTypes DEF RemTask, IInv, TypeOK
<1>4. RemovedOnce'
  BY <1>1 DEF IInv, TypeOK, RemovedOnce
<1>5. \A e \in Tasks : Live(e) /\ pc'[e] = "make" => target[e] # u
  BY <1>1 DEF RemTask, IInv, Making, Runs, Live
<1> QED  BY <1>2, <1>3, <1>4, <1>5, LeavingKeeps DEF RemTask

\* A task cannot be created.
LEMMA AddTaskFailsKeeps ==
  ASSUME IInv, NEW t \in Tasks, AddTaskFails(t)
  PROVE  IInv'
<1> DEFINE c == target[t]
<1>1. Runs(t, "make") /\ c \in Tasks /\ life[c] = "added"
  BY DEF AddTaskFails, IInv, TypeOK, Making, Runs, Live
<1>2. LeavesAs(c, "gone")
  BY <1>1 DEF AddTaskFails, LeavesAs, Members
<1>3. TypeOK'
  BY <1>2, CleanupTypes, TaskConstantsOK
     DEF AddTaskFails, RestoreSingle, Goto, Runs, IInv, TypeOK, Places
<1>4. RemovedOnce'
  BY <1>1 DEF AddTaskFails, IInv, TypeOK, RemovedOnce
<1>5. \A e \in Tasks : \/ pc'[e] = pc[e] /\ target'[e] = target[e]
                       \/ pc'[e] = "run"
  BY DEF AddTaskFails, Goto, IInv, TypeOK
<1>6. \A e \in Tasks : Live(e) /\ pc'[e] = "make" => target[e] # c
  BY <1>1 DEF AddTaskFails, Goto, IInv, TypeOK, Making, Runs
<1> QED  BY <1>2, <1>3, <1>4, <1>5, <1>6, LeavingKeeps, <1>1

\* A task is launched: its creator leaves "make".
LEMMA TaskLaunchKeeps ==
  ASSUME IInv, NEW t \in Tasks, TaskLaunch(t)
  PROVE  IInv'
<1> DEFINE c == target[t]
<1>1. life[t] = "live" /\ pc[t] = "make" /\ c \in Tasks /\ life[c] = "added"
  BY DEF TaskLaunch, IInv, TypeOK, Making, Runs, Live
<1>2. /\ \A e \in Tasks : life'[e] = IF e = c THEN "live" ELSE life[e]
      /\ \A e \in Tasks \ {t} : pc'[e] = pc[e] /\ target'[e] = target[e]
      /\ pc'[t] \in {"run", "sync"}
      /\ UNCHANGED <<parent, children, port, etasks, service, childSig, leaked>>
  BY DEF TaskLaunch, Goto, IInv, TypeOK, family, signals
<1>3. Members' = Members /\ \A e \in Tasks : Live(e) => Live(e)'
  BY <1>1, <1>2 DEF Members, Live
<1>4. TypeOK'
  BY <1>1, TaskConstantsOK DEF TaskLaunch, Goto, IInv, TypeOK, Places, family, signals
<1>5. FamilyAgrees'
  <2>1. \A e \in Members : parent[e] \in Tasks \cup {Null} /\ e \in Tasks
    BY DEF IInv, TypeOK, Members
  <2>2. \A e \in Members : parent[e] # Null => Live(parent[e])'
    BY <2>1, <1>2, <1>3 DEF IInv, FamilyAgrees
  <2> QED  BY <2>2, <1>2, <1>3 DEF IInv, FamilyAgrees
<1>6. EtasksAccounted'
  <2> DEFINE listed == UNION {port[p] : p \in Tasks}
  <2>1. listed \cup leaked \subseteq Tasks
    BY DEF IInv, TypeOK
  <2>2. \A e \in listed \cup leaked : life'[e] \in {"removed", "gone"}
    BY <2>1, <1>1, <1>2 DEF IInv, EtasksAccounted
  <2> QED  BY <2>2, <1>2, <1>3 DEF IInv, EtasksAccounted
<1>7. c # t /\ pc[c] = "run" /\ pc'[c] = "run"
  BY <1>1, <1>2 DEF IInv, Making
<1>8. \A e \in Tasks \ {c} : Live(e)' <=> Live(e)
  BY <1>2 DEF Live
<1>9. NoMissedChild'
  BY <1>2, <1>7, <1>8 DEF IInv, NoMissedChild, Runs
<1>10. RemovedOnce'
  BY <1>1, <1>2 DEF IInv, RemovedOnce
<1>11. Making'
  <2>1. \A e \in Tasks : Runs(e, "make")' =>
          /\ Runs(e, "make") /\ e # t /\ target'[e] = target[e]
          /\ target[e] \in Tasks /\ target[e] # c /\ life[target[e]] = "added"
    <3> TAKE e \in Tasks
    <3> HAVE Runs(e, "make")'
    <3>1. e # t /\ e # c
      BY <1>2, <1>7 DEF Runs
    <3>2. Runs(e, "make") /\ target'[e] = target[e]
      BY <3>1, <1>2, <1>8 DEF Runs
    <3>3. Runs(t, "make")
      BY <1>1 DEF Runs, Live
    <3>4. life[target[e]] = "added" /\ target[e] # c
      BY <3>1, <3>2, <3>3 DEF IInv, Making
    <3>5. target[e] \in Tasks \cup {Null} /\ target[e] # Null
      BY <3>2 DEF IInv, TypeOK, Runs
    <3> QED  BY <3>1, <3>2, <3>4, <3>5
  <2>2. \A e \in Tasks : life'[e] \in {"none", "added"} => pc'[e] = "run"
    BY <1>1, <1>2 DEF IInv, Making
  <2>3. \A e, u \in Tasks : e # u /\ Runs(e, "make")' /\ Runs(u, "make")' => target'[u] # target'[e]
    BY <2>1 DEF IInv, Making
  <2> QED  BY <2>1, <2>2, <2>3, <1>2 DEF Making
<1> QED  BY <1>4, <1>5, <1>6, <1>9, <1>10, <1>11 DEF IInv

\* Children that ended are freed.
LEMMA ChildFreeKeeps ==
  ASSUME IInv, NEW t \in Tasks, NEW c \in Tasks, ChildFree(t, c)
  PROVE  IInv'
<1>1. /\ c \in port[t] /\ life' = life /\ leaked' = leaked /\ etasks' = etasks \ {c}
      /\ \A p \in Tasks : port'[p] = IF p = t THEN port[t] \ {c} ELSE port[p]
      /\ UNCHANGED <<pc, target, parent, children, service, signals>>
  BY DEF ChildFree, IInv, TypeOK
<1>2. TypeOK'
  BY <1>1 DEF ChildFree, IInv, TypeOK, signals
<1>3. FamilyAgrees' /\ RemovedOnce' /\ Making'
  BY <1>1 DEF IInv, FamilyAgrees, RemovedOnce, Making, Members, Live, Runs
<1>4. EtasksAccounted'
  <2> DEFINE listed == UNION {port[p] : p \in Tasks}
             after == UNION {port'[p] : p \in Tasks}
  <2>1. /\ etasks = Members \cup listed \cup leaked
        /\ \A e \in listed \cup leaked : life[e] \in {"removed", "gone"}
        /\ listed \subseteq Notify \ leaked
        /\ \A p \in Tasks : /\ port[p] # {} => Live(p)
                            /\ \A q \in Tasks \ {p} : port[p] \cap port[q] = {}
    BY DEF IInv, EtasksAccounted
  <2>2. \A e : e \in after <=> e \in listed /\ e # c
    <3> TAKE e
    <3>1. ASSUME e \in listed, e # c
          PROVE  e \in after
      <4>1. PICK p \in Tasks : e \in port[p]
        BY <3>1
      <4>2. e \in port'[p]
        BY <4>1, <3>1, <1>1
      <4> QED  BY <4>2
    <3>2. ASSUME e \in after
          PROVE  e \in listed /\ e # c
      <4>1. PICK p \in Tasks : e \in port'[p]
        BY <3>2
      <4>2. e \in port[p] /\ e # c
        BY <4>1, <2>1, <1>1
      <4> QED  BY <4>2
    <3> QED  BY <3>1, <3>2
  <2>3. c \in listed /\ c \notin Members /\ c \notin leaked
    BY <1>1, <2>1 DEF Members
  <2>4. Members' = Members
    BY <1>1 DEF Members
  <2>5. \A p \in Tasks : /\ port'[p] # {} => Live(p)'
                         /\ \A q \in Tasks \ {p} : port'[p] \cap port'[q] = {}
    BY <2>1, <1>1 DEF Live
  <2> HIDE DEF listed, after
  <2>6. etasks' = Members' \cup after \cup leaked'
    BY <2>1, <2>2, <2>3, <2>4, <1>1
  <2>7. /\ \A e \in after \cup leaked' : life'[e] \in {"removed", "gone"}
        /\ after \subseteq Notify \ leaked'
    BY <2>1, <2>2, <1>1
  <2> QED  BY <2>5, <2>6, <2>7 DEF EtasksAccounted, after
<1>5. NoMissedChild'
  BY <1>1 DEF IInv, NoMissedChild, Runs, Live, signals
<1> QED  BY <1>2, <1>3, <1>4, <1>5 DEF IInv

\* Children are let go: those of cs that are in the family become orphans, one on the port
\* is taken from it.
LEMMA OrphansKeep ==
  ASSUME IInv, NEW t \in Tasks, NEW cs \in SUBSET Tasks, NEW gone \in SUBSET port[t],
         cs \cap Members \subseteq children[t],
         \A c \in Tasks : parent'[c] = IF c \in cs THEN Null ELSE parent[c],
         \A p \in Tasks : children'[p] = IF p = t THEN children[t] \ cs ELSE children[p],
         \A p \in Tasks : port'[p] = IF p = t THEN port[t] \ gone ELSE port[p],
         leaked' = leaked \cup gone,
         TypeOK', UNCHANGED <<life, pc, target, etasks, service, signals>>
  PROVE  IInv'
<1>1. Members' = Members /\ life' = life /\ Null \notin Tasks /\ Members \subseteq Tasks
  BY TaskConstantsOK DEF Members
<1>2. RemovedOnce' /\ Making'
  BY DEF IInv, RemovedOnce, Making, Live, Runs
<1>3. NoMissedChild'
  BY DEF IInv, NoMissedChild, Runs, Live, signals
<1>4. FamilyAgrees'
  <2>1. \A p, c \in Tasks : c \in children[p] <=> c \in Members /\ parent[c] = p
    BY DEF IInv, FamilyAgrees
  <2>2. \A p, c \in Tasks : c \in children'[p] <=> c \in Members' /\ parent'[c] = p
    <3> TAKE p, c \in Tasks
    <3>1. CASE c \in cs
      <4>1. p # t => c \notin children[p]
        BY <3>1, <2>1
      <4> QED  BY <3>1, <4>1, <1>1
    <3>2. CASE c \notin cs
      <4>1. c \in children'[p] <=> c \in children[p]
        <5>1. CASE p = t
          BY <5>1, <3>2
        <5>2. CASE p # t
          BY <5>2
        <5> QED  BY <5>1, <5>2
      <4> QED  BY <3>2, <4>1, <2>1, <1>1
    <3> QED  BY <3>1, <3>2
  <2>3. \A c \in Members : parent'[c] # Null => life'[parent'[c]] = "live"
    <3> TAKE c \in Members
    <3> HAVE parent'[c] # Null
    <3>1. parent'[c] = parent[c]
      BY <1>1
    <3> QED  BY <3>1, <1>1 DEF IInv, FamilyAgrees, Live
  <2>4. \A S \in SUBSET Members : S # {} => \E c \in S : parent'[c] \notin S
    <3> SUFFICES ASSUME NEW S \in SUBSET Members, S # {}
                 PROVE  \E c \in S : parent'[c] \notin S
      OBVIOUS
    <3>1. PICK c \in S : parent[c] \notin S
      BY DEF IInv, FamilyAgrees
    <3> QED  BY <3>1, <1>1
  <2> QED  BY <2>2, <2>3, <2>4, <1>1 DEF FamilyAgrees, Live
<1>5. EtasksAccounted'
  <2> DEFINE listed == UNION {port[p] : p \in Tasks}
             after == UNION {port'[p] : p \in Tasks}
  <2>1. /\ etasks = Members \cup listed \cup leaked
        /\ \A e \in listed \cup leaked : life[e] \in {"removed", "gone"}
        /\ listed \subseteq Notify \ leaked
        /\ \A p \in Tasks : /\ port[p] # {} => Live(p)
                            /\ \A q \in Tasks \ {p} : port[p] \cap port[q] = {}
    BY DEF IInv, EtasksAccounted
  <2>2. \A e : e \in after <=> e \in listed /\ e \notin gone
    <3> TAKE e
    <3>1. ASSUME e \in listed, e \notin gone
          PROVE  e \in after
      <4>1. PICK p \in Tasks : e \in port[p]
        BY <3>1
      <4>2. e \in port'[p]
        BY <4>1, <3>1
      <4> QED  BY <4>2
    <3>2. ASSUME e \in after
          PROVE  e \in listed /\ e \notin gone
      <4>1. PICK p \in Tasks : e \in port'[p]
        BY <3>2
      <4>2. e \in port[p] /\ e \notin gone
        BY <4>1, <2>1
      <4> QED  BY <4>2
    <3> QED  BY <3>1, <3>2
  <2>3. gone \subseteq listed
    OBVIOUS
  <2>5. \A p \in Tasks : /\ port'[p] # {} => Live(p)'
                         /\ \A q \in Tasks \ {p} : port'[p] \cap port'[q] = {}
    BY <2>1 DEF Live
  <2> HIDE DEF listed, after
  <2>6. etasks' = Members' \cup after \cup leaked'
    <3>1. \A e : e \in etasks' <=> e \in Members' \/ e \in after \/ e \in leaked'
      BY <2>1, <2>2, <2>3, <1>1
    <3> QED  BY <3>1
  <2>7. /\ \A e \in after \cup leaked' : life'[e] \in {"removed", "gone"}
        /\ after \subseteq Notify \ leaked'
    BY <2>1, <2>2, <2>3, <1>1
  <2> QED  BY <2>5, <2>6, <2>7 DEF EtasksAccounted, after
<1> QED  BY <1>2, <1>3, <1>4, <1>5 DEF IInv

\* A child that is let go keeps the invariant,
LEMMA ChildOrphanKeeps ==
  ASSUME IInv, NEW t \in Tasks, NEW c \in Tasks, ChildOrphan(t, c)
  PROVE  IInv'
<1> DEFINE gone == {c} \cap port[t]
           cs == {c}
<1>1. c \in children[t] => c \in Members
  BY DEF IInv, FamilyAgrees
<1>2. c \in port[t] => life[c] \in {"removed", "gone"}
  BY DEF IInv, EtasksAccounted
<1>3. leaked' = leaked \cup gone
  BY <1>1, <1>2 DEF ChildOrphan, Members
<1>4. cs \cap Members \subseteq children[t]
  BY <1>2 DEF ChildOrphan, Members
<1>5. TypeOK'
  BY <1>3 DEF ChildOrphan, IInv, TypeOK, signals
<1>6. /\ \A e \in Tasks : parent'[e] = IF e \in cs THEN Null ELSE parent[e]
      /\ \A p \in Tasks : children'[p] = IF p = t THEN children[t] \ cs ELSE children[p]
      /\ \A p \in Tasks : port'[p] = IF p = t THEN port[t] \ gone ELSE port[p]
  BY DEF ChildOrphan, IInv, TypeOK
<1>7. gone \in SUBSET port[t] /\ cs \in SUBSET Tasks
  OBVIOUS
<1>8. UNCHANGED <<life, pc, target, etasks, service, signals>>
  BY DEF ChildOrphan
<1> HIDE DEF gone, cs
<1> QED  BY <1>3, <1>4, <1>5, <1>6, <1>7, <1>8, OrphansKeep

\* and so do all of them.
LEMMA ChildOrphanAllKeeps ==
  ASSUME IInv, NEW t \in Tasks, ChildOrphanAll(t)
  PROVE  IInv'
<1> DEFINE cs == children[t]
           gone == port[t] \cap {}
<1>1. cs \in SUBSET Tasks /\ cs \cap Members \subseteq children[t]
  BY DEF IInv, TypeOK
<1>2. TypeOK'
  BY DEF ChildOrphanAll, IInv, TypeOK, signals
<1>3. /\ \A e \in Tasks : parent'[e] = IF e \in cs THEN Null ELSE parent[e]
      /\ \A p \in Tasks : children'[p] = IF p = t THEN children[t] \ cs ELSE children[p]
      /\ \A p \in Tasks : port'[p] = IF p = t THEN port[t] \ gone ELSE port[p]
  BY DEF ChildOrphanAll, IInv, TypeOK
<1>4. UNCHANGED <<life, pc, target, etasks, service, signals>>
  BY DEF ChildOrphanAll
<1>5. leaked' = leaked \cup gone /\ gone \in SUBSET port[t]
  BY DEF ChildOrphanAll
<1> HIDE DEF cs, gone
<1> QED  BY <1>1, <1>2, <1>3, <1>4, <1>5, OrphansKeep

\* The scan of ChildWait() leaves nothing unsignalled behind.
LEMMA ScanPortKeeps ==
  ASSUME IInv, NEW t \in Tasks, NEW x \in Tasks \cup {Null}, Live(t),
         ScanPort(t, x, childSig) \/ ScanPort(t, x, childSig \ {t}),
         UNCHANGED <<life, family, service, single, oldSingle, waiting, granted, leaked>>
  PROVE  IInv'
<1>1. TypeOK'
  BY TaskConstantsOK DEF ScanPort, Goto, IInv, TypeOK, Places, family
<1>2. \A u \in Tasks \ {t} : pc'[u] = pc[u] /\ target'[u] = target[u]
  BY DEF ScanPort, Goto, IInv, TypeOK
<1>3. pc'[t] \in {"run", "childwait"} /\ \A u \in childSig : u \in childSig' \/ u = t
  BY DEF ScanPort, Goto, IInv, TypeOK
<1>4. pc'[t] = "childwait" => target'[t] = x /\ ~Found(t, x)
  BY DEF ScanPort, Goto, IInv, TypeOK
<1> QED  BY <1>1, <1>2, <1>3, <1>4, OwnStep DEF Found

\* The invariant is inductive.
LEMMA NextInv == IInv /\ [Next]_vars => IInv'
<1> SUFFICES ASSUME IInv, [Next]_vars PROVE IInv'
  OBVIOUS
<1> USE DEF Live, Runs, Goto
<1>1. CASE UNCHANGED vars
  BY <1>1 DEF vars, family, signals, IInv, TypeOK, FamilyAgrees, EtasksAccounted, NoMissedChild,
              RemovedOnce, Making, Members
<1>2. CASE ServiceTask
  BY <1>2, ServiceTaskKeeps
<1>3. ASSUME NEW t \in Tasks, AddTaskFails(t) \/ TaskLaunch(t) \/ ChildOrphanAll(t) \/ RemSelf(t)
      PROVE  IInv'
  BY <1>3, AddTaskFailsKeeps, TaskLaunchKeeps, ChildOrphanAllKeeps, RemSelfKeeps
<1>4. ASSUME NEW t \in Tasks, NEW c \in Tasks,
             InitETask(t, c) \/ ChildFree(t, c) \/ ChildOrphan(t, c) \/ RemTask(t, c)
      PROVE  IInv'
  BY <1>4, InitETaskKeeps, ChildFreeKeeps, ChildOrphanKeeps, RemTaskKeeps
<1>5. ASSUME NEW t \in Tasks, NEW x \in Tasks \cup {Null}, ChildWait(t, x)
      PROVE  IInv'
  BY <1>5, ScanPortKeeps DEF ChildWait
<1>6. ASSUME NEW t \in Tasks, ChildWake(t)
      PROVE  IInv'
  <2>1. target[t] \in Tasks \cup {Null}
    BY DEF IInv, TypeOK
  <2> QED  BY <1>6, <2>1, ScanPortKeeps DEF ChildWake
<1>7. ASSUME NEW t \in Tasks,
             \/ SyncTest(t) \/ SyncWake(t) \/ Exit(t) \/ ClearFlag(t) \/ SyncSignal(t)
             \/ ReadParent(t) \/ TellParent(t)
             \/ ObtainSemaphore(t) \/ GrantSemaphore(t) \/ SemaphoreObtained(t)
      PROVE  IInv'
  <2>1. /\ life[t] = "live" /\ life' = life /\ service' = service /\ leaked' = leaked
        /\ UNCHANGED family
    BY <1>7 DEF SyncTest, SyncWake, Exit, ClearFlag, SyncSignal, ReadParent, TellParent,
                ObtainSemaphore, GrantSemaphore, SemaphoreObtained, family
  <2>2. /\ \A u \in Tasks \ {t} : pc'[u] = pc[u] /\ target'[u] = target[u]
        /\ pc'[t] \notin {"make", "childwait"}
    BY <1>7 DEF SyncTest, SyncWake, Exit, ClearFlag, SyncSignal, ReadParent, TellParent,
                ObtainSemaphore, GrantSemaphore, SemaphoreObtained, IInv, TypeOK
  <2>3. childSig \subseteq childSig'
    BY <1>7 DEF SyncTest, SyncWake, Exit, ClearFlag, SyncSignal, ReadParent, TellParent,
                ObtainSemaphore, GrantSemaphore, SemaphoreObtained, signals
  <2>4. TypeOK'
    <3> USE TaskConstantsOK DEF IInv, TypeOK, Places, family
    <3>1. CASE SyncTest(t) \/ SyncWake(t)
      BY <3>1 DEF SyncTest, SyncWake, RestoreSingle
    <3>2. CASE Exit(t) \/ ClearFlag(t) \/ SyncSignal(t)
      BY <3>2 DEF Exit, ClearFlag, SyncSignal, signals
    <3>3. CASE ReadParent(t) \/ TellParent(t)
      BY <3>3 DEF ReadParent, TellParent, signals
    <3>4. CASE ObtainSemaphore(t) \/ GrantSemaphore(t) \/ SemaphoreObtained(t)
      BY <3>4 DEF ObtainSemaphore, GrantSemaphore, SemaphoreObtained
    <3> QED  BY <1>7, <3>1, <3>2, <3>3, <3>4
  <2> QED  BY <2>1, <2>2, <2>3, <2>4, OwnStep
<1> QED
  BY <1>1, <1>2, <1>3, <1>4, <1>5, <1>6, <1>7 DEF Next

\* It holds in every reachable state.
LEMMA Invariance == Spec => []IInv
BY InitInv, NextInv, PTL DEF Spec

-----------------------------------------------------------------------------
(* What follows. *)

\* The variables keep their types, and a task has a target where it needs one.
THEOREM TypeCorrect == Spec => []TypeOK
<1>1. IInv => TypeOK
  BY DEF IInv
<1> QED  BY <1>1, Invariance, PTL

\* The lists of children and the pointers to parents agree, for any number of tasks.
THEOREM FamiliesAgree == Spec => []FamilyAgrees
<1>1. IInv => FamilyAgrees
  BY DEF IInv
<1> QED  BY <1>1, Invariance, PTL

\* Every ETask has one owner until it is freed, and a removed task is in the queue of the
\* service task, once, until it is freed: for any number of tasks.
THEOREM AllFreedOnce == Spec => []FreedOnce
<1>1. IInv => FreedOnce
  BY DEF IInv, FreedOnce
<1> QED  BY <1>1, Invariance, PTL

\* A task waiting for a child that has ended has SIGF_CHILD.
THEOREM NoChildMissed == Spec => []NoMissedChild
<1>1. IInv => NoMissedChild
  BY DEF IInv
<1> QED  BY <1>1, Invariance, PTL
=============================================================================
