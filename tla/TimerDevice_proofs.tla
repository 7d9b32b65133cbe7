------------------------- MODULE TimerDevice_proofs -------------------------
(***************************************************************************)
(* The lists, the alarm and the replies of timer.device, for any tasks,    *)
(* requests, intervals and times of day, any VBlank period, any reload     *)
(* value of the counter and any bound on the time.                         *)
(***************************************************************************)
EXTENDS TimerDevice, ExecIO_proofs

\* The up time is never ahead of the last reading of the counter.
UpTimeBehind == elapsed <= prev

\* A request that may not be answered yet stands for an interval, and its time on the clock
\* of the device, which may be behind the counter, is not before that time.
DueLater ==
  \A r \in Requests : due[r] # 0 =>
    /\ r \in ToSet(list["micro"]) \cup ToSet(list["vblank"])
    /\ due[r] - time[r] <= prev - elapsed

\* The inductive invariant.
IInv ==
  /\ TypeOK /\ UpTimeBehind /\ IOInv
  /\ PendingIffListed /\ ListsSorted /\ AlarmInTime /\ DueLater
-----------------------------------------------------------------------------
(* Lists sorted by time. *)

Sorted(s, T) == \A i, j \in DOMAIN s : i < j => T[s[i]] <= T[s[j]]

\* Sorted by the same times.
LEMMA SortedAgain ==
  ASSUME NEW s \in Seq(Timed), NEW T, NEW U, Sorted(s, T), \A r \in ToSet(s) : U[r] = T[r]
  PROVE  Sorted(s, U)
<1>1. \A i \in DOMAIN s : U[s[i]] = T[s[i]]
  BY ElementOf DEF ToSet
<1> QED  BY <1>1 DEF Sorted

\* A sorted list without one of its elements.
LEMMA RemoveSorted ==
  ASSUME NEW s \in Seq(Timed), IsInjective(s), NEW x, NEW T \in [Timed -> Nat], Sorted(s, T)
  PROVE  /\ Sorted(RemoveFirst(s, x), T)
         /\ RemoveFirst(s, x) # <<>> => s # <<>> /\ T[Head(s)] <= T[Head(RemoveFirst(s, x))]
<1> DEFINE u == RemoveFirst(s, x)
<1>1. /\ Len(s) \in Nat /\ DOMAIN s = 1 .. Len(s) /\ \A i \in 1 .. Len(s) : s[i] \in Timed
  BY ElementOf
<1>2. /\ u \in Seq(Timed)
      /\ x \notin ToSet(s) => u = s
      /\ x \in ToSet(s) =>
           \E k \in 1 .. Len(s) :
             /\ s[k] = x
             /\ Len(u) = Len(s) - 1
             /\ \A i \in 1 .. Len(s) - 1 : u[i] = IF i < k THEN s[i] ELSE s[i + 1]
  BY RemoveList
<1> HIDE DEF u
<1>3. DOMAIN u = 1 .. Len(u) /\ Len(u) \in Nat
  BY <1>2, ElementOf
<1>4. CASE x \notin ToSet(s)
  <2>1. u = s
    BY <1>2, <1>4
  <2>2. u # <<>> => Head(s) \in Timed
    BY <2>1
  <2> QED  BY <2>1, <2>2 DEF u
<1>5. CASE x \in ToSet(s)
  <2>1. PICK k \in 1 .. Len(s) :
             /\ s[k] = x
             /\ Len(u) = Len(s) - 1
             /\ \A i \in 1 .. Len(s) - 1 : u[i] = IF i < k THEN s[i] ELSE s[i + 1]
    BY <1>2, <1>5
  <2> DEFINE from(i) == IF i < k THEN i ELSE i + 1
  <2>2. \A i \in 1 .. Len(s) - 1 : from(i) \in 1 .. Len(s) /\ u[i] = s[from(i)]
    BY <1>1, <2>1
  <2>3. \A i, j \in 1 .. Len(s) - 1 : i < j => from(i) < from(j)
    BY <1>1
  <2>4. Sorted(u, T)
    <3> SUFFICES ASSUME NEW i \in 1 .. Len(s) - 1, NEW j \in 1 .. Len(s) - 1, i < j
                 PROVE  T[u[i]] <= T[u[j]]
      BY <1>3, <2>1 DEF Sorted
    <3>1. from(i) \in 1 .. Len(s) /\ from(j) \in 1 .. Len(s) /\ from(i) < from(j)
      BY <2>2, <2>3
    <3>2. T[s[from(i)]] <= T[s[from(j)]]
      BY <3>1, <1>1 DEF Sorted
    <3> QED  BY <3>2, <2>2
  <2>5. ASSUME u # <<>> PROVE s # <<>> /\ T[Head(s)] <= T[Head(u)]
    <3>1. Len(u) >= 1 /\ Head(u) = u[1] /\ 1 \in 1 .. Len(s) - 1
      BY <1>2, <1>3, <2>1, <2>5
    <3>2. s # <<>> /\ Head(s) = s[1] /\ 1 \in 1 .. Len(s)
      BY <3>1, <1>1
    <3>3. from(1) \in 1 .. Len(s) /\ 1 <= from(1) /\ u[1] = s[from(1)]
      BY <3>1, <2>2
    <3>4. T[s[1]] <= T[s[from(1)]]
      BY <3>2, <3>3, <1>1 DEF Sorted
    <3> QED  BY <3>1, <3>2, <3>3, <3>4
  <2> QED  BY <2>4, <2>5 DEF u
<1> QED  BY <1>4, <1>5

\* addToWaitList() stops at the first request for a later time.
LEMMA PlaceForIs ==
  ASSUME NEW s \in Seq(Timed), NEW T \in [Timed -> Nat], NEW v \in Nat
  PROVE  /\ PlaceFor(s, T, v) \in 1 .. Len(s) + 1
         /\ \A i \in 1 .. PlaceFor(s, T, v) - 1 : T[s[i]] <= v
         /\ PlaceFor(s, T, v) <= Len(s) => T[s[PlaceFor(s, T, v)]] > v
<1> DEFINE I == {i \in DOMAIN s : \A j \in 1 .. i : T[s[j]] <= v}
           c == Cardinality(I)
<1>1. /\ Len(s) \in Nat /\ DOMAIN s = 1 .. Len(s) /\ \A i \in 1 .. Len(s) : s[i] \in Timed
  BY ElementOf
<1>2. I \in SUBSET (1 .. Len(s)) /\ \A i \in I : 1 .. i \subseteq I
  BY <1>1
<1> DEFINE In(i) == i \in I
<1>3. \A i \in I : i \in 1 .. Len(s) /\ T[s[i]] <= v
  BY <1>1
<1>4. \A i \in 1 .. Len(s) : i \notin I => \E j \in 1 .. i : ~(T[s[j]] <= v)
  BY <1>1
<1>5. PlaceFor(s, T, v) = c + 1
  BY DEF PlaceFor
<1> HIDE DEF I
<1>6. c \in 0 .. Len(s) /\ I = 1 .. c
  BY <1>1, <1>2, NoGaps
<1>7. ASSUME c + 1 <= Len(s) PROVE T[s[c + 1]] > v
  <2>1. c + 1 \in 1 .. Len(s) /\ c + 1 \notin I
    BY <1>1, <1>6, <1>7
  <2>2. PICK j \in 1 .. c + 1 : ~(T[s[j]] <= v)
    BY <2>1, <1>4
  <2>3. j = c + 1
    BY <2>2, <1>3, <1>6
  <2>4. T[s[c + 1]] \in Nat
    BY <2>1, <1>1
  <2> QED  BY <2>2, <2>3, <2>4
<1>8. c + 1 \in 1 .. Len(s) + 1 /\ (c + 1) - 1 = c
  BY <1>1, <1>6
<1> QED  BY <1>3, <1>5, <1>6, <1>7, <1>8

\* The request x can be put into the list s, sorted by the times T; its time is v and the
\* times will be U.
Fits(s, T, x, v, U) ==
  /\ s \in Seq(Timed) /\ IsInjective(s) /\ T \in [Timed -> Nat] /\ Sorted(s, T)
  /\ x \in Timed /\ x \notin ToSet(s) /\ v \in Nat
  /\ U \in [Timed -> Nat] /\ U[x] = v /\ \A r \in ToSet(s) : U[r] = T[r]

\* An element put before the later ones.
LEMMA InsertSorted ==
  ASSUME NEW s, NEW T, NEW x, NEW v, NEW U, Fits(s, T, x, v, U)
  PROVE  /\ Inserted(s, T, x, v) \in Seq(Timed) /\ IsInjective(Inserted(s, T, x, v))
         /\ ToSet(Inserted(s, T, x, v)) = ToSet(s) \cup {x}
         /\ Sorted(Inserted(s, T, x, v), U)
         /\ Head(Inserted(s, T, x, v)) # x => s # <<>> /\ Head(Inserted(s, T, x, v)) = Head(s)
<1>0. /\ s \in Seq(Timed) /\ IsInjective(s) /\ T \in [Timed -> Nat] /\ Sorted(s, T)
      /\ x \in Timed /\ x \notin ToSet(s) /\ v \in Nat
      /\ U \in [Timed -> Nat] /\ U[x] = v /\ \A r \in ToSet(s) : U[r] = T[r]
  BY DEF Fits
<1> DEFINE k == PlaceFor(s, T, v)
           u == InsertAt(s, k, x)
<1>1. /\ Len(s) \in Nat /\ DOMAIN s = 1 .. Len(s)
      /\ \A i \in 1 .. Len(s) : s[i] \in Timed /\ s[i] \in ToSet(s)
  BY <1>0, ElementOf
<1>2. /\ k \in 1 .. Len(s) + 1
      /\ \A i \in 1 .. k - 1 : T[s[i]] <= v
      /\ k <= Len(s) => T[s[k]] > v
  BY <1>0, PlaceForIs
<1> HIDE DEF k
<1>3. /\ u \in Seq(Timed) /\ IsInjective(u)
      /\ ToSet(u) = ToSet(s) \cup {x}
      /\ Len(u) = Len(s) + 1
      /\ \A i \in 1 .. Len(s) + 1 : u[i] = IF i < k THEN s[i] ELSE IF i = k THEN x ELSE s[i - 1]
  BY <1>0, <1>2, InsertList
<1>4. Inserted(s, T, x, v) = u
  BY DEF Inserted, k
<1> HIDE DEF u
<1>5. DOMAIN u = 1 .. Len(s) + 1
  BY <1>0, <1>3, ElementOf
<1>6. ASSUME NEW i \in 1 .. Len(s), i < k PROVE T[s[i]] <= v
  <2>1. i \in 1 .. k - 1
    BY <1>1, <1>2, <1>6
  <2> QED  BY <2>1, <1>2
<1>7. ASSUME NEW i \in 1 .. Len(s), i >= k PROVE v <= T[s[i]]
  <2>1. k <= Len(s) /\ k \in 1 .. Len(s) /\ (k = i \/ k < i)
    BY <1>1, <1>2, <1>7
  <2>2. T[s[k]] \in Nat /\ T[s[i]] \in Nat
    BY <2>1, <1>0, <1>1
  <2>3. T[s[k]] <= T[s[i]]
    <3>1. CASE k = i
      BY <3>1, <2>2
    <3>2. CASE k < i
      BY <3>2, <2>1, <1>0, <1>1 DEF Sorted
    <3> QED  BY <3>1, <3>2, <2>1
  <2>4. v \in Nat /\ T[s[k]] > v
    BY <2>1, <1>0, <1>2
  <2> DEFINE x1 == T[s[k]]
             x2 == T[s[i]]
  <2>5. x1 \in Nat /\ x2 \in Nat /\ x1 <= x2 /\ x1 > v
    BY <2>2, <2>3, <2>4
  <2> HIDE DEF x1, x2
  <2>6. v <= x2
    BY <2>4, <2>5
  <2> QED  BY <2>6 DEF x2
<1>8. Sorted(u, U)
  <2> SUFFICES ASSUME NEW i \in 1 .. Len(s) + 1, NEW j \in 1 .. Len(s) + 1, i < j
               PROVE  U[u[i]] <= U[u[j]]
    BY <1>5 DEF Sorted
  <2>1. /\ i \in Int /\ j \in Int /\ k \in Int /\ Len(s) \in Int
        /\ 1 <= i /\ j <= Len(s) + 1 /\ 1 <= k /\ k <= Len(s) + 1
    BY <1>1, <1>2
  <2>2. CASE j < k
    <3>1. i \in 1 .. Len(s) /\ j \in 1 .. Len(s) /\ i < k
      BY <2>1, <2>2
    <3>2. u[i] = s[i] /\ u[j] = s[j]
      BY <3>1, <2>2, <1>3
    <3> QED  BY <3>1, <3>2, <1>0, <1>1 DEF Sorted
  <2>3. CASE j = k
    <3>1. u[i] = s[i] /\ u[j] = x /\ i \in 1 .. Len(s)
      BY <2>1, <2>3, <1>2, <1>3
    <3> QED  BY <3>1, <2>3, <1>0, <1>1, <1>6
  <2>4. CASE j > k /\ i < k
    <3>1. i \in 1 .. Len(s) /\ j - 1 \in 1 .. Len(s) /\ i < j - 1
      BY <2>1, <2>4
    <3>2. ~(j < k) /\ j # k
      BY <2>1, <2>4
    <3>3. u[i] = s[i]
      BY <2>4, <1>3
    <3>4. u[j] = s[j - 1]
      BY <3>2, <1>3
    <3> QED  BY <3>1, <3>3, <3>4, <1>0, <1>1 DEF Sorted
  <2>5. CASE j > k /\ i = k
    <3>1. j - 1 \in 1 .. Len(s) /\ j - 1 >= k
      BY <2>1, <2>5
    <3>2. u[i] = x /\ u[j] = s[j - 1]
      BY <2>1, <2>5, <1>3
    <3> QED  BY <3>1, <3>2, <1>0, <1>1, <1>7
  <2>6. CASE j > k /\ i > k
    <3>1. /\ u[i] = s[i - 1] /\ u[j] = s[j - 1] /\ i - 1 \in 1 .. Len(s) /\ j - 1 \in 1 .. Len(s)
          /\ i - 1 < j - 1
      BY <2>1, <2>6, <1>2, <1>3
    <3> QED  BY <3>1, <1>0, <1>1 DEF Sorted
  <2> QED  BY <2>1, <2>2, <2>3, <2>4, <2>5, <2>6
<1>9. ASSUME Head(u) # x PROVE s # <<>> /\ Head(u) = Head(s)
  <2>1. Head(u) = u[1] /\ 1 \in 1 .. Len(s) + 1
    BY <1>1, <1>3
  <2>2. 1 < k /\ u[1] = s[1] /\ 1 \in 1 .. Len(s)
    BY <2>1, <1>9, <1>1, <1>2, <1>3
  <2> QED  BY <2>1, <2>2, <1>1
<1> QED  BY <1>3, <1>4, <1>8, <1>9

\* It is in the list once.
LEMMA InsertedList ==
  ASSUME NEW s \in Seq(Timed), IsInjective(s), NEW T \in [Timed -> Nat],
         NEW x \in Timed, x \notin ToSet(s), NEW v \in Nat
  PROVE  /\ Inserted(s, T, x, v) \in Seq(Timed) /\ IsInjective(Inserted(s, T, x, v))
         /\ ToSet(Inserted(s, T, x, v)) = ToSet(s) \cup {x}
<1> DEFINE k == PlaceFor(s, T, v)
           u == InsertAt(s, k, x)
<1>1. k \in 1 .. Len(s) + 1
  BY PlaceForIs
<1> HIDE DEF k
<1>2. /\ u \in Seq(Timed) /\ IsInjective(u)
      /\ ToSet(u) = ToSet(s) \cup {x}
  BY <1>1, InsertList
<1> QED  BY <1>2 DEF Inserted, k
-----------------------------------------------------------------------------
(* The pass of the interrupt over the lists. *)

\* The device's own request is put back.
LEMMA RequeueList ==
  ASSUME NEW s \in Seq(Timed), IsInjective(s), time \in [Timed -> Nat], VBlank \notin ToSet(s),
         NEW e \in Nat
  PROVE  /\ RequeueVBlank(s, e) \in Seq(Timed) /\ IsInjective(RequeueVBlank(s, e))
         /\ ToSet(RequeueVBlank(s, e)) = ToSet(s) \cup {VBlank}
<1> DEFINE v == e + Period
<1>1. v \in Nat /\ VBlank \in Timed
  BY TimerConstantsOK DEF Timed
<1>2. RequeueVBlank(s, e) = Inserted(s, time, VBlank, v)
  BY DEF RequeueVBlank
<1> HIDE DEF v
<1>3. Inserted(s, time, VBlank, v) \in Seq(Timed) /\ IsInjective(Inserted(s, time, VBlank, v))
  BY <1>1, InsertedList
<1>4. ToSet(Inserted(s, time, VBlank, v)) = ToSet(s) \cup {VBlank}
  BY <1>1, InsertedList
<1> QED  BY <1>2, <1>3, <1>4

\* One list: what is due is in front, and what is left stays sorted.
LEMMA DoneIs ==
  ASSUME NEW s \in Seq(Timed), IsInjective(s), time \in [Timed -> Nat], NEW e \in Nat
  PROVE  /\ Done(s, e) \in Seq(Timed) /\ Rest(s, e) \in Seq(Timed)
         /\ IsInjective(Done(s, e)) /\ IsInjective(Rest(s, e))
         /\ ToSet(Done(s, e)) \cap ToSet(Rest(s, e)) = {}
         /\ ToSet(Done(s, e)) \cup ToSet(Rest(s, e)) = ToSet(s)
         /\ \A r \in ToSet(Done(s, e)) : time[r] <= e
         /\ Sorted(s, time) => Sorted(Rest(s, e), time)
<1> DEFINE I == {i \in DOMAIN s : \A j \in 1 .. i : time[s[j]] <= e}
           c == Cardinality(I)
<1>1. /\ Len(s) \in Nat /\ DOMAIN s = 1 .. Len(s) /\ \A i \in 1 .. Len(s) : s[i] \in Timed
  BY ElementOf
<1>2. I \in SUBSET (1 .. Len(s)) /\ \A i \in I : 1 .. i \subseteq I
  BY <1>1
<1>3. \A i \in I : i \in 1 .. Len(s) /\ time[s[i]] <= e
  BY <1>1
<1>4. Done(s, e) = SubSeq(s, 1, c)
  BY DEF Done
<1> HIDE DEF I
<1>5. c \in 0 .. Len(s) /\ I = 1 .. c
  BY <1>1, <1>2, NoGaps
<1> HIDE DEF c
<1>6. Len(SubSeq(s, 1, c)) = c
  BY <1>1, <1>5
<1>7. Rest(s, e) = SubSeq(s, c + 1, Len(s))
  BY <1>4, <1>6 DEF Rest
<1>8. /\ SubSeq(s, 1, c) \in Seq(Timed) /\ SubSeq(s, c + 1, Len(s)) \in Seq(Timed)
      /\ IsInjective(SubSeq(s, 1, c)) /\ IsInjective(SubSeq(s, c + 1, Len(s)))
      /\ ToSet(SubSeq(s, 1, c)) \cap ToSet(SubSeq(s, c + 1, Len(s))) = {}
      /\ ToSet(SubSeq(s, 1, c)) \cup ToSet(SubSeq(s, c + 1, Len(s))) = ToSet(s)
  BY <1>5, DivideList
<1>9. ASSUME NEW r \in ToSet(SubSeq(s, 1, c)) PROVE time[r] <= e
  <2>1. 1 \in 1 .. Len(s) + 1 /\ c \in 0 .. Len(s)
    BY <1>1, <1>5
  <2>2. \E i \in 1 .. c : s[i] = r
    BY <2>1, SubList
  <2> QED  BY <2>2, <1>3, <1>5
<1>10. ASSUME Sorted(s, time) PROVE Sorted(SubSeq(s, c + 1, Len(s)), time)
  <2> DEFINE u == SubSeq(s, c + 1, Len(s))
  <2>1. c + 1 \in 1 .. Len(s) + 1 /\ Len(s) \in 0 .. Len(s) /\ c \in Int /\ c >= 0
    BY <1>1, <1>5
  <2>2. /\ Len(u) = IF c + 1 <= Len(s) THEN Len(s) - (c + 1) + 1 ELSE 0
        /\ \A i \in 1 .. Len(s) - (c + 1) + 1 : u[i] = s[(c + 1) + i - 1]
    BY <2>1, SubList
  <2>3. u \in Seq(Timed)
    BY <1>8
  <2> HIDE DEF u
  <2>4. DOMAIN u = 1 .. Len(u)
    BY <2>3
  <2>5. Len(u) = Len(s) - c /\ \A i \in 1 .. Len(s) - c : u[i] = s[c + i]
    <3>1. /\ Len(s) - (c + 1) + 1 = Len(s) - c
          /\ \A i \in 1 .. Len(s) - c : (c + 1) + i - 1 = c + i
          /\ ~(c + 1 <= Len(s)) => Len(s) - c = 0
      <4>1. Len(s) \in Int /\ c \in Int /\ c <= Len(s)
        BY <1>1, <1>5
      <4> QED  BY <4>1
    <3> QED  BY <3>1, <2>2
  <2> SUFFICES ASSUME NEW i \in 1 .. Len(s) - c, NEW j \in 1 .. Len(s) - c, i < j
               PROVE  time[u[i]] <= time[u[j]]
    BY <2>4, <2>5 DEF Sorted, u
  <2>6. c + i \in 1 .. Len(s) /\ c + j \in 1 .. Len(s) /\ c + i < c + j
    BY <1>1, <2>1
  <2> QED  BY <2>5, <2>6, <1>1, <1>10 DEF Sorted
<1> QED  BY <1>4, <1>7, <1>8, <1>9, <1>10

\* What TimerDevice keeps of its lists between any two steps.
ListsOK(L, T) ==
  /\ L \in [Lists -> Seq(Timed)]
  /\ \A l \in Lists : IsInjective(L[l]) /\ Sorted(L[l], T)
  /\ \A l, m \in Lists : l # m => ToSet(L[l]) \cap ToSet(L[m]) = {}
  /\ VBlank \in ToSet(L["micro"])

\* The interrupt replies nothing twice and nothing but requests that are due, takes exactly
\* these off the lists, and leaves the lists as it found them otherwise, for times T that
\* differ only for what it replied and for the VBlank.
LEMMA PassIs ==
  ASSUME NEW e \in Nat, NEW s \in Nat, time \in [Timed -> Nat], ListsOK(list, time),
         NEW T \in [Timed -> Nat],
         \A r \in Timed \ ToSet(Replied(e, s)) :
           T[r] = IF r = VBlank /\ VBlankDue(e) THEN e + Period ELSE time[r]
  PROVE  /\ Replied(e, s) \in Seq(Requests) /\ IsInjective(Replied(e, s))
         /\ \A r \in ToSet(Replied(e, s)) :
              \/ r \in ToSet(list["micro"]) \cup ToSet(list["vblank"]) /\ time[r] <= e
              \/ r \in ToSet(list["until"])
         /\ ListsOK(ListsAfter(e, s), T)
         /\ \A l \in Lists : ToSet(ListsAfter(e, s)[l]) = ToSet(list[l]) \ ToSet(Replied(e, s))
<1> DEFINE micro == Done(list["micro"], e)
           left == Rest(list["micro"], e)
           vb == Done(list["vblank"], e)
           un == Done(list["until"], s)
           R == Replied(e, s)
           L == ListsAfter(e, s)
<1>1. /\ \A l \in Lists : list[l] \in Seq(Timed) /\ IsInjective(list[l]) /\ Sorted(list[l], time)
      /\ \A l, m \in Lists : l # m => ToSet(list[l]) \cap ToSet(list[m]) = {}
      /\ VBlank \in ToSet(list["micro"])
      /\ "micro" \in Lists /\ "vblank" \in Lists /\ "until" \in Lists
      /\ list \in [Lists -> Seq(Timed)]
  BY DEF ListsOK, Lists
<1>2. VBlank \notin Requests /\ VBlank \in Timed /\ Period \in Nat
  BY TimerConstantsOK DEF Timed
<1>3. /\ micro \in Seq(Timed) /\ left \in Seq(Timed) /\ IsInjective(micro) /\ IsInjective(left)
      /\ ToSet(micro) \cap ToSet(left) = {} /\ ToSet(micro) \cup ToSet(left) = ToSet(list["micro"])
      /\ \A r \in ToSet(micro) : time[r] <= e
      /\ Sorted(left, time)
  BY <1>1, DoneIs
<1>4. /\ vb \in Seq(Timed) /\ Rest(list["vblank"], e) \in Seq(Timed)
      /\ IsInjective(vb) /\ IsInjective(Rest(list["vblank"], e))
      /\ ToSet(vb) \cap ToSet(Rest(list["vblank"], e)) = {}
      /\ ToSet(vb) \cup ToSet(Rest(list["vblank"], e)) = ToSet(list["vblank"])
      /\ \A r \in ToSet(vb) : time[r] <= e
      /\ Sorted(Rest(list["vblank"], e), time)
  BY <1>1, DoneIs
<1>5. /\ un \in Seq(Timed) /\ Rest(list["until"], s) \in Seq(Timed)
      /\ IsInjective(un) /\ IsInjective(Rest(list["until"], s))
      /\ ToSet(un) \cap ToSet(Rest(list["until"], s)) = {}
      /\ ToSet(un) \cup ToSet(Rest(list["until"], s)) = ToSet(list["until"])
      /\ Sorted(Rest(list["until"], s), time)
  BY <1>1, DoneIs
<1>6. CASE ~VBlankDue(e)
  <2>1. R = micro /\ VBlank \notin ToSet(micro)
    BY <1>6 DEF Replied, VBlankDue
  <2>2. L = [list EXCEPT !["micro"] = left]
    BY <1>6 DEF ListsAfter
  <2> HIDE DEF micro, left, R, L
  <2>3. L \in [Lists -> Seq(Timed)] /\ \A l \in Lists : L[l] = IF l = "micro" THEN left ELSE list[l]
    BY <2>2, <1>1, <1>3
  <2>4. \A l \in Lists : ToSet(L[l]) = ToSet(list[l]) \ ToSet(R)
    BY <2>1, <2>3, <1>1, <1>3
  <2>5. ToSet(R) \subseteq Requests
    BY <2>1, <1>3, ElementOf DEF Timed
  <2>6. R \in Seq(Requests)
    BY <2>1, <2>5, <1>3, NarrowList
  <2>7. ASSUME NEW l \in Lists PROVE IsInjective(L[l]) /\ Sorted(L[l], T)
    <3>1. IsInjective(L[l]) /\ Sorted(L[l], time) /\ L[l] \in Seq(Timed)
      BY <2>3, <1>1, <1>3
    <3>2. \A r \in ToSet(L[l]) : r \in Timed \ ToSet(R)
      BY <2>4, <3>1, ElementOf
    <3>3. \A r \in ToSet(L[l]) : T[r] = time[r]
      BY <3>2, <1>6 DEF R
    <3> QED  BY <3>1, <3>3, SortedAgain
  <2>8. ListsOK(L, T)
    BY <2>1, <2>3, <2>4, <2>7, <1>1 DEF ListsOK
  <2>9. \A r \in ToSet(R) : r \in ToSet(list["micro"]) /\ time[r] <= e
    BY <2>1, <1>3
  <2> QED  BY <2>1, <2>4, <2>6, <2>8, <2>9, <1>3 DEF R, L
<1>7. CASE VBlankDue(e)
  <2>1. VBlank \in ToSet(micro)
    BY <1>7 DEF VBlankDue
  <2>2. PICK k \in 1 .. Len(micro) : micro[k] = VBlank
    BY <2>1, <1>3, ElementOf
  <2> DEFINE u == SubSeq(micro, 1, k - 1)
             w == SubSeq(micro, k + 1, Len(micro))
             vr == Rest(list["vblank"], e)
             ur == Rest(list["until"], s)
             m == Inserted(left, time, VBlank, e + Period)
  <2>3. R = u \o vb \o un \o w
    <3>1. {i \in 1 .. Len(micro) : micro[i] = micro[k]} = {k} /\ Min({k}) = k
      BY <1>3, <2>2, PlaceOf
    <3>2. {i \in 1 .. Len(micro) : micro[i] = VBlank} = {k}
      BY <3>1, <2>2
    <3>3. SelectInSeq(micro, LAMBDA r : r = VBlank) = k
      BY <3>1, <3>2 DEF SelectInSeq
    <3> HIDE DEF micro
    <3>4. R = LET p == SelectInSeq(micro, LAMBDA r : r = VBlank)
              IN  SubSeq(micro, 1, p - 1) \o vb \o un \o SubSeq(micro, p + 1, Len(micro))
      BY <1>7 DEF Replied, micro
    <3> QED  BY <3>3, <3>4
  <2>4. /\ u \in Seq(Timed) /\ w \in Seq(Timed) /\ IsInjective(u) /\ IsInjective(w)
        /\ ToSet(u) \cap ToSet(w) = {} /\ ToSet(u) \cup ToSet(w) = ToSet(micro) \ {VBlank}
    BY <1>3, <2>2, SplitList
  <2>5. L = [l \in Lists |-> CASE l = "micro"  -> RequeueVBlank(left, e)
                            [] l = "vblank" -> Rest(list[l], e)
                            [] l = "until"  -> Rest(list[l], s)]
    BY <1>7 DEF ListsAfter
  <2>6. L["micro"] = m /\ L["vblank"] = vr /\ L["until"] = ur
    <3>1. RequeueVBlank(left, e) = m
      BY DEF RequeueVBlank
    <3> HIDE DEF left, m, L
    <3>2. L["micro"] = RequeueVBlank(left, e)
      BY <2>5, <1>1
    <3>3. L["vblank"] = Rest(list["vblank"], e)
      BY <2>5, <1>1
    <3>4. L["until"] = Rest(list["until"], s)
      BY <2>5, <1>1
    <3> QED  BY <3>1, <3>2, <3>3, <3>4
  <2>7. VBlank \notin ToSet(left) /\ VBlank \notin ToSet(list["vblank"])
        /\ VBlank \notin ToSet(list["until"])
    <3>1. ToSet(list["micro"]) \cap ToSet(list["vblank"]) = {}
      BY <1>1
    <3>2. ToSet(list["micro"]) \cap ToSet(list["until"]) = {}
      BY <1>1
    <3> QED  BY <3>1, <3>2, <2>1, <1>1, <1>3
  <2>8. /\ m \in Seq(Timed) /\ IsInjective(m) /\ ToSet(m) = ToSet(left) \cup {VBlank}
    <3>1. /\ RequeueVBlank(left, e) \in Seq(Timed) /\ IsInjective(RequeueVBlank(left, e))
          /\ ToSet(RequeueVBlank(left, e)) = ToSet(left) \cup {VBlank}
      <4>1. left \in Seq(Timed) /\ IsInjective(left) /\ VBlank \notin ToSet(left)
        BY <2>7, <1>3
      <4> HIDE DEF left
      <4> QED  BY <4>1, RequeueList
    <3> HIDE DEF left
    <3> QED  BY <3>1 DEF RequeueVBlank
  <2> HIDE DEF micro, left, vb, un, u, w, R, L, m, vr, ur
  <2>9. /\ u \o vb \in Seq(Timed) /\ ToSet(u \o vb) = ToSet(u) \cup ToSet(vb)
        /\ IsInjective(u) /\ IsInjective(vb) /\ ToSet(u) \cap ToSet(vb) = {} => IsInjective(u \o vb)
    BY <2>4, <1>4, ConcatList
  <2> DEFINE a == u \o vb
  <2>10. a \in Seq(Timed) /\ ToSet(a) = ToSet(u) \cup ToSet(vb)
    BY <2>9
  <2> HIDE DEF a
  <2>11. /\ a \o un \in Seq(Timed) /\ ToSet(a \o un) = ToSet(a) \cup ToSet(un)
         /\ IsInjective(a) /\ IsInjective(un) /\ ToSet(a) \cap ToSet(un) = {} => IsInjective(a \o un)
    BY <2>10, <1>5, ConcatList
  <2> DEFINE b == a \o un
  <2>12. b \in Seq(Timed) /\ ToSet(b) = ToSet(a) \cup ToSet(un)
    BY <2>11
  <2> HIDE DEF b
  <2>13. /\ b \o w \in Seq(Timed) /\ ToSet(b \o w) = ToSet(b) \cup ToSet(w)
         /\ IsInjective(b) /\ IsInjective(w) /\ ToSet(b) \cap ToSet(w) = {} => IsInjective(b \o w)
    BY <2>12, <2>4, ConcatList
  <2>14. R = b \o w
    BY <2>3 DEF b, a
  <2>15. /\ ToSet(micro) \cap ToSet(vb) = {} /\ ToSet(micro) \cap ToSet(un) = {}
         /\ ToSet(vb) \cap ToSet(un) = {}
    <3>1. ToSet(list["micro"]) \cap ToSet(list["vblank"]) = {}
      BY <1>1
    <3>2. ToSet(list["micro"]) \cap ToSet(list["until"]) = {}
      BY <1>1
    <3>3. ToSet(list["vblank"]) \cap ToSet(list["until"]) = {}
      BY <1>1
    <3> QED  BY <3>1, <3>2, <3>3, <1>3, <1>4, <1>5
  <2>16. IsInjective(R)
    <3>1. IsInjective(a)
      BY <2>4, <2>9, <2>15, <1>4 DEF a
    <3>2. IsInjective(b)
      BY <3>1, <2>4, <2>10, <2>11, <2>15, <1>5 DEF b
    <3> QED  BY <3>2, <2>4, <2>10, <2>12, <2>13, <2>14, <2>15
  <2>17. ToSet(R) = (ToSet(micro) \ {VBlank}) \cup ToSet(vb) \cup ToSet(un)
    BY <2>4, <2>10, <2>12, <2>13, <2>14
  <2>18. R \in Seq(Requests)
    <3>1. VBlank \notin ToSet(R)
      BY <2>7, <2>17, <1>4, <1>5
    <3>2. R \in Seq(Timed)
      BY <2>13, <2>14
    <3>3. ToSet(R) \subseteq Requests
      BY <3>1, <3>2, ElementOf DEF Timed
    <3> QED  BY <3>2, <3>3, NarrowList
  <2>19. \A r \in ToSet(R) : \/ r \in ToSet(list["micro"]) \cup ToSet(list["vblank"]) /\ time[r] <= e
                             \/ r \in ToSet(list["until"])
    BY <2>17, <1>3, <1>4, <1>5
  <2>20. \A l \in Lists : l = "micro" \/ l = "vblank" \/ l = "until"
    BY DEF Lists
  <2>21. \A l \in Lists : ToSet(L[l]) = ToSet(list[l]) \ ToSet(R)
    <3>0. /\ ToSet(list["micro"]) \cap ToSet(list["vblank"]) = {}
          /\ ToSet(list["micro"]) \cap ToSet(list["until"]) = {}
          /\ ToSet(list["vblank"]) \cap ToSet(list["until"]) = {}
      BY <1>1
    <3>1. ToSet(L["micro"]) = ToSet(list["micro"]) \ ToSet(R)
      BY <3>0, <2>1, <2>6, <2>7, <2>8, <2>17, <1>3, <1>4, <1>5
    <3>2. ToSet(L["vblank"]) = ToSet(list["vblank"]) \ ToSet(R)
      BY <3>0, <2>6, <2>17, <1>3, <1>4, <1>5 DEF vr
    <3>3. ToSet(L["until"]) = ToSet(list["until"]) \ ToSet(R)
      BY <3>0, <2>6, <2>17, <1>3, <1>4, <1>5 DEF ur
    <3> QED  BY <3>1, <3>2, <3>3, <2>20
  <2>22. \A r \in Timed \ ToSet(R) : T[r] = IF r = VBlank THEN e + Period ELSE time[r]
    BY <1>7 DEF R
  <2>23. Sorted(m, T)
    <3>1. VBlank \notin ToSet(R)
      BY <2>7, <2>17, <1>4, <1>5
    <3>2. T[VBlank] = e + Period /\ e + Period \in Nat
      BY <3>1, <2>22, <1>2
    <3>3. \A r \in ToSet(left) : r \in Timed \ ToSet(R) /\ r # VBlank
      <4>1. ToSet(left) \subseteq Timed
        BY <1>3, ElementOf
      <4>2. ToSet(left) \cap ToSet(R) = {}
        BY <2>6, <2>7, <2>8, <2>21, <1>1
      <4> QED  BY <4>1, <4>2, <2>7
    <3>4. \A r \in ToSet(left) : T[r] = time[r]
      BY <3>3, <2>22
    <3>5. Fits(left, time, VBlank, e + Period, T)
      BY <3>2, <3>4, <2>7, <1>2, <1>3 DEF Fits
    <3>6. Sorted(Inserted(left, time, VBlank, e + Period), T)
      BY <3>5, InsertSorted
    <3> QED  BY <3>6 DEF m
  <2>24. ASSUME NEW x \in Seq(Timed), Sorted(x, time), ToSet(x) \cap ToSet(R) = {}, VBlank \notin ToSet(x)
         PROVE  Sorted(x, T)
    <3>1. \A r \in ToSet(x) : T[r] = time[r]
      BY <2>22, <2>24, ElementOf
    <3> QED  BY <3>1, <2>24, SortedAgain
  <2>25. Sorted(vr, T) /\ IsInjective(vr) /\ vr \in Seq(Timed)
    <3>1. vr \in Seq(Timed) /\ Sorted(vr, time) /\ IsInjective(vr)
      BY <1>4 DEF vr
    <3>2. ToSet(vr) \cap ToSet(R) = {} /\ VBlank \notin ToSet(vr)
      BY <2>6, <2>7, <2>21, <1>1
    <3> QED  BY <3>1, <3>2, <2>24
  <2>26. Sorted(ur, T) /\ IsInjective(ur) /\ ur \in Seq(Timed)
    <3>1. ur \in Seq(Timed) /\ Sorted(ur, time) /\ IsInjective(ur)
      BY <1>5 DEF ur
    <3>2. ToSet(ur) \cap ToSet(R) = {} /\ VBlank \notin ToSet(ur)
      BY <2>6, <2>7, <2>21, <1>1
    <3> QED  BY <3>1, <3>2, <2>24
  <2>27. L \in [Lists -> Seq(Timed)] /\ \A l \in Lists : IsInjective(L[l]) /\ Sorted(L[l], T)
    <3>1. \A l \in Lists : L[l] \in Seq(Timed) /\ IsInjective(L[l]) /\ Sorted(L[l], T)
      BY <2>6, <2>8, <2>20, <2>23, <2>25, <2>26
    <3> QED  BY <3>1, <2>5
  <2>28. ListsOK(L, T)
    <3>1. \A l, n \in Lists : l # n => ToSet(L[l]) \cap ToSet(L[n]) = {}
      BY <2>21, <1>1
    <3>2. VBlank \in ToSet(L["micro"])
      BY <2>6, <2>8
    <3> QED  BY <3>1, <3>2, <2>27 DEF ListsOK
  <2> QED  BY <2>16, <2>18, <2>19, <2>21, <2>28 DEF R, L
<1> QED  BY <1>6, <1>7
-----------------------------------------------------------------------------
(* What the parts of a step keep. *)

\* The invariant as the lemmas on lists need it,
LEMMA ListsFrom ==
  ASSUME IInv
  PROVE  /\ ListsOK(list, time)
         /\ \A l \in Lists : list[l] \in Seq(Timed) /\ IsInjective(list[l]) /\ Sorted(list[l], time)
         /\ \A l, m \in Lists : l # m => ToSet(list[l]) \cap ToSet(list[m]) = {}
         /\ VBlank \in ToSet(list["micro"])
         /\ \A l \in Lists : \A r \in ToSet(list[l]) : r \in Timed
         /\ \A r \in Requests : (\E l \in Lists : r \in ToSet(list[l]))
                                  <=> r \in inUse \ refused /\ type[r] = "message"
         /\ {"micro", "vblank", "until"} \subseteq Lists
<1>1. list \in [Lists -> Seq(Timed)]
  BY DEF IInv, TypeOK
<1>2. \A l \in Lists : list[l] \in Seq(Timed) /\ IsInjective(list[l]) /\ Sorted(list[l], time)
  BY <1>1 DEF IInv, PendingIffListed, ListsSorted, Sorted
<1>3. /\ \A l, m \in Lists : l # m => ToSet(list[l]) \cap ToSet(list[m]) = {}
      /\ VBlank \in ToSet(list["micro"])
      /\ \A r \in Requests : (\E l \in Lists : r \in ToSet(list[l]))
                               <=> r \in inUse \ refused /\ type[r] = "message"
  BY DEF IInv, PendingIffListed, Pending
<1>4. \A l \in Lists : \A r \in ToSet(list[l]) : r \in Timed
  BY <1>2, ElementOf
<1>5. {"micro", "vblank", "until"} \subseteq Lists
  BY DEF Lists
<1> QED  BY <1>1, <1>2, <1>3, <1>4, <1>5 DEF ListsOK

\* and back.
LEMMA ListsTo ==
  ASSUME ListsOK(list', time'),
         \A r \in Requests : (\E l \in Lists : r \in ToSet(list'[l]))
                               <=> r \in inUse' \ refused' /\ type'[r] = "message"
  PROVE  PendingIffListed' /\ ListsSorted'
<1>1. PendingIffListed'
  BY DEF ListsOK, PendingIffListed, Pending
<1>2. ListsSorted'
  BY DEF ListsOK, ListsSorted, Sorted
<1> QED  BY <1>1, <1>2

\* The first request of the list the alarm is set for.
LEMMA FirstIs ==
  ASSUME NEW s \in Seq(Timed), VBlank \in ToSet(s)
  PROVE  s # <<>> /\ Head(s) \in Timed /\ Head(s) \in ToSet(s) /\ Head(s) = s[1]
<1>1. Len(s) \in Nat /\ \A i \in 1 .. Len(s) : s[i] \in Timed /\ s[i] \in ToSet(s)
  BY ElementOf
<1>2. s # <<>>
  BY EmptyList
<1>3. Head(s) = s[1] /\ 1 \in 1 .. Len(s)
  BY <1>1, <1>2
<1> QED  BY <1>1, <1>2, <1>3

\* The alarm is set no later than the first request is due.
LEMMA DelayIs ==
  ASSUME NEW s \in Seq(Timed), s # <<>>, Head(s) \in Timed, NEW T \in [Timed -> Nat], NEW e \in Nat
  PROVE  /\ DelayFor(s, T, e) \in Nat
         /\ DelayFor(s, T, e) <= IF T[Head(s)] - e >= 0 THEN T[Head(s)] - e ELSE 0
<1> DEFINE d == T[Head(s)] - e
           m == IF 0 >= d THEN 0 ELSE d
<1>1. d \in Int /\ Reload \in Nat
  BY TimerConstantsOK
<1>2. DelayFor(s, T, e) = Min({Reload, Max({0, d})})
  BY DEF DelayFor
<1> HIDE DEF d
<1>3. Max({0, d}) = m /\ m \in Nat
  BY <1>1, MaxOfTwo
<1>4. Min({Reload, m}) = IF Reload <= m THEN Reload ELSE m
  BY <1>1, <1>3, MinOfTwo
<1>5. DelayFor(s, T, e) \in Nat /\ DelayFor(s, T, e) <= m
  <2>1. DelayFor(s, T, e) = IF Reload <= m THEN Reload ELSE m
    BY <1>2, <1>3, <1>4
  <2> HIDE DEF m
  <2> QED  BY <2>1, <1>1, <1>3
<1>6. m = IF d >= 0 THEN d ELSE 0
  BY <1>1
<1> QED  BY <1>5, <1>6 DEF d

\* The steps that leave the alarm alone: the first request is not for an earlier time, and
\* the clock is no less behind.
LEMMA AlarmStays ==
  ASSUME IInv, UNCHANGED <<alarm, stale>>, now' \in Nat, now <= now',
         prev' \in Int, elapsed' \in Int, prev - elapsed <= prev' - elapsed',
         \A t \in Tasks : pc[t] = "device" => \E u \in Tasks : pc'[u] = "device",
         \/ \E u \in Tasks : pc'[u] = "device"
         \/ /\ time'[Head(list'["micro"])] \in Nat
            /\ time[Head(list["micro"])] <= time'[Head(list'["micro"])]
  PROVE  AlarmInTime'
<1> SUFFICES ASSUME \A u \in Tasks : pc'[u] # "device"
             PROVE  alarm' <= Max({now', prev' + time'[Head(list'["micro"])] - elapsed' + stale'})
  BY DEF AlarmInTime
<1>1. \A t \in Tasks : pc[t] # "device"
  OBVIOUS
<1> DEFINE h == time[Head(list["micro"])]
           g == time'[Head(list'["micro"])]
<1>2. h \in Nat /\ now \in Nat /\ prev \in Int /\ elapsed \in Int /\ alarm \in Nat /\ stale \in Nat
  <2>1. list["micro"] \in Seq(Timed) /\ VBlank \in ToSet(list["micro"])
    BY ListsFrom
  <2>2. Head(list["micro"]) \in Timed
    BY <2>1, FirstIs
  <2> QED  BY <2>2 DEF IInv, TypeOK
<1>3. g \in Nat /\ h <= g
  OBVIOUS
<1>4. alarm <= Max({now, prev + h - elapsed + stale})
  BY <1>1 DEF IInv, AlarmInTime
<1> HIDE DEF h, g
<1> DEFINE a == prev + h - elapsed + stale
           b == prev' + g - elapsed' + stale
<1>5. a \in Int /\ b \in Int /\ a <= b
  BY <1>2, <1>3
<1> HIDE DEF a, b
<1>6. Max({now, a}) = (IF now >= a THEN now ELSE a) /\ Max({now', b}) = IF now' >= b THEN now' ELSE b
  BY <1>2, <1>5, MaxOfTwo
<1>7. alarm <= Max({now, a})
  BY <1>4 DEF a
<1>8. alarm <= Max({now', b})
  BY <1>2, <1>5, <1>6, <1>7
<1> QED  BY <1>8 DEF b, g

\* Setting the alarm at n for what is left at the time e to a request for h.
LEMMA AlarmSet ==
  ASSUME NEW n \in Nat, NEW h \in Nat, NEW e \in Nat, NEW d \in Nat,
         d <= IF h - e >= 0 THEN h - e ELSE 0,
         NEW a \in Nat, a <= n + d, NEW x \in Int, x = n + (h - e)
  PROVE  a <= Max({n, x})
<1>1. Max({n, x}) = IF n >= x THEN n ELSE x
  BY MaxOfTwo
<1> QED  BY <1>1

\* The clocks after a reading, or after a setting of the system time.
ClocksOK ==
  /\ now' = now /\ prev' \in Nat /\ elapsed' \in Nat /\ sysTime' \in Nat
  /\ prev' <= now' /\ elapsed' <= prev' /\ prev - elapsed <= prev' - elapsed'

\* How far the clocks may be apart.
LEMMA ClockTypes ==
  ASSUME IInv
  PROVE  /\ now \in Nat /\ prev \in Nat /\ elapsed \in Nat /\ sysTime \in Nat
         /\ prev <= now /\ elapsed <= prev
         /\ ElapsedNow \in Nat /\ SysTimeNow \in Nat /\ ElapsedNow = elapsed + (now - prev)
         /\ now - ElapsedNow = prev - elapsed
<1>1. /\ now \in Nat /\ prev \in Nat /\ elapsed \in Nat /\ sysTime \in Nat
      /\ prev <= now /\ elapsed <= prev
  BY DEF IInv, TypeOK, UpTimeBehind
<1> QED  BY <1>1 DEF ElapsedNow, SysTimeNow

\* Reading the counter keeps the clocks in order,
LEMMA ReadingKeeps ==
  ASSUME IInv, EClockUpdate
  PROVE  ClocksOK
BY ClockTypes DEF EClockUpdate, ClocksOK, ElapsedNow, SysTimeNow

\* and so does setting the time of day.
LEMMA SettingKeeps ==
  ASSUME IInv, NEW v \in Nat, EClockSet(v)
  PROVE  ClocksOK
BY ClockTypes DEF EClockSet, ClocksOK
-----------------------------------------------------------------------------
(* The steps. *)

\* The invariant holds at first.
LEMMA InitInv ==
  ASSUME Init
  PROVE  IInv
<1>1. IOInv /\ now = 0 /\ prev = 0 /\ elapsed = 0 /\ sysTime = 0 /\ stale = 0 /\ refused = {}
  BY InitIO DEF Init
<1>2. /\ Period \in Nat \ {0} /\ Reload \in Nat \ {0} /\ VBlank \in Timed
  BY TimerConstantsOK DEF Timed
<1>3. time \in [Timed -> Nat] /\ time[VBlank] = Period
  BY <1>2 DEF Init
<1>4. <<VBlank>> \in Seq(Timed) /\ <<>> \in Seq(Timed)
  BY <1>2
<1>5. list \in [Lists -> Seq(Timed)] /\ list["micro"] = <<VBlank>>
      /\ \A l \in Lists \ {"micro"} : list[l] = <<>>
  BY <1>4 DEF Init, Lists
<1>6. alarm \in Nat /\ alarm <= Period
  BY <1>2 DEF Init
<1>7. due \in [Requests -> Nat] /\ \A r \in Requests : due[r] = 0
  BY DEF Init
<1>8. TypeOK
  BY <1>1, <1>3, <1>5, <1>6, <1>7 DEF TypeOK, IOInv
<1>9. /\ ToSet(<<VBlank>>) = {VBlank} /\ IsInjective(<<VBlank>>)
      /\ DOMAIN <<VBlank>> = {1} /\ <<VBlank>>[1] = VBlank
  BY <1>2, OneList
<1>10. ToSet(<<>>) = {} /\ IsInjective(<<>>)
  BY EmptyList
<1>11. \A l \in Lists : IsInjective(list[l]) /\ Sorted(list[l], time)
                       /\ ToSet(list[l]) = IF l = "micro" THEN {VBlank} ELSE {}
  <2>1. Sorted(<<VBlank>>, time)
    BY <1>9 DEF Sorted
  <2>2. Sorted(<<>>, time)
    BY DEF Sorted
  <2> QED  BY <2>1, <2>2, <1>5, <1>9, <1>10
<1>12. PendingIffListed
  <2>1. inUse = {} /\ VBlank \notin Requests /\ "micro" \in Lists
    BY TimerConstantsOK DEF Init, IOInit, Lists
  <2> QED  BY <2>1, <1>11 DEF PendingIffListed, Pending
<1>13. ListsSorted
  BY <1>11 DEF ListsSorted, Sorted
<1>14. AlarmInTime
  <2>1. Head(list["micro"]) = VBlank
    BY <1>5
  <2>2. prev + time[Head(list["micro"])] - elapsed + stale = Period
    BY <2>1, <1>1, <1>2, <1>3
  <2>3. Max({now, prev + time[Head(list["micro"])] - elapsed + stale}) = Period
    <3>1. Max({0, Period}) = IF 0 >= Period THEN 0 ELSE Period
      BY <1>2, MaxOfTwo
    <3> QED  BY <3>1, <2>2, <1>1, <1>2
  <2> QED  BY <2>3, <1>6 DEF AlarmInTime
<1> QED  BY <1>1, <1>7, <1>8, <1>12, <1>13, <1>14 DEF IInv, UpTimeBehind, DueLater

\* Time that passes keeps it.
LEMMA ClockKeeps ==
  ASSUME IInv, Clock
  PROVE  IInv'
<1>1. now' = now + 1 /\ UNCHANGED <<prev, elapsed, sysTime, devVars, ioVars>>
  BY DEF Clock
<1>2. UNCHANGED <<type, quick, replyPort, signal, pc, current, inUse, strays>>
      /\ UNCHANGED <<time, list, alarm, stale, due, refused>>
  BY <1>1 DEF devVars, ioVars
<1>3. IOTypeOK' /\ IOInv'
  BY <1>2 DEF IInv, IOInv, IOTypeOK, WaitsForOwn, RepliedIsQueued, NoLostReply, Busy
<1>4. TypeOK' /\ UpTimeBehind'
  BY <1>1, <1>2, <1>3 DEF IInv, TypeOK, UpTimeBehind
<1>5. PendingIffListed' /\ ListsSorted' /\ DueLater'
  BY <1>1, <1>2 DEF IInv, PendingIffListed, Pending, ListsSorted, DueLater
<1>6. AlarmInTime'
  <2>1. list["micro"] \in Seq(Timed) /\ VBlank \in ToSet(list["micro"])
    BY ListsFrom
  <2>2. Head(list["micro"]) \in Timed
    BY <2>1, FirstIs
  <2>3. time[Head(list["micro"])] \in Nat
    BY <2>2 DEF IInv, TypeOK
  <2>4. /\ now' \in Nat /\ now <= now' /\ prev' \in Int /\ elapsed' \in Int
        /\ prev - elapsed <= prev' - elapsed'
    BY <1>1, ClockTypes
  <2>5. time[Head(list["micro"])] <= time'[Head(list'["micro"])] /\ time'[Head(list'["micro"])] \in Nat
    BY <2>3, <1>2
  <2>6. UNCHANGED <<alarm, stale>> /\ \A t \in Tasks : pc[t] = "device" => \E u \in Tasks : pc'[u] = "device"
    BY <1>2
  <2> QED  BY <2>4, <2>5, <2>6, AlarmStays
<1> QED  BY <1>3, <1>4, <1>5, <1>6 DEF IInv

\* What is later on the clock of the device stays so when it is read.
LEMMA LaterStays ==
  ASSUME IInv, ClocksOK, NEW d \in Nat, NEW v \in Nat, d - v <= prev - elapsed
  PROVE  d - v <= prev' - elapsed'
<1> DEFINE x == d - v
           y == prev - elapsed
           z == prev' - elapsed'
<1>1. x \in Int /\ y \in Int /\ z \in Int /\ x <= y /\ y <= z
  BY ClockTypes DEF ClocksOK
<1> HIDE DEF x, y, z
<1>2. x <= z
  BY <1>1
<1> QED  BY <1>2 DEF x, z

\* A step that reads or sets the clocks, or neither, and leaves the lists and the alarm.
LEMMA SameListsKeep ==
  ASSUME IInv, IOInv', ClocksOK, UNCHANGED <<list, alarm, stale, due>>,
         time' \in [Timed -> Nat], refused' \subseteq Requests,
         \A r \in Timed : (\E l \in Lists : r \in ToSet(list[l])) => time'[r] = time[r],
         \A r \in Requests : r \in inUse' \ refused' /\ type'[r] = "message"
                               <=> r \in inUse \ refused /\ type[r] = "message",
         \A t \in Tasks : pc[t] = "device" => pc'[t] = "device"
  PROVE  IInv'
<1>1. TypeOK' /\ UpTimeBehind'
  BY DEF IInv, IOInv, TypeOK, ClocksOK, UpTimeBehind
<1>2. \A l \in Lists : list[l] \in Seq(Timed) /\ IsInjective(list[l]) /\ Sorted(list[l], time)
  BY ListsFrom
<1>3. ListsOK(list', time')
  <2>1. ASSUME NEW l \in Lists PROVE Sorted(list[l], time')
    <3>1. \A r \in ToSet(list[l]) : time'[r] = time[r]
      BY ListsFrom
    <3> QED  BY <3>1, <1>2, SortedAgain
  <2> QED  BY <2>1, ListsFrom DEF ListsOK
<1>4. PendingIffListed' /\ ListsSorted'
  <2>1. \A r \in Requests : (\E l \in Lists : r \in ToSet(list'[l]))
                               <=> r \in inUse' \ refused' /\ type'[r] = "message"
    BY ListsFrom
  <2> QED  BY <2>1, <1>3, ListsTo
<1>5. AlarmInTime'
  <2>1. list["micro"] \in Seq(Timed) /\ VBlank \in ToSet(list["micro"]) /\ "micro" \in Lists
    BY ListsFrom
  <2> DEFINE h == Head(list["micro"])
  <2>2. h \in Timed /\ h \in ToSet(list["micro"])
    BY <2>1, FirstIs
  <2> HIDE DEF h
  <2>3. time'[h] = time[h] /\ time[h] \in Nat
    BY <2>1, <2>2 DEF IInv, TypeOK
  <2>4. time[h] <= time'[h] /\ time'[h] \in Nat
    BY <2>3
  <2>5. now' \in Nat /\ now <= now' /\ prev' \in Int /\ elapsed' \in Int
        /\ prev - elapsed <= prev' - elapsed'
    BY ClockTypes DEF ClocksOK
  <2> QED  BY <2>4, <2>5, AlarmStays DEF h
<1>6. DueLater'
  <2> SUFFICES ASSUME NEW r \in Requests, due[r] # 0
               PROVE  /\ r \in ToSet(list["micro"]) \cup ToSet(list["vblank"])
                      /\ due[r] - time'[r] <= prev' - elapsed'
    BY DEF DueLater
  <2>1. r \in ToSet(list["micro"]) \cup ToSet(list["vblank"]) /\ due[r] - time[r] <= prev - elapsed
    BY DEF IInv, DueLater
  <2>2. r \in Timed /\ time'[r] = time[r]
    BY <2>1, ListsFrom DEF Timed
  <2>3. due[r] \in Nat /\ time[r] \in Nat
    BY <2>2 DEF IInv, TypeOK
  <2>4. due[r] - time[r] <= prev' - elapsed'
    BY <2>1, <2>3, LaterStays DEF ClocksOK
  <2> QED  BY <2>1, <2>2, <2>4
<1> QED  BY <1>1, <1>4, <1>5, <1>6 DEF IInv

\* GetUpTime() keeps the invariant.
LEMMA ReadingOnlyKeeps ==
  ASSUME IInv, GetUpTime
  PROVE  IInv'
<1>1. UNCHANGED <<type, quick, replyPort, signal, pc, current, inUse, strays>>
      /\ UNCHANGED <<time, list, alarm, stale, due, refused>> /\ EClockUpdate
  BY DEF GetUpTime, devVars, ioVars
<1>2. IOInv'
  BY <1>1 DEF IInv, IOInv, IOTypeOK, WaitsForOwn, RepliedIsQueued, NoLostReply, Busy
<1>3. time' \in [Timed -> Nat] /\ refused' \subseteq Requests
  BY <1>1 DEF IInv, TypeOK
<1> QED  BY <1>1, <1>2, <1>3, ReadingKeeps, SameListsKeep

\* Clocks that do not change stay in order.
LEMMA SameClocks ==
  ASSUME IInv, UNCHANGED clockVars
  PROVE  ClocksOK
BY ClockTypes DEF clockVars, ClocksOK

\* What a client does on its side of the ports keeps the invariant,
LEMMA ClientStepKeeps ==
  ASSUME IInv, NEW t \in Tasks, ClientStep(t), UNCHANGED <<clockVars, devVars>>
  PROVE  IInv'
<1>1. UNCHANGED <<time, list, alarm, stale, due, refused>>
  BY DEF devVars
<1>2. IOInv'
  BY ClientKeeps DEF IInv
<1>3. time' \in [Timed -> Nat] /\ refused' \subseteq Requests
  BY <1>1 DEF IInv, TypeOK
<1>4. pc \in [Tasks -> {"run", "testio", "sleepio", "testport", "sleepport", "device"}]
  BY DEF IInv, IOInv, IOTypeOK
<1>5. \A u \in Tasks : pc[u] = "device" => pc'[u] = "device"
  BY <1>4 DEF ClientStep, WaitIO, TestIO, Wake, WaitPort, GetMsg
<1>6. /\ UNCHANGED type /\ inUse' \subseteq inUse
      /\ \A r \in inUse \ inUse' : type[r] # "message"
  <2>1. CASE TestIO(t)
    <3>1. pc[t] = "testio" => current[t] \in inUse /\ ~quick[current[t]]
      BY DEF IInv, IOInv, WaitsForOwn
    <3> QED  BY <2>1, <3>1 DEF TestIO, Busy
  <2>2. CASE GetMsg(t)
    <3>1. /\ replyPort[t] # <<>> /\ inUse' = inUse \ {Head(replyPort[t])} /\ UNCHANGED type
      BY <2>2 DEF GetMsg
    <3>2. replyPort[t] \in Seq(Requests) /\ IsInjective(replyPort[t])
      BY DEF IInv, IOInv, IOTypeOK, RepliedIsQueued
    <3>3. Head(replyPort[t]) \in ToSet(replyPort[t])
      BY <3>1, <3>2, TailList
    <3>4. type[Head(replyPort[t])] = "reply"
      BY <3>3 DEF IInv, IOInv, RepliedIsQueued
    <3> QED  BY <3>1, <3>4
  <2>3. CASE (\E r \in Requests : WaitIO(t, r)) \/ Wake(t) \/ WaitPort(t)
    BY <2>3 DEF WaitIO, Wake, WaitPort
  <2> QED  BY <2>1, <2>2, <2>3 DEF ClientStep
<1>7. \A r \in Requests : r \in inUse' \ refused' /\ type'[r] = "message"
                               <=> r \in inUse \ refused /\ type[r] = "message"
  BY <1>1, <1>6
<1>8. UNCHANGED clockVars
  OBVIOUS
<1>9. \A r \in Timed : (\E l \in Lists : r \in ToSet(list[l])) => time'[r] = time[r]
  BY <1>1
<1> QED  BY <1>1, <1>2, <1>3, <1>5, <1>7, <1>8, <1>9, SameClocks, SameListsKeep

\* and nothing at all does,
LEMMA StutterKeeps ==
  ASSUME IInv, UNCHANGED vars
  PROVE  IInv'
<1>1. UNCHANGED <<type, quick, replyPort, signal, pc, current, inUse, strays>>
      /\ UNCHANGED <<time, list, alarm, stale, due, refused>> /\ UNCHANGED clockVars
  BY DEF vars, devVars, ioVars
<1>2. IOInv'
  BY <1>1 DEF IInv, IOInv, IOTypeOK, WaitsForOwn, RepliedIsQueued, NoLostReply, Busy
<1>3. time' \in [Timed -> Nat] /\ refused' \subseteq Requests
  BY <1>1 DEF IInv, TypeOK
<1> QED  BY <1>1, <1>2, <1>3, SameClocks, SameListsKeep

\* BeginIO() of a request that is done at once.
LEMMA DoneKeeps ==
  ASSUME IInv, NEW t \in Tasks, NEW r \in Requests, NEW q \in BOOLEAN,
         MaySend(t, r), DoneAtOnce(t, r, q), ClocksOK, UNCHANGED <<list, alarm, stale, due>>,
         refused' = refused \ {r}, time' = time \/ time' = [time EXCEPT ![r] = 0]
  PROVE  IInv'
<1>1. r \in OwnedBy(t) \ inUse /\ r \in Timed
  BY DEF MaySend, OwnedBy, Timed
<1>2. /\ quick' = [quick EXCEPT ![r] = q] /\ UNCHANGED <<pc, current, strays>>
      /\ IF q THEN type' = [type EXCEPT ![r] = "message"] /\ UNCHANGED <<replyPort, signal, inUse>>
              ELSE /\ type' = [type EXCEPT ![r] = "reply"]
                   /\ inUse' = inUse \cup {r}
                   /\ PutReplies(<<r>>)
  BY DEF DoneAtOnce
<1>3. /\ type \in [Requests -> {"none", "message", "reply"}] /\ quick \in [Requests -> BOOLEAN]
      /\ strays \subseteq Requests /\ IOInv /\ time \in [Timed -> Nat] /\ refused \subseteq Requests
      /\ \A i \in inUse : ~quick[i]
  BY DEF IInv, TypeOK, IOInv, IOTypeOK, WaitsForOwn
<1>4. IOInv'
  <2>1. CASE q
    BY <2>1, <1>1, <1>2, <1>3, SendKeeps
  <2>2. CASE ~q
    <3> DEFINE s == <<r>>
    <3>1. s \in Seq(Requests) /\ IsInjective(s) /\ ToSet(s) = {r}
      BY OneList
    <3>2. PutReplies(s) /\ inUse' = inUse \cup ToSet(s)
      BY <2>2, <3>1, <1>2
    <3> HIDE DEF s
    <3>3. /\ type' \in [Requests -> {"none", "message", "reply"}]
          /\ \A i \in Requests : type'[i] = IF i \in ToSet(s) THEN "reply" ELSE type[i]
      BY <2>2, <3>1, <1>2, <1>3
    <3>4. quick' \in [Requests -> BOOLEAN] /\ \A i \in inUse \cup ToSet(s) : ~quick'[i]
      BY <2>2, <3>1, <1>1, <1>2, <1>3
    <3>5. \A i \in ToSet(s) : i \notin inUse \/ type[i] # "reply"
      BY <3>1, <1>1
    <3>6. UNCHANGED <<pc, current>> /\ strays' \subseteq Requests
      BY <1>2, <1>3
    <3> QED  BY <3>1, <3>2, <3>3, <3>4, <3>5, <3>6, <1>3, PutRepliesKeep
  <2> QED  BY <2>1, <2>2
<1>5. time' \in [Timed -> Nat] /\ refused' \subseteq Requests
  BY <1>1, <1>3
<1>6. ASSUME NEW i \in Timed, \E l \in Lists : i \in ToSet(list[l]) PROVE time'[i] = time[i]
  <2>1. i # r
    BY <1>1, <1>6, ListsFrom
  <2> QED  BY <2>1, <1>3
<1>7. \A i \in Requests : i \in inUse' \ refused' /\ type'[i] = "message"
                             <=> i \in inUse \ refused /\ type[i] = "message"
  BY <1>1, <1>2, <1>3
<1>8. \A u \in Tasks : pc[u] = "device" => pc'[u] = "device"
  BY <1>2
<1> QED  BY <1>4, <1>5, <1>6, <1>7, <1>8, SameListsKeep

\* TR_ADDREQUEST on the E-clock units.
LEMMA AddEClockKeeps ==
  ASSUME IInv, NEW t \in Tasks, NEW r \in Requests, NEW q \in BOOLEAN, AddEClock(t, r, q)
  PROVE  IInv'
<1>1. r \in OwnedBy(t) \ inUse
  BY DEF AddEClock, MaySend
<1>2. /\ type' = [type EXCEPT ![r] = "message"] /\ quick' = [quick EXCEPT ![r] = q]
      /\ inUse' = IF q THEN inUse ELSE inUse \cup {r}
      /\ refused' = refused \cup {r}
      /\ UNCHANGED <<replyPort, signal, strays, pc, current>>
      /\ UNCHANGED clockVars /\ UNCHANGED <<time, list, alarm, stale, due>>
  BY DEF AddEClock
<1>3. /\ type \in [Requests -> {"none", "message", "reply"}]
      /\ IOInv /\ time \in [Timed -> Nat] /\ refused \subseteq Requests
  BY DEF IInv, TypeOK, IOInv, IOTypeOK
<1>4. IOInv'
  BY <1>1, <1>2, <1>3, SendKeeps
<1>5. time' \in [Timed -> Nat] /\ refused' \subseteq Requests
  BY <1>2, <1>3
<1>6. \A i \in Timed : (\E l \in Lists : i \in ToSet(list[l])) => time'[i] = time[i]
  BY <1>2
<1>7. \A i \in Requests : i \in inUse' \ refused' /\ type'[i] = "message"
                             <=> i \in inUse \ refused /\ type[i] = "message"
  BY <1>1, <1>2, <1>3
<1>8. \A u \in Tasks : pc[u] = "device" => pc'[u] = "device"
  BY <1>2
<1> QED  BY <1>2, <1>4, <1>5, <1>6, <1>7, <1>8, SameClocks, SameListsKeep

\* The alarm is set at the end of BeginIO().
LEMMA SetupKeeps ==
  ASSUME IInv, NEW t \in Tasks, Setup(t)
  PROVE  IInv'
<1>1. /\ pc[t] = "device" /\ EClockUpdate /\ stale' = now - prev
      /\ alarm' = IF now >= alarm THEN alarm ELSE now + DelayFor(list["micro"], time, elapsed)
      /\ pc' = [pc EXCEPT ![t] = Afterwards(current[t] # None)]
      /\ UNCHANGED <<time, list, due, refused>>
      /\ UNCHANGED <<type, quick, replyPort, signal, current, inUse, strays>>
  BY DEF Setup, Timer0Setup
<1>2. /\ now \in Nat /\ prev \in Nat /\ elapsed \in Nat /\ prev <= now /\ now - prev \in Nat
  BY ClockTypes
<1>3. /\ list["micro"] \in Seq(Timed) /\ VBlank \in ToSet(list["micro"]) /\ time \in [Timed -> Nat]
      /\ alarm \in Nat
  BY ListsFrom DEF IInv, TypeOK
<1>4. list["micro"] # <<>> /\ Head(list["micro"]) \in Timed /\ time[Head(list["micro"])] \in Nat
  BY <1>3, FirstIs
<1>5. /\ DelayFor(list["micro"], time, elapsed) \in Nat
      /\ DelayFor(list["micro"], time, elapsed)
           <= IF time[Head(list["micro"])] - elapsed >= 0 THEN time[Head(list["micro"])] - elapsed ELSE 0
  BY <1>2, <1>3, <1>4, DelayIs
<1>6. alarm' \in Nat /\ alarm' <= now + DelayFor(list["micro"], time, elapsed)
  BY <1>1, <1>2, <1>3, <1>5
<1>7. ClocksOK
  BY <1>1, ReadingKeeps
<1>8. IOInv'
  <2>1. pc' = [pc EXCEPT ![t] = IF current[t] # None THEN "testio" ELSE "run"]
    BY <1>1 DEF Afterwards
  <2> QED  BY <1>1, <2>1, ReturnKeeps DEF IInv
<1>9. TypeOK' /\ UpTimeBehind'
  BY <1>1, <1>2, <1>6, <1>7, <1>8 DEF IInv, IOInv, TypeOK, ClocksOK, UpTimeBehind
<1>10. PendingIffListed' /\ ListsSorted'
  BY <1>1 DEF IInv, PendingIffListed, Pending, ListsSorted
<1>11. AlarmInTime'
  <2> DEFINE h == time[Head(list["micro"])]
             d == DelayFor(list["micro"], time, elapsed)
             x == prev' + h - elapsed' + stale'
  <2>1. x \in Int /\ x = now + (h - elapsed)
    <3>1. prev' = now /\ elapsed' = elapsed + (now - prev) /\ stale' = now - prev
      BY <1>1 DEF EClockUpdate, ElapsedNow
    <3>2. h \in Nat
      BY <1>4
    <3> HIDE DEF h
    <3> QED  BY <3>1, <3>2, <1>2
  <2>2. d \in Nat /\ h \in Nat /\ d <= (IF h - elapsed >= 0 THEN h - elapsed ELSE 0) /\ alarm' <= now + d
    BY <1>4, <1>5, <1>6
  <2> HIDE DEF x, d, h
  <2>3. alarm' <= Max({now, x})
    BY <2>1, <2>2, <1>2, <1>6, AlarmSet
  <2>4. now' = now /\ time'[Head(list'["micro"])] = h
    BY <1>1 DEF EClockUpdate, h
  <2> QED  BY <2>3, <2>4 DEF AlarmInTime, x
<1>12. DueLater'
  <2> SUFFICES ASSUME NEW r \in Requests, due[r] # 0
               PROVE  due[r] - time[r] <= prev' - elapsed'
    BY <1>1 DEF IInv, DueLater
  <2>1. due[r] - time[r] <= prev - elapsed /\ due[r] \in Nat /\ time[r] \in Nat
    <3>1. r \in Timed /\ due \in [Requests -> Nat] /\ time \in [Timed -> Nat]
      BY DEF IInv, TypeOK, Timed
    <3>2. due[r] - time[r] <= prev - elapsed
      BY DEF IInv, DueLater
    <3> QED  BY <3>1, <3>2
  <2> QED  BY <2>1, <1>7, LaterStays
<1> QED  BY <1>8, <1>9, <1>10, <1>11, <1>12 DEF IInv

\* The request r of the task t is put into the list u for the time v.
Adding(t, r, q, u, v) ==
  /\ MaySend(t, r) /\ ClocksOK
  /\ time' = [time EXCEPT ![r] = v]
  /\ list' = [list EXCEPT ![u] = Inserted(list[u], time, r, v)]
  /\ Started(t, r, q, AfterAdding(Inserted(list[u], time, r, v), r, q))
  /\ refused' = refused \ {r} /\ UNCHANGED <<alarm, stale>>
  /\ due' \in [Requests -> Nat] /\ \A x \in Requests \ {r} : due'[x] = due[x]
  /\ due'[r] # 0 => u # "until" /\ due'[r] - v <= prev' - elapsed'

\* a request that is added,
LEMMA AddingKeeps ==
  ASSUME IInv, NEW t \in Tasks, NEW r \in Requests, NEW q \in BOOLEAN, NEW u \in Lists, NEW v \in Nat,
         Adding(t, r, q, u, v)
  PROVE  IInv'
<1> DEFINE l == Inserted(list[u], time, r, v)
           p == AfterAdding(l, r, q)
<1>0. /\ ClocksOK /\ refused' = refused \ {r} /\ UNCHANGED <<alarm, stale>>
      /\ due' \in [Requests -> Nat] /\ \A x \in Requests \ {r} : due'[x] = due[x]
      /\ due'[r] # 0 => u # "until" /\ due'[r] - v <= prev' - elapsed'
  BY DEF Adding
<1>1. r \in OwnedBy(t) \ inUse /\ r \in Timed /\ pc[t] = "run" /\ r # VBlank
  BY TimerConstantsOK DEF Adding, MaySend, OwnedBy, Timed
<1>2. /\ type' = [type EXCEPT ![r] = "message"] /\ quick' = [quick EXCEPT ![r] = FALSE]
      /\ inUse' = inUse \cup {r}
      /\ pc' = [pc EXCEPT ![t] = p]
      /\ current' = [current EXCEPT ![t] = IF q THEN r ELSE None]
      /\ UNCHANGED <<replyPort, signal, strays>>
  BY DEF Adding, Started
<1>3. p \in {"run", "testio", "device"} /\ (p = "testio" => q) /\ (Head(l) = r => p = "device")
  BY DEF AfterAdding, Afterwards
<1>4. /\ type \in [Requests -> {"none", "message", "reply"}]
      /\ pc \in [Tasks -> {"run", "testio", "sleepio", "testport", "sleepport", "device"}]
      /\ IOInv /\ time \in [Timed -> Nat] /\ refused \subseteq Requests
      /\ list \in [Lists -> Seq(Timed)]
  BY DEF IInv, TypeOK, IOInv, IOTypeOK
<1>5. \A m \in Lists : r \notin ToSet(list[m])
  BY <1>1, ListsFrom
<1>6. time' \in [Timed -> Nat] /\ time'[r] = v /\ \A x \in Timed \ {r} : time'[x] = time[x]
  BY <1>1, <1>4 DEF Adding
<1>7. \A m \in Lists : \A x \in ToSet(list[m]) : x \in Timed /\ time'[x] = time[x]
  BY <1>5, <1>6, ListsFrom
<1>8. list[u] \in Seq(Timed) /\ IsInjective(list[u]) /\ Sorted(list[u], time)
  BY ListsFrom
<1>9. /\ l \in Seq(Timed) /\ IsInjective(l) /\ ToSet(l) = ToSet(list[u]) \cup {r}
      /\ Sorted(l, time')
      /\ Head(l) # r => list[u] # <<>> /\ Head(l) = Head(list[u])
  <2>1. Fits(list[u], time, r, v, time')
    BY <1>1, <1>4, <1>5, <1>6, <1>7, <1>8 DEF Fits
  <2> QED  BY <2>1, InsertSorted
<1>10. list' \in [Lists -> Seq(Timed)] /\ \A m \in Lists : list'[m] = IF m = u THEN l ELSE list[m]
  BY <1>4, <1>9 DEF Adding
<1> HIDE DEF l, p
<1>11. IOInv'
  BY <1>1, <1>2, <1>3, <1>4, SendKeeps
<1>12. TypeOK' /\ UpTimeBehind'
  BY <1>0, <1>4, <1>6, <1>10, <1>11 DEF IInv, IOInv, TypeOK, ClocksOK, UpTimeBehind
<1>13. \A m \in Lists : ToSet(list'[m]) = IF m = u THEN ToSet(list[m]) \cup {r} ELSE ToSet(list[m])
  BY <1>9, <1>10
<1>14. ListsOK(list', time')
  <2>1. ASSUME NEW m \in Lists PROVE IsInjective(list'[m]) /\ Sorted(list'[m], time')
    <3>1. CASE m = u
      BY <3>1, <1>9, <1>10
    <3>2. CASE m # u
      <4>1. list'[m] = list[m] /\ list[m] \in Seq(Timed) /\ IsInjective(list[m]) /\ Sorted(list[m], time)
        BY <3>2, <1>10, ListsFrom
      <4> QED  BY <4>1, <1>7, SortedAgain
    <3> QED  BY <3>1, <3>2
  <2>2. \A m, n \in Lists : m # n => ToSet(list'[m]) \cap ToSet(list'[n]) = {}
    <3> SUFFICES ASSUME NEW m \in Lists, NEW n \in Lists, m # n
                 PROVE  ToSet(list'[m]) \cap ToSet(list'[n]) = {}
      OBVIOUS
    <3>1. ToSet(list[m]) \cap ToSet(list[n]) = {} /\ r \notin ToSet(list[m]) /\ r \notin ToSet(list[n])
      BY <1>5, ListsFrom
    <3> QED  BY <3>1, <1>13
  <2>3. VBlank \in ToSet(list'["micro"])
    BY <1>13, ListsFrom
  <2> QED  BY <2>1, <2>2, <2>3, <1>10 DEF ListsOK
<1>15. PendingIffListed' /\ ListsSorted'
  <2>1. ASSUME NEW x \in Requests
        PROVE  (\E m \in Lists : x \in ToSet(list'[m])) <=> x \in inUse' \ refused' /\ type'[x] = "message"
    <3>1. CASE x = r
      BY <3>1, <1>0, <1>2, <1>4, <1>13
    <3>2. CASE x # r
      <4>1. x \in inUse' \ refused' /\ type'[x] = "message" <=> x \in inUse \ refused /\ type[x] = "message"
        BY <3>2, <1>0, <1>2, <1>4
      <4>2. \A m \in Lists : x \in ToSet(list'[m]) <=> x \in ToSet(list[m])
        BY <3>2, <1>13
      <4> QED  BY <4>1, <4>2, ListsFrom
    <3> QED  BY <3>1, <3>2
  <2> QED  BY <2>1, <1>14, ListsTo
<1>16. AlarmInTime'
  <2>1. \A w \in Tasks : pc'[w] = IF w = t THEN p ELSE pc[w]
    BY <1>2, <1>4
  <2>2. \A w \in Tasks : pc[w] = "device" => \E x \in Tasks : pc'[x] = "device"
    BY <2>1, <1>1
  <2>3. \/ \E x \in Tasks : pc'[x] = "device"
        \/ /\ time'[Head(list'["micro"])] \in Nat
           /\ time[Head(list["micro"])] <= time'[Head(list'["micro"])]
    <3>1. CASE Head(l) = r
      BY <3>1, <2>1, <1>3
    <3>2. CASE Head(l) # r
      <4>1. "micro" \in Lists /\ list["micro"] \in Seq(Timed) /\ VBlank \in ToSet(list["micro"])
        BY ListsFrom
      <4>2. Head(list'["micro"]) = Head(list["micro"])
        BY <3>2, <4>1, <1>9, <1>10
      <4>3. Head(list["micro"]) \in Timed /\ Head(list["micro"]) \in ToSet(list["micro"])
        BY <4>1, FirstIs
      <4>4. time'[Head(list["micro"])] = time[Head(list["micro"])] /\ time[Head(list["micro"])] \in Nat
        BY <4>1, <4>3, <1>4, <1>7
      <4>5. time'[Head(list'["micro"])] = time[Head(list["micro"])]
        BY <4>2, <4>4
      <4> QED  BY <4>4, <4>5
    <3> QED  BY <3>1, <3>2
  <2>4. now' \in Nat /\ now <= now' /\ prev' \in Int /\ elapsed' \in Int
        /\ prev - elapsed <= prev' - elapsed'
    BY <1>0, ClockTypes DEF ClocksOK
  <2> QED  BY <2>2, <2>3, <2>4, <1>0, AlarmStays
<1>17. DueLater'
  <2> SUFFICES ASSUME NEW x \in Requests, due'[x] # 0
               PROVE  /\ x \in ToSet(list'["micro"]) \cup ToSet(list'["vblank"])
                      /\ due'[x] - time'[x] <= prev' - elapsed'
    BY DEF DueLater
  <2>0. "micro" \in Lists /\ "vblank" \in Lists /\ (u = "micro" \/ u = "vblank" \/ u = "until")
    BY DEF Lists
  <2>1. CASE x = r
    BY <2>0, <2>1, <1>0, <1>6, <1>13
  <2>2. CASE x # r
    <3>1. due'[x] = due[x] /\ time'[x] = time[x]
      BY <2>2, <1>0, <1>6 DEF Timed
    <3>2. x \in ToSet(list["micro"]) \cup ToSet(list["vblank"]) /\ due[x] - time[x] <= prev - elapsed
      BY <3>1 DEF IInv, DueLater
    <3>3. x \in ToSet(list'["micro"]) \cup ToSet(list'["vblank"])
      BY <2>0, <3>2, <1>13
    <3>4. due[x] \in Nat /\ time[x] \in Nat
      <4>1. x \in Timed /\ due \in [Requests -> Nat]
        BY DEF IInv, TypeOK, Timed
      <4> QED  BY <4>1, <1>4
    <3>6. due[x] - time[x] <= prev' - elapsed'
      BY <3>2, <3>4, <1>0, LaterStays
    <3> QED  BY <3>1, <3>3, <3>6
  <2> QED  BY <2>1, <2>2
<1> QED  BY <1>11, <1>12, <1>15, <1>16, <1>17 DEF IInv

\* TR_ADDREQUEST for an interval and for a time of day.
LEMMA AddIntervalKeeps ==
  ASSUME IInv, NEW t \in Tasks, NEW r \in Requests, NEW q \in BOOLEAN,
         NEW u \in Units \cap {"micro", "vblank"}, NEW d \in Delays, AddInterval(t, r, u, d, q)
  PROVE  IInv'
<1> DEFINE v == ElapsedNow + d
<1>1. d \in Nat /\ v \in Nat /\ now \in Nat /\ now - ElapsedNow = prev - elapsed /\ u \in Lists /\ u # "until"
  BY ClockTypes, TimerConstantsOK DEF Lists
<1>2. /\ MaySend(t, r) /\ EClockUpdate
      /\ time' = [time EXCEPT ![r] = v] /\ due' = [due EXCEPT ![r] = now + d]
      /\ list' = [list EXCEPT ![u] = Inserted(list[u], time, r, v)]
      /\ Started(t, r, q, AfterAdding(Inserted(list[u], time, r, v), r, q))
      /\ refused' = refused \ {r} /\ UNCHANGED <<alarm, stale>>
  BY DEF AddInterval
<1>3. ClocksOK
  BY <1>2, ReadingKeeps
<1>4. due' \in [Requests -> Nat] /\ due'[r] = now + d /\ \A x \in Requests \ {r} : due'[x] = due[x]
  <2>1. now + d \in Nat /\ due \in [Requests -> Nat]
    BY <1>1 DEF IInv, TypeOK
  <2> QED  BY <2>1, <1>2
<1>5. due'[r] - v <= prev' - elapsed'
  <2>1. due'[r] - v = now - ElapsedNow /\ now - ElapsedNow \in Int
    BY <1>1, <1>4, ClockTypes
  <2>2. prev' - elapsed' = now - ElapsedNow
    BY <1>2 DEF EClockUpdate
  <2> QED  BY <2>1, <2>2
<1> HIDE DEF v
<1>6. Adding(t, r, q, u, v)
  BY <1>1, <1>2, <1>3, <1>4, <1>5 DEF Adding
<1> QED  BY <1>1, <1>6, AddingKeeps

\* also one for a time of day,
LEMMA AddUntilKeeps ==
  ASSUME IInv, NEW t \in Tasks, NEW r \in Requests, NEW q \in BOOLEAN, NEW v \in Times, AddUntil(t, r, v, q)
  PROVE  IInv'
<1>1. v \in Nat /\ "until" \in Lists
  BY TimerConstantsOK DEF Lists
<1>2. /\ MaySend(t, r) /\ EClockUpdate /\ UNCHANGED due
      /\ refused' = refused \ {r} /\ UNCHANGED <<alarm, stale>>
  BY DEF AddUntil
<1>3. ClocksOK
  BY <1>2, ReadingKeeps
<1>4. CASE /\ time' = [time EXCEPT ![r] = 0]
           /\ DoneAtOnce(t, r, q)
           /\ UNCHANGED list
  BY <1>2, <1>3, <1>4, DoneKeeps
<1>5. CASE /\ time' = [time EXCEPT ![r] = v]
           /\ list' = [list EXCEPT !["until"] = Inserted(list["until"], time, r, v)]
           /\ Started(t, r, q, AfterAdding(Inserted(list["until"], time, r, v), r, q))
  <2>1. due' \in [Requests -> Nat] /\ due'[r] = 0 /\ \A x \in Requests \ {r} : due'[x] = due[x]
    <3>1. r \notin inUse
      BY <1>2 DEF MaySend
    <3>2. r \notin ToSet(list["micro"]) /\ r \notin ToSet(list["vblank"])
      BY <3>1, ListsFrom DEF Lists
    <3> QED  BY <3>2, <1>2 DEF IInv, TypeOK, DueLater
  <2>2. Adding(t, r, q, "until", v)
    BY <2>1, <1>2, <1>3, <1>5 DEF Adding
  <2> QED  BY <2>2, <1>1, AddingKeeps
<1> QED  BY <1>4, <1>5 DEF AddUntil

\* one that is aborted,
LEMMA AbortKeeps ==
  ASSUME IInv, NEW t \in Tasks, NEW r \in Requests, AbortIO(t, r)
  PROVE  IInv'
<1>1. /\ pc[t] = "run" /\ r \in OwnedBy(t) \cap inUse /\ type[r] # "reply"
      /\ list' = [l \in Lists |-> RemoveFirst(list[l], r)]
      /\ strays' = IF \A l \in Lists : r \notin ToSet(list[l]) THEN strays \cup {r} ELSE strays
      /\ time' = [time EXCEPT ![r] = 0]
      /\ due' = [due EXCEPT ![r] = 0]
      /\ refused' = refused \ {r}
      /\ UNCHANGED clockVars /\ UNCHANGED <<alarm, stale, quick, pc, current, inUse>>
  BY DEF AbortIO, MayAbort
<1>2. /\ type \in [Requests -> {"none", "message", "reply"}] /\ quick \in [Requests -> BOOLEAN]
      /\ strays \subseteq Requests /\ IOInv /\ time \in [Timed -> Nat] /\ refused \subseteq Requests
      /\ due \in [Requests -> Nat] /\ inUse \subseteq Requests
      /\ \A i \in inUse : ~quick[i]
      /\ r \in Timed /\ r # VBlank
  BY TimerConstantsOK DEF IInv, TypeOK, IOInv, IOTypeOK, WaitsForOwn, Timed
<1>3. type' = [type EXCEPT ![r] = "reply"] /\ PutReplies(<<r>>)
  BY <1>1, <1>2 DEF AbortIO
<1>4. ClocksOK
  BY <1>1, SameClocks
<1>5. IOInv'
  <2> DEFINE s == <<r>>
  <2>1. s \in Seq(Requests) /\ IsInjective(s) /\ ToSet(s) = {r}
    BY OneList
  <2>2. PutReplies(s) /\ inUse' = inUse \cup ToSet(s)
    BY <2>1, <1>1, <1>3
  <2> HIDE DEF s
  <2>3. /\ type' \in [Requests -> {"none", "message", "reply"}]
        /\ \A i \in Requests : type'[i] = IF i \in ToSet(s) THEN "reply" ELSE type[i]
    BY <2>1, <1>2, <1>3
  <2>4. quick' \in [Requests -> BOOLEAN] /\ \A i \in inUse \cup ToSet(s) : ~quick'[i]
    BY <2>1, <1>1, <1>2
  <2>5. \A i \in ToSet(s) : i \notin inUse \/ type[i] # "reply"
    BY <2>1, <1>1
  <2>6. UNCHANGED <<pc, current>> /\ strays' \subseteq Requests
    BY <1>1, <1>2
  <2> QED  BY <2>1, <2>2, <2>3, <2>4, <2>5, <2>6, <1>2, PutRepliesKeep
<1>6. time' \in [Timed -> Nat] /\ \A i \in Timed \ {r} : time'[i] = time[i]
  BY <1>1, <1>2
<1>7. ASSUME NEW l \in Lists
      PROVE  /\ list'[l] = RemoveFirst(list[l], r)
             /\ list'[l] \in Seq(Timed) /\ IsInjective(list'[l])
             /\ ToSet(list'[l]) = ToSet(list[l]) \ {r}
             /\ Sorted(list'[l], time) /\ Sorted(list'[l], time')
             /\ list'[l] # <<>> => list[l] # <<>> /\ time[Head(list[l])] <= time[Head(list'[l])]
  <2> DEFINE s == list[l]
             u == RemoveFirst(s, r)
  <2>1. list'[l] = u
    BY <1>1
  <2>2. s \in Seq(Timed) /\ IsInjective(s) /\ Sorted(s, time)
    BY ListsFrom
  <2>3. u \in Seq(Timed) /\ IsInjective(u) /\ ToSet(u) = ToSet(s) \ {r}
    BY <2>2, RemoveList
  <2>4. Sorted(u, time) /\ (u # <<>> => s # <<>> /\ time[Head(s)] <= time[Head(u)])
    BY <2>2, <1>2, RemoveSorted
  <2> HIDE DEF u
  <2>5. \A i \in ToSet(u) : time'[i] = time[i]
    BY <2>3, <1>6, ElementOf
  <2>6. Sorted(u, time')
    BY <2>3, <2>4, <2>5, SortedAgain
  <2> QED  BY <2>1, <2>3, <2>4, <2>6 DEF u
<1>8. list' \in [Lists -> Seq(Timed)]
  BY <1>1, <1>7
<1>9. TypeOK' /\ UpTimeBehind'
  <2>1. due' \in [Requests -> Nat] /\ refused' \subseteq Requests /\ alarm' \in Nat /\ stale' \in Nat
    BY <1>1, <1>2 DEF IInv, TypeOK
  <2>2. now' \in Nat /\ prev' \in 0 .. now' /\ elapsed' \in 0 .. now' /\ sysTime' \in Nat /\ elapsed' <= prev'
    BY <1>4, ClockTypes DEF ClocksOK
  <2>3. IOTypeOK'
    BY <1>5 DEF IOInv
  <2> QED  BY <2>1, <2>2, <2>3, <1>6, <1>8 DEF TypeOK, UpTimeBehind
<1>10. ListsOK(list', time')
  <2>1. \A l, m \in Lists : l # m => ToSet(list'[l]) \cap ToSet(list'[m]) = {}
    <3> SUFFICES ASSUME NEW l \in Lists, NEW m \in Lists, l # m
                 PROVE  ToSet(list'[l]) \cap ToSet(list'[m]) = {}
      OBVIOUS
    <3>1. ToSet(list[l]) \cap ToSet(list[m]) = {}
      BY ListsFrom
    <3> QED  BY <3>1, <1>7
  <2>2. VBlank \in ToSet(list'["micro"])
    <3>1. "micro" \in Lists /\ VBlank \in ToSet(list["micro"])
      BY ListsFrom DEF Lists
    <3> QED  BY <3>1, <1>2, <1>7
  <2> QED  BY <2>1, <2>2, <1>7, <1>8 DEF ListsOK
<1>11. PendingIffListed' /\ ListsSorted'
  <2>1. ASSUME NEW x \in Requests
        PROVE  (\E m \in Lists : x \in ToSet(list'[m])) <=> x \in inUse' \ refused' /\ type'[x] = "message"
    <3>1. CASE x = r
      BY <3>1, <1>2, <1>3, <1>7
    <3>2. CASE x # r
      <4>1. x \in inUse' \ refused' /\ type'[x] = "message" <=> x \in inUse \ refused /\ type[x] = "message"
        BY <3>2, <1>1, <1>2, <1>3
      <4>2. \A m \in Lists : x \in ToSet(list'[m]) <=> x \in ToSet(list[m])
        BY <3>2, <1>7
      <4> QED  BY <4>1, <4>2, ListsFrom
    <3> QED  BY <3>1, <3>2
  <2> QED  BY <2>1, <1>10, ListsTo
<1>12. AlarmInTime'
  <2>1. "micro" \in Lists /\ list'["micro"] \in Seq(Timed) /\ VBlank \in ToSet(list'["micro"])
    BY <1>7, <1>10 DEF ListsOK, Lists
  <2>2. list'["micro"] # <<>> /\ Head(list'["micro"]) \in Timed /\ Head(list'["micro"]) \in ToSet(list'["micro"])
    BY <2>1, FirstIs
  <2>3. Head(list'["micro"]) # r
    BY <2>1, <2>2, <1>7
  <2>4. time'[Head(list'["micro"])] = time[Head(list'["micro"])] /\ time[Head(list'["micro"])] \in Nat
    BY <2>2, <2>3, <1>2, <1>6
  <2>5. time[Head(list["micro"])] <= time'[Head(list'["micro"])] /\ time'[Head(list'["micro"])] \in Nat
    BY <2>1, <2>2, <2>4, <1>7
  <2>6. now' \in Nat /\ now <= now' /\ prev' \in Int /\ elapsed' \in Int
        /\ prev - elapsed <= prev' - elapsed'
    BY <1>4, ClockTypes DEF ClocksOK
  <2>7. \A w \in Tasks : pc[w] = "device" => \E x \in Tasks : pc'[x] = "device"
    BY <1>1
  <2> QED  BY <2>5, <2>6, <2>7, <1>1, AlarmStays
<1>13. DueLater'
  <2> SUFFICES ASSUME NEW x \in Requests, due'[x] # 0
               PROVE  /\ x \in ToSet(list'["micro"]) \cup ToSet(list'["vblank"])
                      /\ due'[x] - time'[x] <= prev' - elapsed'
    BY DEF DueLater
  <2>1. x # r /\ due'[x] = due[x] /\ x \in Timed /\ due[x] \in Nat
    BY <1>1, <1>2 DEF Timed
  <2>2. time'[x] = time[x] /\ time[x] \in Nat
    BY <2>1, <1>2, <1>6
  <2>3. x \in ToSet(list["micro"]) \cup ToSet(list["vblank"]) /\ due[x] - time[x] <= prev - elapsed
    BY <2>1 DEF IInv, DueLater
  <2>4. x \in ToSet(list'["micro"]) \cup ToSet(list'["vblank"])
    BY <2>1, <2>3, <1>7 DEF Lists
  <2>5. due[x] - time[x] <= prev' - elapsed'
    BY <2>1, <2>2, <2>3, <1>4, LaterStays
  <2> QED  BY <2>1, <2>2, <2>4, <2>5
<1> QED  BY <1>5, <1>9, <1>11, <1>12, <1>13 DEF IInv

\* The interrupt.
LEMMA TimerIntFacts ==
  ASSUME IInv, TimerInt
  PROVE  LET R == Replied(ElapsedNow, SysTimeNow) IN
         /\ R \in Seq(Requests) /\ IsInjective(R)
         /\ \A r \in ToSet(R) : \/ r \in ToSet(list["micro"]) \cup ToSet(list["vblank"]) /\ time[r] <= ElapsedNow
                                \/ r \in ToSet(list["until"])
         /\ ListsOK(list', time') /\ time' \in [Timed -> Nat]
         /\ \A l \in Lists : ToSet(list'[l]) = ToSet(list[l]) \ ToSet(R)
         /\ \A r \in Requests \ ToSet(R) : time'[r] = time[r]
<1> DEFINE e == ElapsedNow
           s == SysTimeNow
           R == Replied(e, s)
           T == [r \in Timed |-> IF r \in ToSet(R) THEN 0
                                 ELSE IF r = VBlank /\ VBlankDue(e) THEN e + Period ELSE time[r]]
<1>1. list' = ListsAfter(e, s) /\ time' = T
  BY DEF TimerInt
<1>2. e \in Nat /\ s \in Nat
  BY ClockTypes
<1>3. Period \in Nat /\ time \in [Timed -> Nat] /\ VBlank \notin Requests
  BY TimerConstantsOK DEF IInv, TypeOK
<1> HIDE DEF e, s, R
<1>4. T \in [Timed -> Nat] /\ \A r \in Timed \ ToSet(R) :
           T[r] = IF r = VBlank /\ VBlankDue(e) THEN e + Period ELSE time[r]
  BY <1>2, <1>3
<1>5. \A r \in Requests \ ToSet(R) : T[r] = time[r]
  BY <1>3, <1>4 DEF Timed
<1> HIDE DEF T
<1>6. ListsOK(list, time)
  BY ListsFrom
<1>7. /\ R \in Seq(Requests) /\ IsInjective(R)
      /\ \A r \in ToSet(R) : \/ r \in ToSet(list["micro"]) \cup ToSet(list["vblank"]) /\ time[r] <= e
                             \/ r \in ToSet(list["until"])
      /\ ListsOK(ListsAfter(e, s), T)
      /\ \A l \in Lists : ToSet(ListsAfter(e, s)[l]) = ToSet(list[l]) \ ToSet(R)
  BY <1>2, <1>3, <1>4, <1>6, PassIs DEF R
<1> QED  BY <1>1, <1>4, <1>5, <1>7 DEF R, e, s

\* and the interrupt of the timer.
LEMMA TimerIntKeeps ==
  ASSUME IInv, TimerInt
  PROVE  IInv'
<1> DEFINE R == Replied(ElapsedNow, SysTimeNow)
<1>1. /\ EClockUpdate
      /\ type' = [r \in Requests |-> IF r \in ToSet(R) THEN "reply" ELSE type[r]]
      /\ PutReplies(R)
      /\ alarm' = now + DelayFor(list'["micro"], time', ElapsedNow) /\ stale' = 0
      /\ due' = [r \in Requests |-> IF r \in ToSet(R) THEN 0 ELSE due[r]]
      /\ UNCHANGED <<refused, quick, pc, current, inUse, strays>>
  BY DEF TimerInt
<1>2. /\ R \in Seq(Requests) /\ IsInjective(R)
      /\ \A r \in ToSet(R) : r \in ToSet(list["micro"]) \cup ToSet(list["vblank"]) \cup ToSet(list["until"])
      /\ ListsOK(list', time') /\ time' \in [Timed -> Nat]
      /\ \A l \in Lists : ToSet(list'[l]) = ToSet(list[l]) \ ToSet(R)
      /\ \A r \in Requests \ ToSet(R) : time'[r] = time[r]
  BY TimerIntFacts
<1> HIDE DEF R
<1>3. ClocksOK
  BY <1>1, ReadingKeeps
<1>4. ToSet(R) \subseteq Requests /\ \A r \in ToSet(R) : r \in inUse \ refused /\ type[r] = "message"
  <2>1. ToSet(R) \subseteq Requests
    BY <1>2, ElementOf
  <2>2. ASSUME NEW r \in ToSet(R) PROVE \E l \in Lists : r \in ToSet(list[l])
    BY <1>2 DEF Lists
  <2> QED  BY <2>1, <2>2, ListsFrom
<1>5. /\ type \in [Requests -> {"none", "message", "reply"}] /\ quick \in [Requests -> BOOLEAN]
      /\ strays \subseteq Requests /\ IOInv /\ time \in [Timed -> Nat] /\ refused \subseteq Requests
      /\ due \in [Requests -> Nat] /\ \A i \in inUse : ~quick[i]
  BY DEF IInv, TypeOK, IOInv, IOTypeOK, WaitsForOwn
<1>6. IOInv'
  <2>1. /\ type' \in [Requests -> {"none", "message", "reply"}]
        /\ \A i \in Requests : type'[i] = IF i \in ToSet(R) THEN "reply" ELSE type[i]
    BY <1>1, <1>5
  <2>2. quick' \in [Requests -> BOOLEAN] /\ \A i \in inUse \cup ToSet(R) : ~quick'[i]
    BY <1>1, <1>4, <1>5
  <2>3. \A i \in ToSet(R) : i \notin inUse \/ type[i] # "reply"
    BY <1>4
  <2>4. inUse' = inUse \cup ToSet(R)
    BY <1>1, <1>4
  <2>5. UNCHANGED <<pc, current>> /\ strays' \subseteq Requests
    BY <1>1, <1>5
  <2> QED  BY <2>1, <2>2, <2>3, <2>4, <2>5, <1>1, <1>2, <1>5, PutRepliesKeep
<1>7. list' \in [Lists -> Seq(Timed)] /\ VBlank \in ToSet(list'["micro"]) /\ list'["micro"] \in Seq(Timed)
  BY <1>2 DEF ListsOK, Lists
<1>8. list'["micro"] # <<>> /\ Head(list'["micro"]) \in Timed /\ time'[Head(list'["micro"])] \in Nat
  BY <1>2, <1>7, FirstIs
<1> DEFINE e == ElapsedNow
           h == time'[Head(list'["micro"])]
           d == DelayFor(list'["micro"], time', e)
<1>9. e \in Nat /\ now \in Nat /\ prev' = now /\ elapsed' = e /\ now' = now
  BY <1>1, ClockTypes DEF EClockUpdate
<1> HIDE DEF e
<1>10. d \in Nat /\ d <= IF h - e >= 0 THEN h - e ELSE 0
  <2> DEFINE m == list'["micro"]
             U == time'
  <2>1. m \in Seq(Timed) /\ m # <<>> /\ Head(m) \in Timed /\ U \in [Timed -> Nat]
    BY <1>2, <1>7, <1>8
  <2> HIDE DEF m, U
  <2>2. DelayFor(m, U, e) \in Nat /\ DelayFor(m, U, e) <= IF U[Head(m)] - e >= 0 THEN U[Head(m)] - e ELSE 0
    BY <2>1, <1>9, DelayIs
  <2> QED  BY <2>2 DEF m, U
<1>11. h \in Nat /\ alarm' = now + d
  BY <1>1, <1>8 DEF e
<1> HIDE DEF h, d
<1>12. TypeOK' /\ UpTimeBehind'
  <2>1. due' \in [Requests -> Nat] /\ refused' \subseteq Requests
    BY <1>1, <1>5
  <2>2. alarm' \in Nat /\ stale' \in Nat
    BY <1>1, <1>9, <1>10, <1>11
  <2>3. now' \in Nat /\ prev' \in 0 .. now' /\ elapsed' \in 0 .. now' /\ sysTime' \in Nat /\ elapsed' <= prev'
    BY <1>3, ClockTypes DEF ClocksOK
  <2>4. IOTypeOK'
    BY <1>6 DEF IOInv
  <2> QED  BY <2>1, <2>2, <2>3, <2>4, <1>2, <1>7 DEF TypeOK, UpTimeBehind
<1>13. PendingIffListed' /\ ListsSorted'
  <2>1. ASSUME NEW x \in Requests
        PROVE  (\E m \in Lists : x \in ToSet(list'[m])) <=> x \in inUse' \ refused' /\ type'[x] = "message"
    <3>1. CASE x \in ToSet(R)
      BY <3>1, <1>1, <1>2
    <3>2. CASE x \notin ToSet(R)
      <4>1. x \in inUse' \ refused' /\ type'[x] = "message" <=> x \in inUse \ refused /\ type[x] = "message"
        BY <3>2, <1>1
      <4>2. \A m \in Lists : x \in ToSet(list'[m]) <=> x \in ToSet(list[m])
        BY <3>2, <1>2
      <4> QED  BY <4>1, <4>2, ListsFrom
    <3> QED  BY <3>1, <3>2
  <2> QED  BY <2>1, <1>2, ListsTo
<1>14. AlarmInTime'
  <2> DEFINE x == prev' + h - elapsed' + stale'
  <2>1. x \in Int /\ x = now + (h - e)
    BY <1>1, <1>9, <1>11
  <2>2. alarm' \in Nat /\ alarm' <= now + d
    BY <1>9, <1>10, <1>11
  <2> HIDE DEF x
  <2>3. alarm' <= Max({now, x})
    BY <2>1, <2>2, <1>9, <1>10, <1>11, AlarmSet
  <2> QED  BY <2>3, <1>9 DEF AlarmInTime, x, h
<1>15. DueLater'
  <2> SUFFICES ASSUME NEW x \in Requests, due'[x] # 0
               PROVE  /\ x \in ToSet(list'["micro"]) \cup ToSet(list'["vblank"])
                      /\ due'[x] - time'[x] <= prev' - elapsed'
    BY DEF DueLater
  <2>1. x \notin ToSet(R) /\ due'[x] = due[x] /\ due[x] \in Nat
    BY <1>1, <1>5
  <2>2. time'[x] = time[x] /\ time[x] \in Nat
    BY <2>1, <1>2, <1>5 DEF Timed
  <2>3. x \in ToSet(list["micro"]) \cup ToSet(list["vblank"]) /\ due[x] - time[x] <= prev - elapsed
    BY <2>1 DEF IInv, DueLater
  <2>4. x \in ToSet(list'["micro"]) \cup ToSet(list'["vblank"])
    BY <2>1, <2>3, <1>2 DEF Lists
  <2>5. due[x] - time[x] <= prev' - elapsed'
    BY <2>1, <2>2, <2>3, <1>3, LaterStays
  <2> QED  BY <2>1, <2>2, <2>4, <2>5
<1> QED  BY <1>6, <1>12, <1>13, <1>14, <1>15 DEF IInv

\* Every step keeps the invariant.
LEMMA NextInv ==
  ASSUME IInv, [Next]_vars
  PROVE  IInv'
<1>1. ASSUME NEW t \in Tasks, DeviceStep(t) PROVE IInv'
  <2>1. PICK r \in Requests :
          \/ AbortIO(t, r)
          \/ \E q \in BOOLEAN :
               \/ \E u \in Units \cap {"micro", "vblank"}, d \in Delays : AddInterval(t, r, u, d, q)
               \/ \E v \in Times : "until" \in Units /\ AddUntil(t, r, v, q)
               \/ AddEClock(t, r, q)
               \/ GetSysTime(t, r, q)
               \/ \E v \in Times : SetSysTime(t, r, v, q)
    BY <1>1 DEF DeviceStep
  <2>2. ASSUME NEW q \in BOOLEAN, GetSysTime(t, r, q) PROVE IInv'
    BY <2>2, ReadingKeeps, DoneKeeps DEF GetSysTime
  <2>3. ASSUME NEW q \in BOOLEAN, NEW v \in Times, SetSysTime(t, r, v, q) PROVE IInv'
    <3>1. v \in Nat
      BY TimerConstantsOK
    <3>2. ClocksOK
      BY <2>3, <3>1, SettingKeeps DEF SetSysTime
    <3> QED  BY <2>3, <3>2, DoneKeeps DEF SetSysTime
  <2> QED  BY <2>1, <2>2, <2>3, AbortKeeps, AddIntervalKeeps, AddUntilKeeps, AddEClockKeeps
<1>2. ASSUME NEW t \in Tasks, Setup(t) \/ (ClientStep(t) /\ UNCHANGED <<clockVars, devVars>>) PROVE IInv'
  BY <1>2, SetupKeeps, ClientStepKeeps
<1> QED  BY <1>1, <1>2, ClockKeeps, TimerIntKeeps, ReadingOnlyKeeps, StutterKeeps DEF Next
-----------------------------------------------------------------------------
(* Theorems. *)

\* The inductive invariant holds.
THEOREM Invariance == Spec => []IInv
<1>1. Init => IInv
  BY InitInv
<1>2. IInv /\ [Next]_vars => IInv'
  BY NextInv
<1> QED  BY <1>1, <1>2, PTL DEF Spec

\* The clocks, the lists and the requests keep their types; neither the counter last read nor
\* the up time is ever ahead of the hardware.
THEOREM TypeCorrect == Spec => []TypeOK
<1>1. IInv => TypeOK
  BY DEF IInv
<1> QED  BY <1>1, Invariance, PTL

\* A request that was accepted and not answered is on exactly one list, once, nothing else is
\* on a list but the request of the VBlank, which is never lost, and every list stays sorted.
THEOREM Lists_Sound == Spec => []ListsSound
<1>1. IInv => ListsSound
  BY DEF IInv, ListsSound
<1> QED  BY <1>1, Invariance, PTL

\* The alarm is early enough for the request at the head of its list, up to the time that
\* passed between the reading of the clock and the programming of the hardware.
THEOREM Alarm == Spec => []AlarmInTime
<1>1. IInv => AlarmInTime
  BY DEF IInv
<1> QED  BY <1>1, Invariance, PTL

\* A reply that was not collected is on its port, once, and nobody who waits for it, or for
\* the port, sleeps without a signal.
THEOREM Replies == Spec => []RepliesKept
<1>1. IInv => RepliesKept
  BY DEF IInv, IOInv, RepliesKept
<1> QED  BY <1>1, Invariance, PTL

\* No interval is answered before it is over, unless it is aborted.
LEMMA StepNotEarly ==
  ASSUME IInv, [Next]_vars, NEW r \in Requests, type[r] = "message", type'[r] = "reply",
         \A t \in Tasks : ~AbortIO(t, r)
  PROVE  now >= due[r]
<1>1. now \in Nat /\ prev \in Nat /\ elapsed \in Nat /\ now - ElapsedNow = prev - elapsed /\ ElapsedNow \in Nat
  BY ClockTypes
<1>2. /\ due[r] \in Nat /\ time[r] \in Nat /\ r \in Timed
      /\ type \in [Requests -> {"none", "message", "reply"}]
  BY DEF IInv, TypeOK, IOTypeOK, Timed
<1>3. due[r] = 0 => now >= due[r]
  BY <1>1
<1>4. ASSUME r \notin inUse PROVE due[r] = 0
  <2>1. \A l \in Lists : r \notin ToSet(list[l])
    BY <1>4, ListsFrom
  <2> QED  BY <2>1 DEF IInv, DueLater, Lists
<1>5. CASE TimerInt
  <2> DEFINE R == Replied(ElapsedNow, SysTimeNow)
  <2>1. r \in ToSet(R)
    BY <1>2, <1>5 DEF TimerInt
  <2>2. \/ r \in ToSet(list["micro"]) \cup ToSet(list["vblank"]) /\ time[r] <= ElapsedNow
        \/ r \in ToSet(list["until"])
    BY <2>1, <1>5, TimerIntFacts
  <2> HIDE DEF R
  <2>3. CASE r \in ToSet(list["until"])
    <3>1. r \notin ToSet(list["micro"]) /\ r \notin ToSet(list["vblank"])
      BY <2>3, ListsFrom DEF Lists
    <3> QED  BY <3>1, <1>3 DEF IInv, DueLater
  <2>4. CASE time[r] <= ElapsedNow /\ due[r] # 0
    <3> DEFINE d == due[r]
               v == time[r]
               e == ElapsedNow
    <3>1. d - v <= prev - elapsed
      BY <2>4 DEF IInv, DueLater
    <3>2. d \in Nat /\ v \in Nat /\ e \in Nat /\ v <= e /\ d - v <= now - e
      BY <3>1, <2>4, <1>1, <1>2
    <3> HIDE DEF d, v, e
    <3>3. now >= d
      BY <3>2, <1>1
    <3> QED  BY <3>3 DEF d
  <2> QED  BY <2>2, <2>3, <2>4, <1>3
<1>6. ASSUME UNCHANGED type PROVE FALSE
  BY <1>6
<1>7. ASSUME NEW t \in Tasks, DeviceStep(t) PROVE now >= due[r]
  <2>1. PICK x \in Requests :
          \/ AbortIO(t, x)
          \/ \E q \in BOOLEAN :
               \/ \E u \in Units \cap {"micro", "vblank"}, d \in Delays : AddInterval(t, x, u, d, q)
               \/ \E v \in Times : "until" \in Units /\ AddUntil(t, x, v, q)
               \/ AddEClock(t, x, q)
               \/ GetSysTime(t, x, q)
               \/ \E v \in Times : SetSysTime(t, x, v, q)
    BY <1>7 DEF DeviceStep
  <2>2. x # r => type'[r] = type[r]
    BY <2>1, <1>2 DEF AbortIO, AddInterval, AddUntil, AddEClock, GetSysTime, SetSysTime, DoneAtOnce, Started
  <2>3. x = r
    BY <2>2
  <2>4. MaySend(t, r)
    BY <2>1, <2>3 DEF AddInterval, AddUntil, AddEClock, GetSysTime, SetSysTime
  <2> QED  BY <2>4, <1>3, <1>4 DEF MaySend
<1>8. CASE Clock \/ GetUpTime \/ UNCHANGED vars
  BY <1>6, <1>8 DEF Clock, GetUpTime, vars, ioVars
<1>9. ASSUME NEW t \in Tasks, Setup(t) \/ ClientStep(t) PROVE FALSE
  BY <1>6, <1>9 DEF Setup, ClientStep, WaitIO, TestIO, Wake, WaitPort, GetMsg
<1> QED  BY <1>5, <1>7, <1>8, <1>9 DEF Next

\* However often the system time is set while it runs, an interval is never answered early.
THEOREM Intervals == Spec => NotEarly
<1>1. IInv /\ [Next]_vars
        => [\A r \in Requests : type[r] = "message" /\ type'[r] = "reply" =>
              now >= due[r] \/ \E t \in Tasks : AbortIO(t, r)]_vars
  BY StepNotEarly
<1> QED  BY <1>1, Invariance, PTL DEF Spec, NotEarly
=============================================================================
