---------------------------- MODULE ExecIO_proofs ----------------------------
(***************************************************************************)
(* What the proofs about devices share: lemmas about lists, for any set of *)
(* elements, and about what a task does to its requests, for any device.   *)
(***************************************************************************)
EXTENDS ExecIO, FiniteSetsExt, FiniteSetTheorems, SequenceTheorems, TLAPS

-----------------------------------------------------------------------------
(* Lists: sequences in which nothing is twice. *)

\* A sequence and its elements.
LEMMA ElementOf ==
  ASSUME NEW S, NEW s \in Seq(S)
  PROVE  /\ Len(s) \in Nat /\ DOMAIN s = 1 .. Len(s)
         /\ \A i \in 1 .. Len(s) : s[i] \in S /\ s[i] \in ToSet(s)
         /\ ToSet(s) \subseteq S
         /\ \A x \in ToSet(s) : \E i \in 1 .. Len(s) : s[i] = x
<1>1. Len(s) \in Nat /\ DOMAIN s = 1 .. Len(s) /\ \A i \in 1 .. Len(s) : s[i] \in S
  OBVIOUS
<1> QED  BY <1>1 DEF ToSet

\* A sequence of less.
LEMMA NarrowList ==
  ASSUME NEW S, NEW s \in Seq(S), NEW U, ToSet(s) \subseteq U
  PROVE  s \in Seq(U)
<1>1. Len(s) \in Nat /\ DOMAIN s = 1 .. Len(s) /\ s \in [1 .. Len(s) -> S]
  OBVIOUS
<1>2. s \in [1 .. Len(s) -> U]
  BY <1>1 DEF ToSet
<1> QED  BY <1>1, <1>2, SeqDef

\* The empty sequence.
LEMMA EmptyList == ToSet(<<>>) = {} /\ IsInjective(<<>>) /\ \A S : <<>> \in Seq(S)
  BY DEF ToSet, IsInjective

\* The sequence of one.
LEMMA OneList ==
  ASSUME NEW S, NEW x \in S
  PROVE  /\ <<x>> \in Seq(S) /\ ToSet(<<x>>) = {x} /\ IsInjective(<<x>>)
         /\ DOMAIN <<x>> = {1} /\ <<x>>[1] = x
<1>1. <<x>> \in Seq(S) /\ Len(<<x>>) = 1 /\ DOMAIN <<x>> = 1 .. 1 /\ <<x>>[1] = x
  OBVIOUS
<1> QED  BY <1>1 DEF ToSet, IsInjective

\* Two sequences joined.
LEMMA ConcatList ==
  ASSUME NEW S, NEW s \in Seq(S), NEW t \in Seq(S)
  PROVE  /\ s \o t \in Seq(S)
         /\ ToSet(s \o t) = ToSet(s) \cup ToSet(t)
         /\ IsInjective(s) /\ IsInjective(t) /\ ToSet(s) \cap ToSet(t) = {} => IsInjective(s \o t)
<1>1. /\ Len(s) \in Nat /\ Len(t) \in Nat
      /\ DOMAIN s = 1 .. Len(s) /\ DOMAIN t = 1 .. Len(t)
  OBVIOUS
<1>2. /\ s \o t \in Seq(S) /\ Len(s \o t) = Len(s) + Len(t)
      /\ DOMAIN (s \o t) = 1 .. Len(s) + Len(t)
  OBVIOUS
<1>3. \A i \in 1 .. Len(s) : (s \o t)[i] = s[i]
  OBVIOUS
<1>4. \A i \in 1 .. Len(t) : (s \o t)[Len(s) + i] = t[i]
  OBVIOUS
<1>5. ASSUME NEW i \in 1 .. Len(s) + Len(t)
      PROVE  \/ i \in 1 .. Len(s) /\ (s \o t)[i] = s[i]
             \/ \E j \in 1 .. Len(t) : i = Len(s) + j /\ (s \o t)[i] = t[j]
  <2>1. CASE i <= Len(s)
    BY <2>1, <1>1, <1>3
  <2>2. CASE i > Len(s)
    <3>1. i - Len(s) \in 1 .. Len(t) /\ i = Len(s) + (i - Len(s))
      BY <2>2, <1>1
    <3> QED  BY <3>1, <1>4
  <2> QED  BY <2>1, <2>2, <1>1
<1>6. ToSet(s \o t) = ToSet(s) \cup ToSet(t)
  <2>1. ToSet(s \o t) \subseteq ToSet(s) \cup ToSet(t)
    BY <1>1, <1>2, <1>5 DEF ToSet
  <2>2. ToSet(s) \subseteq ToSet(s \o t)
    BY <1>1, <1>2, <1>3 DEF ToSet
  <2>3. ASSUME NEW i \in 1 .. Len(t) PROVE t[i] \in ToSet(s \o t)
    <3>1. Len(s) + i \in DOMAIN (s \o t)
      BY <1>1, <1>2
    <3> QED  BY <3>1, <1>4 DEF ToSet
  <2>4. ToSet(t) \subseteq ToSet(s \o t)
    BY <2>3, <1>1 DEF ToSet
  <2> QED  BY <2>1, <2>2, <2>4
<1>7. ASSUME IsInjective(s), IsInjective(t), ToSet(s) \cap ToSet(t) = {}
      PROVE  IsInjective(s \o t)
  <2> SUFFICES ASSUME NEW i \in 1 .. Len(s) + Len(t), NEW j \in 1 .. Len(s) + Len(t),
                      (s \o t)[i] = (s \o t)[j]
               PROVE  i = j
    BY <1>2 DEF IsInjective
  <2>1. \A k \in 1 .. Len(s) : s[k] \in ToSet(s)
    BY <1>1 DEF ToSet
  <2>2. \A k \in 1 .. Len(t) : t[k] \in ToSet(t)
    BY <1>1 DEF ToSet
  <2>3. CASE i \in 1 .. Len(s) /\ (s \o t)[i] = s[i]
    BY <2>3, <2>1, <2>2, <1>5, <1>7, <1>1 DEF IsInjective
  <2>4. CASE \E k \in 1 .. Len(t) : i = Len(s) + k /\ (s \o t)[i] = t[k]
    BY <2>4, <2>1, <2>2, <1>5, <1>7, <1>1 DEF IsInjective
  <2> QED  BY <2>3, <2>4, <1>5
<1> QED  BY <1>2, <1>6, <1>7

\* One more at the end.
LEMMA AppendList ==
  ASSUME NEW S, NEW s \in Seq(S), NEW x \in S
  PROVE  /\ Append(s, x) \in Seq(S)
         /\ ToSet(Append(s, x)) = ToSet(s) \cup {x}
         /\ IsInjective(s) /\ x \notin ToSet(s) => IsInjective(Append(s, x))
         /\ Head(Append(s, x)) = IF s = <<>> THEN x ELSE Head(s)
<1>1. Append(s, x) = s \o <<x>>
  OBVIOUS
<1>2. Head(Append(s, x)) = IF s = <<>> THEN x ELSE Head(s)
  OBVIOUS
<1>3. /\ s \o <<x>> \in Seq(S)
      /\ ToSet(s \o <<x>>) = ToSet(s) \cup ToSet(<<x>>)
      /\ IsInjective(s) /\ IsInjective(<<x>>) /\ ToSet(s) \cap ToSet(<<x>>) = {}
           => IsInjective(s \o <<x>>)
  BY OneList, ConcatList
<1>4. ToSet(<<x>>) = {x} /\ IsInjective(<<x>>)
  BY OneList
<1> QED  BY <1>1, <1>2, <1>3, <1>4

\* The part of a list from one place to another.
LEMMA SubList ==
  ASSUME NEW S, NEW s \in Seq(S), IsInjective(s), NEW m \in 1 .. Len(s) + 1, NEW n \in 0 .. Len(s)
  PROVE  /\ SubSeq(s, m, n) \in Seq(S)
         /\ Len(SubSeq(s, m, n)) = IF m <= n THEN n - m + 1 ELSE 0
         /\ \A i \in 1 .. n - m + 1 : SubSeq(s, m, n)[i] = s[m + i - 1]
         /\ IsInjective(SubSeq(s, m, n))
         /\ \A x : x \in ToSet(SubSeq(s, m, n)) <=> \E i \in m .. n : s[i] = x
<1> DEFINE u == SubSeq(s, m, n)
<1>1. /\ Len(s) \in Nat /\ DOMAIN s = 1 .. Len(s)
      /\ \A i \in 1 .. Len(s) : s[i] \in S
  OBVIOUS
<1>2. m \in Int /\ n \in Int /\ m >= 1 /\ n <= Len(s) /\ n >= 0
  BY <1>1
<1>3. /\ u \in Seq(S) /\ Len(u) = IF m <= n THEN n - m + 1 ELSE 0
      /\ \A i \in 1 .. n - m + 1 : u[i] = s[m + i - 1]
  BY <1>1, <1>2
<1>4. DOMAIN u = 1 .. n - m + 1
  BY <1>2, <1>3
<1>5. IsInjective(u)
  <2> SUFFICES ASSUME NEW i \in 1 .. n - m + 1, NEW j \in 1 .. n - m + 1, u[i] = u[j]
               PROVE  i = j
    BY <1>4 DEF IsInjective
  <2>1. m + i - 1 \in 1 .. Len(s) /\ m + j - 1 \in 1 .. Len(s)
    BY <1>1, <1>2
  <2>2. m + i - 1 = m + j - 1
    BY <2>1, <1>1, <1>3 DEF IsInjective
  <2> QED  BY <2>2, <1>2
<1>6. ASSUME NEW x
      PROVE  x \in ToSet(u) <=> \E i \in m .. n : s[i] = x
  <2>1. ASSUME NEW j \in 1 .. n - m + 1 PROVE m + j - 1 \in m .. n /\ u[j] = s[m + j - 1]
    BY <1>2, <1>3
  <2>2. ASSUME NEW i \in m .. n PROVE i - m + 1 \in 1 .. n - m + 1 /\ u[i - m + 1] = s[i]
    <3>1. i - m + 1 \in 1 .. n - m + 1 /\ m + (i - m + 1) - 1 = i
      BY <1>2
    <3> QED  BY <3>1, <1>3
  <2>3. ASSUME x \in ToSet(u) PROVE \E i \in m .. n : s[i] = x
    BY <2>1, <2>3, <1>4 DEF ToSet
  <2>4. ASSUME NEW i \in m .. n, s[i] = x PROVE x \in ToSet(u)
    BY <2>2, <2>4, <1>4 DEF ToSet
  <2> QED  BY <2>3, <2>4
<1> QED  BY <1>3, <1>5, <1>6

\* A list is divided at any place.
LEMMA DivideList ==
  ASSUME NEW S, NEW s \in Seq(S), IsInjective(s), NEW n \in 0 .. Len(s)
  PROVE  /\ SubSeq(s, 1, n) \in Seq(S) /\ SubSeq(s, n + 1, Len(s)) \in Seq(S)
         /\ IsInjective(SubSeq(s, 1, n)) /\ IsInjective(SubSeq(s, n + 1, Len(s)))
         /\ ToSet(SubSeq(s, 1, n)) \cap ToSet(SubSeq(s, n + 1, Len(s))) = {}
         /\ ToSet(SubSeq(s, 1, n)) \cup ToSet(SubSeq(s, n + 1, Len(s))) = ToSet(s)
<1>1. Len(s) \in Nat /\ DOMAIN s = 1 .. Len(s)
  OBVIOUS
<1>2. /\ n + 1 \in 1 .. Len(s) + 1 /\ Len(s) \in 0 .. Len(s)
      /\ 1 \in 1 .. Len(s) + 1 /\ n \in Nat
  BY <1>1
<1>3. /\ SubSeq(s, 1, n) \in Seq(S) /\ IsInjective(SubSeq(s, 1, n))
      /\ \A x : x \in ToSet(SubSeq(s, 1, n)) <=> \E i \in 1 .. n : s[i] = x
  BY <1>2, SubList
<1>4. /\ SubSeq(s, n + 1, Len(s)) \in Seq(S) /\ IsInjective(SubSeq(s, n + 1, Len(s)))
      /\ \A x : x \in ToSet(SubSeq(s, n + 1, Len(s))) <=> \E i \in n + 1 .. Len(s) : s[i] = x
  BY <1>2, SubList
<1>5. \A x : x \in ToSet(s) <=> \E i \in 1 .. Len(s) : s[i] = x
  BY <1>1 DEF ToSet
<1>6. 1 .. Len(s) = (1 .. n) \cup (n + 1 .. Len(s)) /\ (1 .. n) \cap (n + 1 .. Len(s)) = {}
  BY <1>1, <1>2
<1>7. ToSet(SubSeq(s, 1, n)) \cap ToSet(SubSeq(s, n + 1, Len(s))) = {}
  BY <1>1, <1>3, <1>4, <1>6 DEF IsInjective
<1>8. \A x : x \in ToSet(SubSeq(s, 1, n)) \cup ToSet(SubSeq(s, n + 1, Len(s))) <=> x \in ToSet(s)
  BY <1>3, <1>4, <1>5, <1>6
<1> QED  BY <1>3, <1>4, <1>7, <1>8

\* Without the first, where nothing is twice.
LEMMA TailList ==
  ASSUME NEW S, NEW s \in Seq(S), s # <<>>, IsInjective(s)
  PROVE  /\ Tail(s) \in Seq(S) /\ Head(s) \in S /\ Head(s) = s[1] /\ Len(s) \in Nat \ {0}
         /\ IsInjective(Tail(s))
         /\ ToSet(Tail(s)) = ToSet(s) \ {Head(s)} /\ Head(s) \in ToSet(s)
<1>1. /\ Tail(s) \in Seq(S) /\ Head(s) \in S /\ Head(s) = s[1] /\ Len(s) \in Nat \ {0}
      /\ DOMAIN s = 1 .. Len(s) /\ Tail(s) = SubSeq(s, 2, Len(s))
  OBVIOUS
<1>2. 2 \in 1 .. Len(s) + 1 /\ Len(s) \in 0 .. Len(s)
  BY <1>1
<1>3. /\ IsInjective(SubSeq(s, 2, Len(s)))
      /\ \A x : x \in ToSet(SubSeq(s, 2, Len(s))) <=> \E i \in 2 .. Len(s) : s[i] = x
  BY <1>2, SubList
<1>4. 1 .. Len(s) = {1} \cup (2 .. Len(s)) /\ 1 \notin 2 .. Len(s)
  BY <1>1
<1>5. \A x : x \in ToSet(s) <=> \E i \in 1 .. Len(s) : s[i] = x
  BY <1>1 DEF ToSet
<1>6. ASSUME NEW x
      PROVE  x \in ToSet(SubSeq(s, 2, Len(s))) <=> x \in ToSet(s) \ {Head(s)}
  <2>1. \A i \in 2 .. Len(s) : s[i] # s[1]
    BY <1>1, <1>4 DEF IsInjective
  <2> QED  BY <2>1, <1>1, <1>3, <1>4, <1>5
<1>7. Head(s) \in ToSet(s)
  BY <1>1, <1>4, <1>5
<1> QED  BY <1>1, <1>3, <1>6, <1>7

\* An element is put in at the place k.
LEMMA InsertList ==
  ASSUME NEW S, NEW s \in Seq(S), IsInjective(s), NEW x \in S, x \notin ToSet(s),
         NEW k \in 1 .. Len(s) + 1
  PROVE  /\ InsertAt(s, k, x) \in Seq(S) /\ IsInjective(InsertAt(s, k, x))
         /\ ToSet(InsertAt(s, k, x)) = ToSet(s) \cup {x}
         /\ Len(InsertAt(s, k, x)) = Len(s) + 1
         /\ \A i \in 1 .. Len(s) + 1 :
              InsertAt(s, k, x)[i] = IF i < k THEN s[i] ELSE IF i = k THEN x ELSE s[i - 1]
<1> DEFINE u == SubSeq(s, 1, k - 1)
           v == SubSeq(s, k, Len(s))
<1>1. Len(s) \in Nat /\ DOMAIN s = 1 .. Len(s) /\ k \in Int /\ k - 1 \in 0 .. Len(s) /\ (k - 1) + 1 = k
  OBVIOUS
<1>2. /\ u \in Seq(S) /\ v \in Seq(S) /\ IsInjective(u) /\ IsInjective(v)
      /\ ToSet(u) \cap ToSet(v) = {} /\ ToSet(u) \cup ToSet(v) = ToSet(s)
  BY <1>1, DivideList
<1>3. /\ Len(u) = k - 1 /\ Len(v) = Len(s) - k + 1
      /\ \A i \in 1 .. k - 1 : u[i] = s[i]
      /\ \A i \in 1 .. Len(s) - k + 1 : v[i] = s[k + i - 1]
  BY <1>1
<1> DEFINE w == <<x>>
           uw == u \o w
<1>4. InsertAt(s, k, x) = uw \o v
  BY <1>2 DEF InsertAt
<1>5. w \in Seq(S) /\ ToSet(w) = {x} /\ IsInjective(w) /\ Len(w) = 1 /\ w[1] = x
  BY OneList
<1> HIDE DEF u, v, w
<1>6. uw \in Seq(S) /\ ToSet(uw) = ToSet(u) \cup {x} /\ IsInjective(uw)
  <2>1. ToSet(u) \cap ToSet(w) = {}
    BY <1>2, <1>5
  <2>2. /\ uw \in Seq(S) /\ ToSet(uw) = ToSet(u) \cup ToSet(w)
        /\ IsInjective(u) /\ IsInjective(w) /\ ToSet(u) \cap ToSet(w) = {} => IsInjective(uw)
    BY <1>2, <1>5, ConcatList
  <2> QED  BY <2>1, <2>2, <1>2, <1>5
<1>7. /\ Len(uw) = k
      /\ \A i \in 1 .. k - 1 : uw[i] = s[i]
      /\ uw[k] = x
  <2>1. /\ Len(uw) = Len(u) + Len(w)
        /\ \A i \in 1 .. Len(u) + Len(w) : uw[i] = IF i <= Len(u) THEN u[i] ELSE w[i - Len(u)]
    <3>1. u \in Seq(S) /\ w \in Seq(S)
      BY <1>2, <1>5
    <3> QED  BY <3>1, ConcatProperties
  <2>2. k \in 1 .. Len(u) + Len(w) /\ ~(k <= Len(u)) /\ k - Len(u) = 1
    BY <1>1, <1>3, <1>5
  <2>3. \A i \in 1 .. k - 1 : i \in 1 .. Len(u) + Len(w) /\ i <= Len(u)
    BY <1>1, <1>3, <1>5
  <2> QED  BY <2>1, <2>2, <2>3, <1>1, <1>3, <1>5
<1> HIDE DEF uw
<1>8. uw \o v \in Seq(S) /\ ToSet(uw \o v) = ToSet(s) \cup {x} /\ IsInjective(uw \o v)
  <2>1. ToSet(uw) \cap ToSet(v) = {}
    BY <1>2, <1>6
  <2>2. /\ uw \o v \in Seq(S) /\ ToSet(uw \o v) = ToSet(uw) \cup ToSet(v)
        /\ IsInjective(uw) /\ IsInjective(v) /\ ToSet(uw) \cap ToSet(v) = {} => IsInjective(uw \o v)
    BY <1>2, <1>6, ConcatList
  <2> QED  BY <2>1, <2>2, <1>2, <1>6
<1>9. Len(uw \o v) = Len(s) + 1
  <2>1. Len(uw \o v) = Len(uw) + Len(v)
    BY <1>2, <1>6
  <2> QED  BY <2>1, <1>1, <1>3, <1>7
<1>10. ASSUME NEW i \in 1 .. Len(s) + 1
       PROVE  (uw \o v)[i] = IF i < k THEN s[i] ELSE IF i = k THEN x ELSE s[i - 1]
  <2>1. CASE i <= k
    <3>1. (uw \o v)[i] = uw[i]
      BY <2>1, <1>1, <1>2, <1>3, <1>6, <1>7
    <3>2. i < k => i \in 1 .. k - 1
      BY <1>1
    <3> QED  BY <3>1, <3>2, <2>1, <1>1, <1>7
  <2>2. CASE i > k
    <3>1. i - k \in 1 .. Len(s) - k + 1 /\ k + (i - k) - 1 = i - 1
      BY <2>2, <1>1
    <3>2. (uw \o v)[i] = v[i - k]
      BY <2>2, <3>1, <1>1, <1>2, <1>3, <1>6, <1>7
    <3>3. v[i - k] = s[i - 1]
      BY <3>1, <1>3
    <3> QED  BY <3>2, <3>3, <2>2, <1>1
  <2>3. i <= k \/ i > k
    BY <1>1
  <2> QED  BY <2>1, <2>2, <2>3
<1> QED  BY <1>4, <1>8, <1>9, <1>10

\* Where nothing is twice, everything has one place.
LEMMA PlaceOf ==
  ASSUME NEW S, NEW s \in Seq(S), IsInjective(s), NEW k \in 1 .. Len(s)
  PROVE  {i \in 1 .. Len(s) : s[i] = s[k]} = {k} /\ Min({k}) = k
<1>1. Len(s) \in Nat /\ DOMAIN s = 1 .. Len(s)
  OBVIOUS
<1>2. {i \in 1 .. Len(s) : s[i] = s[k]} = {k}
  BY <1>1 DEF IsInjective
<1>3. Min({k}) = k
  BY <1>1 DEF Min
<1> QED  BY <1>2, <1>3

\* A list is what is in front of one of its elements, the element, and what is behind it.
LEMMA SplitList ==
  ASSUME NEW S, NEW s \in Seq(S), IsInjective(s), NEW k \in 1 .. Len(s)
  PROVE  /\ SubSeq(s, 1, k - 1) \in Seq(S) /\ SubSeq(s, k + 1, Len(s)) \in Seq(S)
         /\ IsInjective(SubSeq(s, 1, k - 1)) /\ IsInjective(SubSeq(s, k + 1, Len(s)))
         /\ ToSet(SubSeq(s, 1, k - 1)) \cap ToSet(SubSeq(s, k + 1, Len(s))) = {}
         /\ ToSet(SubSeq(s, 1, k - 1)) \cup ToSet(SubSeq(s, k + 1, Len(s))) = ToSet(s) \ {s[k]}
         /\ Len(SubSeq(s, 1, k - 1)) = k - 1 /\ Len(SubSeq(s, k + 1, Len(s))) = Len(s) - k
         /\ \A i \in 1 .. k - 1 : SubSeq(s, 1, k - 1)[i] = s[i]
         /\ \A i \in 1 .. Len(s) - k : SubSeq(s, k + 1, Len(s))[i] = s[k + i]
<1>1. Len(s) \in Nat /\ DOMAIN s = 1 .. Len(s)
  OBVIOUS
<1> DEFINE u == SubSeq(s, 1, k - 1)
           v == SubSeq(s, k + 1, Len(s))
<1>2. /\ k \in Int /\ k + 1 \in 1 .. Len(s) + 1 /\ k - 1 \in 0 .. Len(s)
      /\ 1 \in 1 .. Len(s) + 1 /\ Len(s) \in 0 .. Len(s)
  BY <1>1
<1>3. /\ u \in Seq(S) /\ IsInjective(u) /\ Len(u) = k - 1
      /\ \A i \in 1 .. k - 1 : u[i] = s[i]
      /\ \A y : y \in ToSet(u) <=> \E i \in 1 .. k - 1 : s[i] = y
  <2>1. /\ u \in Seq(S) /\ IsInjective(u) /\ Len(u) = IF 1 <= k - 1 THEN k - 1 - 1 + 1 ELSE 0
        /\ \A i \in 1 .. k - 1 - 1 + 1 : u[i] = s[1 + i - 1]
        /\ \A y : y \in ToSet(u) <=> \E i \in 1 .. k - 1 : s[i] = y
    BY <1>2, SubList
  <2> QED  BY <2>1, <1>2
<1>4. /\ v \in Seq(S) /\ IsInjective(v) /\ Len(v) = Len(s) - k
      /\ \A i \in 1 .. Len(s) - k : v[i] = s[k + i]
      /\ \A y : y \in ToSet(v) <=> \E i \in k + 1 .. Len(s) : s[i] = y
  <2>1. /\ v \in Seq(S) /\ IsInjective(v)
        /\ Len(v) = IF k + 1 <= Len(s) THEN Len(s) - (k + 1) + 1 ELSE 0
        /\ \A i \in 1 .. Len(s) - (k + 1) + 1 : v[i] = s[(k + 1) + i - 1]
        /\ \A y : y \in ToSet(v) <=> \E i \in k + 1 .. Len(s) : s[i] = y
    BY <1>2, SubList
  <2>2. Len(s) - (k + 1) + 1 = Len(s) - k /\ (~(k + 1 <= Len(s)) => Len(s) - k = 0)
    <3>1. k \in Int /\ Len(s) \in Int /\ k <= Len(s)
      BY <1>1
    <3> QED  BY <3>1
  <2>3. \A i \in 1 .. Len(s) - k : (k + 1) + i - 1 = k + i
    BY <1>1, <1>2
  <2> QED  BY <2>1, <2>2, <2>3
<1> HIDE DEF u, v
<1>5. /\ 1 .. Len(s) = (1 .. k - 1) \cup {k} \cup (k + 1 .. Len(s))
      /\ (1 .. k - 1) \cap (k + 1 .. Len(s)) = {}
      /\ k \notin 1 .. k - 1 /\ k \notin k + 1 .. Len(s)
  BY <1>1, <1>2
<1>6. ToSet(u) \cap ToSet(v) = {}
  <2> SUFFICES ASSUME NEW y, y \in ToSet(u), y \in ToSet(v) PROVE FALSE
    OBVIOUS
  <2>1. PICK i \in 1 .. k - 1 : s[i] = y
    BY <1>3
  <2>2. PICK j \in k + 1 .. Len(s) : s[j] = y
    BY <1>4
  <2>3. i = j
    BY <2>1, <2>2, <1>5, <1>1 DEF IsInjective
  <2> QED  BY <2>3, <1>5
<1>7. ASSUME NEW y PROVE y \in ToSet(u) \cup ToSet(v) <=> y \in ToSet(s) \ {s[k]}
  <2>1. y \in ToSet(s) <=> \E i \in 1 .. Len(s) : s[i] = y
    BY <1>1 DEF ToSet
  <2>2. \A i \in 1 .. Len(s) : s[i] = s[k] => i = k
    BY <1>1 DEF IsInjective
  <2>3. y \in ToSet(u) <=> \E i \in 1 .. k - 1 : s[i] = y
    BY <1>3
  <2>4. y \in ToSet(v) <=> \E i \in k + 1 .. Len(s) : s[i] = y
    BY <1>4
  <2> DEFINE I == 1 .. k - 1
             J == k + 1 .. Len(s)
             N == 1 .. Len(s)
  <2>5. N = I \cup {k} \cup J /\ k \notin I /\ k \notin J
    BY <1>5
  <2> HIDE DEF I, J, N
  <2>6. (\E i \in I \cup J : s[i] = y) <=> y # s[k] /\ \E i \in N : s[i] = y
    BY <2>2, <2>5 DEF N
  <2> QED  BY <2>1, <2>3, <2>4, <2>6 DEF I, J, N
<1>8. ToSet(u) \cup ToSet(v) = ToSet(s) \ {s[k]}
  BY <1>7
<1> QED  BY <1>3, <1>4, <1>6, <1>8 DEF u, v

\* Remove(): the element leaves the list and the others keep their order.
LEMMA RemoveList ==
  ASSUME NEW S, NEW s \in Seq(S), IsInjective(s), NEW x
  PROVE  /\ RemoveFirst(s, x) \in Seq(S) /\ IsInjective(RemoveFirst(s, x))
         /\ ToSet(RemoveFirst(s, x)) = ToSet(s) \ {x}
         /\ x \notin ToSet(s) => RemoveFirst(s, x) = s
         /\ x \in ToSet(s) =>
              \E k \in 1 .. Len(s) :
                /\ s[k] = x
                /\ Len(RemoveFirst(s, x)) = Len(s) - 1
                /\ \A i \in 1 .. Len(s) - 1 : RemoveFirst(s, x)[i] = IF i < k THEN s[i] ELSE s[i + 1]
<1>1. Len(s) \in Nat /\ DOMAIN s = 1 .. Len(s)
  OBVIOUS
<1>2. CASE x \notin ToSet(s)
  BY <1>1, <1>2 DEF ToSet, RemoveFirst
<1>3. CASE x \in ToSet(s)
  <2>0. PICK k \in 1 .. Len(s) : s[k] = x
    BY <1>3, <1>1 DEF ToSet
  <2> DEFINE u == SubSeq(s, 1, k - 1)
             v == SubSeq(s, k + 1, Len(s))
  <2>1. RemoveFirst(s, x) = u \o v
    <3>1. {i \in 1 .. Len(s) : s[i] = s[k]} = {k} /\ Min({k}) = k
      BY PlaceOf
    <3>2. {i \in 1 .. Len(s) : s[i] = x} = {k}
      BY <3>1, <2>0
    <3>3. SelectInSeq(s, LAMBDA y : y = x) = k
      BY <3>1, <3>2 DEF SelectInSeq
    <3> QED  BY <3>3, <2>0 DEF RemoveFirst, RemoveAt
  <2>2. /\ k \in 1 .. Len(s) /\ s[k] = x
        /\ u \in Seq(S) /\ v \in Seq(S) /\ IsInjective(u) /\ IsInjective(v)
        /\ ToSet(u) \cap ToSet(v) = {} /\ ToSet(u) \cup ToSet(v) = ToSet(s) \ {x}
        /\ Len(u) = k - 1 /\ Len(v) = Len(s) - k
        /\ \A i \in 1 .. k - 1 : u[i] = s[i]
        /\ \A i \in 1 .. Len(s) - k : v[i] = s[k + i]
    BY <2>0, SplitList
  <2> HIDE DEF u, v
  <2>3. u \o v \in Seq(S) /\ IsInjective(u \o v) /\ ToSet(u \o v) = ToSet(u) \cup ToSet(v)
    BY <2>2, ConcatList
  <2>4. /\ Len(u \o v) = Len(s) - 1
        /\ \A i \in 1 .. Len(s) - 1 : (u \o v)[i] = IF i < k THEN s[i] ELSE s[i + 1]
    <3>1. /\ Len(u \o v) = Len(u) + Len(v)
          /\ \A i \in 1 .. Len(u) + Len(v) : (u \o v)[i] = IF i <= Len(u) THEN u[i] ELSE v[i - Len(u)]
      <4>1. u \in Seq(S) /\ v \in Seq(S)
        BY <2>2
      <4> QED  BY <4>1, ConcatProperties
    <3>2. Len(u) + Len(v) = Len(s) - 1
      BY <1>1, <2>2
    <3>3. ASSUME NEW i \in 1 .. Len(s) - 1 PROVE (u \o v)[i] = IF i < k THEN s[i] ELSE s[i + 1]
      <4>1. CASE i < k
        <5>1. i <= Len(u) /\ i \in 1 .. k - 1
          BY <4>1, <1>1, <2>2
        <5> QED  BY <5>1, <4>1, <3>1, <3>2, <2>2
      <4>2. CASE ~(i < k)
        <5>1. /\ ~(i <= Len(u)) /\ i - Len(u) \in 1 .. Len(s) - k /\ k + (i - Len(u)) = i + 1
          BY <4>2, <1>1, <2>2
        <5>2. (u \o v)[i] = v[i - Len(u)] /\ v[i - Len(u)] = s[k + (i - Len(u))]
          BY <5>1, <3>1, <3>2, <2>2
        <5> QED  BY <5>1, <5>2, <4>2
      <4> QED  BY <4>1, <4>2
    <3> QED  BY <3>1, <3>2, <3>3
  <2> QED  BY <1>3, <2>1, <2>2, <2>3, <2>4
<1> QED  BY <1>2, <1>3
-----------------------------------------------------------------------------
(* Counting the places of a sequence. *)

\* A set of places without gaps from the first one on is given by its size.
LEMMA NoGaps ==
  ASSUME NEW n \in Nat, NEW I \in SUBSET (1 .. n), \A i \in I : 1 .. i \subseteq I
  PROVE  Cardinality(I) \in 0 .. n /\ I = 1 .. Cardinality(I)
<1>1. IsFiniteSet(1 .. n) /\ Cardinality(1 .. n) = n
  BY FS_Interval
<1>2. IsFiniteSet(I) /\ Cardinality(I) <= n /\ Cardinality(I) \in Nat
  BY <1>1, FS_Subset, FS_CardinalityType
<1>3. ASSUME NEW i \in I PROVE i \in 1 .. Cardinality(I)
  <2>1. i \in Nat \ {0} /\ 1 .. i \in SUBSET I
    OBVIOUS
  <2>2. Cardinality(1 .. i) = i
    BY <2>1, FS_Interval
  <2>3. Cardinality(1 .. i) <= Cardinality(I)
    BY <2>1, <1>2, FS_Subset
  <2> QED  BY <2>1, <2>2, <2>3, <1>2
<1>4. /\ IsFiniteSet(1 .. Cardinality(I)) /\ Cardinality(1 .. Cardinality(I)) = Cardinality(I)
      /\ I \in SUBSET (1 .. Cardinality(I))
  <2>1. Cardinality(I) \in Int /\ 1 \in Int /\ (1 > Cardinality(I) => Cardinality(I) = 0)
    BY <1>2
  <2>2. /\ IsFiniteSet(1 .. Cardinality(I))
        /\ Cardinality(1 .. Cardinality(I))
             = IF 1 > Cardinality(I) THEN 0 ELSE Cardinality(I) - 1 + 1
    BY <2>1, FS_Interval
  <2> QED  BY <1>3, <2>1, <2>2
<1>5. 1 .. Cardinality(I) = I
  BY <1>4, FS_Subset
<1> QED  BY <1>2, <1>5

\* The members of a set of places are counted through.
LEMMA Ranks ==
  ASSUME NEW n \in Nat, NEW I \in SUBSET (1 .. n)
  PROVE  /\ Cardinality(I) \in Nat
         /\ \A i \in I : Cardinality({j \in I : j <= i}) \in 1 .. Cardinality(I)
         /\ \A i, k \in I :
              Cardinality({j \in I : j <= i}) = Cardinality({j \in I : j <= k}) => i = k
         /\ \A c \in 1 .. Cardinality(I) : \E i \in I : Cardinality({j \in I : j <= i}) = c
<1> DEFINE upto(i) == {j \in I : j <= i}
           c == Cardinality(I)
           f == [i \in I |-> Cardinality(upto(i))]
<1>1. IsFiniteSet(I) /\ c \in Nat
  <2>1. IsFiniteSet(1 .. n)
    BY FS_Interval
  <2>2. IsFiniteSet(I)
    BY <2>1, FS_Subset
  <2> QED  BY <2>2, FS_CardinalityType
<1>2. ASSUME NEW i \in I
      PROVE  IsFiniteSet(upto(i)) /\ Cardinality(upto(i)) \in 1 .. c
  <2>1. upto(i) \in SUBSET I /\ i \in upto(i)
    OBVIOUS
  <2>2. IsFiniteSet(upto(i)) /\ Cardinality(upto(i)) <= c
    BY <2>1, <1>1, FS_Subset
  <2>3. Cardinality(upto(i)) \in Nat /\ Cardinality(upto(i)) # 0
    BY <2>1, <2>2, FS_CardinalityType, FS_EmptySet
  <2> QED  BY <2>2, <2>3, <1>1
<1>3. ASSUME NEW i \in I, NEW k \in I, i < k PROVE Cardinality(upto(i)) # Cardinality(upto(k))
  <2>1. upto(i) \in SUBSET upto(k) /\ k \in upto(k) /\ k \notin upto(i)
    <3>1. i \in Int /\ k \in Int /\ \A j \in I : j \in Int
      OBVIOUS
    <3>2. \A j \in I : j <= i => j <= k
      BY <3>1, <1>3
    <3>3. k <= k /\ ~(k <= i)
      BY <3>1, <1>3
    <3> QED  BY <3>2, <3>3
  <2>2. Cardinality(upto(k)) = Cardinality(upto(i)) => upto(k) = upto(i)
    BY <2>1, <1>2, FS_Subset
  <2> QED  BY <2>1, <2>2
<1>4. ASSUME NEW i \in I, NEW k \in I, Cardinality(upto(i)) = Cardinality(upto(k)) PROVE i = k
  <2>1. i \in Int /\ k \in Int
    OBVIOUS
  <2> QED  BY <2>1, <1>3, <1>4
<1>5. f \in Injection(I, 1 .. c)
  <2>1. f \in [I -> 1 .. c]
    BY <1>2
  <2>2. IsInjective(f)
    BY <1>4 DEF IsInjective
  <2> QED  BY <2>1, <2>2 DEF Injection
<1>6. IsFiniteSet(1 .. c) /\ Cardinality(1 .. c) = c
  BY <1>1, FS_Interval
<1>7. f \in Surjection(I, 1 .. c)
  BY <1>5, <1>6, FS_Injection
<1>8. \A k \in 1 .. c : \E i \in I : f[i] = k
  BY <1>7 DEF Surjection
<1> QED  BY <1>1, <1>2, <1>4, <1>8

\* The replies that go to one task.
LEMMA PartList ==
  ASSUME NEW S, NEW s \in Seq(S), IsInjective(s), NEW t
  PROVE  /\ Part(s, t) \in Seq(S) /\ IsInjective(Part(s, t))
         /\ ToSet(Part(s, t)) = {r \in ToSet(s) : Owner[r] = t}
<1> DEFINE mine == {i \in DOMAIN s : Owner[s[i]] = t}
           rank(i) == Cardinality({j \in mine : j <= i})
           place(k) == CHOOSE i \in mine : rank(i) = k
           c == Cardinality(mine)
<1>1. /\ Len(s) \in Nat /\ DOMAIN s = 1 .. Len(s) /\ \A i \in 1 .. Len(s) : s[i] \in S
      /\ mine \in SUBSET (1 .. Len(s))
  OBVIOUS
<1>2. /\ c \in Nat
      /\ \A i \in mine : rank(i) \in 1 .. c
      /\ \A i, k \in mine : rank(i) = rank(k) => i = k
      /\ \A k \in 1 .. c : \E i \in mine : rank(i) = k
  BY <1>1, Ranks
<1>3. Part(s, t) = [k \in 1 .. c |-> s[place(k)]]
  BY DEF Part
<1> HIDE DEF rank, c
<1>4. \A k \in 1 .. c : place(k) \in mine /\ rank(place(k)) = k
  BY <1>2
<1>5. \A i \in mine : rank(i) \in 1 .. c /\ place(rank(i)) = i
  BY <1>2, <1>4
<1> HIDE DEF place
<1>6. \A i \in mine : i \in 1 .. Len(s) /\ s[i] \in S /\ Owner[s[i]] = t
  BY <1>1
<1>7. Part(s, t) \in Seq(S) /\ DOMAIN Part(s, t) = 1 .. c /\ \A k \in 1 .. c : Part(s, t)[k] = s[place(k)]
  <2>1. Part(s, t) \in [1 .. c -> S]
    BY <1>3, <1>4, <1>6
  <2> QED  BY <2>1, <1>2, <1>3, SeqDef
<1>8. IsInjective(Part(s, t))
  <2> SUFFICES ASSUME NEW k \in 1 .. c, NEW l \in 1 .. c, s[place(k)] = s[place(l)] PROVE k = l
    BY <1>7 DEF IsInjective
  <2>1. place(k) = place(l)
    BY <1>1, <1>4, <1>6 DEF IsInjective
  <2> QED  BY <2>1, <1>4
<1>9. ASSUME NEW r PROVE r \in ToSet(Part(s, t)) <=> r \in ToSet(s) /\ Owner[r] = t
  <2>1. ASSUME r \in ToSet(Part(s, t)) PROVE r \in ToSet(s) /\ Owner[r] = t
    <3>1. PICK k \in 1 .. c : r = s[place(k)]
      BY <2>1, <1>7 DEF ToSet
    <3> QED  BY <3>1, <1>1, <1>4, <1>6 DEF ToSet
  <2>2. ASSUME r \in ToSet(s), Owner[r] = t PROVE r \in ToSet(Part(s, t))
    <3>1. PICK i \in mine : r = s[i]
      BY <2>2 DEF ToSet
    <3>2. rank(i) \in 1 .. c /\ place(rank(i)) = i
      BY <1>5
    <3> QED  BY <3>1, <3>2, <1>7 DEF ToSet
  <2> QED  BY <2>1, <2>2
<1> QED  BY <1>7, <1>8, <1>9

\* The lesser of two numbers.
LEMMA MinOfTwo ==
  ASSUME NEW a \in Int, NEW b \in Int
  PROVE  Min({a, b}) = IF a <= b THEN a ELSE b
<1> DEFINE m == IF a <= b THEN a ELSE b
<1>1. m \in {a, b} /\ \A y \in {a, b} : m <= y
  OBVIOUS
<1>2. ASSUME NEW x \in {a, b}, \A y \in {a, b} : x <= y PROVE x = m
  BY <1>2
<1> QED  BY <1>1, <1>2 DEF Min

\* The greater of two numbers.
LEMMA MaxOfTwo ==
  ASSUME NEW a \in Int, NEW b \in Int
  PROVE  Max({a, b}) = IF a >= b THEN a ELSE b
<1> DEFINE m == IF a >= b THEN a ELSE b
<1>1. m \in {a, b} /\ \A y \in {a, b} : m >= y
  OBVIOUS
<1>2. ASSUME NEW x \in {a, b}, \A y \in {a, b} : x >= y PROVE x = m
  BY <1>2
<1> QED  BY <1>1, <1>2 DEF Max
\* A set of numbers that is not empty has a least one.
LEMMA LeastOf ==
  ASSUME NEW n \in Nat, NEW I \in SUBSET (1 .. n), I # {}
  PROVE  Min(I) \in I /\ \A i \in I : Min(I) <= i
<1> DEFINE J == {j \in 1 .. n : \A i \in I : ~(i <= j)}
           c == Cardinality(J)
<1>1. J \in SUBSET (1 .. n) /\ \A j \in J : 1 .. j \subseteq J
  OBVIOUS
<1>2. c \in 0 .. n /\ J = 1 .. c
  BY <1>1, NoGaps
<1>3. \A i \in I : i \in Nat /\ i <= n /\ i >= 1 /\ i \notin J
  OBVIOUS
<1>4. \A j \in 1 .. n : j \notin J => \E i \in I : i <= j
  OBVIOUS
<1>5. \A j \in J : \A i \in I : ~(i <= j)
  OBVIOUS
<1> HIDE DEF J, c
<1>6. \A i \in I : i >= c + 1
  BY <1>2, <1>3
<1>7. c + 1 \in 1 .. n /\ c + 1 \notin J
  <2>1. PICK i \in I : i \in Nat /\ i <= n /\ i >= c + 1
    BY <1>3, <1>6
  <2>2. c \in Nat
    BY <1>2
  <2> QED  BY <2>1, <2>2, <1>2
<1>8. c + 1 \in I
  BY <1>3, <1>4, <1>6, <1>7
<1>9. \A m \in I : (\A i \in I : m <= i) => m = c + 1
  BY <1>2, <1>3, <1>6, <1>8
<1> QED  BY <1>6, <1>8, <1>9 DEF Min

\* RemoveFirst() and Tail() of a sequence in which an element may be twice.
LEMMA RemoveAny ==
  ASSUME NEW S, NEW s \in Seq(S), NEW x
  PROVE  /\ RemoveFirst(s, x) \in Seq(S)
         /\ \A y \in ToSet(RemoveFirst(s, x)) : y \in ToSet(s)
         /\ \A y \in ToSet(s) : y # x => y \in ToSet(RemoveFirst(s, x))
         /\ s = <<>> => RemoveFirst(s, x) = <<>>
<1>1. Len(s) \in Nat /\ DOMAIN s = 1 .. Len(s)
  OBVIOUS
<1> DEFINE I == {i \in 1 .. Len(s) : s[i] = x}
           k == Min(I)
<1>0. I # {} => k \in I
  <2>1. I \in SUBSET (1 .. Len(s)) /\ Len(s) \in Nat
    BY <1>1
  <2> HIDE DEF I
  <2> QED  BY <2>1, LeastOf
<1>2. CASE I = {}
  <2>1. RemoveFirst(s, x) = s
    BY <1>2 DEF RemoveFirst
  <2> QED  BY <2>1
<1>3. CASE I # {}
  <2>1. k \in 1 .. Len(s) /\ s[k] = x
    BY <1>0, <1>3
  <2>2. RemoveFirst(s, x) = RemoveAt(s, k)
    <3>1. SelectInSeq(s, LAMBDA v : v = x) = k
      BY <1>3 DEF SelectInSeq
    <3> QED  BY <3>1, <2>1 DEF RemoveFirst
  <2> HIDE DEF k
  <2> DEFINE u == SubSeq(s, 1, k - 1)
             v == SubSeq(s, k + 1, Len(s))
  <2>3. /\ u \in Seq(S) /\ v \in Seq(S) /\ Len(u) = k - 1 /\ Len(v) = Len(s) - k
        /\ \A i \in 1 .. k - 1 : u[i] = s[i]
        /\ \A i \in 1 .. Len(s) - k : v[i] = s[k + i]
    <3> DEFINE n == Len(s)
    <3>1. n \in Nat /\ k \in 1 .. n
      BY <1>1, <2>1
    <3>2. u \in Seq(S) /\ Len(u) = k - 1 /\ \A i \in 1 .. k - 1 : u[i] = s[i]
      BY <3>1
    <3>3. v \in Seq(S) /\ Len(v) = n - k /\ \A i \in 1 .. n - k : v[i] = s[k + i]
      <4>1. k + 1 \in 1 .. n + 1
        BY <3>1
      <4>2. v \in Seq(S) /\ Len(v) = (IF k + 1 <= n THEN n - (k + 1) + 1 ELSE 0) /\ \A i \in 1 .. n - (k + 1) + 1 : v[i] = s[(k + 1) + i - 1]
        BY <3>1, <4>1
      <4> QED  BY <3>1, <4>2
    <3> QED  BY <3>2, <3>3
  <2> HIDE DEF u, v
  <2>4. /\ u \o v \in Seq(S) /\ Len(u \o v) = Len(u) + Len(v)
        /\ DOMAIN (u \o v) = 1 .. Len(u) + Len(v)
        /\ \A i \in 1 .. Len(u) + Len(v) : (u \o v)[i] = IF i <= Len(u) THEN u[i] ELSE v[i - Len(u)]
    <3>1. u \in Seq(S) /\ v \in Seq(S)
      BY <2>3
    <3>2. u \o v \in Seq(S) /\ Len(u \o v) = Len(u) + Len(v)
      BY <3>1
    <3> QED  BY <3>1, <3>2, ConcatProperties
  <2>5. RemoveFirst(s, x) = u \o v
    BY <2>2 DEF RemoveAt, u, v
  <2>6. ASSUME NEW i \in 1 .. Len(u) + Len(v) PROVE (u \o v)[i] = IF i < k THEN s[i] ELSE s[i + 1]
    <3>1. CASE i < k
      BY <3>1, <2>1, <2>3, <2>4, <1>1
    <3>2. CASE ~(i < k)
      <4>1. i - Len(u) \in 1 .. Len(s) - k /\ k + (i - Len(u)) = i + 1 /\ ~(i <= Len(u))
        BY <3>2, <2>1, <2>3, <1>1
      <4> QED  BY <4>1, <3>2, <2>3, <2>4
    <3> QED  BY <3>1, <3>2
  <2>7. Len(u) + Len(v) = Len(s) - 1
    BY <2>1, <2>3, <1>1
  <2>8. ASSUME NEW y \in ToSet(u \o v) PROVE y \in ToSet(s)
    <3>1. PICK i \in 1 .. Len(u) + Len(v) : (u \o v)[i] = y
      BY <2>4 DEF ToSet
    <3>2. i \in 1 .. Len(s) /\ i + 1 \in 1 .. Len(s)
      BY <2>7, <1>1
    <3> QED  BY <3>1, <3>2, <2>6, <1>1 DEF ToSet
  <2>9. ASSUME NEW y \in ToSet(s), y # x PROVE y \in ToSet(u \o v)
    <3>1. PICK i \in 1 .. Len(s) : s[i] = y
      BY <1>1 DEF ToSet
    <3>2. i # k
      BY <3>1, <2>1, <2>9
    <3>3. CASE i < k
      <4>1. i \in 1 .. Len(u) + Len(v)
        BY <3>3, <2>7, <2>1, <1>1
      <4> QED  BY <4>1, <3>3, <3>1, <2>6, <2>4 DEF ToSet
    <3>4. CASE i > k
      <4>1. i - 1 \in 1 .. Len(u) + Len(v) /\ ~(i - 1 < k) /\ (i - 1) + 1 = i
        BY <3>4, <2>7, <2>1, <1>1
      <4>2. (u \o v)[i - 1] = y
        BY <4>1, <2>6, <3>1
      <4> QED  BY <4>1, <4>2, <2>4 DEF ToSet
    <3> QED  BY <3>2, <3>3, <3>4, <2>1, <1>1
  <2>10. s # <<>>
    BY <2>1
  <2> QED  BY <2>4, <2>5, <2>8, <2>9, <2>10
<1> QED  BY <1>2, <1>3

\* Without the first, in general.
LEMMA TailAny ==
  ASSUME NEW S, NEW s \in Seq(S), s # <<>>
  PROVE  /\ Tail(s) \in Seq(S) /\ Head(s) \in S /\ Head(s) \in ToSet(s)
         /\ \A y \in ToSet(Tail(s)) : y \in ToSet(s)
         /\ \A y \in ToSet(s) : y # Head(s) => y \in ToSet(Tail(s))
<1>1. /\ Tail(s) \in Seq(S) /\ Head(s) \in S /\ Head(s) = s[1] /\ Len(s) \in Nat \ {0}
      /\ DOMAIN s = 1 .. Len(s) /\ Len(Tail(s)) = Len(s) - 1 /\ DOMAIN Tail(s) = 1 .. Len(s) - 1
      /\ \A i \in 1 .. Len(s) - 1 : Tail(s)[i] = s[i + 1]
  OBVIOUS
<1>2. 1 \in 1 .. Len(s)
  BY <1>1
<1>3. ASSUME NEW y \in ToSet(Tail(s)) PROVE y \in ToSet(s)
  <2>1. PICK i \in 1 .. Len(s) - 1 : Tail(s)[i] = y
    BY <1>1 DEF ToSet
  <2>2. i + 1 \in 1 .. Len(s)
    BY <1>1
  <2> QED  BY <2>1, <2>2, <1>1 DEF ToSet
<1>4. ASSUME NEW y \in ToSet(s), y # Head(s) PROVE y \in ToSet(Tail(s))
  <2>1. PICK i \in 1 .. Len(s) : s[i] = y
    BY <1>1 DEF ToSet
  <2>2. i # 1
    BY <2>1, <1>1, <1>4
  <2>3. i - 1 \in 1 .. Len(s) - 1 /\ (i - 1) + 1 = i
    BY <2>2, <1>1
  <2> QED  BY <2>1, <2>3, <1>1 DEF ToSet
<1> QED  BY <1>1, <1>2, <1>3, <1>4 DEF ToSet
-----------------------------------------------------------------------------
(* What a task does to its requests. *)

\* A task waits for a request of its own that it has not collected, and nothing it has not
\* collected was done quickly: only then does the type of a request tell where it is.
WaitsForOwn ==
  /\ \A t \in Tasks :
       pc[t] \in {"testio", "sleepio"} \/ (pc[t] = "device" /\ current[t] # None)
         => current[t] \in inUse /\ Owner[current[t]] = t
  /\ \A r \in inUse : ~quick[r]

\* What a device that replies in one step keeps of the requests and the ports.
IOInv == IOTypeOK /\ WaitsForOwn /\ RepliedIsQueued /\ NoLostReply

\* A sequence without elements is empty.
LEMMA NothingListed ==
  ASSUME NEW S, NEW s \in Seq(S), ToSet(s) = {}
  PROVE  s = <<>>
<1>1. Len(s) \in Nat /\ \A i \in 1 .. Len(s) : s[i] \in ToSet(s)
  BY ElementOf
<1>2. Len(s) = 0
  <2>1. CASE Len(s) >= 1
    <3>1. 1 \in 1 .. Len(s)
      BY <2>1, <1>1
    <3> QED  BY <3>1, <1>1
  <2> QED  BY <2>1, <1>1
<1> QED  BY <1>2

\* Ports and replies are in order at first.
LEMMA InitIO ==
  ASSUME IOInit
  PROVE  IOInv
<1>1. IOTypeOK /\ WaitsForOwn
  BY IOConstantsOK DEF IOInit, IOTypeOK, WaitsForOwn
<1>2. \A t \in Tasks : replyPort[t] = <<>> /\ pc[t] = "run"
  BY DEF IOInit
<1>3. RepliedIsQueued
  BY <1>2, EmptyList DEF IOInit, RepliedIsQueued
<1>4. NoLostReply
  BY <1>2 DEF NoLostReply
<1> QED  BY <1>1, <1>3, <1>4 DEF IOInv

\* Replies to requests that are not replied, and are sent at the latest with this step.
LEMMA PutRepliesKeep ==
  ASSUME IOInv, NEW s \in Seq(Requests), IsInjective(s), PutReplies(s),
         \A r \in ToSet(s) : r \notin inUse \/ type[r] # "reply",
         type' \in [Requests -> {"none", "message", "reply"}],
         \A r \in Requests : type'[r] = IF r \in ToSet(s) THEN "reply" ELSE type[r],
         quick' \in [Requests -> BOOLEAN],
         \A r \in inUse \cup ToSet(s) : ~quick'[r],
         inUse' = inUse \cup ToSet(s), UNCHANGED <<pc, current>>, strays' \subseteq Requests
  PROVE  IOInv'
<1>1. ToSet(s) \subseteq Requests
  BY ElementOf
<1>2. /\ replyPort \in [Tasks -> Seq(Requests)]
      /\ \A t \in Tasks : IsInjective(replyPort[t])
      /\ \A t \in Tasks : \A r \in ToSet(replyPort[t]) : type[r] = "reply" /\ Owner[r] = t /\ r \in inUse
      /\ \A r \in inUse : type[r] = "reply" => r \in ToSet(replyPort[Owner[r]])
      /\ inUse \subseteq Requests
  BY DEF IOInv, IOTypeOK, RepliedIsQueued
<1>3. ASSUME NEW t \in Tasks
      PROVE  /\ replyPort'[t] = replyPort[t] \o Part(s, t)
             /\ replyPort'[t] \in Seq(Requests) /\ IsInjective(replyPort'[t])
             /\ ToSet(replyPort'[t]) = ToSet(replyPort[t]) \cup {r \in ToSet(s) : Owner[r] = t}
  <2> DEFINE u == replyPort[t]
             v == Part(s, t)
  <2>1. replyPort'[t] = u \o v
    BY DEF PutReplies
  <2>2. v \in Seq(Requests) /\ IsInjective(v) /\ ToSet(v) = {r \in ToSet(s) : Owner[r] = t}
    BY PartList
  <2>3. u \in Seq(Requests) /\ IsInjective(u)
    BY <1>2
  <2>4. ToSet(u) \cap ToSet(v) = {}
    BY <2>2, <1>2
  <2> HIDE DEF u, v
  <2>5. /\ u \o v \in Seq(Requests) /\ ToSet(u \o v) = ToSet(u) \cup ToSet(v)
        /\ IsInjective(u) /\ IsInjective(v) /\ ToSet(u) \cap ToSet(v) = {} => IsInjective(u \o v)
    BY <2>2, <2>3, ConcatList
  <2> QED  BY <2>1, <2>2, <2>3, <2>4, <2>5 DEF u, v
<1>4. IOTypeOK'
  <2>1. replyPort' \in [Tasks -> Seq(Requests)]
    BY <1>3 DEF PutReplies
  <2>2. signal' \subseteq Tasks
    BY <1>1, IOConstantsOK DEF PutReplies, IOInv, IOTypeOK
  <2> QED  BY <2>1, <2>2, <1>1 DEF IOInv, IOTypeOK
<1>5. WaitsForOwn'
  BY DEF IOInv, WaitsForOwn
<1>6. RepliedIsQueued'
  <2>1. ASSUME NEW r \in inUse', type'[r] = "reply" PROVE r \in ToSet(replyPort'[Owner[r]])
    <3>1. r \in Requests /\ Owner[r] \in Tasks
      BY <1>1, <1>2, IOConstantsOK
    <3>2. r \in ToSet(s) \/ (r \in inUse /\ type[r] = "reply")
      BY <2>1, <3>1
    <3> QED  BY <3>1, <3>2, <1>2, <1>3
  <2>2. ASSUME NEW t \in Tasks, NEW r \in ToSet(replyPort'[t])
        PROVE  type'[r] = "reply" /\ Owner[r] = t /\ r \in inUse'
    <3>1. CASE r \in ToSet(replyPort[t])
      <4>1. type[r] = "reply" /\ Owner[r] = t /\ r \in inUse /\ r \in Requests
        BY <3>1, <1>2
      <4> QED  BY <4>1
    <3>2. CASE r \in ToSet(s) /\ Owner[r] = t
      BY <3>2, <1>1
    <3> QED  BY <3>1, <3>2, <2>2, <1>3
  <2> QED  BY <2>1, <2>2, <1>3 DEF RepliedIsQueued
<1>7. NoLostReply'
  <2> SUFFICES ASSUME NEW t \in Tasks, t \notin signal'
               PROVE  /\ pc[t] = "sleepio" => Busy(current[t])'
                      /\ pc[t] = "sleepport" => replyPort'[t] = <<>>
    BY DEF NoLostReply
  <2>1. t \notin signal /\ \A r \in ToSet(s) : Owner[r] # t
    BY DEF PutReplies
  <2>2. ASSUME pc[t] = "sleepio" PROVE Busy(current[t])'
    <3>1. current[t] \in inUse /\ Owner[current[t]] = t /\ Busy(current[t])
      BY <2>1, <2>2 DEF IOInv, WaitsForOwn, NoLostReply
    <3> QED  BY <3>1, <2>1, <1>2 DEF Busy
  <2>3. ASSUME pc[t] = "sleepport" PROVE replyPort'[t] = <<>>
    <3>1. ToSet(replyPort[t]) = {}
      BY <2>1, <2>3, EmptyList DEF IOInv, NoLostReply
    <3>2. ToSet(replyPort'[t]) = {}
      BY <3>1, <2>1, <1>3
    <3> QED  BY <3>2, <1>3, NothingListed
  <2> QED  BY <2>2, <2>3
<1> QED  BY <1>4, <1>5, <1>6, <1>7 DEF IOInv

\* A request is sent that stays with the device, or that is done with when the call returns.
LEMMA SendKeeps ==
  ASSUME IOInv, NEW t \in Tasks, NEW r \in OwnedBy(t) \ inUse, NEW q \in BOOLEAN,
         type' = [type EXCEPT ![r] = "message"], quick' = [quick EXCEPT ![r] = q],
         inUse' = inUse \/ (inUse' = inUse \cup {r} /\ ~q),
         \/ UNCHANGED <<pc, current>>
         \/ \E w \in BOOLEAN, p \in {"run", "testio", "device"} :
              /\ pc[t] = "run" /\ r \in inUse'
              /\ p = "testio" => w
              /\ pc' = [pc EXCEPT ![t] = p] /\ current' = [current EXCEPT ![t] = IF w THEN r ELSE None],
         UNCHANGED <<replyPort, signal, strays>>
  PROVE  IOInv'
<1>1. IOTypeOK /\ WaitsForOwn /\ RepliedIsQueued /\ NoLostReply
  BY DEF IOInv
<1>2. r \in Requests /\ r \notin inUse /\ Owner[r] = t /\ None \notin Requests
  BY IOConstantsOK DEF OwnedBy
<1>3. IOTypeOK'
  <2>1. pc' \in [Tasks -> {"run", "testio", "sleepio", "testport", "sleepport", "device"}]
    BY <1>1 DEF IOTypeOK
  <2>2. current' \in [Tasks -> Requests \cup {None}]
    BY <1>1, <1>2 DEF IOTypeOK
  <2>3. type' \in [Requests -> {"none", "message", "reply"}] /\ quick' \in [Requests -> BOOLEAN]
    BY <1>1 DEF IOTypeOK
  <2>4. inUse' \subseteq Requests
    BY <1>1, <1>2 DEF IOTypeOK
  <2> QED  BY <2>1, <2>2, <2>3, <2>4, <1>1 DEF IOTypeOK
<1>4. inUse \subseteq inUse' /\ inUse' \subseteq inUse \cup {r} /\ \A i \in inUse : i \in Requests /\ i # r
  BY <1>1, <1>2 DEF IOTypeOK
<1>5. /\ \A i \in inUse : type'[i] = type[i] /\ quick'[i] = quick[i]
      /\ type'[r] = "message" /\ quick'[r] = q
  BY <1>1, <1>2, <1>4 DEF IOTypeOK
<1>6. \A u \in Tasks : \/ pc'[u] = pc[u] /\ current'[u] = current[u]
                       \/ /\ u = t /\ pc[t] = "run" /\ r \in inUse'
                          /\ pc'[t] \in {"run", "testio", "device"}
                          /\ current'[t] \in {r, None} /\ (pc'[t] = "testio" => current'[t] = r)
  BY <1>1 DEF IOTypeOK
<1>7. WaitsForOwn'
  <2>1. ASSUME NEW u \in Tasks,
               pc'[u] \in {"testio", "sleepio"} \/ (pc'[u] = "device" /\ current'[u] # None)
        PROVE  current'[u] \in inUse' /\ Owner[current'[u]] = u
    BY <2>1, <1>1, <1>2, <1>4, <1>6 DEF WaitsForOwn
  <2>2. \A i \in inUse' : ~quick'[i]
    BY <1>1, <1>2, <1>4, <1>5 DEF WaitsForOwn
  <2> QED  BY <2>1, <2>2 DEF WaitsForOwn
<1>8. RepliedIsQueued'
  BY <1>1, <1>2, <1>4, <1>5 DEF RepliedIsQueued
<1>9. NoLostReply'
  <2> SUFFICES ASSUME NEW u \in Tasks, u \notin signal
               PROVE  /\ pc'[u] = "sleepio" => Busy(current[u])'
                      /\ pc'[u] = "sleepport" => replyPort[u] = <<>>
    BY DEF NoLostReply
  <2>1. ASSUME pc'[u] = "sleepio" PROVE Busy(current[u])'
    <3>1. pc[u] = "sleepio" /\ current'[u] = current[u]
      BY <2>1, <1>6
    <3>2. current[u] \in inUse /\ Busy(current[u])
      BY <3>1, <1>1 DEF WaitsForOwn, NoLostReply
    <3> QED  BY <3>1, <3>2, <1>5 DEF Busy
  <2>2. ASSUME pc'[u] = "sleepport" PROVE replyPort[u] = <<>>
    BY <2>2, <1>1, <1>6 DEF NoLostReply
  <2> QED  BY <2>1, <2>2
<1> QED  BY <1>3, <1>7, <1>8, <1>9 DEF IOInv

\* A task comes back from the vector of a device.
LEMMA ReturnKeeps ==
  ASSUME IOInv, NEW t \in Tasks, pc[t] = "device",
         pc' = [pc EXCEPT ![t] = IF current[t] # None THEN "testio" ELSE "run"],
         UNCHANGED <<type, quick, replyPort, signal, current, inUse, strays>>
  PROVE  IOInv'
<1>1. IOTypeOK /\ WaitsForOwn /\ RepliedIsQueued /\ NoLostReply
  BY DEF IOInv
<1>2. IOTypeOK'
  BY <1>1 DEF IOTypeOK
<1>3. WaitsForOwn'
  BY <1>1 DEF WaitsForOwn, IOTypeOK
<1>4. RepliedIsQueued'
  BY <1>1 DEF RepliedIsQueued
<1>5. NoLostReply'
  <2>1. \A u \in Tasks : pc'[u] \in {"sleepio", "sleepport"} => pc'[u] = pc[u]
    BY <1>1 DEF IOTypeOK
  <2> QED  BY <2>1, <1>1 DEF NoLostReply, Busy
<1> QED  BY <1>2, <1>3, <1>4, <1>5 DEF IOInv

\* The task t is done with its request r, which leaves its port, whose list becomes s, if it
\* was there.
Collected(t, r, s) ==
  /\ s \in Seq(Requests) /\ IsInjective(s) /\ r \in inUse
  /\ r \in ToSet(replyPort[t]) => ToSet(s) = ToSet(replyPort[t]) \ {r}
  /\ r \notin ToSet(replyPort[t]) => s = replyPort[t]
  /\ type[r] = "reply" => r \in ToSet(replyPort[t])
  /\ replyPort' = [replyPort EXCEPT ![t] = s] /\ inUse' = inUse \ {r}
  /\ pc[t] \in {"run", "testio"} /\ pc' = [pc EXCEPT ![t] = "run"]
  /\ current' \in [Tasks -> Requests \cup {None}] /\ \A u \in Tasks \ {t} : current'[u] = current[u]
  /\ \A u \in Tasks \ {t} : current[u] # r \/ pc[u] \notin {"testio", "sleepio", "device"}
  /\ strays' \subseteq Requests
  /\ UNCHANGED <<type, quick, signal>>

\* Who takes a reply off its port leaves them in order.
LEMMA CollectKeeps ==
  ASSUME IOInv, NEW t \in Tasks, NEW s, NEW r, Collected(t, r, s)
  PROVE  IOInv'
<1>1. IOTypeOK /\ WaitsForOwn /\ RepliedIsQueued /\ NoLostReply
  BY DEF IOInv
<1>0. /\ s \in Seq(Requests) /\ IsInjective(s) /\ r \in inUse
      /\ r \in ToSet(replyPort[t]) => ToSet(s) = ToSet(replyPort[t]) \ {r}
      /\ r \notin ToSet(replyPort[t]) => s = replyPort[t]
      /\ type[r] = "reply" => r \in ToSet(replyPort[t])
      /\ replyPort' = [replyPort EXCEPT ![t] = s] /\ inUse' = inUse \ {r}
      /\ pc[t] \in {"run", "testio"} /\ pc' = [pc EXCEPT ![t] = "run"]
      /\ current' \in [Tasks -> Requests \cup {None}]
      /\ \A u \in Tasks \ {t} : current'[u] = current[u]
      /\ \A u \in Tasks \ {t} : current[u] # r \/ pc[u] \notin {"testio", "sleepio", "device"}
      /\ strays' \subseteq Requests /\ UNCHANGED <<type, quick, signal>>
  BY DEF Collected
<1>2. IOTypeOK'
  BY <1>0, <1>1 DEF IOTypeOK
<1>3. /\ pc'[t] = "run" /\ \A u \in Tasks \ {t} : pc'[u] = pc[u]
      /\ replyPort'[t] = s /\ \A u \in Tasks \ {t} : replyPort'[u] = replyPort[u]
  BY <1>0, <1>1 DEF IOTypeOK
<1>4. WaitsForOwn'
  BY <1>0, <1>1, <1>3 DEF WaitsForOwn, IOTypeOK
<1>5. RepliedIsQueued'
  <2>1. \A u \in Tasks : \A i \in ToSet(replyPort[u]) : type[i] = "reply" /\ Owner[i] = u /\ i \in inUse
    BY <1>1 DEF RepliedIsQueued
  <2>2. \A u \in Tasks : ToSet(replyPort'[u]) = ToSet(replyPort[u]) \ {r}
    BY <2>1, <1>0, <1>3, <1>1 DEF RepliedIsQueued
  <2>3. \A u \in Tasks : IsInjective(replyPort'[u])
    BY <1>0, <1>1, <1>3 DEF RepliedIsQueued
  <2>4. \A i \in inUse : Owner[i] \in Tasks
    BY <1>1, IOConstantsOK DEF IOTypeOK
  <2> QED  BY <2>1, <2>2, <2>3, <2>4, <1>0, <1>1 DEF RepliedIsQueued
<1>6. NoLostReply'
  BY <1>0, <1>1, <1>3 DEF NoLostReply, Busy
<1> QED  BY <1>2, <1>4, <1>5, <1>6 DEF IOInv

\* The steps of WaitIO(), WaitPort() and GetMsg().
LEMMA ClientKeeps ==
  ASSUME IOInv, NEW t \in Tasks, ClientStep(t)
  PROVE  IOInv'
<1>1. IOTypeOK /\ WaitsForOwn /\ RepliedIsQueued /\ NoLostReply
  BY DEF IOInv
<1>2. ASSUME NEW r \in Requests, WaitIO(t, r) PROVE IOInv'
  <2>1. r \in inUse /\ Owner[r] = t /\ pc[t] = "run"
    BY <1>2 DEF WaitIO, OwnedBy
  <2>2. /\ \A u \in Tasks : pc'[u] = IF u = t THEN "testio" ELSE pc[u]
        /\ \A u \in Tasks : current'[u] = IF u = t THEN r ELSE current[u]
    BY <1>1, <1>2 DEF WaitIO, IOTypeOK
  <2>3. IOTypeOK'
    BY <1>1, <1>2 DEF WaitIO, IOTypeOK
  <2>4. WaitsForOwn'
    BY <1>1, <1>2, <2>1, <2>2 DEF WaitIO, WaitsForOwn
  <2>5. RepliedIsQueued'
    BY <1>1, <1>2 DEF WaitIO, RepliedIsQueued
  <2>6. NoLostReply'
    BY <1>1, <1>2, <2>2 DEF WaitIO, NoLostReply, Busy
  <2> QED  BY <2>3, <2>4, <2>5, <2>6 DEF IOInv
<1>3. ASSUME TestIO(t) PROVE IOInv'
  <2> DEFINE r == current[t]
  <2>1. pc[t] = "testio" /\ r \in inUse /\ Owner[r] = t /\ ~quick[r] /\ r \in Requests
    BY <1>1, <1>3 DEF TestIO, WaitsForOwn, IOTypeOK
  <2>2. CASE Busy(r) /\ pc' = [pc EXCEPT ![t] = "sleepio"] /\ UNCHANGED <<replyPort, current, inUse, strays>>
    <3>1. \A u \in Tasks : pc'[u] = IF u = t THEN "sleepio" ELSE pc[u]
      BY <2>2, <1>1 DEF IOTypeOK
    <3>2. UNCHANGED <<type, quick, signal>>
      BY <1>3 DEF TestIO
    <3>3. IOTypeOK'
      BY <1>1, <2>2, <3>2 DEF IOTypeOK
    <3>4. WaitsForOwn'
      BY <1>1, <2>1, <2>2, <3>1, <3>2 DEF WaitsForOwn
    <3>5. RepliedIsQueued'
      BY <1>1, <2>2, <3>2 DEF RepliedIsQueued
    <3>6. NoLostReply'
      BY <1>1, <2>2, <3>1, <3>2 DEF NoLostReply, Busy
    <3> QED  BY <3>3, <3>4, <3>5, <3>6 DEF IOInv
  <2>3. CASE ~(Busy(r) /\ pc' = [pc EXCEPT ![t] = "sleepio"] /\ UNCHANGED <<replyPort, current, inUse, strays>>)
    <3> DEFINE s == IF type[r] = "reply" THEN RemoveFirst(replyPort[t], r) ELSE replyPort[t]
    <3>1. /\ replyPort' = [replyPort EXCEPT ![t] = IF type[r] = "reply" THEN RemoveFirst(@, r) ELSE @]
          /\ strays' = IF type[r] = "reply" /\ r \notin ToSet(replyPort[t])
                       THEN strays \cup {r} ELSE strays
          /\ inUse' = inUse \ {r}
          /\ current' = [current EXCEPT ![t] = None]
          /\ pc' = [pc EXCEPT ![t] = "run"]
          /\ UNCHANGED <<type, quick, signal>>
      BY <1>3, <2>3 DEF TestIO
    <3>2. replyPort[t] \in Seq(Requests) /\ IsInjective(replyPort[t]) /\ replyPort \in [Tasks -> Seq(Requests)]
      BY <1>1 DEF IOTypeOK, RepliedIsQueued
    <3>3. /\ RemoveFirst(replyPort[t], r) \in Seq(Requests) /\ IsInjective(RemoveFirst(replyPort[t], r))
          /\ ToSet(RemoveFirst(replyPort[t], r)) = ToSet(replyPort[t]) \ {r}
      BY <3>2, RemoveList
    <3>4. r \in ToSet(replyPort[t]) <=> type[r] = "reply"
      BY <1>1, <2>1 DEF RepliedIsQueued
    <3>5. /\ s \in Seq(Requests) /\ IsInjective(s)
          /\ r \in ToSet(replyPort[t]) => ToSet(s) = ToSet(replyPort[t]) \ {r}
          /\ r \notin ToSet(replyPort[t]) => s = replyPort[t]
      BY <3>2, <3>3, <3>4
    <3>6. replyPort' = [replyPort EXCEPT ![t] = s]
      BY <3>1, <3>2
    <3> HIDE DEF s
    <3>7. /\ current' \in [Tasks -> Requests \cup {None}] 
          /\ \A u \in Tasks \ {t} : current'[u] = current[u]
      BY <3>1, <1>1 DEF IOTypeOK
    <3>8. \A u \in Tasks \ {t} : current[u] # r \/ pc[u] \notin {"testio", "sleepio", "device"}
      <4> SUFFICES ASSUME NEW u \in Tasks \ {t}, current[u] = r,
                          pc[u] \in {"testio", "sleepio", "device"}
                   PROVE  FALSE
        OBVIOUS
      <4>1. r # None
        BY <2>1, IOConstantsOK
      <4> QED  BY <4>1, <2>1, <1>1 DEF WaitsForOwn
    <3>9. strays' \subseteq Requests
      BY <3>1, <2>1, <1>1 DEF IOTypeOK
    <3> HIDE DEF r
    <3>10. Collected(t, r, s)
      BY <2>1, <3>1, <3>4, <3>5, <3>6, <3>7, <3>8, <3>9 DEF Collected
    <3> QED  BY <3>10, CollectKeeps
  <2> QED  BY <2>2, <2>3
<1>4. ASSUME Wake(t) PROVE IOInv'
  <2>1. /\ \A u \in Tasks \ {t} : pc'[u] = pc[u] /\ (u \in signal' <=> u \in signal)
        /\ pc[t] \in {"sleepio", "sleepport"}
        /\ pc'[t] = IF pc[t] = "sleepio" THEN "testio" ELSE "testport"
    BY <1>1, <1>4 DEF Wake, TakeSignal, IOTypeOK
  <2>2. IOTypeOK'
    BY <1>1, <1>4 DEF Wake, TakeSignal, IOTypeOK
  <2>3. WaitsForOwn'
    BY <1>1, <1>4, <2>1 DEF Wake, WaitsForOwn
  <2>4. RepliedIsQueued'
    BY <1>1, <1>4 DEF Wake, RepliedIsQueued
  <2>5. NoLostReply'
    BY <1>1, <1>4, <2>1 DEF Wake, NoLostReply, Busy
  <2> QED  BY <2>2, <2>3, <2>4, <2>5 DEF IOInv
<1>5. ASSUME WaitPort(t) PROVE IOInv'
  <2>1. /\ \A u \in Tasks \ {t} : pc'[u] = pc[u]
        /\ pc'[t] = IF replyPort[t] = <<>> THEN "sleepport" ELSE "run"
    BY <1>1, <1>5 DEF WaitPort, IOTypeOK
  <2>2. IOTypeOK'
    BY <1>1, <1>5 DEF WaitPort, IOTypeOK
  <2>3. WaitsForOwn'
    BY <1>1, <1>5, <2>1 DEF WaitPort, WaitsForOwn
  <2>4. RepliedIsQueued'
    BY <1>1, <1>5 DEF WaitPort, RepliedIsQueued
  <2>5. NoLostReply'
    BY <1>1, <1>5, <2>1 DEF WaitPort, NoLostReply, Busy
  <2> QED  BY <2>2, <2>3, <2>4, <2>5 DEF IOInv
<1>6. ASSUME GetMsg(t) PROVE IOInv'
  <2> DEFINE s == Tail(replyPort[t])
             r == Head(replyPort[t])
  <2>1. /\ pc[t] = "run" /\ replyPort[t] # <<>> /\ replyPort' = [replyPort EXCEPT ![t] = Tail(@)]
        /\ inUse' = inUse \ {r} /\ UNCHANGED <<type, quick, signal, pc, current, strays>>
    BY <1>6 DEF GetMsg
  <2>2. replyPort[t] \in Seq(Requests) /\ IsInjective(replyPort[t]) /\ replyPort \in [Tasks -> Seq(Requests)]
    BY <1>1 DEF IOTypeOK, RepliedIsQueued
  <2>3. /\ s \in Seq(Requests) /\ r \in ToSet(replyPort[t]) /\ IsInjective(s)
        /\ ToSet(s) = ToSet(replyPort[t]) \ {r}
    BY <2>1, <2>2, TailList
  <2>4. r \in inUse /\ type[r] = "reply" /\ Owner[r] = t
    BY <2>3, <1>1 DEF RepliedIsQueued
  <2>5. replyPort' = [replyPort EXCEPT ![t] = s] /\ pc' = [pc EXCEPT ![t] = "run"]
    BY <2>1, <2>2, <1>1 DEF IOTypeOK
  <2>6. /\ current' \in [Tasks -> Requests \cup {None}] 
        /\ \A u \in Tasks \ {t} : current'[u] = current[u]
    BY <2>1, <1>1 DEF IOTypeOK
  <2>7. \A u \in Tasks \ {t} : current[u] # r \/ pc[u] \notin {"testio", "sleepio", "device"}
    <3> SUFFICES ASSUME NEW u \in Tasks \ {t}, current[u] = r,
                        pc[u] \in {"testio", "sleepio", "device"}
                 PROVE  FALSE
      OBVIOUS
    <3>1. r # None
      BY <2>4, <1>1, IOConstantsOK DEF IOTypeOK
    <3> QED  BY <3>1, <2>4, <1>1 DEF WaitsForOwn
  <2>8. strays' \subseteq Requests
    BY <2>1, <1>1 DEF IOTypeOK
  <2> HIDE DEF s, r
  <2>9. Collected(t, r, s)
    BY <2>1, <2>3, <2>4, <2>5, <2>6, <2>7, <2>8 DEF Collected
  <2> QED  BY <2>9, CollectKeeps
<1> QED  BY <1>2, <1>3, <1>4, <1>5, <1>6 DEF ClientStep
=============================================================================
