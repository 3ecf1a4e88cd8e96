-------------------------- MODULE ExpiryHeapProofs --------------------------
(***************************************************************************)
(* Facts about the heap operators that the proofs of the modules that use  *)
(* them rest on.                                                           *)
(***************************************************************************)
EXTENDS ExpiryHeap, SequenceTheorems, WellFoundedInduction, TLAPS

\* Induction on the naturals, over a set instead of a predicate: a set that
\* holds 0, and with n also n + 1, holds them all.
LEMMA Induction ==
  ASSUME NEW P, 0 \in P, \A n \in Nat : n \in P => n + 1 \in P
  PROVE  Nat \subseteq P
<1> DEFINE T == Nat \ P
           R == {ss \in Nat \X Nat : ss[1] < ss[2]}
<1> SUFFICES ASSUME T # {} PROVE FALSE
  OBVIOUS
<1>1. IsWellFoundedOn(R, Nat)
  <2>1. OpToRel(<, Nat) = R
    BY Zenon DEF OpToRel
  <2> QED
    BY <2>1, NatLessThanWellFounded, Zenon
<1>2. \E x \in T : \A y \in T : ~ (<<y, x>> \in R)
  <2>1. T \subseteq Nat
    OBVIOUS
  <2> HIDE DEF T, R
  <2> QED
    BY <1>1, <2>1, WFMin
<1>3. PICK x \in T : \A y \in T : ~ (y < x)
  BY <1>2
<1>4. x # 0 /\ x - 1 \in Nat
  OBVIOUS
<1>5. x - 1 \in P
  BY <1>3, <1>4
<1> QED
  BY <1>4, <1>5

-----------------------------------------------------------------------------
(* What the operators return.                                               *)

\* Sifting (container/heap's up and down) rearranges an array in place: same
\* length, same kind of elements.
LEMMA SiftType ==
  ASSUME NEW T, NEW h \in Seq(T), NEW from \in 1..Len(h),
         NEW next \in [1..Len(h) -> 1..Len(h)]
  PROVE  /\ Sift(h, from, next) \in Seq(T)
         /\ Len(Sift(h, from, next)) = Len(h)
BY DEF Sift

\* The path of heap.up stays in the array.
LEMMA UpNextType ==
  ASSUME NEW T, NEW key, NEW h \in Seq(T)
  PROVE  UpNext(key, h) \in [1..Len(h) -> 1..Len(h)]
<1>1. \A i \in 1..Len(h) : i > 1 => i \div 2 \in 1..Len(h)
  OBVIOUS
<1> QED
  BY <1>1 DEF UpNext

\* The path of heap.down stays in the array.
LEMMA DownNextType ==
  ASSUME NEW T, NEW key, NEW h \in Seq(T)
  PROVE  DownNext(key, h) \in [1..Len(h) -> 1..Len(h)]
<1>1. \A i \in 1..Len(h) : 2*i <= Len(h) => SmallerChild(key, h, i) \in 1..Len(h)
  BY DEF SmallerChild
<1> QED
  BY <1>1 DEF DownNext

\* heap.Push makes the array one longer.
LEMMA HeapPushType ==
  ASSUME NEW T, NEW key, NEW h \in Seq(T), NEW x \in T
  PROVE  /\ HeapPush(key, h, x) \in Seq(T)
         /\ Len(HeapPush(key, h, x)) = Len(h) + 1
<1> DEFINE g == Append(h, x)
<1>1. g \in Seq(T) /\ Len(g) = Len(h) + 1 /\ Len(g) \in 1..Len(g)
  OBVIOUS
<1>2. UpNext(key, g) \in [1..Len(g) -> 1..Len(g)]
  BY <1>1, UpNextType
<1> QED
  BY <1>1, <1>2, SiftType DEF HeapPush

\* heap.Pop makes a non-empty array one shorter.
LEMMA HeapPopType ==
  ASSUME NEW T, NEW key, NEW h \in Seq(T), h # << >>
  PROVE  /\ HeapPop(key, h) \in Seq(T)
         /\ Len(HeapPop(key, h)) = Len(h) - 1
<1>0. Len(h) \in Nat /\ Len(h) >= 1
  <2>1. Len(h) \in Nat \ {0}
    BY EmptySeq
  <2> QED
    BY <2>1, SMT
<1>1. CASE Len(h) = 1
  BY <1>1, EmptySeq DEF HeapPop
<1>2. CASE Len(h) # 1
  <2>0. PICK m \in Nat : m = Len(h) /\ m >= 1 /\ m # 1
    BY <1>0, <1>2
  <2>1. PICK n \in Nat : n >= 1 /\ m = n + 1 /\ n = m - 1
    <3>1. m - 1 \in Nat /\ m - 1 >= 1 /\ m = (m - 1) + 1
      BY <2>0
    <3> QED
      BY <3>1
  <2> DEFINE g == [i \in 1..n |-> IF i = 1 THEN h[Len(h)] ELSE h[i]]
  <2>2. \A i \in 1..n : g[i] \in T
    <3>1. \A j \in 1..m : h[j] \in T
      BY <2>0
    <3>2. m \in 1..m /\ 1..n \subseteq 1..m
      BY <2>0, <2>1
    <3> QED
      BY <2>0, <3>1, <3>2
  <2>3. g \in Seq(T) /\ Len(g) = n /\ 1 \in 1..Len(g)
    BY <2>1, <2>2
  <2>4. HeapPop(key, h) = Sift(g, 1, DownNext(key, g))
    BY <1>2, <2>0, <2>1 DEF HeapPop
  <2> HIDE DEF g
  <2>5. DownNext(key, g) \in [1..Len(g) -> 1..Len(g)]
    BY <2>3, DownNextType
  <2>6. /\ Sift(g, 1, DownNext(key, g)) \in Seq(T)
        /\ Len(Sift(g, 1, DownNext(key, g))) = Len(g)
    BY <2>3, <2>5, SiftType
  <2> QED
    BY <2>0, <2>1, <2>3, <2>4, <2>6
<1> QED
  BY <1>1, <1>2

-----------------------------------------------------------------------------
(* How container/heap sifts.                                                *)

\* The recursive equation of SiftPath has a solution, whatever next is: the
\* least set around i that is closed under next.
LEMMA SiftPathStep ==
  ASSUME NEW D, NEW next \in [D -> D]
  PROVE  SiftPath(next) =
           [i \in D |-> IF next[i] = i THEN {i} ELSE {i} \cup SiftPath(next)[next[i]]]
<1> DEFINE Closed(S) == \A j \in S : next[j] \in S
           C(k) == {m \in D : \A S \in SUBSET D : k \in S /\ Closed(S) => m \in S}
           f == [k \in D |-> C(k)]
           Eq(path) == path = [k \in DOMAIN next |->
                          IF next[k] = k THEN {k} ELSE {k} \cup path[next[k]]]
<1>1. \A k \in D : k \in C(k) /\ C(k) \in SUBSET D /\ Closed(C(k))
  OBVIOUS
<1>2. ASSUME NEW k \in D PROVE f[k] = IF next[k] = k THEN {k} ELSE {k} \cup f[next[k]]
  <2>1. CASE next[k] = k
    <3>1. {k} \in SUBSET D /\ Closed({k})
      BY <2>1
    <3>2. C(k) \subseteq {k}
      BY <3>1
    <3> QED
      BY <1>1, <2>1, <3>2
  <2>2. CASE next[k] # k
    <3> DEFINE S == {k} \cup C(next[k])
    <3>1. next[k] \in D
      OBVIOUS
    <3>2. S \in SUBSET D /\ k \in S /\ Closed(S)
      BY <1>1, <3>1
    <3>3. C(k) \subseteq S
      <4> HIDE DEF S
      <4> QED
        BY <3>2
    <3>4. C(next[k]) \subseteq C(k)
      <4> SUFFICES ASSUME NEW m \in C(next[k]), NEW Z \in SUBSET D, k \in Z, Closed(Z)
                   PROVE  m \in Z
        OBVIOUS
      <4>1. next[k] \in Z
        OBVIOUS
      <4> QED
        BY <4>1
    <3> HIDE DEF C
    <3> QED
      BY <1>1, <2>2, <3>1, <3>3, <3>4
  <2> QED
    BY <2>1, <2>2
<1>3. Eq(f)
  <2> HIDE DEF C
  <2>1. DOMAIN next = D
    OBVIOUS
  <2>2. f = [k \in D |-> IF next[k] = k THEN {k} ELSE {k} \cup f[next[k]]]
    <3> DEFINE g == [k \in D |-> IF next[k] = k THEN {k} ELSE {k} \cup f[next[k]]]
    <3>1. \A k \in D : f[k] = g[k]
      BY <1>2
    <3>2. f = g
      BY <3>1, Zenon
    <3> QED
      BY <3>2
  <2> QED
    BY <2>1, <2>2
<1>4. SiftPath(next) = CHOOSE path : Eq(path)
  BY DEF SiftPath
<1> HIDE DEF f
<1>5. Eq(SiftPath(next))
  <2> HIDE DEF Eq
  <2> QED
    BY <1>3, <1>4, Zenon
<1> QED
  BY <1>5

\* p is a path of next from i: a chain without branches that ends where next
\* stays, every step going down in rank.
Chain(next, rank, i, p) ==
  /\ i \in p /\ p \subseteq DOMAIN next
  /\ \A k \in p : next[k] \in p
  /\ \A k \in p : k # i => rank[k] < rank[i] /\ \E j \in p : j # k /\ next[j] = k
  /\ \A e, k \in p : next[e] = e => rank[e] <= rank[k] /\ (next[k] = k => k = e)
  /\ \A j, k \in p : next[j] = next[k] /\ next[j] # j /\ next[k] # k => j = k
  /\ \E e \in p : next[e] = e

\* One step more in front of a chain.
LEMMA ChainGrows ==
  ASSUME NEW D, NEW next \in [D -> D], NEW rank \in [D -> Nat],
         NEW i \in D, next[i] # i, rank[next[i]] < rank[i],
         \A k \in D : next[k] # k => rank[next[k]] < rank[k],
         NEW p, Chain(next, rank, next[i], p)
  PROVE  Chain(next, rank, i, {i} \cup p)
<1> DEFINE q == {i} \cup p
<1>1. p \subseteq D /\ next[i] \in p /\ \A k \in p : rank[k] \in Nat /\ next[k] \in p
  BY DEF Chain
<1>2. \A k \in p : rank[k] < rank[i] /\ k # i
  <2>1. \A k \in p : rank[k] <= rank[next[i]]
    BY <1>1 DEF Chain
  <2> QED
    BY <1>1, <2>1
<1>3. i \in q /\ q \subseteq DOMAIN next /\ \A k \in q : next[k] \in q
  BY <1>1
<1>4. \A k \in q : k # i => rank[k] < rank[i] /\ \E j \in q : j # k /\ next[j] = k
  BY <1>1, <1>2 DEF Chain
<1>5. \A e, k \in q : next[e] = e => rank[e] <= rank[k] /\ (next[k] = k => k = e)
  BY <1>1, <1>2 DEF Chain
<1>6. \A j, k \in q : next[j] = next[k] /\ next[j] # j /\ next[k] # k => j = k
  <2>1. ASSUME NEW k \in p, next[k] = next[i], next[k] # k PROVE FALSE
    <3>1. rank[next[k]] < rank[k]
      BY <1>1, <2>1
    <3>2. rank[k] <= rank[next[i]]
      BY <1>1 DEF Chain
    <3> QED
      BY <1>1, <2>1, <3>1, <3>2
  <2> QED
    BY <2>1 DEF Chain
<1>7. \E e \in q : next[e] = e
  BY DEF Chain
<1> QED
  BY <1>3, <1>4, <1>5, <1>6, <1>7 DEF Chain

\* SiftPath is a chain wherever every move goes down in rank.
LEMMA SiftPathChain ==
  ASSUME NEW D, NEW next \in [D -> D], NEW rank \in [D -> Nat],
         \A k \in D : next[k] # k => rank[next[k]] < rank[k],
         NEW i \in D
  PROVE  Chain(next, rank, i, SiftPath(next)[i])
<1> DEFINE P == {m \in Nat : \A k \in D : rank[k] < m => Chain(next, rank, k, SiftPath(next)[k])}
<1>0. \A k \in D : SiftPath(next)[k] =
           IF next[k] = k THEN {k} ELSE {k} \cup SiftPath(next)[next[k]]
  <2> HIDE DEF P
  <2>1. SiftPath(next) =
           [k \in D |-> IF next[k] = k THEN {k} ELSE {k} \cup SiftPath(next)[next[k]]]
    BY SiftPathStep
  <2> DEFINE s == SiftPath(next)
  <2> HIDE DEF s
  <2>2. s = [k \in D |-> IF next[k] = k THEN {k} ELSE {k} \cup s[next[k]]]
    BY <2>1 DEF s
  <2>3. \A k \in D : s[k] = IF next[k] = k THEN {k} ELSE {k} \cup s[next[k]]
    BY <2>2
  <2> QED
    BY <2>3 DEF s
<1>1. 0 \in P
  OBVIOUS
<1>2. ASSUME NEW m \in Nat, m \in P PROVE m + 1 \in P
  <2>1. ASSUME NEW k \in D, rank[k] < m + 1
        PROVE  Chain(next, rank, k, SiftPath(next)[k])
    <3>1. CASE next[k] = k
      <4>1. SiftPath(next)[k] = {k}
        BY <3>1, <1>0
      <4> QED
        BY <3>1, <4>1 DEF Chain
    <3>2. CASE next[k] # k
      <4>1. SiftPath(next)[k] = {k} \cup SiftPath(next)[next[k]]
        BY <3>2, <1>0
      <4>2. next[k] \in D /\ rank[next[k]] < rank[k]
        BY <3>2
      <4>3. rank[next[k]] < m
        BY <2>1, <4>2
      <4>4. Chain(next, rank, next[k], SiftPath(next)[next[k]])
        BY <1>2, <4>2, <4>3
      <4> QED
        BY <3>2, <4>1, <4>2, <4>4, ChainGrows
    <3> QED
      BY <3>1, <3>2
  <2> QED
    BY <2>1
<1>3. Nat \subseteq P
  <2> HIDE DEF P
  <2> QED
    BY <1>1, <1>2, Induction
<1>4. rank[i] + 1 \in P
  BY <1>3
<1> QED
  BY <1>4

\* Where the element that ends up in position k was before the sift.
SiftFrom(from, next) ==
  LET path == SiftPath(next)[from]
  IN  [k \in DOMAIN next |->
         IF k \notin path THEN k ELSE IF next[k] = k THEN from ELSE next[k]]

\* s is h with its positions permuted by src.
Permuted(src, D, h, s) ==
  /\ src \in [D -> D]
  /\ \A j, k \in D : src[j] = src[k] => j = k
  /\ \A m \in D : \E k \in D : src[k] = m
  /\ s = [k \in D |-> h[src[k]]]

\* Sifting is a permutation of positions: no element is lost, none duplicated.
LEMMA SiftPermutes ==
  ASSUME NEW h, NEW from \in 1..Len(h), NEW next \in [1..Len(h) -> 1..Len(h)],
         NEW rank \in [1..Len(h) -> Nat],
         \A k \in 1..Len(h) : next[k] # k => rank[next[k]] < rank[k]
  PROVE  Permuted(SiftFrom(from, next), 1..Len(h), h, Sift(h, from, next))
<1> DEFINE D == 1..Len(h)
           p == SiftPath(next)[from]
           src == SiftFrom(from, next)
<1>0. /\ D = 1..Len(h) /\ from \in D /\ next \in [D -> D] /\ rank \in [D -> Nat]
      /\ \A k \in D : next[k] # k => rank[next[k]] < rank[k]
  OBVIOUS
<1> HIDE DEF D
<1>1. Chain(next, rank, from, p)
  BY <1>0, SiftPathChain
<1>2. src = [k \in D |-> IF k \notin p THEN k ELSE IF next[k] = k THEN from ELSE next[k]]
  BY <1>0 DEF SiftFrom
<1> HIDE DEF p, src
<1>3. src \in [D -> D]
  BY <1>0, <1>1, <1>2 DEF Chain
<1>4. \A k \in p : next[k] # k => next[k] # from
  BY <1>0, <1>1 DEF Chain
<1>5. ASSUME NEW j \in D, NEW k \in D, src[j] = src[k] PROVE j = k
  <2>0. \A m \in D : src[m] \in p <=> m \in p
    BY <1>0, <1>1, <1>2 DEF Chain
  <2>1. j \in p <=> k \in p
    BY <1>5, <2>0
  <2>2. CASE j \notin p
    BY <1>2, <1>5, <2>1, <2>2
  <2>3. CASE j \in p
    <3>1. CASE next[j] = j /\ next[k] = k
      BY <1>1, <2>1, <2>3, <3>1 DEF Chain
    <3>2. CASE next[j] # j /\ next[k] # k
      BY <1>1, <1>2, <1>5, <2>1, <2>3, <3>2 DEF Chain
    <3>3. CASE (next[j] = j) # (next[k] = k)
      BY <1>2, <1>4, <1>5, <2>1, <2>3, <3>3
    <3> QED
      BY <3>1, <3>2, <3>3
  <2> QED
    BY <2>2, <2>3
<1>6. ASSUME NEW m \in D PROVE \E k \in D : src[k] = m
  <2>1. CASE m \notin p
    BY <1>2, <2>1
  <2>2. CASE m = from
    BY <1>0, <1>1, <1>2, <2>2 DEF Chain
  <2>3. CASE m \in p /\ m # from
    <3>1. PICK j \in p : j # m /\ next[j] = m
      BY <1>1, <2>3 DEF Chain
    <3>2. j \in D
      BY <1>0, <1>1 DEF Chain
    <3> QED
      BY <1>2, <3>1, <3>2
  <2> QED
    BY <2>1, <2>2, <2>3
<1>7. Sift(h, from, next) = [k \in D |-> h[src[k]]]
  <2>1. Sift(h, from, next) =
          [k \in D |-> IF k \notin p THEN h[k]
                       ELSE IF next[k] = k THEN h[from] ELSE h[next[k]]]
    BY <1>0, Zenon DEF Sift, p
  <2> QED
    BY <1>2, <2>1
<1>8. Permuted(src, D, h, Sift(h, from, next))
  BY <1>3, <1>5, <1>6, <1>7 DEF Permuted
<1> QED
  BY <1>8 DEF D, src

-----------------------------------------------------------------------------
(* What the array holds.                                                    *)

\* What an array holds, and that it holds nothing twice.
Elements(h) == {h[i] : i \in 1..Len(h)}
Distinct(h) == \A i, j \in 1..Len(h) : h[i] = h[j] => i = j

\* What a sift leaves in the array is what it found there.
LEMMA SiftElements ==
  ASSUME NEW T, NEW h \in Seq(T), NEW from \in 1..Len(h),
         NEW next \in [1..Len(h) -> 1..Len(h)], NEW rank \in [1..Len(h) -> Nat],
         \A k \in 1..Len(h) : next[k] # k => rank[next[k]] < rank[k]
  PROVE  /\ Elements(Sift(h, from, next)) = Elements(h)
         /\ Distinct(h) => Distinct(Sift(h, from, next))
<1> DEFINE D == 1..Len(h)
           src == SiftFrom(from, next)
           s == Sift(h, from, next)
<1>1. Len(s) = Len(h)
  BY SiftType
<1> HIDE DEF D
<1>2. /\ src \in [D -> D]
      /\ \A j, k \in D : src[j] = src[k] => j = k
      /\ \A m \in D : \E k \in D : src[k] = m
      /\ s = [k \in D |-> h[src[k]]]
  <2>1. Permuted(src, D, h, s)
    BY SiftPermutes DEF D
  <2> HIDE DEF src, s
  <2> QED
    BY <2>1 DEF Permuted
<1> HIDE DEF s, src
<1>3. \A k \in D : s[k] = h[src[k]] /\ src[k] \in D
  BY <1>2
<1>4. Elements(s) = {s[k] : k \in D} /\ Elements(h) = {h[k] : k \in D}
  BY <1>1, Zenon DEF Elements, D
<1>5. Elements(s) = Elements(h)
  <2>1. ASSUME NEW k \in D PROVE s[k] \in Elements(h)
    BY <1>3, <1>4
  <2>2. ASSUME NEW m \in D PROVE h[m] \in Elements(s)
    BY <1>2, <1>3, <1>4
  <2> QED
    BY <1>4, <2>1, <2>2
<1>6. Distinct(h) => Distinct(s)
  <2>1. Distinct(h) <=> \A j, k \in D : h[j] = h[k] => j = k
    BY Zenon DEF Distinct, D
  <2>2. Distinct(s) <=> \A j, k \in D : s[j] = s[k] => j = k
    BY <1>1, Zenon DEF Distinct, D
  <2> QED
    BY <1>2, <1>3, <2>1, <2>2
<1> QED
  BY <1>5, <1>6 DEF s

\* heap.up moves to smaller positions.
LEMMA UpNextRank ==
  ASSUME NEW T, NEW key, NEW h \in Seq(T), NEW k \in 1..Len(h),
         UpNext(key, h)[k] # k
  PROVE  k > 1 /\ UpNext(key, h)[k] = k \div 2 /\ k \div 2 < k
BY DEF UpNext

\* heap.down moves to larger positions.
LEMMA DownNextRank ==
  ASSUME NEW T, NEW key, NEW h \in Seq(T), NEW k \in 1..Len(h),
         DownNext(key, h)[k] # k
  PROVE  DownNext(key, h)[k] = SmallerChild(key, h, k) /\ SmallerChild(key, h, k) > k
BY DEF DownNext, SmallerChild

\* heap.Push adds the new element and keeps the others.
LEMMA HeapPushElements ==
  ASSUME NEW T, NEW key, NEW h \in Seq(T), NEW x \in T
  PROVE  /\ Elements(HeapPush(key, h, x)) = Elements(h) \cup {x}
         /\ Distinct(h) /\ x \notin Elements(h) => Distinct(HeapPush(key, h, x))
<1> DEFINE g == Append(h, x)
           next == UpNext(key, g)
           rank == [k \in 1..Len(g) |-> k]
<1>1. g \in Seq(T) /\ Len(g) = Len(h) + 1 /\ Len(g) \in 1..Len(g)
  OBVIOUS
<1>2. Elements(g) = Elements(h) \cup {x}
  <2>1. ASSUME NEW i \in 1..Len(g) PROVE g[i] \in Elements(h) \cup {x}
    BY DEF Elements
  <2>2. ASSUME NEW i \in 1..Len(h) PROVE h[i] \in Elements(g)
    <3>1. i \in 1..Len(g) /\ g[i] = h[i]
      OBVIOUS
    <3> QED
      BY <3>1 DEF Elements
  <2>3. x \in Elements(g)
    <3>1. g[Len(g)] = x
      OBVIOUS
    <3> QED
      BY <1>1, <3>1 DEF Elements
  <2> HIDE DEF g
  <2> QED
    BY <2>1, <2>2, <2>3 DEF Elements
<1>3. Distinct(h) /\ x \notin Elements(h) => Distinct(g)
  BY DEF Elements, Distinct
<1> HIDE DEF g
<1>4. next \in [1..Len(g) -> 1..Len(g)]
  BY <1>1, UpNextType
<1>5. rank \in [1..Len(g) -> Nat]
  BY <1>1
<1>6. \A k \in 1..Len(g) : next[k] # k => rank[next[k]] < rank[k]
  BY <1>1, <1>4, UpNextRank
<1>7. HeapPush(key, h, x) = Sift(g, Len(g), next)
  BY DEF HeapPush, g
<1> HIDE DEF next, rank
<1>8. /\ Elements(Sift(g, Len(g), next)) = Elements(g)
      /\ Distinct(g) => Distinct(Sift(g, Len(g), next))
  BY <1>1, <1>4, <1>5, <1>6, SiftElements
<1> QED
  BY <1>2, <1>3, <1>7, <1>8

\* g is what heap.Pop sifts: h without its root, the last element in its place.
Rerooted(key, h, g) ==
  /\ Len(g) = Len(h) - 1 /\ 1 \in 1..Len(g)
  /\ Len(g) + 1 = Len(h) /\ Len(h) \in 1..Len(h)
  /\ \A i \in 1..Len(g) : g[i] = IF i = 1 THEN h[Len(h)] ELSE h[i]
  /\ HeapPop(key, h) = Sift(g, 1, DownNext(key, g))

\* Unless the root is all there is, heap.Pop is one sift of such an array.
LEMMA HeapPopSifts ==
  ASSUME NEW T, NEW key, NEW h \in Seq(T), h # << >>, Len(h) # 1
  PROVE  \E g \in Seq(T) : Rerooted(key, h, g)
<1>1. PICK n \in Nat : n >= 1 /\ Len(h) = n + 1 /\ Len(h) - 1 = n
  <2>1. Len(h) \in Nat \ {0}
    BY EmptySeq
  <2>2. Len(h) - 1 \in Nat /\ Len(h) - 1 >= 1 /\ Len(h) = (Len(h) - 1) + 1
    <3> DEFINE m == Len(h)
    <3>1. m \in Nat \ {0} /\ m # 1
      BY <2>1
    <3> HIDE DEF m
    <3>2. m - 1 \in Nat /\ m - 1 >= 1 /\ m = (m - 1) + 1
      BY <3>1
    <3> QED
      BY <3>2 DEF m
  <2> QED
    BY <2>2
<1> DEFINE g == [i \in 1..n |-> IF i = 1 THEN h[Len(h)] ELSE h[i]]
<1>3. \A i \in 1..n : g[i] \in T
  BY <1>1
<1>4. g \in Seq(T) /\ Len(g) = n /\ 1 \in 1..Len(g) /\ Len(h) \in 1..Len(h)
  BY <1>1, <1>3
<1>5. \A i \in 1..n : g[i] = IF i = 1 THEN h[Len(h)] ELSE h[i]
  OBVIOUS
<1>6. HeapPop(key, h) = Sift(g, 1, DownNext(key, g))
  BY <1>1, Zenon DEF HeapPop
<1> HIDE DEF g
<1> QED
  BY <1>1, <1>4, <1>5, <1>6 DEF Rerooted

\* heap.Pop removes the root and keeps the others.
LEMMA HeapPopElements ==
  ASSUME NEW T, NEW key, NEW h \in Seq(T), h # << >>, Distinct(h)
  PROVE  /\ Elements(HeapPop(key, h)) = Elements(h) \ {Head(h)}
         /\ Distinct(HeapPop(key, h))
<1>0. Head(h) = h[1] /\ Len(h) \in Nat \ {0}
  BY EmptySeq
<1>1. CASE Len(h) = 1
  <2>1. HeapPop(key, h) = << >>
    BY <1>1 DEF HeapPop
  <2>2. Elements(h) = {h[1]}
    BY <1>1 DEF Elements
  <2> QED
    BY <1>0, <2>1, <2>2 DEF Elements, Distinct
<1>2. CASE Len(h) # 1
  <2>0. PICK g \in Seq(T) : Rerooted(key, h, g)
    BY <1>2, HeapPopSifts, Zenon
  <2>1. /\ Len(g) = Len(h) - 1 /\ 1 \in 1..Len(g)
        /\ Len(g) + 1 = Len(h) /\ Len(h) \in 1..Len(h)
        /\ \A i \in 1..Len(g) : g[i] = IF i = 1 THEN h[Len(h)] ELSE h[i]
        /\ HeapPop(key, h) = Sift(g, 1, DownNext(key, g))
    BY <2>0 DEF Rerooted
  <2> DEFINE next == DownNext(key, g)
             rank == [k \in 1..Len(g) |-> Len(g) - k]
  <2>2. Elements(g) = Elements(h) \ {h[1]}
    <3>1. ASSUME NEW i \in 1..Len(g)
          PROVE  \E j \in 1..Len(h) : g[i] = h[j] /\ j # 1
      BY <2>1
    <3>2. ASSUME NEW j \in 1..Len(h), j # 1
          PROVE  \E i \in 1..Len(g) : g[i] = h[j]
      <4>1. CASE j = Len(h)
        BY <2>1, <4>1
      <4>2. CASE j # Len(h)
        BY <2>1, <3>2, <4>2
      <4> QED
        BY <4>1, <4>2
    <3>3. 1 \in 1..Len(h)
      BY <1>0
    <3>4. \A i \in 1..Len(g) : g[i] \in Elements(h) \ {h[1]}
      BY <3>1, <3>3 DEF Elements, Distinct
    <3>5. \A j \in 1..Len(h) : j # 1 => h[j] \in Elements(g)
      BY <3>2 DEF Elements
    <3> QED
      BY <3>4, <3>5 DEF Elements
  <2>3. Distinct(g)
    BY <2>1 DEF Distinct
  <2>4. next \in [1..Len(g) -> 1..Len(g)]
    BY <2>1, DownNextType
  <2>5. rank \in [1..Len(g) -> Nat]
    BY <2>1
  <2>6. \A k \in 1..Len(g) : next[k] # k => rank[next[k]] < rank[k]
    <3> SUFFICES ASSUME NEW k \in 1..Len(g), next[k] # k PROVE rank[next[k]] < rank[k]
      OBVIOUS
    <3>1. next[k] > k
      BY <2>1, DownNextRank
    <3>2. k \in Nat /\ next[k] \in 1..Len(g) /\ Len(g) \in Nat
      BY <2>1, <2>4
    <3>3. rank[k] = Len(g) - k /\ rank[next[k]] = Len(g) - next[k]
      BY <3>2
    <3> QED
      BY <3>1, <3>2, <3>3
  <2> HIDE DEF next, rank
  <2>7. /\ Elements(Sift(g, 1, next)) = Elements(g)
        /\ Distinct(g) => Distinct(Sift(g, 1, next))
    BY <2>1, <2>4, <2>5, <2>6, SiftElements
  <2> QED
    BY <1>0, <2>1, <2>2, <2>3, <2>7 DEF next
<1> QED
  BY <1>1, <1>2

-----------------------------------------------------------------------------
(* The order of the array.                                                  *)

\* Heap order only looks at the keys of what is in the array.
LEMMA OrderLooksAtElements ==
  ASSUME NEW T, NEW h \in Seq(T), NEW key1, NEW key2,
         \A x \in Elements(h) : key1[x] = key2[x],
         HeapOrdered(key1, h)
  PROVE  HeapOrdered(key2, h)
<1> SUFFICES ASSUME NEW i \in 2..Len(h) PROVE ~Less(key2, h[i], h[i \div 2])
  BY DEF HeapOrdered
<1>1. i \in 1..Len(h) /\ i \div 2 \in 1..Len(h)
  OBVIOUS
<1>2. key1[h[i]] = key2[h[i]] /\ key1[h[i \div 2]] = key2[h[i \div 2]]
  BY <1>1 DEF Elements
<1> QED
  BY <1>2 DEF HeapOrdered, Less

\* s is g after its last element has moved up along the path p: the elements
\* it passed expire later and came down one place; e is where it stopped.
UpSifted(key, g, p, e, s) ==
  /\ p \in SUBSET (1..Len(g)) /\ Len(g) \in p /\ e \in p
  /\ \A k \in 1..Len(g) \ p : s[k] = g[k]
  /\ \A k \in p : e <= k
  /\ \A k \in p \ {Len(g)} : key[g[Len(g)]] < key[g[k]]
  /\ \A k \in p \ {e} :
       /\ k > 1 /\ k \div 2 \in p /\ s[k] = g[k \div 2]
       /\ key[g[Len(g)]] < key[g[k \div 2]]
  /\ s[e] = g[Len(g)]
  /\ e = 1 \/ ~(key[g[Len(g)]] < key[g[e \div 2]])

\* That is what heap.up does.
LEMMA SiftsUp ==
  ASSUME NEW T, NEW key \in [T -> Int], NEW g \in Seq(T), g # << >>
  PROVE  \E p, e : UpSifted(key, g, p, e, Sift(g, Len(g), UpNext(key, g)))
<1> DEFINE n == Len(g)
           next == UpNext(key, g)
           rank == [k \in 1..n |-> k]
           p == SiftPath(next)[n]
           s == Sift(g, n, next)
<1>1. n \in Nat /\ n \in 1..n
  <2>1. Len(g) \in Nat \ {0}
    BY EmptySeq
  <2> QED
    BY <2>1
<1>2. next \in [1..n -> 1..n]
  BY UpNextType
<1>3. rank \in [1..n -> Nat] /\ \A k \in 1..n : rank[k] = k
  BY <1>1
<1>4. \A k \in 1..n : next[k] # k =>
        /\ k > 1 /\ next[k] = k \div 2 /\ k \div 2 < k
        /\ key[g[n]] < key[g[k \div 2]]
  BY <1>1 DEF UpNext, Less
<1>5. \A k \in 1..n : next[k] = k => k = 1 \/ ~(key[g[n]] < key[g[k \div 2]])
  <2> SUFFICES ASSUME NEW k \in 1..n, next[k] = k, k > 1, key[g[n]] < key[g[k \div 2]]
               PROVE  FALSE
    BY <1>1
  <2>1. next[k] = k \div 2
    BY DEF UpNext, Less
  <2> QED
    BY <2>1
<1>6. s = [k \in 1..n |-> IF k \notin p THEN g[k]
                          ELSE IF next[k] = k THEN g[n] ELSE g[next[k]]]
  BY DEF Sift
<1> HIDE DEF next, rank, s
<1>7. \A k \in 1..n : next[k] # k => rank[next[k]] < rank[k]
  BY <1>2, <1>3, <1>4
<1>8. Chain(next, rank, n, p)
  <2> HIDE DEF n
  <2> QED
    BY <1>1, <1>2, <1>3, <1>7, SiftPathChain
<1> HIDE DEF p
<1>9. p \in SUBSET (1..n) /\ n \in p
  BY <1>2, <1>8 DEF Chain
<1>10. PICK e \in p : next[e] = e
  BY <1>8 DEF Chain
<1>11. \A k \in p : e <= k /\ (next[k] = k => k = e)
  BY <1>3, <1>8, <1>9, <1>10 DEF Chain
<1>12. \A k \in p \ {n} : key[g[n]] < key[g[k]]
  <2> SUFFICES ASSUME NEW k \in p, k # n PROVE key[g[n]] < key[g[k]]
    OBVIOUS
  <2>1. PICK j \in p : j # k /\ next[j] = k
    BY <1>8 DEF Chain
  <2>2. j \in 1..n
    BY <1>9
  <2> QED
    BY <1>4, <2>1, <2>2
<1>13. \A k \in p \ {e} : /\ k > 1 /\ k \div 2 \in p /\ s[k] = g[k \div 2]
                         /\ key[g[n]] < key[g[k \div 2]]
  <2> SUFFICES ASSUME NEW k \in p, k # e
               PROVE  /\ k > 1 /\ k \div 2 \in p /\ s[k] = g[k \div 2]
                      /\ key[g[n]] < key[g[k \div 2]]
    OBVIOUS
  <2>1. k \in 1..n /\ next[k] # k /\ next[k] \in p
    BY <1>8, <1>9, <1>11 DEF Chain
  <2> QED
    BY <1>4, <1>6, <2>1
<1>14. s[e] = g[n] /\ (e = 1 \/ ~(key[g[n]] < key[g[e \div 2]]))
       /\ \A k \in 1..n \ p : s[k] = g[k]
  BY <1>5, <1>6, <1>9, <1>10
<1>15. UpSifted(key, g, p, e, s)
  BY <1>9, <1>10, <1>11, <1>12, <1>13, <1>14 DEF UpSifted
<1> QED
  BY <1>15 DEF s, next

\* heap.Push keeps the order: a parent never expires after its child.
LEMMA HeapPushOrder ==
  ASSUME NEW T, NEW key \in [T -> Int], NEW h \in Seq(T), NEW x \in T,
         HeapOrdered(key, h)
  PROVE  HeapOrdered(key, HeapPush(key, h, x))
<1> DEFINE g == Append(h, x)
           s == HeapPush(key, h, x)
           n == Len(g)
<1>1. /\ g \in Seq(T) /\ n = Len(h) + 1 /\ n \in Nat /\ n >= 1 /\ g # << >>
      /\ \A i \in 1..n : g[i] \in T
      /\ \A i \in 1..Len(h) : g[i] = h[i]
  <2>1. g \in Seq(T) /\ n = Len(h) + 1 /\ Len(h) \in Nat
    OBVIOUS
  <2>2. \A i \in 1..Len(h) : g[i] = h[i]
    OBVIOUS
  <2> HIDE DEF g
  <2>3. g # << >> /\ \A i \in 1..n : g[i] \in T
    BY <2>1, EmptySeq
  <2> QED
    BY <2>1, <2>2, <2>3
<1>2. s = Sift(g, n, UpNext(key, g))
  BY DEF HeapPush
<1>3. Len(s) = n
  BY <1>1, HeapPushType
<1>4. \A i \in 2..n : i # n => ~(key[g[i]] < key[g[i \div 2]])
  <2> SUFFICES ASSUME NEW i \in 2..n, i # n PROVE ~(key[g[i]] < key[g[i \div 2]])
    OBVIOUS
  <2>1. i \in 2..Len(h) /\ i \div 2 \in 1..Len(h)
    BY <1>1
  <2>2. ~Less(key, h[i], h[i \div 2])
    BY <2>1 DEF HeapOrdered
  <2>3. g[i] = h[i] /\ g[i \div 2] = h[i \div 2]
    BY <2>1, <1>1
  <2> QED
    BY <2>2, <2>3 DEF Less
<1>5. \A i \in 1..n : key[g[i]] \in Int
  BY <1>1
<1> HIDE DEF g, s
<1>6. PICK p, e : UpSifted(key, g, p, e, s)
  BY <1>1, <1>2, SiftsUp
<1>7. ASSUME NEW i \in 2..n PROVE ~(key[s[i]] < key[s[i \div 2]])
  <2> DEFINE q == i \div 2
  <2>0. q \in 1..n /\ q < i /\ i \in 1..n /\ q # n /\ i # 1
    BY <1>1
  <2>1. /\ i \notin p => s[i] = g[i] /\ i # n
        /\ i \in p /\ i # e => q \in p /\ s[i] = g[q]
        /\ i = e => s[i] = g[n] /\ q \notin p /\ ~(key[g[n]] < key[g[q]])
        /\ q \notin p => s[q] = g[q]
        /\ q \in p => key[g[n]] < key[g[q]]
        /\ q \in p => (s[q] = g[n] \/ (q > 1 /\ s[q] = g[q \div 2]))
    BY <1>6, <2>0 DEF UpSifted
  <2>2. q > 1 => q \in 2..n /\ q \div 2 \in 1..n /\ ~(key[g[q]] < key[g[q \div 2]])
    BY <1>1, <1>4, <2>0
  <2>3. i # n => ~(key[g[i]] < key[g[q]])
    BY <1>4
  <2>4. key[g[i]] \in Int /\ key[g[q]] \in Int /\ key[g[n]] \in Int
        /\ (q > 1 => key[g[q \div 2]] \in Int)
    BY <1>1, <1>5, <2>0, <2>2
  <2> HIDE DEF q, n
  <2>5. ~(key[s[i]] < key[s[q]])
    <3>1. CASE i \notin p
      <4>1. s[i] = g[i] /\ ~(key[g[i]] < key[g[q]])
        BY <2>1, <2>3, <3>1
      <4>2. CASE q \notin p
        BY <2>1, <4>1, <4>2
      <4>3. CASE q \in p /\ s[q] = g[n]
        BY <2>1, <2>4, <4>1, <4>3
      <4>4. CASE q > 1 /\ s[q] = g[q \div 2]
        BY <2>2, <2>4, <4>1, <4>4
      <4> QED
        BY <2>1, <4>2, <4>3, <4>4
    <3>2. CASE i \in p /\ i # e
      BY <2>1, <2>2, <2>4, <3>2
    <3>3. CASE i = e
      BY <2>1, <3>3
    <3> QED
      BY <3>1, <3>2, <3>3
  <2> QED
    BY <2>5 DEF q
<1> QED
  BY <1>3, <1>7 DEF HeapOrdered, Less, s, n

\* s is g after its root has moved down along the path p: the smaller child of
\* each position it left came up; e is where it stopped.
DownSifted(key, g, p, e, s) ==
  /\ p \in SUBSET (1..Len(g)) /\ 1 \in p /\ e \in p
  /\ \A k \in 1..Len(g) \ p : s[k] = g[k]
  /\ \A k \in p \ {1} : k \div 2 \in p \ {e} /\ k = SmallerChild(key, g, k \div 2)
  /\ \A k \in p \ {e} :
       LET c == SmallerChild(key, g, k)
       IN  2*k <= Len(g) /\ c \in p /\ s[k] = g[c] /\ key[g[c]] < key[g[1]]
  /\ s[e] = g[1]
  /\ 2*e <= Len(g) => ~(key[g[SmallerChild(key, g, e)]] < key[g[1]])

\* That is what heap.down does.
LEMMA SiftsDown ==
  ASSUME NEW T, NEW key \in [T -> Int], NEW g \in Seq(T), 1 \in 1..Len(g)
  PROVE  \E p, e : DownSifted(key, g, p, e, Sift(g, 1, DownNext(key, g)))
<1> DEFINE n == Len(g)
           next == DownNext(key, g)
           rank == [k \in 1..n |-> n - k]
           p == SiftPath(next)[1]
           s == Sift(g, 1, next)
           child(k) == SmallerChild(key, g, k)
<1>1. n \in Nat /\ 1 \in 1..n
  OBVIOUS
<1>2. next \in [1..n -> 1..n]
  BY DownNextType
<1>3. rank \in [1..n -> Nat] /\ \A k \in 1..n : rank[k] = n - k
  BY <1>1
<1>4. \A k \in 1..n : next[k] # k =>
        /\ next[k] = child(k) /\ 2*k <= n /\ key[g[child(k)]] < key[g[1]]
        /\ next[k] > k /\ next[k] \div 2 = k
  <2>1. \A k \in 1..n : next[k] # k =>
          next[k] = child(k) /\ 2*k <= n /\ key[g[child(k)]] < key[g[1]]
    BY DEF DownNext, Less
  <2>2. \A k \in 1..n : child(k) > k /\ child(k) \div 2 = k
    BY DEF SmallerChild
  <2> HIDE DEF next, child
  <2> QED
    BY <2>1, <2>2
<1>5. \A k \in 1..n : next[k] = k /\ 2*k <= n => ~(key[g[child(k)]] < key[g[1]])
  <2>1. \A k \in 1..n : child(k) # k
    BY DEF SmallerChild
  <2>2. \A k \in 1..n : 2*k <= n /\ key[g[child(k)]] < key[g[1]] => next[k] = child(k)
    BY DEF DownNext, Less
  <2> HIDE DEF next, child
  <2> QED
    BY <2>1, <2>2
<1>6. s = [k \in 1..n |-> IF k \notin p THEN g[k]
                          ELSE IF next[k] = k THEN g[1] ELSE g[next[k]]]
  BY DEF Sift
<1> HIDE DEF next, rank, s, child
<1>7. \A k \in 1..n : next[k] # k => rank[next[k]] < rank[k]
  <2> SUFFICES ASSUME NEW k \in 1..n, next[k] # k PROVE rank[next[k]] < rank[k]
    OBVIOUS
  <2>1. next[k] \in 1..n /\ next[k] > k
    BY <1>2, <1>4
  <2> QED
    BY <1>1, <1>3, <2>1
<1>8. Chain(next, rank, 1, p)
  <2> HIDE DEF n
  <2> QED
    BY <1>1, <1>2, <1>3, <1>7, SiftPathChain
<1> HIDE DEF p
<1>9. p \in SUBSET (1..n) /\ 1 \in p
  BY <1>2, <1>8 DEF Chain
<1>10. PICK e \in p : next[e] = e
  BY <1>8 DEF Chain
<1>11. \A k \in p : next[k] = k => k = e
  BY <1>8, <1>9, <1>10 DEF Chain
<1>12. \A k \in p \ {1} : k \div 2 \in p \ {e} /\ k = child(k \div 2)
  <2> SUFFICES ASSUME NEW k \in p, k # 1
               PROVE  k \div 2 \in p \ {e} /\ k = child(k \div 2)
    OBVIOUS
  <2>1. PICK j \in p : j # k /\ next[j] = k
    BY <1>8 DEF Chain
  <2>2. j \in 1..n /\ j # e
    BY <1>9, <1>10, <2>1
  <2> QED
    BY <1>4, <2>1, <2>2
<1>13. \A k \in p \ {e} : 2*k <= n /\ child(k) \in p /\ s[k] = g[child(k)]
                         /\ key[g[child(k)]] < key[g[1]]
  <2> SUFFICES ASSUME NEW k \in p, k # e
               PROVE  2*k <= n /\ child(k) \in p /\ s[k] = g[child(k)]
                      /\ key[g[child(k)]] < key[g[1]]
    OBVIOUS
  <2>1. k \in 1..n /\ next[k] # k /\ next[k] \in p
    BY <1>8, <1>9, <1>11 DEF Chain
  <2> QED
    BY <1>4, <1>6, <2>1
<1>14. s[e] = g[1] /\ (2*e <= n => ~(key[g[child(e)]] < key[g[1]]))
       /\ \A k \in 1..n \ p : s[k] = g[k]
  BY <1>5, <1>6, <1>9, <1>10
<1>15. DownSifted(key, g, p, e, s)
  BY <1>9, <1>10, <1>12, <1>13, <1>14 DEF DownSifted, child
<1> QED
  BY <1>15 DEF s, next

\* heap.Pop keeps the order.
LEMMA HeapPopOrder ==
  ASSUME NEW T, NEW key \in [T -> Int], NEW h \in Seq(T), h # << >>,
         HeapOrdered(key, h)
  PROVE  HeapOrdered(key, HeapPop(key, h))
<1>1. CASE Len(h) = 1
  BY <1>1 DEF HeapPop, HeapOrdered
<1>2. CASE Len(h) # 1
  <2>1. PICK g \in Seq(T) : Rerooted(key, h, g)
    BY <1>2, HeapPopSifts, Zenon
  <2> DEFINE n == Len(g)
             s == HeapPop(key, h)
             child(k) == SmallerChild(key, g, k)
  <2>2. n \in Nat /\ 1 \in 1..n /\ s = Sift(g, 1, DownNext(key, g))
    BY <2>1 DEF Rerooted
  <2>3. Len(s) = n
    BY <2>2, DownNextType, SiftType
  <2>4. \A i \in 1..n : key[g[i]] \in Int
    OBVIOUS
  <2>5. \A i \in 2..n : i \div 2 # 1 => ~(key[g[i]] < key[g[i \div 2]])
    <3> SUFFICES ASSUME NEW i \in 2..n, i \div 2 # 1
                 PROVE  ~(key[g[i]] < key[g[i \div 2]])
      OBVIOUS
    <3>1. i \in 2..Len(h) /\ i \in 1..n /\ i \div 2 \in 1..n /\ i # 1
      BY <2>1, <2>2 DEF Rerooted
    <3>2. g[i] = h[i] /\ g[i \div 2] = h[i \div 2]
      BY <2>1, <3>1 DEF Rerooted
    <3> QED
      BY <3>1, <3>2 DEF HeapOrdered, Less
  <2> HIDE DEF s
  <2>6. PICK p, e : DownSifted(key, g, p, e, s)
    BY <2>2, SiftsDown
  <2>7. ASSUME NEW i \in 2..n PROVE ~(key[s[i]] < key[s[i \div 2]])
    <3> DEFINE q == i \div 2
    <3>1. q \in 1..n /\ i \in 1..n /\ i # 1 /\ 2*q <= n
      BY <2>2
    <3>2. child(q) \in 1..n /\ ~(key[g[i]] < key[g[child(q)]])
      <4>1. i = 2*q \/ i = 2*q + 1
        OBVIOUS
      <4> HIDE DEF q
      <4>2. key[g[i]] \in Int /\ (2*q + 1 <= n => key[g[2*q + 1]] \in Int) /\ key[g[2*q]] \in Int
        BY <2>4, <3>1
      <4> QED
        BY <2>2, <3>1, <4>1, <4>2 DEF SmallerChild, Less
    <3> HIDE DEF child
    <3>3. /\ i \in p => q \in p /\ q # e /\ i = child(q)
          /\ i \notin p => s[i] = g[i]
          /\ q \notin p => s[q] = g[q] /\ q # 1
          /\ q \in p /\ q # e => s[q] = g[child(q)] /\ key[g[child(q)]] < key[g[1]]
          /\ q = e => q \in p /\ s[q] = g[1] /\ ~(key[g[child(q)]] < key[g[1]])
      BY <2>6, <3>1 DEF DownSifted, child
    <3>4. i \in p => \/ s[i] = g[1]
                     \/ child(i) \in p /\ s[i] = g[child(i)] /\ child(i) \div 2 = i
                        /\ child(i) \in 2..n
      <4>1. child(i) = 2*i \/ child(i) = 2*i + 1
        BY DEF child, SmallerChild
      <4>2. p \in SUBSET (1..n)
        BY <2>6 DEF DownSifted
      <4>3. child(i) \div 2 = i /\ (child(i) \in 1..n => child(i) \in 2..n)
        <5>1. i \in Nat /\ i >= 2
          BY <2>2
        <5>2. (2*i) \div 2 = i /\ (2*i + 1) \div 2 = i /\ 2*i >= 2 /\ 2*i + 1 >= 2
          BY <5>1
        <5>3. child(i) \div 2 = i
          BY <4>1, <5>2, Zenon
        <5>4. child(i) # 1
          BY <5>1, <5>3
        <5> HIDE DEF n
        <5>5. child(i) \in 1..n => child(i) \in 2..n
          BY <2>2, <5>4
        <5> QED
          BY <5>3, <5>5
      <4>4. i \in p /\ i # e => child(i) \in p /\ s[i] = g[child(i)]
        BY <2>6 DEF DownSifted, child
      <4>5. i = e => s[i] = g[1]
        BY <2>6 DEF DownSifted
      <4> QED
        BY <4>2, <4>3, <4>4, <4>5
    <3>5. key[g[i]] \in Int /\ key[g[q]] \in Int /\ key[g[1]] \in Int /\ key[g[child(q)]] \in Int
      BY <2>2, <2>4, <3>1, <3>2
    <3>6. CASE i \in p
      <4>1. i = child(q) /\ s[q] = g[i] /\ key[g[i]] < key[g[1]]
        BY <3>3, <3>6
      <4>2. CASE s[i] = g[1]
        BY <3>5, <4>1, <4>2
      <4>3. CASE s[i] # g[1]
        <5>1. child(i) \in 2..n /\ child(i) \div 2 = i /\ s[i] = g[child(i)]
          BY <3>4, <3>6, <4>3
        <5>2. ~(key[g[child(i)]] < key[g[i]])
          BY <2>5, <3>1, <5>1
        <5> QED
          BY <4>1, <5>1, <5>2
      <4> QED
        BY <4>2, <4>3
    <3>7. CASE i \notin p
      <4>1. CASE q \notin p
        BY <2>5, <3>3, <3>7, <4>1
      <4>2. CASE q \in p /\ q # e
        BY <3>2, <3>3, <3>7, <4>2
      <4>3. CASE q = e
        BY <3>2, <3>3, <3>5, <3>7, <4>3
      <4> QED
        BY <4>1, <4>2, <4>3
    <3> QED
      BY <3>6, <3>7
  <2> QED
    BY <2>3, <2>7 DEF HeapOrdered, Less, s
<1> QED
  BY <1>1, <1>2

\* The root of an ordered heap expires no later than anything else in it.
LEMMA RootIsEarliest ==
  ASSUME NEW T, NEW key \in [T -> Int], NEW h \in Seq(T), HeapOrdered(key, h),
         NEW i \in 1..Len(h)
  PROVE  key[h[1]] <= key[h[i]]
<1> DEFINE P == {m \in Nat : \A k \in 1..Len(h) : k <= m => key[h[1]] <= key[h[k]]}
<1>0. \A k \in 1..Len(h) : key[h[k]] \in Int
  OBVIOUS
<1>1. 0 \in P
  OBVIOUS
<1>2. ASSUME NEW m \in Nat, m \in P PROVE m + 1 \in P
  <2> SUFFICES ASSUME NEW k \in 1..Len(h), k <= m + 1 PROVE key[h[1]] <= key[h[k]]
    OBVIOUS
  <2>1. CASE k = 1
    BY <1>0, <2>1
  <2>2. CASE k # 1
    <3>1. k \in 2..Len(h) /\ k \div 2 \in 1..Len(h) /\ k \div 2 <= m /\ 1 \in 1..Len(h)
      BY <2>2
    <3>2. key[h[1]] <= key[h[k \div 2]]
      BY <1>2, <3>1
    <3>3. ~(key[h[k]] < key[h[k \div 2]])
      BY <3>1 DEF HeapOrdered, Less
    <3> QED
      BY <1>0, <3>1, <3>2, <3>3
  <2> QED
    BY <2>1, <2>2
<1>3. Nat \subseteq P
  <2> HIDE DEF P
  <2> QED
    BY <1>1, <1>2, Induction
<1>4. Len(h) \in P
  BY <1>3
<1> QED
  BY <1>4

-----------------------------------------------------------------------------
\* heap.Push does what a priority queue's insertion should: the array holds what
\* it held and the new element, each once, and stays in order if it was.
THEOREM HeapPushCorrect ==
  ASSUME NEW T, NEW key \in [T -> Int], NEW h \in Seq(T), NEW x \in T,
         Distinct(h), x \notin Elements(h)
  PROVE  LET s == HeapPush(key, h, x)
         IN  /\ s \in Seq(T) /\ Len(s) = Len(h) + 1
             /\ Elements(s) = Elements(h) \cup {x} /\ Distinct(s)
             /\ HeapOrdered(key, h) => HeapOrdered(key, s)
BY HeapPushType, HeapPushElements, HeapPushOrder

\* heap.Pop does what a priority queue's removal should: it takes out the root and
\* nothing else; from an array in order the root is the earliest element, and the
\* array it leaves is in order.
THEOREM HeapPopCorrect ==
  ASSUME NEW T, NEW key \in [T -> Int], NEW h \in Seq(T), h # << >>, Distinct(h)
  PROVE  LET s == HeapPop(key, h)
         IN  /\ s \in Seq(T) /\ Len(s) = Len(h) - 1
             /\ Elements(s) = Elements(h) \ {Head(h)} /\ Distinct(s)
             /\ HeapOrdered(key, h) =>
                  /\ \A x \in Elements(h) : key[Head(h)] <= key[x]
                  /\ HeapOrdered(key, s)
<1>1. HeapOrdered(key, h) => \A x \in Elements(h) : key[Head(h)] <= key[x]
  <2> SUFFICES ASSUME HeapOrdered(key, h), NEW x \in Elements(h)
               PROVE  key[Head(h)] <= key[x]
    OBVIOUS
  <2>1. PICK i \in 1..Len(h) : x = h[i]
    BY DEF Elements
  <2> QED
    BY <2>1, RootIsEarliest
<1> QED
  BY <1>1, HeapPopType, HeapPopElements, HeapPopOrder
=============================================================================
