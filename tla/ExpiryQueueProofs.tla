------------------------- MODULE ExpiryQueueProofs -------------------------
(***************************************************************************)
(* The queue of ExpiryQueue: what is in it, and in what order it comes     *)
(* out, for any number of tokens and any expiries.                         *)
(***************************************************************************)
EXTENDS ExpiryQueue, ExpiryHeapProofs, FiniteSetTheorems

\* The inductive invariant: the array is an enumeration of the queued tokens, in
\* heap order, and nothing in it expires before what was popped last.
QueueInv ==
  /\ TypeOK
  /\ Elements(pq) = queued /\ Distinct(pq)
  /\ HeapOrdered(key, pq)
  /\ \A t \in queued : popped <= key[t]

\* The invariant holds from the start and through every push and pop.
LEMMA QueueInvariant == Spec => []QueueInv
<1>1. Init => QueueInv
  BY DEF Init, QueueInv, TypeOK, Elements, Distinct, HeapOrdered
<1>2. QueueInv /\ [Next]_vars => QueueInv'
  <2> SUFFICES ASSUME QueueInv, [Next]_vars PROVE QueueInv'
    OBVIOUS
  <2> USE TimeAssumption
  <2>1. CASE Pop
    <3>1. /\ pq \in Seq(Token) /\ pq # << >> /\ key \in [Token -> Int]
          /\ Distinct(pq) /\ HeapOrdered(key, pq)
      BY <2>1 DEF Pop, QueueInv, TypeOK
    <3>2. /\ pq' \in Seq(Token) /\ Distinct(pq')
          /\ Elements(pq') = Elements(pq) \ {Head(pq)}
          /\ HeapOrdered(key, pq')
          /\ \A t \in Elements(pq) : key[Head(pq)] <= key[t]
      BY <2>1, <3>1, HeapPopCorrect DEF Pop
    <3>3. Head(pq) \in Token
      BY <3>1, EmptySeq
    <3> QED
      BY <2>1, <3>2, <3>3 DEF Pop, QueueInv, TypeOK
  <2>2. ASSUME NEW t \in Token, NEW k \in Time, Push(t, k) PROVE QueueInv'
    <3>1. /\ key' \in [Token -> Nat] /\ key' \in [Token -> Int] /\ pq \in Seq(Token)
          /\ \A x \in Elements(pq) : key[x] = key'[x]
      BY <2>2 DEF Push, QueueInv, TypeOK
    <3>2. HeapOrdered(key', pq) /\ Distinct(pq) /\ t \notin Elements(pq)
      BY <2>2, <3>1, OrderLooksAtElements DEF Push, QueueInv
    <3>3. /\ pq' \in Seq(Token) /\ Distinct(pq')
          /\ Elements(pq') = Elements(pq) \cup {t}
          /\ HeapOrdered(key', pq')
      <4>1. pq' = HeapPush(key', pq, t)
        BY <2>2 DEF Push
      <4> QED
        BY <3>1, <3>2, <4>1, HeapPushCorrect
    <3>4. TypeOK'
      BY <2>2, <3>1, <3>3 DEF Push, QueueInv, TypeOK
    <3>5. Elements(pq') = queued'
      BY <2>2, <3>3 DEF Push, QueueInv
    <3>6. \A x \in queued' : popped' <= key'[x]
      BY <2>2, <3>4 DEF Push, TypeOK
    <3>7. (Elements(pq))' = Elements(pq') /\ (HeapOrdered(key, pq))' = HeapOrdered(key', pq')
          /\ (Distinct(pq))' = Distinct(pq')
      BY DEF Elements, HeapOrdered, Less, Distinct
    <3> QED
      BY <3>3, <3>4, <3>5, <3>6, <3>7 DEF QueueInv
  <2>3. CASE UNCHANGED vars
    BY <2>3 DEF vars, QueueInv, TypeOK, Elements, Distinct, HeapOrdered, Less
  <2> QED
    BY <2>1, <2>2, <2>3 DEF Next
<1> QED
  BY <1>1, <1>2, PTL DEF Spec

\* Tokens are neither lost nor duplicated on their way through the heap: after any
\* sequence of pushes and pops the array enumerates the queued tokens.
THEOREM HoldsQueuedAlways == Spec => []HoldsQueued
<1>1. QueueInv => HoldsQueued
  <2> SUFFICES ASSUME QueueInv PROVE HoldsQueued
    OBVIOUS
  <2> DEFINE n == Len(pq)
             f == [i \in 1..n |-> pq[i]]
  <2>1. n \in Nat /\ queued = {pq[i] : i \in 1..n}
    BY DEF QueueInv, TypeOK, Elements
  <2>2. f \in Bijection(1..n, queued)
    BY <2>1 DEF Bijection, Injection, Surjection, IsInjective, QueueInv, Distinct
  <2>3. IsFiniteSet(1..n) /\ Cardinality(1..n) = n
    <3>1. n \in Nat
      BY <2>1
    <3> HIDE DEF n
    <3>2. 1 \in Int /\ n \in Int /\ (1 > n => n = 0)
      BY <3>1
    <3>3. IsFiniteSet(1..n) /\ Cardinality(1..n) = IF 1 > n THEN 0 ELSE n - 1 + 1
      BY <3>2, FS_Interval
    <3> QED
      BY <3>1, <3>2, <3>3
  <2>4. Cardinality(queued) = Cardinality(1..n)
    BY <2>2, <2>3, FS_Bijection DEF ExistsBijection
  <2> QED
    BY <2>1, <2>3, <2>4 DEF HoldsQueued
<1> QED
  BY <1>1, QueueInvariant, PTL

\* container/heap's order survives every mix of pushes and pops.
THEOREM OrderedAlways == Spec => []Ordered
<1>1. QueueInv => Ordered
  BY DEF QueueInv, Ordered
<1> QED
  BY <1>1, QueueInvariant, PTL

\* What is popped between two pushes comes out in order of expiry, and nothing
\* still queued expires before it: revokeExpired may stop at the first token that
\* is not due, as long as nobody changes a queued token's expiry.
THEOREM PopsInOrderAlways == Spec => PopsInOrder
<1>1. QueueInv /\ [Next]_vars =>
        [Pop => popped <= popped' /\ \A t \in queued : key[Head(pq)] <= key[t]]_vars
  <2> SUFFICES ASSUME QueueInv, Pop
               PROVE  popped <= popped' /\ \A t \in queued : key[Head(pq)] <= key[t]
    OBVIOUS
  <2>1. /\ pq \in Seq(Token) /\ pq # << >> /\ key \in [Token -> Int]
        /\ Distinct(pq) /\ HeapOrdered(key, pq) /\ Elements(pq) = queued
    BY DEF Pop, QueueInv, TypeOK
  <2>2. \A t \in queued : key[Head(pq)] <= key[t]
    BY <2>1, HeapPopCorrect
  <2>3. Head(pq) \in queued
    <3>1. Head(pq) = pq[1] /\ 1 \in 1..Len(pq)
      BY <2>1, EmptySeq
    <3> QED
      BY <2>1, <3>1 DEF Elements
  <2> QED
    BY <2>2, <2>3 DEF Pop, QueueInv
<1> QED
  BY <1>1, QueueInvariant, PTL DEF Spec, PopsInOrder
=============================================================================
