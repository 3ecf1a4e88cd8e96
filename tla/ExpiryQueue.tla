----------------------------- MODULE ExpiryQueue -----------------------------
(***************************************************************************)
(* The heap of ExpiryHeap driven as Store.Add and revokeExpired drive it,  *)
(* by tokens whose expiry does not change while they are queued (nobody    *)
(* extends).  What happens when it does is in TokenStore.                  *)
(***************************************************************************)
EXTENDS ExpiryHeap, FiniteSets

CONSTANTS Token, Time     \* Time: the expiries tokens may have

ASSUME TimeAssumption == Time \subseteq Nat

VARIABLES
  key,      \* expiry of each token, once it has been pushed
  queued,   \* the tokens that are in the heap
  pq,       \* the heap's array
  popped    \* the expiry of the token popped last, 0 after a push

vars == <<key, queued, pq, popped>>

TypeOK ==
  /\ key \in [Token -> Nat]
  /\ queued \subseteq Token
  /\ pq \in Seq(Token)
  /\ popped \in Nat

Init ==
  /\ key = [t \in Token |-> 0]
  /\ queued = {}
  /\ pq = << >>
  /\ popped = 0

Push(t, k) ==
  /\ t \notin queued
  /\ key' = [key EXCEPT ![t] = k]
  /\ queued' = queued \cup {t}
  /\ pq' = HeapPush(key', pq, t)
  /\ popped' = 0

Pop ==
  /\ pq # << >>
  /\ pq' = HeapPop(key, pq)
  /\ queued' = queued \ {Head(pq)}
  /\ popped' = key[Head(pq)]
  /\ UNCHANGED key

Next == Pop \/ \E t \in Token, k \in Time : Push(t, k)

Spec == Init /\ [][Next]_vars

-----------------------------------------------------------------------------
\* Sifting neither loses nor duplicates a token: the array is an enumeration of
\* exactly the tokens pushed and not yet popped.
HoldsQueued ==
  /\ Len(pq) = Cardinality(queued)
  /\ {pq[i] : i \in 1..Len(pq)} = queued

\* container/heap's order survives every mix of pushes and pops.
Ordered == HeapOrdered(key, pq)

\* Pops between two pushes come out in order of expiry, which is what lets
\* revokeExpired stop at the first token that is not due.
PopsInOrder ==
  [][Pop => popped <= popped' /\ \A t \in queued : key[Head(pq)] <= key[t]]_vars
=============================================================================
