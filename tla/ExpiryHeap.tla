----------------------------- MODULE ExpiryHeap -----------------------------
(***************************************************************************)
(* The revocation queue of store.Store: type tokenHeap (store/store.go,    *)
(* 400-418) driven by Go's container/heap.  The heap is an array of        *)
(* pointers, so it is modelled as a sequence of token ids whose keys live  *)
(* elsewhere: every operator takes the current key function (ExpiresAt of  *)
(* each token), and a key that changes while its token is queued moves     *)
(* nothing, exactly as in the code.                                        *)
(*                                                                         *)
(* Positions are 1-based: the parent of i is i \div 2, its children are    *)
(* 2*i and 2*i + 1.                                                        *)
(***************************************************************************)
EXTENDS Integers, Sequences

\* tokenHeap.Less: strictly earlier expiry.
Less(key, a, b) == key[a] < key[b]

(***************************************************************************)
(* One run of container/heap's up or down loop.  next[i] is the position   *)
(* the moving element goes to from i, or i itself where it comes to rest.  *)
(* The loop swaps it along the path from -> next[from] -> ...; the net     *)
(* effect is that every element on the path shifts one place back and the  *)
(* moving element lands where the path ends.                               *)
(***************************************************************************)
SiftPath(next) ==
  LET path[i \in DOMAIN next] ==
        IF next[i] = i THEN {i} ELSE {i} \cup path[next[i]]
  IN  path

\* Seeded fault: assignments along the path without the swap.
SiftLosing(h, from, next) ==
  LET path == SiftPath(next)[from]
  IN  [k \in 1..Len(h) |->
         IF k \notin path \/ next[k] = k THEN h[k] ELSE h[next[k]]]

Sift(h, from, next) ==
  LET path == SiftPath(next)[from]
  IN  [k \in 1..Len(h) |->
         IF k \notin path   THEN h[k]
         ELSE IF next[k] = k THEN h[from]
         ELSE h[next[k]]]

\* heap.up for the element at the end of h.
UpNext(key, h) ==
  [i \in 1..Len(h) |->
     IF i > 1 /\ Less(key, h[Len(h)], h[i \div 2]) THEN i \div 2 ELSE i]

\* The child heap.down compares with: the right one only if strictly smaller.
SmallerChild(key, h, i) ==
  IF 2*i + 1 <= Len(h) /\ Less(key, h[2*i + 1], h[2*i]) THEN 2*i + 1 ELSE 2*i

\* heap.down for the element at the root of h.
DownNext(key, h) ==
  [i \in 1..Len(h) |->
     IF 2*i <= Len(h) /\ Less(key, h[SmallerChild(key, h, i)], h[1])
     THEN SmallerChild(key, h, i)
     ELSE i]

\* Seeded fault: the element stays where it was appended.
PushUnsorted(key, h, x) == Append(h, x)

\* heap.Push: append, then sift the new element up.
HeapPush(key, h, x) ==
  LET g == Append(h, x) IN Sift(g, Len(g), UpNext(key, g))

\* Seeded fault: the last element takes the root and stays there.
PopUnsorted(key, h) ==
  [i \in 1..(Len(h) - 1) |-> IF i = 1 THEN h[Len(h)] ELSE h[i]]

\* heap.Pop, the array it leaves (the element it returns is h[1]): the last
\* element takes the root and sifts down.
HeapPop(key, h) ==
  IF Len(h) = 1
  THEN << >>
  ELSE LET g == [i \in 1..(Len(h) - 1) |-> IF i = 1 THEN h[Len(h)] ELSE h[i]]
       IN  Sift(g, 1, DownNext(key, g))

\* The order container/heap maintains as long as nobody changes a key in place.
HeapOrdered(key, h) ==
  \A i \in 2..Len(h) : ~Less(key, h[i], h[i \div 2])
=============================================================================
