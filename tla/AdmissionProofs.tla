--------------------------- MODULE AdmissionProofs ---------------------------
(***************************************************************************)
(* What break-glass promises, for any approvers, any requests with any     *)
(* number of signatures and any width of the integers, and the limits of   *)
(* what is granted, for any configuration files and tickets.               *)
(***************************************************************************)
EXTENDS Admission, TLAPS, FiniteSetTheorems, SequenceTheorems

-----------------------------------------------------------------------------
(* Break-glass: an inductive invariant of Verify's loop, and the three     *)
(* properties from it.                                                     *)

\* Who has signed among the first n signatures.
SignedIn(r, n) == {r.signatures[i].approver : i \in {j \in 1..n : Counts(r.signatures[j], r)}}

Stages == {"idle", "rejected", "verify", "issue", "failed", "granted"}

\* The list is the set, written down without a repetition.
ListIsSet ==
  /\ IsFiniteSet(verified) /\ approverList \in Seq(DOMAIN Trusted)
  /\ Len(approverList) = Cardinality(verified)
  /\ {approverList[i] : i \in DOMAIN approverList} = verified

BgInv ==
  /\ stage \in Stages
  /\ ListIsSet
  /\ stage = "idle" => next = 1 /\ verified = {}
  /\ stage # "idle" => request \in Emergencies
  /\ stage = "verify" => /\ next \in 1..(Len(request.signatures) + 1)
                         /\ verified = SignedIn(request, next - 1)
  /\ stage = "rejected"
       => ~Named(request) \/ Cardinality(Signers(request)) < QuorumRequired
  /\ stage \in {"issue", "failed", "granted"} =>
       /\ verified = Signers(request) /\ Cardinality(verified) >= QuorumRequired
       /\ ttl = Lifetime(request)

-----------------------------------------------------------------------------
(* The loop.                                                               *)

\* Once Verify has looked at the last signature it has found every signer.
LEMMA SignedInAll ==
  ASSUME NEW r \in Emergencies
  PROVE  SignedIn(r, Len(r.signatures)) = Signers(r)
<1>1. DOMAIN r.signatures = 1..Len(r.signatures)
  BY EmergenciesAssumption
<1>2. ASSUME NEW a \in SignedIn(r, Len(r.signatures)) PROVE a \in Signers(r)
  BY <1>1, <1>2 DEF SignedIn, Signers, Counts, MadeBy
<1>3. ASSUME NEW a \in Signers(r) PROVE a \in SignedIn(r, Len(r.signatures))
  <2>1. PICK i \in 1..Len(r.signatures) :
          /\ a \in DOMAIN Trusted /\ MadeBy(a, r, i)
          /\ CanonicalMessage(r.signatures[i].over) = CanonicalMessage(r.terms)
    BY <1>1, <1>3 DEF Signers
  <2>2. Counts(r.signatures[i], r) /\ r.signatures[i].approver = a
    BY <2>1 DEF Counts, MadeBy
  <2> QED
    BY <2>1, <2>2 DEF SignedIn
<1> QED
  BY <1>2, <1>3

\* One more signature adds its approver if it counts, and no other.
LEMMA SignedInNext ==
  ASSUME NEW r, NEW n \in Nat \ {0}
  PROVE  SignedIn(r, n) =
           IF Counts(r.signatures[n], r)
           THEN SignedIn(r, n - 1) \cup {r.signatures[n].approver}
           ELSE SignedIn(r, n - 1)
<1>1. 1..n = 1..(n - 1) \cup {n}
  OBVIOUS
<1> QED
  BY <1>1 DEF SignedIn

\* Too few signatures cannot be from enough people.
LEMMA HopelessIsShort ==
  ASSUME NEW r \in Emergencies, Hopeless(r)
  PROVE  ~Named(r) \/ Cardinality(Signers(r)) < QuorumRequired
<1>1. CASE ~Named(r)
  BY <1>1
<1>2. CASE Len(r.signatures) < QuorumRequired
  <2> DEFINE one == {r.signatures[1].approver}
  <2>1. DOMAIN r.signatures \subseteq {1}
    BY <1>2, EmergenciesAssumption DEF QuorumRequired
  <2>2. Signers(r) \subseteq one
    BY <2>1 DEF Signers, MadeBy
  <2>3. IsFiniteSet(one) /\ Cardinality(one) = 1
    BY FS_Singleton
  <2>4. Cardinality(Signers(r)) \in Nat /\ Cardinality(Signers(r)) <= 1
    BY <2>2, <2>3, FS_Subset, FS_CardinalityType
  <2> QED
    BY <2>4 DEF QuorumRequired
<1> QED
  BY <1>1, <1>2 DEF Hopeless

\* Appending an approver who is not yet listed keeps the list repetition-free.
LEMMA ListExtended ==
  ASSUME ListIsSet, NEW a \in DOMAIN Trusted, a \notin verified,
         verified' = verified \cup {a}, approverList' = Append(approverList, a)
  PROVE  ListIsSet'
<1>1. /\ IsFiniteSet(verified') /\ Cardinality(verified') = Cardinality(verified) + 1
  BY FS_AddElement DEF ListIsSet
<1>2. Cardinality(verified) \in Nat
  BY FS_CardinalityType DEF ListIsSet
<1> DEFINE n == Len(approverList)
<1>3. /\ approverList' \in Seq(DOMAIN Trusted) /\ Len(approverList') = n + 1
      /\ DOMAIN approverList = 1..n /\ DOMAIN approverList' = 1..(n + 1) /\ n \in Nat
      /\ approverList'[n + 1] = a
      /\ \A i \in 1..n : approverList'[i] = approverList[i]
  BY DEF ListIsSet
<1>4. {approverList'[i] : i \in 1..(n + 1)} = {approverList[i] : i \in 1..n} \cup {a}
  BY <1>3, 1..(n + 1) = 1..n \cup {n + 1}
<1> QED
  BY <1>1, <1>2, <1>3, <1>4 DEF ListIsSet

-----------------------------------------------------------------------------
(* The invariant.                                                          *)

\* Verify starts with nobody found and nobody listed.
LEMMA EmptyList == ASSUME verified = {}, approverList = << >> PROVE ListIsSet
  BY FS_EmptySet DEF ListIsSet

\* At the start no request is being looked at.
LEMMA BgInvInit == BgInit => BgInv
  BY EmptyList DEF BgInit, BgInv, Stages

\* A new request starts Verify afresh, or is refused at once.
LEMMA ArriveKeeps == ASSUME BgInv, Arrive PROVE BgInv'
<1>1. PICK r \in Emergencies :
        /\ stage' = IF Hopeless(r) THEN "rejected" ELSE "verify"
        /\ request' = r
  BY DEF Arrive
<1>2. UNCHANGED <<next, verified, approverList, ttl>> /\ next = 1 /\ verified = {}
  BY DEF Arrive, BgInv
<1>3. ListIsSet'
  BY <1>2 DEF BgInv, ListIsSet
<1>4. Len(r.signatures) \in Nat /\ SignedIn(r, 0) = {}
  BY EmergenciesAssumption DEF SignedIn
<1> QED
  BY <1>1, <1>2, <1>3, <1>4, HopelessIsShort DEF BgInv, Stages

\* A signature is looked at: the approvers found are those of the prefix.
LEMMA CheckKeeps == ASSUME BgInv, CheckSignature PROVE BgInv'
<1> DEFINE sig == request.signatures[next]
<1>1. /\ request \in Emergencies /\ next \in 1..Len(request.signatures)
      /\ Len(request.signatures) \in Nat
      /\ verified = SignedIn(request, next - 1) /\ ListIsSet
  BY EmergenciesAssumption DEF BgInv, CheckSignature
<1>2. UNCHANGED <<stage, request, ttl>> /\ next' = next + 1 /\ stage = "verify"
  BY DEF CheckSignature
<1>3. verified' = SignedIn(request, next)
  <2>1. SignedIn(request, next) = IF Counts(sig, request)
                                  THEN verified \cup {sig.approver} ELSE verified
    BY <1>1, SignedInNext
  <2> HIDE DEF sig
  <2>2. verified' = IF Counts(sig, request) /\ sig.approver \notin verified
                    THEN verified \cup {sig.approver} ELSE verified
    BY DEF CheckSignature, sig
  <2> QED
    BY <2>1, <2>2
<1>4. ListIsSet'
  <2>1. CASE Counts(sig, request) /\ sig.approver \notin verified
    <3>1. sig.approver \in DOMAIN Trusted
      BY <2>1 DEF Counts
    <3> QED
      BY <1>1, <2>1, <3>1, ListExtended DEF CheckSignature
  <2>2. CASE ~(Counts(sig, request) /\ sig.approver \notin verified)
    BY <1>1, <2>2 DEF CheckSignature, ListIsSet
  <2> QED
    BY <2>1, <2>2
<1> QED
  BY <1>1, <1>2, <1>3, <1>4 DEF BgInv

\* The verdict compares all the signers with the quorum.
LEMMA DecideKeeps == ASSUME BgInv, Decide PROVE BgInv'
<1>1. /\ request \in Emergencies /\ Len(request.signatures) \in Nat
      /\ next = Len(request.signatures) + 1
      /\ verified = SignedIn(request, next - 1) /\ ListIsSet
  BY EmergenciesAssumption DEF BgInv, Decide
<1>2. verified = Signers(request) /\ Cardinality(verified) \in Nat
  BY <1>1, SignedInAll, FS_CardinalityType DEF ListIsSet
<1>3. UNCHANGED <<request, next, verified, approverList>> /\ ListIsSet'
  BY <1>1 DEF Decide, ListIsSet
<1>4. Signers(request)' = Signers(request) /\ Lifetime(request)' = Lifetime(request)
  BY <1>3
<1>5. CASE Cardinality(verified) < QuorumRequired
  BY <1>1, <1>2, <1>3, <1>4, <1>5 DEF Decide, BgInv, Stages
<1>6. CASE ~(Cardinality(verified) < QuorumRequired)
  <2>1. stage' = "issue" /\ ttl' = Lifetime(request)
    BY <1>6 DEF Decide
  <2>2. Cardinality(verified) >= QuorumRequired
    BY <1>2, <1>6 DEF QuorumRequired
  <2> QED
    BY <1>1, <1>2, <1>3, <1>4, <2>1, <2>2 DEF BgInv, Stages
<1> QED
  BY <1>5, <1>6

\* Every step of the activation keeps the invariant.
LEMMA BgInvStep == BgInv /\ [BgNext]_bgVars => BgInv'
<1> SUFFICES ASSUME BgInv, [BgNext]_bgVars PROVE BgInv'
  OBVIOUS
<1>1. CASE Arrive          BY <1>1, ArriveKeeps
<1>2. CASE CheckSignature  BY <1>2, CheckKeeps
<1>3. CASE Decide          BY <1>3, DecideKeeps
<1>4. CASE Issued
  BY <1>4 DEF Issued, BgInv, ListIsSet, Stages
<1>5. CASE Answer
  <2>1. ListIsSet'
    BY <1>5, FS_EmptySet DEF Answer, ListIsSet
  <2> QED
    BY <1>5, <2>1 DEF Answer, BgInv, Stages
<1>6. CASE UNCHANGED bgVars
  BY <1>6 DEF bgVars, BgInv, ListIsSet
<1> QED
  BY <1>1, <1>2, <1>3, <1>4, <1>5, <1>6 DEF BgNext

\* The invariant holds in every reachable state.
LEMMA BgInvariant == BgSpec => []BgInv
  BY BgInvInit, BgInvStep, PTL DEF BgSpec

-----------------------------------------------------------------------------
(* What a message says.                                                    *)

\* Two texts, one after the other.
LEMMA Concatenated ==
  ASSUME NEW s \in Seq(Character), NEW t \in Seq(Character)
  PROVE  /\ s \o t \in Seq(Character)
         /\ Len(s \o t) = Len(s) + Len(t)
         /\ \A i \in 1..Len(s) : (s \o t)[i] = s[i]
         /\ \A i \in 1..Len(t) : (s \o t)[Len(s) + i] = t[i]
<1>1. Len(s) \in Nat /\ Len(t) \in Nat
  OBVIOUS
<1>2. /\ s \o t \in Seq(Character)
      /\ Len(s \o t) = Len(s) + Len(t)
      /\ \A i \in 1..(Len(s) + Len(t)) :
           (s \o t)[i] = IF i <= Len(s) THEN s[i] ELSE t[i - Len(s)]
  BY ConcatProperties
<1>3. ASSUME NEW i \in 1..Len(s) PROVE (s \o t)[i] = s[i]
  BY <1>1, <1>2
<1>4. ASSUME NEW i \in 1..Len(t) PROVE (s \o t)[Len(s) + i] = t[i]
  <2>1. /\ Len(s) + i \in 1..(Len(s) + Len(t)) /\ ~(Len(s) + i <= Len(s))
        /\ (Len(s) + i) - Len(s) = i
    BY <1>1
  <2> QED
    BY <1>2, <2>1
<1> QED
  BY <1>2, <1>3, <1>4

Message(u, v, w) == u \o <<Bar>> \o v \o <<Bar>> \o w

\* m is as long as u, v and w with two bars, which stand after u and after v.
LaidOut(m, u, v, w) ==
  /\ Len(m) = Len(u) + Len(v) + Len(w) + 2
  /\ m[Len(u) + 1] = Bar /\ m[Len(u) + Len(v) + 2] = Bar
  /\ \A i \in 1..Len(u) : m[i] = u[i]
  /\ \A i \in 1..Len(v) : m[Len(u) + 1 + i] = v[i]
  /\ \A i \in 1..Len(w) : m[Len(u) + Len(v) + 2 + i] = w[i]

LEMMA MessageLayout ==
  ASSUME NEW u \in Seq(Character), NEW v \in Seq(Character), NEW w \in Seq(Character)
  PROVE  LaidOut(Message(u, v, w), u, v, w)
<1> DEFINE one == <<Bar>>
           a == u \o one
           b == a \o v
           c == b \o one
           m == c \o w
<1>1. Len(u) \in Nat /\ Len(v) \in Nat /\ Len(w) \in Nat
  OBVIOUS
<1>2. one \in Seq(Character) /\ Len(one) = 1 /\ one[1] = Bar /\ 1 \in 1..Len(one)
  BY BreakGlassAssumption
<1>3. Message(u, v, w) = m
  BY DEF Message
<1> HIDE DEF one
<1>4. /\ a \in Seq(Character) /\ Len(a) = Len(u) + 1 /\ a[Len(u) + 1] = Bar
      /\ \A i \in 1..Len(u) : a[i] = u[i]
  <2>1. /\ a \in Seq(Character) /\ Len(a) = Len(u) + Len(one)
        /\ \A i \in 1..Len(u) : a[i] = u[i]
        /\ \A i \in 1..Len(one) : a[Len(u) + i] = one[i]
    BY <1>2, Concatenated
  <2> HIDE DEF a
  <2>2. a[Len(u) + 1] = one[1]
    BY <1>2, <2>1
  <2> QED
    BY <1>2, <2>1, <2>2
<1> HIDE DEF a
<1>5. /\ b \in Seq(Character) /\ Len(b) = Len(a) + Len(v)
      /\ \A i \in 1..Len(a) : b[i] = a[i]
      /\ \A i \in 1..Len(v) : b[Len(a) + i] = v[i]
  BY <1>4, Concatenated
<1> HIDE DEF b
<1>6. /\ c \in Seq(Character) /\ Len(c) = Len(b) + 1 /\ c[Len(b) + 1] = Bar
      /\ \A i \in 1..Len(b) : c[i] = b[i]
  <2>1. /\ c \in Seq(Character) /\ Len(c) = Len(b) + Len(one)
        /\ \A i \in 1..Len(b) : c[i] = b[i]
        /\ \A i \in 1..Len(one) : c[Len(b) + i] = one[i]
    BY <1>2, <1>5, Concatenated
  <2> HIDE DEF c
  <2>2. c[Len(b) + 1] = one[1]
    BY <1>2, <2>1
  <2> QED
    BY <1>2, <2>1, <2>2
<1> HIDE DEF c
<1>7. /\ Len(m) = Len(c) + Len(w)
      /\ \A i \in 1..Len(c) : m[i] = c[i]
      /\ \A i \in 1..Len(w) : m[Len(c) + i] = w[i]
  BY <1>6, Concatenated
<1> HIDE DEF m
<1>8. Len(a) = Len(u) + 1 /\ Len(c) = Len(u) + Len(v) + 2 /\ Len(b) = Len(u) + Len(v) + 1
  BY <1>1, <1>4, <1>5, <1>6
<1>9. \A i \in 1..(Len(u) + 1) : m[i] = a[i]
  <2> SUFFICES ASSUME NEW i \in 1..(Len(u) + 1) PROVE m[i] = a[i]
    OBVIOUS
  <2>1. i \in 1..Len(a) /\ i \in 1..Len(b) /\ i \in 1..Len(c)
    BY <1>1, <1>8
  <2> QED
    BY <1>5, <1>6, <1>7, <2>1
<1>10. /\ m[Len(u) + 1] = Bar
       /\ \A i \in 1..Len(u) : m[i] = u[i]
  BY <1>1, <1>4, <1>9
<1>11. ASSUME NEW i \in 1..Len(v) PROVE m[Len(u) + 1 + i] = v[i]
  <2> DEFINE j == Len(a) + i
  <2>1. j \in 1..Len(b) /\ j \in 1..Len(c) /\ j = Len(u) + 1 + i
    BY <1>1, <1>8
  <2>2. b[j] = v[i]
    BY <1>5
  <2> HIDE DEF j
  <2> QED
    BY <1>6, <1>7, <2>1, <2>2
<1>12. m[Len(u) + Len(v) + 2] = Bar
  <2>1. Len(b) + 1 \in 1..Len(c) /\ Len(b) + 1 = Len(u) + Len(v) + 2
    BY <1>1, <1>8
  <2>2. m[Len(b) + 1] = c[Len(b) + 1]
    BY <1>7, <2>1
  <2> QED
    BY <1>6, <2>1, <2>2
<1>13. Len(m) = Len(u) + Len(v) + Len(w) + 2
  BY <1>1, <1>7, <1>8
<1>14. \A i \in 1..Len(w) : m[Len(u) + Len(v) + 2 + i] = w[i]
  BY <1>7, <1>8
<1> QED
  BY <1>3, <1>10, <1>11, <1>12, <1>13, <1>14 DEF LaidOut

BarFree(text) == \A i \in 1..Len(text) : text[i] # Bar

\* Where a message of plain texts has a bar.
LEMMA PlainBars ==
  ASSUME NEW u \in Seq(Character), NEW v \in Seq(Character), NEW w \in Seq(Character),
         BarFree(u), BarFree(v), BarFree(w),
         NEW m, LaidOut(m, u, v, w)
  PROVE  \A k \in 1..Len(m) : m[k] = Bar => k = Len(u) + 1 \/ k = Len(u) + Len(v) + 2
<1> SUFFICES ASSUME NEW k \in 1..Len(m), m[k] = Bar
             PROVE  k = Len(u) + 1 \/ k = Len(u) + Len(v) + 2
  OBVIOUS
<1>1. Len(u) \in Nat /\ Len(v) \in Nat /\ Len(w) \in Nat
  OBVIOUS
<1>2. k \in Nat /\ k >= 1 /\ k <= Len(u) + Len(v) + Len(w) + 2
  BY <1>1 DEF LaidOut
<1>3. ASSUME k <= Len(u) PROVE FALSE
  <2>1. k \in 1..Len(u)
    BY <1>1, <1>2, <1>3
  <2> QED
    BY <2>1 DEF LaidOut, BarFree
<1>4. ASSUME k > Len(u) + 1, k < Len(u) + Len(v) + 2 PROVE FALSE
  <2> DEFINE i == k - (Len(u) + 1)
  <2>1. i \in 1..Len(v) /\ k = Len(u) + 1 + i
    BY <1>1, <1>2, <1>4
  <2> HIDE DEF i
  <2>2. m[Len(u) + 1 + i] = v[i]
    BY <2>1 DEF LaidOut
  <2> QED
    BY <2>1, <2>2 DEF BarFree
<1>5. ASSUME k > Len(u) + Len(v) + 2 PROVE FALSE
  <2> DEFINE i == k - (Len(u) + Len(v) + 2)
  <2>1. i \in 1..Len(w) /\ k = Len(u) + Len(v) + 2 + i
    BY <1>1, <1>2, <1>5
  <2> HIDE DEF i
  <2>2. m[Len(u) + Len(v) + 2 + i] = w[i]
    BY <2>1 DEF LaidOut
  <2> QED
    BY <2>1, <2>2 DEF BarFree
<1>6. k > Len(u) /\ k <= Len(u) + Len(v) + 2
  BY <1>1, <1>2, <1>3, <1>5
<1>7. ~(k > Len(u) + 1 /\ k < Len(u) + Len(v) + 2)
  BY <1>4
<1>8. CASE k > Len(u) + 1
  <2> DEFINE second == Len(u) + Len(v) + 2
  <2>1. ~(k < second) /\ k <= second /\ second \in Nat
    BY <1>1, <1>6, <1>7, <1>8
  <2> HIDE DEF second
  <2>2. k = second
    BY <1>2, <2>1
  <2> QED
    BY <2>2 DEF second
<1>9. CASE ~(k > Len(u) + 1)
  BY <1>1, <1>2, <1>6, <1>9
<1> QED
  BY <1>8, <1>9

\* The texts of a plain message can be read off it: no other texts, with bars or
\* without, make the same one.
LEMMA PlainIsUnambiguous ==
  ASSUME NEW u \in Seq(Character), NEW v \in Seq(Character), NEW w \in Seq(Character),
         NEW p \in Seq(Character), NEW q \in Seq(Character), NEW r \in Seq(Character),
         BarFree(u), BarFree(v), BarFree(w),
         Message(u, v, w) = Message(p, q, r)
  PROVE  u = p /\ v = q /\ w = r
<1> DEFINE m == Message(u, v, w)
<1>1. /\ Len(u) \in Nat /\ Len(v) \in Nat /\ Len(w) \in Nat
      /\ Len(p) \in Nat /\ Len(q) \in Nat /\ Len(r) \in Nat
  OBVIOUS
<1>2. LaidOut(m, u, v, w) /\ LaidOut(m, p, q, r)
  BY MessageLayout
<1> HIDE DEF m
<1>3. /\ Len(m) = Len(u) + Len(v) + Len(w) + 2
      /\ Len(m) = Len(p) + Len(q) + Len(r) + 2
      /\ m[Len(p) + 1] = Bar /\ m[Len(p) + Len(q) + 2] = Bar
  BY <1>2 DEF LaidOut
<1>4. Len(p) + 1 \in 1..Len(m) /\ Len(p) + Len(q) + 2 \in 1..Len(m)
  BY <1>1, <1>3
<1>5. \A k \in 1..Len(m) : m[k] = Bar => k = Len(u) + 1 \/ k = Len(u) + Len(v) + 2
  BY <1>2, PlainBars
<1>6. Len(p) + 1 = Len(u) + 1 \/ Len(p) + 1 = Len(u) + Len(v) + 2
  BY <1>5, <1>3, <1>4
<1>7. \/ Len(p) + Len(q) + 2 = Len(u) + 1
      \/ Len(p) + Len(q) + 2 = Len(u) + Len(v) + 2
  BY <1>5, <1>3, <1>4
<1>8. Len(p) = Len(u) /\ Len(q) = Len(v) /\ Len(r) = Len(w)
  BY <1>1, <1>3, <1>6, <1>7
<1>9. \A i \in 1..Len(u) : u[i] = p[i]
  BY <1>2, <1>8 DEF LaidOut
<1>10. \A i \in 1..Len(v) : v[i] = q[i]
  BY <1>2, <1>8 DEF LaidOut
<1>11. \A i \in 1..Len(w) : w[i] = r[i]
  BY <1>2, <1>8 DEF LaidOut
<1> QED
  BY <1>8, <1>9, <1>10, <1>11, SeqEqual

\* Who signs the message of a request without bars signs the request.
LEMMA PlainSignersEndorse ==
  ASSUME NEW r \in Emergencies, Plain(r.terms)
  PROVE  Signers(r) = Endorsers(r)
<1>1. ASSUME NEW i \in DOMAIN r.signatures,
             CanonicalMessage(r.signatures[i].over) = CanonicalMessage(r.terms)
      PROVE  r.signatures[i].over = r.terms
  <2> DEFINE over == r.signatures[i].over
             terms == r.terms
  <2>1. over \in Terms /\ terms \in Terms
    BY EmergenciesAssumption
  <2>2. /\ Message(terms.user, terms.resource, terms.reason)
              = Message(over.user, over.resource, over.reason)
        /\ terms.minutes = over.minutes
    BY <1>1 DEF CanonicalMessage, Message
  <2>3. /\ \A j \in DOMAIN terms.user : terms.user[j] # Bar
        /\ \A j \in DOMAIN terms.resource : terms.resource[j] # Bar
        /\ \A j \in DOMAIN terms.reason : terms.reason[j] # Bar
    BY DEF Plain
  <2> HIDE DEF over, terms
  <2>4. /\ terms.user \in Seq(Character) /\ terms.resource \in Seq(Character)
        /\ terms.reason \in Seq(Character) /\ over.user \in Seq(Character)
        /\ over.resource \in Seq(Character) /\ over.reason \in Seq(Character)
    BY <2>1 DEF Terms
  <2>5. /\ DOMAIN terms.user = 1..Len(terms.user)
        /\ DOMAIN terms.resource = 1..Len(terms.resource)
        /\ DOMAIN terms.reason = 1..Len(terms.reason)
    BY <2>4
  <2>6. BarFree(terms.user) /\ BarFree(terms.resource) /\ BarFree(terms.reason)
    BY <2>3, <2>5 DEF BarFree
  <2>7. PICK u \in Seq(Character), v \in Seq(Character), w \in Seq(Character),
             p \in Seq(Character), q \in Seq(Character), s \in Seq(Character) :
               /\ u = terms.user /\ v = terms.resource /\ w = terms.reason
               /\ p = over.user /\ q = over.resource /\ s = over.reason
    BY <2>4
  <2>8. /\ BarFree(u) /\ BarFree(v) /\ BarFree(w)
        /\ Message(u, v, w) = Message(p, q, s)
    BY <2>2, <2>6, <2>7
  <2>9. u = p /\ v = q /\ w = s
    BY <2>8, PlainIsUnambiguous
  <2>10. /\ terms.user = over.user /\ terms.resource = over.resource
         /\ terms.reason = over.reason
    BY <2>7, <2>9
  <2>11. /\ terms = [user |-> terms.user, resource |-> terms.resource,
                    reason |-> terms.reason, minutes |-> terms.minutes]
         /\ over = [user |-> over.user, resource |-> over.resource,
                   reason |-> over.reason, minutes |-> over.minutes]
    BY <2>1, Zenon DEF Terms
  <2>12. over = terms
    BY <2>2, <2>10, <2>11, Zenon
  <2> QED
    BY <2>12 DEF over, terms
<1> QED
  BY <1>1 DEF Signers, Endorsers

\* A set that counts as a quorum has two members.
LEMMA QuorumHasTwo ==
  ASSUME NEW S, IsFiniteSet(S), Cardinality(S) >= QuorumRequired
  PROVE  \E a, b \in S : a # b
<1> SUFFICES ASSUME ~ \E a, b \in S : a # b PROVE FALSE
  OBVIOUS
<1>1. S # {}
  BY FS_EmptySet DEF QuorumRequired
<1>2. PICK a \in S : TRUE
  BY <1>1
<1>3. S = {a}
  BY <1>2
<1>4. Cardinality(S) = 1
  BY <1>3, FS_Singleton
<1> QED
  BY <1>4 DEF QuorumRequired

-----------------------------------------------------------------------------
(* Overflow.                                                               *)

\* An int64 that is small enough is itself.
LEMMA WrapSmall == ASSUME NEW x \in 0..(HalfWord - 1) PROVE Wrap(x) = x
<1>1. HalfWord \in Nat \ {0}
  BY BreakGlassAssumption
<1>2. (x + HalfWord) % (2 * HalfWord) = x + HalfWord
  BY <1>1
<1> QED
  BY <1>1, <1>2 DEF Wrap

\* The wrap of a natural number is never above it.
LEMMA WrapBelow == ASSUME NEW x \in Nat PROVE Wrap(x) \in Int /\ Wrap(x) <= x
<1> DEFINE a == x + HalfWord
           m == 2 * HalfWord
<1>1. HalfWord \in Nat \ {0} /\ a \in Nat /\ m \in Nat \ {0}
  BY BreakGlassAssumption
<1> HIDE DEF a, m
<1>2. a % m \in 0..(m - 1) /\ a \div m \in Nat /\ a = (m * (a \div m)) + (a % m)
  BY <1>1
<1>3. m * (a \div m) \in Nat
  BY <1>1, <1>2
<1>4. a % m \in Nat /\ a % m <= a
  BY <1>1, <1>2, <1>3
<1> QED
  BY <1>1, <1>4 DEF Wrap, a, m

\* A lifetime is positive and within MaxTTL, and within what was asked for if
\* that is positive.
LEMMA LifetimeBounds ==
  ASSUME NEW r \in Emergencies
  PROVE  /\ Lifetime(r) \in 1..MaxTTL
         /\ r.terms.minutes > 0 => Lifetime(r) <= r.terms.minutes * Minute
<1> DEFINE x == r.terms.minutes * Minute
           asked == Wrap(x)
<1>1. /\ r.terms.minutes \in Int /\ Minute \in Nat \ {0} /\ HalfWord \in Nat \ {0}
      /\ MaxTTL \in Nat \ {0} /\ MaxTTL < HalfWord /\ x \in Int
  BY EmergenciesAssumption, BreakGlassAssumption, LimitsAssumption DEF Terms
<1>2. asked \in Int
  BY <1>1 DEF Wrap
<1>3. Lifetime(r) = IF asked <= 0 \/ asked > MaxTTL THEN MaxTTL ELSE asked
  BY DEF Lifetime
<1> HIDE DEF asked
<1>4. Lifetime(r) \in 1..MaxTTL
  BY <1>1, <1>2, <1>3
<1>5. ASSUME r.terms.minutes > 0 PROVE Lifetime(r) <= x
  <2>1. x \in Nat \ {0}
    BY <1>1, <1>5
  <2>2. asked <= x
    BY <2>1, WrapBelow DEF asked
  <2>3. x < HalfWord => asked = x
    BY <1>1, <2>1, WrapSmall DEF asked
  <2> HIDE DEF x
  <2> QED
    BY <1>1, <1>2, <1>3, <2>1, <2>2, <2>3
<1> QED
  BY <1>4, <1>5

-----------------------------------------------------------------------------
\* Break-glass issues only if the keys of two approver ids signed the request's
\* message, and then, if its texts have no bar, the request itself: however many
\* signatures come, in whatever order, whoever made them and whatever bars are in
\* what they were made over.  A request that names its user and resource and asks
\* for a lifetime in range is refused for want of signers alone.
THEOREM QuorumHolds == BgSpec => []QuorumDistinct
<1>1. ASSUME BgInv PROVE QuorumDistinct
  <2>1. stage = "rejected"
          => ~Named(request) \/ Cardinality(Signers(request)) < QuorumRequired
    BY <1>1 DEF BgInv
  <2>2. ASSUME Accepted
        PROVE  /\ IsFiniteSet(Signers(request)) /\ request \in Emergencies
               /\ Cardinality(Signers(request)) >= QuorumRequired
    BY <1>1, <2>2 DEF BgInv, ListIsSet, Accepted
  <2>3. ASSUME Accepted, Plain(request.terms)
        PROVE  \E a, b \in Endorsers(request) : a # b
    <3>1. Signers(request) = Endorsers(request)
      BY <2>2, <2>3, PlainSignersEndorse
    <3> QED
      BY <2>2, <2>3, <3>1, QuorumHasTwo
  <2> QED
    BY <2>1, <2>2, <2>3 DEF QuorumDistinct
<1> QED
  BY <1>1, BgInvariant, PTL

\* LogBreakGlass names those who signed, each of them once.
THEOREM ApproversNamedHolds == BgSpec => []ApproversNamed
<1>1. BgInv => ApproversNamed
  BY DEF BgInv, ListIsSet, ApproversNamed
<1> QED
  BY <1>1, BgInvariant, PTL

\* Whatever number of minutes is asked for, and however the multiplication
\* wraps, the emergency token's lifetime is positive, within MaxTTL, and not
\* longer than a positive number of minutes that was signed for.
THEOREM LifetimeHolds == BgSpec => []LifetimeInRange
<1>1. BgInv => LifetimeInRange
  BY LifetimeBounds DEF BgInv, LifetimeInRange, Accepted
<1> QED
  BY <1>1, BgInvariant, PTL

-----------------------------------------------------------------------------
(* Admission.                                                              *)

\* What Load and Default make of a file, or no broker at all.
Sound(s) ==
  s.accepted => /\ FitsTheStore(s)
                /\ s.tokenTTL <= MaxTTL /\ s.maxSession <= MaxSessionDuration

AdmissionInv ==
  /\ BgInv
  /\ Sound(settings)
  /\ lookup.ttl \in 0..MaxTTL

\* What config.Load makes of a file serves only with usable settings.
LEMMA LoadSound == ASSUME NEW file \in ConfigFiles PROVE Sound(Load(file))
<1>1. CASE Parses(file) /\ Acceptable(file)
  <2>1. /\ file.maxSession.value \in Int /\ file.warningBefore.value \in Int
        /\ file.tokenTTL.value \in 1..MaxTTL
        /\ file.maxSession.value <= MaxSessionDuration
    BY <1>1, ConfigAssumption DEF Durations, Acceptable
  <2>2. /\ Load(file).tokenTTL = file.tokenTTL.value
        /\ Load(file).maxSession = OrDefault(file.maxSession.value, MaxSessionDuration)
        /\ Load(file).warningBefore
             = OrDefault(file.warningBefore.value, WarningBeforeExpiry)
    BY <1>1 DEF Load
  <2> QED
    BY <2>1, <2>2, LimitsAssumption DEF Sound, FitsTheStore, OrDefault
<1>2. CASE ~(Parses(file) /\ Acceptable(file))
  BY <1>2 DEF Load, Refused, Sound
<1> QED
  BY <1>1, <1>2

\* So do the defaults, which main uses without a file.
LEMMA DefaultSound == Sound(DefaultSettings)
  BY LimitsAssumption DEF Sound, FitsTheStore, DefaultSettings

\* Before main has read anything there is no broker.
LEMMA StartingSound == Sound(Starting)
  BY DEF Sound, Starting, Refused

\* At the start there is no broker, no lookup and no emergency.
LEMMA AdmissionInvInit == AdmissionInit => AdmissionInv
  BY BgInvInit, StartingSound, LimitsAssumption DEF AdmissionInit, AdmissionInv, None

\* Starting, validating and activating keep the limits.
LEMMA AdmissionInvStep == AdmissionInv /\ [AdmissionNext]_admissionVars => AdmissionInv'
<1> SUFFICES ASSUME AdmissionInv, [AdmissionNext]_admissionVars PROVE AdmissionInv'
  OBVIOUS
<1>1. CASE Configure
  <2>1. BgInv' /\ (lookup.ttl \in 0..MaxTTL)'
    BY <1>1, BgInvStep DEF Configure, AdmissionInv
  <2>2. Sound(settings')
    BY <1>1, LoadSound, DefaultSound DEF Configure
  <2> QED
    BY <2>1, <2>2 DEF AdmissionInv, Sound, FitsTheStore
<1>2. CASE DecideByContext
  <2>1. BgInv' /\ UNCHANGED settings
    BY <1>2, BgInvStep DEF DecideByContext, AdmissionInv
  <2>2. settings.tokenTTL \in 0..MaxTTL
    BY <1>2, LimitsAssumption
    DEF DecideByContext, Serving, AdmissionInv, Sound, FitsTheStore
  <2>3. lookup'.ttl \in {settings.tokenTTL, 0}
    BY <1>2 DEF DecideByContext
  <2> QED
    BY <2>1, <2>2, <2>3, LimitsAssumption DEF AdmissionInv, Sound, FitsTheStore
<1>3. CASE ContextAnswered
  BY <1>3, BgInvStep, LimitsAssumption
  DEF ContextAnswered, AdmissionInv, None, Sound, FitsTheStore
<1>4. CASE BreakGlassStep
  BY <1>4, BgInvStep DEF BreakGlassStep, AdmissionInv, Sound, FitsTheStore
<1>5. CASE UNCHANGED admissionVars
  BY <1>5, BgInvStep DEF admissionVars, AdmissionInv, Sound, FitsTheStore
<1> QED
  BY <1>1, <1>2, <1>3, <1>4, <1>5 DEF AdmissionNext

\* Whatever the configuration file says and whichever route a request takes, a
\* broker that serves has settings its store can work with, and grants nothing
\* longer than MaxTTL.
THEOREM GrantsStayWithinLimits == AdmissionSpec => []GrantsWithinLimits
<1>1. ASSUME AdmissionInv PROVE GrantsWithinLimits
  <2> SUFFICES ASSUME Serving PROVE GrantsWithinLimits
    BY DEF GrantsWithinLimits
  <2>1. /\ FitsTheStore(settings) /\ settings.maxSession <= MaxSessionDuration
        /\ settings.maxSession \in Nat
    BY <1>1 DEF AdmissionInv, Sound, Serving, FitsTheStore
  <2>2. stage = "granted" => ttl \in 1..MaxTTL
    BY <1>1, LifetimeBounds DEF AdmissionInv, BgInv
  <2> QED
    BY <1>1, <2>1, <2>2, LimitsAssumption DEF GrantsWithinLimits, AdmissionInv
<1> QED
  BY <1>1, AdmissionInvInit, AdmissionInvStep, PTL DEF AdmissionSpec

-----------------------------------------------------------------------------
(* The decision by context.                                                *)

\* Whom the engine confirms is at work on an active ticket of that kind.
LEMMA ConfirmedIsInContext ==
  ASSUME NEW claim, NEW ticket, Validate(claim, ticket) = "ok"
  PROVE  InContext(claim, ticket)
<1> USE DEF EqualFold, Text
<1>1. Complete(claim)
  BY DEF Validate
<1>2. CASE EqualFold(claim.kind, Text("pagerduty", FALSE))
  <2>1. Lookup(PagerDutyConfirms(claim.who, ticket), ticket) = "ok"
    BY <1>1, <1>2 DEF Validate
  <2>2. ticket.http = "found" /\ PagerDutyConfirms(claim.who, ticket)
    BY <2>1 DEF Lookup
  <2> QED
    BY <1>1, <1>2, <2>2 DEF Complete, PagerDutyConfirms, InContext, AssignedUnder, ActiveStatus
<1>3. CASE /\ ~EqualFold(claim.kind, Text("pagerduty", FALSE))
           /\ EqualFold(claim.kind, Text("jira", FALSE))
  <2>1. Lookup(JiraConfirms(claim.who, ticket), ticket) = "ok"
    BY <1>1, <1>3 DEF Validate
  <2>2. ticket.http = "found" /\ JiraConfirms(claim.who, ticket)
    BY <2>1 DEF Lookup
  <2> QED
    BY <1>1, <1>3, <2>2 DEF Complete, JiraConfirms, InContext, AssignedUnder, ActiveStatus
<1> QED
  BY <1>1, <1>2, <1>3 DEF Validate

\* Who is at work on a ticket under its own id, in the active status as its system
\* spells it, is confirmed.
LEMMA InContextIsConfirmed ==
  ASSUME NEW claim, NEW ticket, InContext(claim, ticket),
         claim.who \in AssignedUnder(claim.kind, ticket).ids,
         ticket.status = Text(ActiveStatus(claim.kind), FALSE)
  PROVE  Validate(claim, ticket) = "ok"
<1> USE DEF EqualFold, Text
<1>1. Complete(claim)
  <2>1. claim.kind.word \in {"pagerduty", "jira"} /\ Blank.word = ""
    BY DEF InContext, Blank
  <2>2. claim.kind # Blank
    BY <2>1
  <2> QED
    BY <2>2 DEF InContext, Complete
<1>2. CASE claim.kind.word = "pagerduty"
  <2>1. PagerDutyConfirms(claim.who, ticket)
    BY <1>2 DEF PagerDutyConfirms, AssignedUnder, ActiveStatus
  <2> QED
    BY <1>1, <1>2, <2>1 DEF Validate, Lookup, InContext
<1>3. CASE claim.kind.word = "jira"
  <2>1. claim.who = ticket.assignee.account /\ claim.who # Blank
    BY <1>3 DEF AssignedUnder, InContext
  <2>2. JiraConfirms(claim.who, ticket)
    BY <1>3, <2>1 DEF JiraConfirms, ActiveStatus
  <2> QED
    BY <1>1, <1>3, <2>2 DEF Validate, Lookup, InContext
<1> QED
  BY <1>2, <1>3 DEF InContext

\* The verdict remembered is the engine's on that request and that ticket.
Decided == lookup = None \/ lookup.verdict = Validate(lookup.request, lookup.ticket)

\* A request is granted by context only to whoever is at work on an active ticket,
\* and never refused to somebody who is so under the ticket's own id, whatever
\* requests and tickets there are (auth/engine.go, 38-65).
THEOREM ContextDecidesHolds == AdmissionSpec => []ContextDecides
<1>1. AdmissionInit => Decided
  BY DEF AdmissionInit, Decided
<1>2. Decided /\ [AdmissionNext]_admissionVars => Decided'
  <2> SUFFICES ASSUME Decided, [AdmissionNext]_admissionVars PROVE Decided'
    OBVIOUS
  <2>1. CASE DecideByContext
    BY <2>1 DEF DecideByContext, Decided
  <2>2. CASE ContextAnswered
    BY <2>2 DEF ContextAnswered, Decided
  <2>3. CASE Configure \/ BreakGlassStep \/ UNCHANGED admissionVars
    BY <2>3 DEF Configure, BreakGlassStep, admissionVars, Decided
  <2> QED
    BY <2>1, <2>2, <2>3 DEF AdmissionNext
<1>3. Decided => ContextDecides
  BY ConfirmedIsInContext, InContextIsConfirmed DEF Decided, ContextDecides
<1> QED
  BY <1>1, <1>2, <1>3, PTL DEF AdmissionSpec
=============================================================================
