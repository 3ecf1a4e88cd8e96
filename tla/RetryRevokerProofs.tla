-------------------------- MODULE RetryRevokerProofs --------------------------
(***************************************************************************)
(* What holds of one Revoke call for every number of attempts, every delay *)
(* and jitter, and however secret swaps and the cancellation fall between  *)
(* its steps; and that the loop makes no step RevokeCall does not allow.   *)
(***************************************************************************)
EXTENDS RetryRevoker, WellFoundedInduction, TLAPS

\* What the loop knows of its attempts at each place: the one that failed last
\* is counted in "failures" before it is audited.
Attempts ==
  /\ attempt \in 1..MaxAttempts
  /\ failures \in 0..MaxAttempts /\ audited \in 0..MaxAttempts
  /\ pc \in {"check", "attempt", "call"} => failures = attempt - 1 /\ audited = attempt - 1
  /\ pc = "log" => failures = attempt /\ audited = attempt - 1
  /\ pc \in {"pause", "sleep"} =>
       failures = attempt /\ audited = attempt /\ attempt < MaxAttempts
  /\ pc = "done" => audited = failures /\ (result = "error" <=> failures = MaxAttempts)
  /\ pc \in {"check", "attempt", "call", "log", "pause", "sleep", "done"}

\* At the start nothing has been tried.
LEMMA AttemptsInit == Init => Attempts
BY DurationsAssumption DEF Init, Attempts

\* Every step keeps the count of attempts, failures and events in step.
LEMMA AttemptsStep ==
  ASSUME Attempts, [Next]_vars
  PROVE  Attempts'
<1> USE DurationsAssumption DEF Attempts
<1>1. CASE Begin
  BY <1>1 DEF Begin, envVars
<1>2. CASE CancelledBeforeAttempt
  BY <1>2 DEF CancelledBeforeAttempt, Finish, envVars
<1>3. CASE MakeCall
  BY <1>3 DEF MakeCall
<1>4. CASE Accepted
  BY <1>4 DEF Accepted, Finish
<1>5. CASE Rejected
  BY <1>5 DEF Rejected
<1>6. CASE GiveUp
  BY <1>6 DEF GiveUp, Finish, envVars
<1>7. CASE Retry
  BY <1>7 DEF Retry, envVars
<1>8. CASE CancelledBeforePause
  BY <1>8 DEF CancelledBeforePause, Finish, envVars
<1>9. CASE Pause
  BY <1>9 DEF Pause, envVars
<1>10. CASE Wake
  BY <1>10 DEF Wake
<1>11. CASE Swap \/ Cancel \/ UNCHANGED vars
  BY <1>11 DEF Swap, Cancel, vars, loopVars, envVars
<1> QED
  BY <1>1, <1>2, <1>3, <1>4, <1>5, <1>6, <1>7, <1>8, <1>9, <1>10, <1>11 DEF Next, Loop

\* Each failed attempt has its audit event when the call ends (retry.go, 75-104),
\* also when a cancellation cuts the loop short, and the call returns the
\* provider's error exactly if all attempts failed.
THEOREM AuditHolds == Spec => []EveryFailureAudited
<1>1. Attempts => EveryFailureAudited
  BY DEF Attempts, EveryFailureAudited
<1>2. Attempts /\ [Next]_vars => Attempts'
  BY AttemptsStep
<1> QED
  BY <1>1, <1>2, AttemptsInit, PTL DEF Spec

-----------------------------------------------------------------------------
(* Cancellation.                                                           *)

\* Something was done after the cancellation only once, and the loop is past it:
\* it looks at the context before the next attempt and before the next pause.
Stopping ==
  \/ late = 0
  \/ late = 1 /\ cancelled = TRUE /\ pc \notin {"attempt", "sleep"}

\* At the start nothing is late.
LEMMA StoppingInit == Init => Stopping
BY DEF Init, Stopping

\* No step is late twice.
LEMMA StoppingStep ==
  ASSUME Stopping, [Next]_vars
  PROVE  Stopping'
<1> USE DEF Stopping
<1>1. CASE Begin \/ Pause
  BY <1>1 DEF Begin, Pause, envVars
<1>2. CASE CancelledBeforeAttempt \/ GiveUp \/ Retry \/ CancelledBeforePause
  BY <1>2 DEF CancelledBeforeAttempt, GiveUp, Retry, CancelledBeforePause, Finish, envVars
<1>3. CASE Accepted \/ Rejected
  BY <1>3 DEF Accepted, Rejected, Finish
<1>4. CASE MakeCall
  BY <1>4 DEF MakeCall
<1>5. CASE Wake
  BY <1>5 DEF Wake
<1>6. CASE Swap \/ Cancel \/ UNCHANGED vars
  BY <1>6 DEF Swap, Cancel, vars, loopVars, envVars
<1> QED
  BY <1>1, <1>2, <1>3, <1>4, <1>5, <1>6 DEF Next, Loop

\* A cancelled call does at most one thing more, an attempt or a pause, wherever
\* in the loop the cancellation finds it.
THEOREM StopsSoonHolds == Spec => []StopsSoon
<1>1. Stopping => StopsSoon
  BY DEF Stopping, StopsSoon
<1>2. Stopping /\ [Next]_vars => Stopping'
  BY StoppingStep
<1> QED
  BY <1>1, <1>2, StoppingInit, PTL DEF Spec

-----------------------------------------------------------------------------
(* Refinement: the steps of the loop as steps of RevokeCall.               *)

\* The secret an attempt carries is one the record has held during the call.
Carried ==
  /\ secret \in Secret /\ seen \subseteq Secret
  /\ pc # "done" => secret \in seen
  /\ pc = "call" => sent \in seen
  /\ pc # "done" => result = "none"

\* At the start the record holds the secret that was seen.
LEMMA CarriedInit == Init => Carried
BY DEF Init, Carried

\* A swap adds what it stores to what was seen, and attempts read what is stored.
LEMMA CarriedStep ==
  ASSUME Carried, [Next]_vars
  PROVE  Carried'
<1> USE DEF Carried
<1>1. CASE \/ Begin \/ CancelledBeforeAttempt \/ GiveUp \/ Retry
           \/ CancelledBeforePause \/ Pause
  BY <1>1 DEF Begin, CancelledBeforeAttempt, GiveUp, Retry, CancelledBeforePause, Pause,
       Finish, envVars
<1>2. CASE MakeCall \/ Accepted \/ Rejected \/ Wake
  BY <1>2 DEF MakeCall, Accepted, Rejected, Wake, Finish
<1>3. CASE Swap \/ Cancel \/ UNCHANGED vars
  BY <1>3 DEF Swap, Cancel, vars, loopVars, envVars
<1> QED
  BY <1>1, <1>2, <1>3 DEF Next, Loop

\* Every step of the loop is one of RevokeCall's or a stutter.
LEMMA CallStep ==
  ASSUME Carried, [Next]_vars
  PROVE  [Call!Next]_(Call!vars)
<1> DEFINE status == IF pc # "done" THEN "running"
                     ELSE IF result = "nil" THEN "ok" ELSE "failed"
<1>1. CASE Begin \/ MakeCall \/ Retry \/ Pause \/ Wake \/ Cancel \/ UNCHANGED vars
  <2>1. UNCHANGED <<secret, seen, dead>>
    BY <1>1 DEF Begin, MakeCall, Retry, Pause, Wake, Cancel, vars, loopVars, envVars
  <2>2. status' = status
    BY <1>1 DEF Begin, MakeCall, Retry, Pause, Wake, Cancel, vars, loopVars
  <2> QED
    BY <2>1, <2>2 DEF Call!vars
<1>2. CASE CancelledBeforeAttempt \/ GiveUp \/ CancelledBeforePause
  <2>1. status = "running" /\ status' = "failed" /\ UNCHANGED <<secret, seen, dead>>
    BY <1>2 DEF CancelledBeforeAttempt, GiveUp, CancelledBeforePause, Finish, envVars
  <2> QED
    BY <2>1 DEF Call!Next, Call!Fail
<1>3. CASE Accepted
  <2>1. /\ status = "running" /\ status' = "ok" /\ UNCHANGED <<secret, seen>>
        /\ sent \in seen /\ dead' = dead \cup {sent}
    BY <1>3 DEF Accepted, Finish, Carried
  <2> QED
    BY <2>1 DEF Call!Next, Call!Succeed
<1>4. CASE Rejected
  <2>1. /\ status = "running" /\ status' = "running" /\ UNCHANGED <<secret, seen>>
        /\ sent \in seen /\ (dead' = dead \/ dead' = dead \cup {sent})
    BY <1>4 DEF Rejected, Carried
  <2> QED
    BY <2>1 DEF Call!Next, Call!ReplyLost, Call!vars
<1>5. CASE Swap
  <2>1. /\ status' = status /\ UNCHANGED dead /\ secret' \in Secret
        /\ seen' = IF status = "running" THEN seen \cup {secret'} ELSE seen
    BY <1>5 DEF Swap, loopVars
  <2> QED
    BY <2>1 DEF Call!Next, Call!Swap
<1> QED
  BY <1>1, <1>2, <1>3, <1>4, <1>5 DEF Next, Loop

\* Whatever attempts, failures, swaps and cancellation do, the call takes only
\* secrets the record has held, and returns nil only when the provider took one
\* back: what TokenStore builds on.  That it returns at all is for the runs.
THEOREM LoopImplementsCall == Spec => Call!Spec
<1>1. Init => Call!Init
  BY DEF Init, Call!Init
<1>2. Carried /\ [Next]_vars => Carried'
  BY CarriedStep
<1>3. Carried /\ [Next]_vars => [Call!Next]_(Call!vars)
  BY CallStep
<1> QED
  BY <1>1, <1>2, <1>3, CarriedInit, PTL DEF Spec, Call!Spec

-----------------------------------------------------------------------------
(* How long the call can take.                                             *)

\* Induction on the naturals, over a set instead of a predicate: a set that
\* holds 0, and with n also n + 1, holds them all.
LEMMA Induction ==
  ASSUME NEW P, 0 \in P, \A n \in Nat : n \in P => n + 1 \in P
  PROVE  Nat \subseteq P
<1> DEFINE T == Nat \ P
           R == {ss \in Nat \X Nat : ss[1] < ss[2]}
<1> SUFFICES ASSUME T # {} PROVE FALSE
  OBVIOUS
<1>1. IsWellFoundedOn(R, Nat)
  <2>1. OpToRel(<, Nat) = R
    BY Zenon DEF OpToRel
  <2> QED
    BY <2>1, NatLessThanWellFounded, Zenon
<1>2. \E x \in T : \A y \in T : ~ (<<y, x>> \in R)
  <2>1. T \subseteq Nat
    OBVIOUS
  <2> HIDE DEF T, R
  <2> QED
    BY <1>1, <2>1, WFMin
<1>3. PICK x \in T : \A y \in T : ~ (y < x)
  BY <1>2
<1>4. x # 0 /\ x - 1 \in Nat
  OBVIOUS
<1>5. x - 1 \in P
  BY <1>3, <1>4
<1> QED
  BY <1>4, <1>5

\* g is what a recursion from a, with the step function h, yields for 0..n.
Solves(a, h, g, n) ==
  /\ g \in [0..n -> Nat]
  /\ g[0] = a
  /\ \A m \in 1..n : g[m] = h[m][g[m - 1]]

\* A recursion is defined up to every n.
LEMMA RecursionStarts ==
  ASSUME NEW a \in Nat, NEW h \in [Nat -> [Nat -> Nat]], NEW n \in Nat
  PROVE  \E g : Solves(a, h, g, n)
<1> DEFINE Solvable == {i \in Nat : \E g : Solves(a, h, g, i)}
<1>1. 0 \in Solvable
  <2>1. Solves(a, h, [i \in 0..0 |-> a], 0)
    BY DEF Solves
  <2> QED
    BY <2>1
<1>2. ASSUME NEW i \in Nat, i \in Solvable PROVE i + 1 \in Solvable
  <2>1. PICK g : Solves(a, h, g, i)
    BY <1>2
  <2> DEFINE v == h[i + 1][g[i]]
             k == [m \in 0..(i + 1) |-> IF m <= i THEN g[m] ELSE v]
  <2>2. g \in [0..i -> Nat]
    BY <2>1 DEF Solves
  <2>3. v \in Nat
    <3>1. i \in 0..i
      OBVIOUS
    <3> QED
      BY <2>2, <3>1
  <2> HIDE DEF v
  <2>4. k \in [0..(i + 1) -> Nat]
    <3>1. ASSUME NEW m \in 0..(i + 1), m <= i PROVE g[m] \in Nat
      <4>1. m \in 0..i
        BY <3>1
      <4> QED
        BY <2>2, <4>1
    <3> QED
      BY <2>3, <3>1
  <2>5. k[0] = a
    BY <2>1 DEF Solves
  <2>6. ASSUME NEW m \in 1..(i + 1) PROVE k[m] = h[m][k[m - 1]]
    <3>1. k[m - 1] = g[m - 1]
      OBVIOUS
    <3>2. CASE m <= i
      <4>1. m \in 1..i /\ k[m] = g[m]
        BY <3>2
      <4>2. g[m] = h[m][g[m - 1]]
        BY <2>1, <4>1 DEF Solves
      <4> QED
        BY <3>1, <4>1, <4>2
    <3>3. CASE m = i + 1
      <4>1. k[m] = v /\ k[m - 1] = g[i]
        BY <3>3
      <4> QED
        BY <3>3, <4>1 DEF v
    <3> QED
      BY <3>2, <3>3
  <2> HIDE DEF k
  <2>7. Solves(a, h, k, i + 1)
    BY <2>4, <2>5, <2>6 DEF Solves
  <2> QED
    BY <2>7
<1> HIDE DEF Solvable
<1>3. Nat \subseteq Solvable
  BY <1>1, <1>2, Induction
<1> QED
  BY <1>3 DEF Solvable

\* Two of them agree wherever both are defined.
LEMMA RecursionAgrees ==
  ASSUME NEW a, NEW h, NEW g, NEW k, NEW n \in Nat, NEW m \in Nat,
         Solves(a, h, g, n), Solves(a, h, k, m),
         NEW i \in Nat, i <= n, i <= m
  PROVE  g[i] = k[i]
<1> DEFINE Agreed == {j \in Nat : j <= n /\ j <= m => g[j] = k[j]}
<1>1. 0 \in Agreed
  BY DEF Solves
<1>2. ASSUME NEW j \in Nat, j \in Agreed PROVE j + 1 \in Agreed
  <2> SUFFICES ASSUME j + 1 <= n, j + 1 <= m PROVE g[j + 1] = k[j + 1]
    OBVIOUS
  <2>1. g[j] = k[j]
    BY <1>2
  <2>2. j + 1 \in 1..n /\ j + 1 \in 1..m /\ (j + 1) - 1 = j
    OBVIOUS
  <2>3. g[j + 1] = h[j + 1][g[j]] /\ k[j + 1] = h[j + 1][k[j]]
    BY <2>2 DEF Solves
  <2> QED
    BY <2>1, <2>3
<1> HIDE DEF Agreed
<1>3. Nat \subseteq Agreed
  BY <1>1, <1>2, Induction
<1> QED
  BY <1>3 DEF Agreed

\* f is defined by recursion on all naturals.
Recursive(a, h, f) == f = [n \in Nat |-> IF n = 0 THEN a ELSE h[n][f[n - 1]]]

\* There is such a function ...
LEMMA RecursionExists ==
  ASSUME NEW a \in Nat, NEW h \in [Nat -> [Nat -> Nat]]
  PROVE  \E f : Recursive(a, h, f)
<1> DEFINE s(n) == CHOOSE g : Solves(a, h, g, n)
           f == [n \in Nat |-> s(n)[n]]
<1>1. \A n \in Nat : Solves(a, h, s(n), n)
  BY RecursionStarts
<1> HIDE DEF s
<1>2. f \in [Nat -> Nat]
  <2>1. ASSUME NEW n \in Nat PROVE s(n)[n] \in Nat
    BY <1>1 DEF Solves
  <2> QED
    BY <2>1
<1>3. f[0] = a
  BY <1>1 DEF Solves
<1>4. ASSUME NEW n \in Nat, n # 0 PROVE f[n] = h[n][f[n - 1]]
  <2>1. n \in 1..n /\ n - 1 \in Nat /\ n - 1 <= n /\ n - 1 <= n - 1
    BY <1>4
  <2>2. s(n)[n] = h[n][s(n)[n - 1]]
    BY <1>1, <2>1 DEF Solves
  <2>3. s(n)[n - 1] = s(n - 1)[n - 1]
    BY <1>1, <2>1, RecursionAgrees
  <2> QED
    BY <2>1, <2>2, <2>3
<1> HIDE DEF f
<1>5. Recursive(a, h, f)
  BY <1>2, <1>3, <1>4 DEF Recursive
<1> QED
  BY <1>5

\* ... and its values are naturals.
LEMMA RecursionType ==
  ASSUME NEW a \in Nat, NEW h \in [Nat -> [Nat -> Nat]], NEW f, Recursive(a, h, f)
  PROVE  f \in [Nat -> Nat]
<1> DEFINE Typed == {n \in Nat : f[n] \in Nat}
<1>1. 0 \in Typed
  BY DEF Recursive
<1>2. ASSUME NEW n \in Nat, n \in Typed PROVE n + 1 \in Typed
  <2>1. n + 1 \in Nat /\ n + 1 # 0 /\ (n + 1) - 1 = n
    OBVIOUS
  <2>2. f[n + 1] = h[n + 1][f[n]]
    BY <2>1, Zenon DEF Recursive
  <2>3. f[n] \in Nat
    BY <1>2
  <2>4. h[n + 1][f[n]] \in Nat
    BY <2>1, <2>3
  <2> QED
    BY <2>1, <2>2, <2>4
<1> HIDE DEF Typed
<1>3. Nat \subseteq Typed
  BY <1>1, <1>2, Induction
<1>4. \A n \in Nat : f[n] \in Nat
  BY <1>3 DEF Typed
<1> QED
  BY <1>4 DEF Recursive

\* Powers of two are positive; each is twice the one before.
LEMMA Powers == PowerOfTwo \in [Nat -> Nat]
<1> DEFINE h == [n \in Nat |-> [v \in Nat |-> 2 * v]]
           Doubles(f) == f = [n \in Nat |-> IF n = 0 THEN 1 ELSE 2 * f[n - 1]]
<1>1. h \in [Nat -> [Nat -> Nat]]
  OBVIOUS
<1>2. ASSUME NEW f, f \in [Nat -> Nat]
      PROVE  Recursive(1, h, f) <=> Doubles(f)
  <2>1. \A n \in Nat : n # 0 => h[n][f[n - 1]] = 2 * f[n - 1]
    BY <1>2
  <2> HIDE DEF h
  <2> QED
    BY <2>1 DEF Recursive
<1> HIDE DEF h
<1>3. PICK f : Recursive(1, h, f)
  BY <1>1, RecursionExists
<1>4. Doubles(f)
  BY <1>1, <1>2, <1>3, RecursionType
<1>5. PowerOfTwo = CHOOSE g : Doubles(g)
  BY DEF PowerOfTwo
<1>6. Doubles(PowerOfTwo)
  <2> HIDE DEF Doubles
  <2> QED
    BY <1>4, <1>5
<1> DEFINE Typed == {n \in Nat : PowerOfTwo[n] \in Nat}
<1>7. 0 \in Typed
  BY <1>6
<1>8. ASSUME NEW n \in Nat, n \in Typed PROVE n + 1 \in Typed
  <2>1. n + 1 \in Nat /\ n + 1 # 0 /\ (n + 1) - 1 = n
    OBVIOUS
  <2>2. PowerOfTwo[n + 1] = 2 * PowerOfTwo[n]
    BY <1>6, <2>1
  <2> QED
    BY <1>8, <2>1, <2>2
<1> HIDE DEF Typed
<1>9. Nat \subseteq Typed
  BY <1>7, <1>8, Induction
<1>10. \A n \in Nat : PowerOfTwo[n] \in Nat
  BY <1>9 DEF Typed
<1> QED
  BY <1>6, <1>10

\* The backoff of an attempt, and how much longer its jitter can make it.
LEMMA BackoffFacts ==
  ASSUME NEW n \in Nat \ {0}
  PROVE  /\ Backoff(n) \in Nat
         /\ LongestPause(n) = Backoff(n) + (Backoff(n) * JitterPercent) \div 200
         /\ LongestPause(n) \in Nat
<1>1. PowerOfTwo[n - 1] \in Nat
  BY Powers
<1>2. BaseDelay * PowerOfTwo[n - 1] \in Nat
  BY <1>1, DurationsAssumption
<1>3. Backoff(n) \in Nat
  BY <1>2, DurationsAssumption DEF Backoff
<1>4. LongestPause(n) = Backoff(n) + (Backoff(n) * JitterPercent) \div 200
  BY DEF LongestPause, Backoff
<1>5. Backoff(n) * JitterPercent \in Nat
  BY <1>3, DurationsAssumption
<1> QED
  BY <1>3, <1>4, <1>5

\* Jitter leaves a pause a length of time, at most half the range longer.
LEMMA JitterBounded ==
  ASSUME NEW d \in Nat, NEW x \in Jittered(d)
  PROVE  x \in Nat /\ x <= d + (d * JitterPercent) \div 200
<1> DEFINE p == d * JitterPercent
<1>1. p \in Nat /\ p <= d * 100
  BY DurationsAssumption
<1>2. \/ p \div 100 = 0 /\ x = d
      \/ \E j \in 0..((p \div 100) - 1) : x = d - ((p \div 100) \div 2) + j
  BY DEF Jittered
<1> HIDE DEF p
<1>3. p \div 100 \in Nat /\ p \div 200 \in Nat /\ (p \div 100) \div 2 \in Nat
  BY <1>1
<1>4. p \div 100 <= d /\ (p \div 100) \div 2 <= d
  BY <1>1
<1>5. (p \div 100) - ((p \div 100) \div 2) <= (p \div 200) + 1
  BY <1>1
<1>6. x \in Nat /\ x <= d + p \div 200
  <2>1. CASE x = d
    BY <2>1, <1>3
  <2>2. ASSUME NEW j \in 0..((p \div 100) - 1), x = d - ((p \div 100) \div 2) + j
        PROVE  x \in Nat /\ x <= d + p \div 200
    BY <2>2, <1>3, <1>4, <1>5
  <2> QED
    BY <1>2, <2>1, <2>2
<1> QED
  BY <1>6 DEF p

\* The pauses add up one by one.
LEMMA PausesAddUp ==
  /\ LongestPauses[0] = 0
  /\ \A n \in Nat \ {0} : LongestPauses[n] = LongestPauses[n - 1] + LongestPause(n)
  /\ \A n \in Nat : LongestPauses[n] \in Nat
<1> DEFINE pause == [n \in Nat |-> IF n = 0 THEN 0 ELSE LongestPause(n)]
           h == [n \in Nat |-> [v \in Nat |-> v + pause[n]]]
           Sums(f) == f = [n \in Nat |-> IF n = 0 THEN 0 ELSE f[n - 1] + LongestPause(n)]
<1>1. pause \in [Nat -> Nat]
  BY BackoffFacts
<1>2. \A n \in Nat : n # 0 => pause[n] = LongestPause(n)
  OBVIOUS
<1> HIDE DEF pause
<1>3. h \in [Nat -> [Nat -> Nat]]
  BY <1>1
<1>4. \A n, v \in Nat : n # 0 => h[n][v] = v + LongestPause(n)
  BY <1>2
<1> HIDE DEF h
<1>5. PICK f : Recursive(0, h, f)
  BY <1>3, RecursionExists
<1>6. f \in [Nat -> Nat]
  BY <1>3, <1>5, RecursionType
<1>7. \A n \in Nat : n # 0 => h[n][f[n - 1]] = f[n - 1] + LongestPause(n)
  BY <1>4, <1>6
<1>8. Sums(f)
  BY <1>5, <1>7 DEF Recursive
<1>9. LongestPauses = CHOOSE g : Sums(g)
  BY DEF LongestPauses
<1>10. Sums(LongestPauses)
  <2> HIDE DEF Sums
  <2> QED
    BY <1>8, <1>9
<1>11. \A n \in Nat \ {0} : LongestPauses[n] = LongestPauses[n - 1] + LongestPause(n)
  BY <1>10
<1> DEFINE Typed == {n \in Nat : LongestPauses[n] \in Nat}
<1>12. 0 \in Typed
  BY <1>10
<1>13. ASSUME NEW n \in Nat, n \in Typed PROVE n + 1 \in Typed
  <2>1. n + 1 \in Nat \ {0} /\ (n + 1) - 1 = n
    OBVIOUS
  <2>2. LongestPauses[n + 1] = LongestPauses[n] + LongestPause(n + 1)
    BY <1>11, <2>1
  <2>3. LongestPause(n + 1) \in Nat
    BY <2>1, BackoffFacts
  <2> QED
    BY <1>13, <2>1, <2>2, <2>3
<1> HIDE DEF Typed
<1>14. Nat \subseteq Typed
  BY <1>12, <1>13, Induction
<1> QED
  BY <1>10, <1>11, <1>14 DEF Typed

\* The time slept, and the pause about to be, against the longest there can be.
Paced ==
  /\ slept <= LongestPauses[attempt - 1]
  /\ pc \in {"pause", "sleep"} => delay <= LongestPause(attempt)

\* At the start nothing has been slept.
LEMMA PacedInit == Init => TypeOK /\ Paced
BY PausesAddUp, DurationsAssumption DEF Init, TypeOK, Paced

\* Types are kept: the counters by what Attempts says, the pause by its jitter.
LEMMA TypeStep ==
  ASSUME TypeOK, Attempts, Carried, [Next]_vars
  PROVE  TypeOK'
<1>1. attempt' \in 1..MaxAttempts /\ failures' \in 0..MaxAttempts /\ audited' \in 0..MaxAttempts
  BY AttemptsStep DEF Attempts
<1>2. pc' \in {"check", "attempt", "call", "log", "pause", "sleep", "done"}
  BY AttemptsStep DEF Attempts
<1>3. sent' \in Secret \cup {NoSecret} /\ result' \in {"none", "nil", "error", "cancelled"}
  BY DEF TypeOK, Next, Loop, Begin, CancelledBeforeAttempt, MakeCall, Accepted, Rejected,
       GiveUp, Retry, CancelledBeforePause, Pause, Wake, Finish, Swap, Cancel,
       vars, loopVars, envVars
<1>4. slept' \in Nat /\ delay' \in Nat
  <2>1. CASE Retry
    <3>1. Backoff(attempt) \in Nat
      BY BackoffFacts DEF TypeOK
    <3> QED
      BY <2>1, <3>1, JitterBounded DEF Retry, TypeOK
  <2>2. CASE Wake
    BY <2>2 DEF Wake, TypeOK
  <2>3. CASE ~Retry /\ ~Wake
    BY <2>3 DEF TypeOK, Next, Loop, Begin, CancelledBeforeAttempt, MakeCall, Accepted,
         Rejected, GiveUp, CancelledBeforePause, Pause, Finish, Swap, Cancel,
         vars, loopVars, envVars
  <2> QED
    BY <2>1, <2>2, <2>3
<1>5. secret' \in Secret /\ seen' \subseteq Secret /\ dead' \subseteq Secret
  <2>1. CASE Accepted \/ Rejected
    <3>1. sent \in Secret
      BY <2>1 DEF Carried, Accepted, Rejected
    <3> QED
      BY <2>1, <3>1 DEF TypeOK, Accepted, Rejected, Finish
  <2>2. CASE ~Accepted /\ ~Rejected
    BY <2>2 DEF TypeOK, Next, Loop, Begin, CancelledBeforeAttempt, MakeCall, GiveUp, Retry,
         CancelledBeforePause, Pause, Wake, Finish, Swap, Cancel, vars, loopVars, envVars
  <2> QED
    BY <2>1, <2>2
<1>6. cancelled' \in BOOLEAN
  BY DEF TypeOK, Next, Loop, Begin, CancelledBeforeAttempt, MakeCall, Accepted, Rejected,
       GiveUp, Retry, CancelledBeforePause, Pause, Wake, Finish, Swap, Cancel,
       vars, loopVars, envVars
<1>7. late' \in Nat
  <2>1. late' = late \/ late' = late + 1
    BY DEF Next, Loop, Begin, CancelledBeforeAttempt, MakeCall, Accepted, Rejected,
         GiveUp, Retry, CancelledBeforePause, Pause, Wake, Finish, Swap, Cancel,
         vars, loopVars, envVars
  <2> QED
    BY <2>1 DEF TypeOK
<1> QED
  BY <1>1, <1>2, <1>3, <1>4, <1>5, <1>6, <1>7 DEF TypeOK

\* A step sleeps the pause the attempt before it has drawn, and no other.
LEMMA PacedStep ==
  ASSUME TypeOK, Attempts, Paced, [Next]_vars
  PROVE  Paced'
<1>1. CASE Retry
  <2>1. Backoff(attempt) \in Nat /\ attempt \in Nat \ {0}
    BY BackoffFacts DEF TypeOK
  <2>2. delay' <= LongestPause(attempt)
    BY <1>1, <2>1, JitterBounded, BackoffFacts DEF Retry
  <2> QED
    BY <1>1, <2>2 DEF Retry, Paced
<1>2. CASE Wake
  <2>1. attempt \in Nat \ {0} /\ attempt' = attempt + 1 /\ slept' = slept + delay
        /\ pc' = "check"
    BY <1>2 DEF Wake, TypeOK
  <2>2. slept \in Nat /\ delay \in Nat /\ LongestPauses[attempt - 1] \in Nat
        /\ LongestPause(attempt) \in Nat
    BY <2>1, PausesAddUp, BackoffFacts DEF TypeOK
  <2>3. slept <= LongestPauses[attempt - 1] /\ delay <= LongestPause(attempt)
    BY <1>2 DEF Paced, Wake
  <2>4. LongestPauses[attempt] = LongestPauses[attempt - 1] + LongestPause(attempt)
    BY <2>1, PausesAddUp
  <2>5. slept' <= LongestPauses[attempt' - 1]
    BY <2>1, <2>2, <2>3, <2>4
  <2> QED
    BY <2>1, <2>5 DEF Paced
<1>3. CASE ~Retry /\ ~Wake
  <2>1. UNCHANGED <<slept, delay, attempt>>
    BY <1>3 DEF Next, Loop, Begin, CancelledBeforeAttempt, MakeCall, Accepted, Rejected,
         GiveUp, CancelledBeforePause, Pause, Finish, Swap, Cancel, vars, loopVars, envVars
  <2>2. pc' \in {"pause", "sleep"} => pc \in {"pause", "sleep"}
    BY <1>3 DEF Next, Loop, Begin, CancelledBeforeAttempt, MakeCall, Accepted, Rejected,
         GiveUp, CancelledBeforePause, Pause, Finish, Swap, Cancel, vars, loopVars
  <2> QED
    BY <2>1, <2>2 DEF Paced
<1> QED
  BY <1>1, <1>2, <1>3

\* Whatever the parameters, the counters stay within the attempts and every pause
\* is a length of time: the jitter never makes it negative (retry.go, 87-95).
THEOREM LoopTypeCorrect == Spec => []TypeOK
<1>1. Init => TypeOK /\ Attempts /\ Carried
  BY PacedInit, AttemptsInit, CarriedInit
<1>2. TypeOK /\ Attempts /\ Carried /\ [Next]_vars => TypeOK' /\ Attempts' /\ Carried'
  BY TypeStep, AttemptsStep, CarriedStep
<1> QED
  BY <1>1, <1>2, PTL DEF Spec

\* The pauses of one call never add up to more than their longest: the backoff is
\* capped before the jitter is added, and nothing is slept after the last attempt.
THEOREM StallHolds == Spec => []StallBounded
<1>1. Init => TypeOK /\ Attempts /\ Paced
  BY PacedInit, AttemptsInit
<1>2. TypeOK /\ Attempts /\ Paced /\ [Next]_vars => Paced'
  BY PacedStep
<1>3. Paced => StallBounded
  BY DEF Paced, StallBounded
<1>4. Spec => []Attempts
  <2>1. Attempts /\ [Next]_vars => Attempts'
    BY AttemptsStep
  <2> QED
    BY <2>1, AttemptsInit, PTL DEF Spec
<1> QED
  BY <1>1, <1>2, <1>3, <1>4, LoopTypeCorrect, PTL DEF Spec
-----------------------------------------------------------------------------
(* The loop runs out: what "Returns" says without its fairness.            *)

\* How far an attempt has to go from place p.
Rank(p) ==
  IF p = "check" THEN 6
  ELSE IF p = "attempt" THEN 5
  ELSE IF p = "call" THEN 4
  ELSE IF p = "log" THEN 3
  ELSE IF p = "pause" THEN 2
  ELSE IF p = "sleep" THEN 1
  ELSE 0

\* An upper bound of the steps left to the loop: this attempt's, and those of the
\* attempts after it.
StepsLeft == IF pc = "done" THEN 0 ELSE 6 * (MaxAttempts - attempt) + Rank(pc)

\* The steps left are a natural number, which bounds them from the start.
LEMMA StepsLeftBounded ==
  ASSUME Attempts
  PROVE  StepsLeft \in 0..(6 * MaxAttempts)
<1>1. MaxAttempts - attempt \in Nat /\ MaxAttempts - attempt <= MaxAttempts - 1
  BY DurationsAssumption DEF Attempts
<1>2. Rank(pc) \in 0..6
  BY DEF Rank
<1> QED
  BY <1>1, <1>2, DurationsAssumption DEF StepsLeft

\* A step of the loop uses at least one of them up; a secret swap and the
\* cancellation give none back.
LEMMA StepsLeftStep ==
  ASSUME Attempts, [Next]_vars
  PROVE  /\ Loop => StepsLeft' < StepsLeft
         /\ ~Loop => StepsLeft' = StepsLeft
<1>1. ASSUME Loop PROVE StepsLeft' < StepsLeft
  <2> USE DurationsAssumption DEF Attempts, StepsLeft, Rank
  <2>1. CASE Begin
    BY <2>1 DEF Begin, envVars
  <2>2. CASE CancelledBeforeAttempt
    BY <2>2 DEF CancelledBeforeAttempt, Finish, envVars
  <2>3. CASE MakeCall
    BY <2>3 DEF MakeCall, envVars
  <2>4. CASE Accepted
    BY <2>4 DEF Accepted, Finish, envVars
  <2>5. CASE Rejected
    BY <2>5 DEF Rejected, envVars
  <2>6. CASE GiveUp
    BY <2>6 DEF GiveUp, Finish, envVars
  <2>7. CASE Retry
    BY <2>7 DEF Retry, envVars
  <2>8. CASE CancelledBeforePause
    BY <2>8 DEF CancelledBeforePause, Finish, envVars
  <2>9. CASE Pause
    BY <2>9 DEF Pause, envVars
  <2>10. CASE Wake
    BY <2>10 DEF Wake, envVars
  <2> QED
    BY <1>1, <2>1, <2>2, <2>3, <2>4, <2>5, <2>6, <2>7, <2>8, <2>9, <2>10 DEF Loop
<1>2. ASSUME ~Loop PROVE StepsLeft' = StepsLeft
  <2>1. UNCHANGED <<pc, attempt>>
    BY <1>2 DEF Next, Swap, Cancel, vars, loopVars
  <2> QED
    BY <2>1 DEF StepsLeft
<1> QED
  BY <1>1, <1>2

\* Every delay has a jitter, so a pause can always be drawn.
LEMMA JitterExists ==
  ASSUME NEW d \in Nat
  PROVE  Jittered(d) # {}
<1> DEFINE r == (d * JitterPercent) \div 100
<1>1. r \in Nat
  <2>1. d * JitterPercent \in Nat
    BY DurationsAssumption
  <2> QED
    BY <2>1
<1>2. CASE r = 0
  BY <1>2 DEF Jittered
<1>3. CASE r # 0
  <2>1. Jittered(d) = {d - (r \div 2) + j : j \in 0..(r - 1)}
    BY <1>3 DEF Jittered
  <2> HIDE DEF r
  <2>2. 0 \in 0..(r - 1)
    BY <1>1, <1>3
  <2> QED
    BY <2>1, <2>2
<1> QED
  BY <1>2, <1>3

\* What the loop's steps ask for, place by place: nothing before the provider is
\* called and nothing of the provider but an answer, and a pause to be drawn where
\* there is one.
CanStep ==
  \/ pc \in {"check", "attempt", "call", "pause", "sleep"}
  \/ pc = "log" /\ attempt = MaxAttempts
  \/ pc = "log" /\ attempt < MaxAttempts /\ Jittered(Backoff(attempt)) # {}

\* A call that has not returned has its next step.
LEMMA NeverStuck ==
  ASSUME Attempts, pc # "done"
  PROVE  CanStep
<1>1. CASE pc = "log" /\ attempt < MaxAttempts
  <2>1. Backoff(attempt) \in Nat
    BY BackoffFacts DEF Attempts
  <2> QED
    BY <1>1, <2>1, JitterExists DEF CanStep
<1>2. CASE ~(pc = "log" /\ attempt < MaxAttempts)
  BY <1>2, DurationsAssumption DEF Attempts, CanStep
<1> QED
  BY <1>1, <1>2

\* The part of Returns that owes nothing to fairness.  Whatever the provider
\* answers and whenever the context is cancelled, the loop of retry.go (56-106)
\* makes at most 6 * MaxAttempts steps, since each uses up one of those left and
\* nothing else in the broker gives it more; and until it returns it has one.
THEOREM LoopTerminates ==
  Spec => /\ [](StepsLeft \in 0..(6 * MaxAttempts))
          /\ [][(Loop => StepsLeft' < StepsLeft) /\ (~Loop => StepsLeft' = StepsLeft)]_vars
          /\ [](pc # "done" => CanStep)
<1>1. Attempts /\ [Next]_vars => Attempts'
  BY AttemptsStep
<1>2. Attempts => StepsLeft \in 0..(6 * MaxAttempts)
  BY StepsLeftBounded
<1>3. Attempts /\ [Next]_vars =>
        [(Loop => StepsLeft' < StepsLeft) /\ (~Loop => StepsLeft' = StepsLeft)]_vars
  BY StepsLeftStep
<1>4. Attempts => (pc # "done" => CanStep)
  BY NeverStuck
<1> QED
  BY <1>1, <1>2, <1>3, <1>4, AttemptsInit, PTL DEF Spec
=============================================================================
