---------------------------- MODULE RetryRevoker ----------------------------
(***************************************************************************)
(* One call of RetryRevoker.Revoke (retry/retry.go): attempts with an      *)
(* exponential, jittered backoff between them, given up when they are used *)
(* up or when the context is cancelled.  Around it an Extend of the same   *)
(* token may replace the secret and shutdown may cancel the context, at    *)
(* any point.                                                              *)
(*                                                                         *)
(* Durations are whole numbers of a unit chosen so that the jitter range   *)
(* of every delay is an even number of units.                              *)
(***************************************************************************)
EXTENDS Naturals, FiniteSets

CONSTANTS
  Secret,          \* secrets the token record may hold
  BaseDelay, MaxDelay, MaxAttempts,
  JitterPercent    \* MaxJitter, in percent

ASSUME DurationsAssumption ==
  /\ BaseDelay \in Nat \ {0} /\ MaxDelay \in Nat \ {0}
  /\ MaxAttempts \in Nat \ {0} /\ JitterPercent \in 0..100

VARIABLES
  pc,         \* where the loop is
  attempt,    \* the loop variable
  sent,       \* the secret the running attempt has read
  result,     \* what the call returns: "none", "nil", "error", "cancelled"
  delay,      \* the pause about to be slept
  slept,      \* time slept so far
  audited,    \* LogRevokeFailed events
  secret, seen, dead,   \* as in RevokeCall
  cancelled,  \* ctx.Err() # nil
  failures,   \* history: attempts that returned an error
  late        \* history: attempts begun or pauses ended after the cancellation

loopVars == <<pc, attempt, sent, result, delay, slept, audited>>
envVars  == <<secret, seen, dead, cancelled, failures, late>>
vars == <<loopVars, envVars>>

NoSecret == "none"

TypeOK ==
  /\ pc \in {"check", "attempt", "call", "log", "pause", "sleep", "done"}
  /\ attempt \in 1..MaxAttempts
  /\ sent \in Secret \cup {NoSecret}
  /\ result \in {"none", "nil", "error", "cancelled"}
  /\ delay \in Nat /\ slept \in Nat
  /\ audited \in 0..MaxAttempts
  /\ secret \in Secret /\ seen \subseteq Secret /\ dead \subseteq Secret
  /\ cancelled \in BOOLEAN
  /\ failures \in 0..MaxAttempts /\ late \in Nat

Init ==
  /\ pc = "check" /\ attempt = 1 /\ sent = NoSecret /\ result = "none"
  /\ delay = 0 /\ slept = 0 /\ audited = 0
  /\ secret \in Secret /\ seen = {secret} /\ dead = {}
  /\ cancelled \in BOOLEAN
  /\ failures = 0 /\ late = 0

-----------------------------------------------------------------------------
\* math.Pow(2, n).
PowerOfTwo[n \in Nat] == IF n = 0 THEN 1 ELSE 2 * PowerOfTwo[n - 1]

\* Seeded fault: the cap is forgotten.
BackoffUncapped(n) == BaseDelay * PowerOfTwo[n - 1]

\* base * 2^(attempt-1), capped.
Backoff(n) ==
  LET d == BaseDelay * PowerOfTwo[n - 1] IN IF d > MaxDelay THEN MaxDelay ELSE d

\* delay - jitterRange/2 + jitterRange * [0,1): the cap comes first, the jitter
\* after it.
Jittered(d) ==
  LET range == (d * JitterPercent) \div 100
  IN  IF range = 0 THEN {d}
      ELSE {d - (range \div 2) + j : j \in 0..(range - 1)}

Finish(how) == pc' = "done" /\ result' = how

\* The context is looked at, and only then is the call made.
Begin ==
  /\ pc = "check" /\ ~cancelled
  /\ pc' = "attempt"
  /\ UNCHANGED <<attempt, sent, result, delay, slept, audited, envVars>>

MakeCall ==
  /\ pc = "attempt"
  /\ pc' = "call" /\ sent' = secret
  /\ late' = IF cancelled THEN late + 1 ELSE late
  /\ UNCHANGED <<attempt, result, delay, slept, audited, secret, seen, dead, cancelled, failures>>

CancelledBeforeAttempt ==
  /\ pc = "check" /\ cancelled
  /\ Finish("cancelled")
  /\ UNCHANGED <<attempt, sent, delay, slept, audited, envVars>>

\* Seeded fault: a first failure is taken for "already revoked".
AcceptedAnyway ==
  /\ pc = "call"
  /\ Finish("nil")
  /\ UNCHANGED <<attempt, sent, delay, slept, audited, envVars>>

\* Issuer.Revoke returns nil.
Accepted ==
  /\ pc = "call"
  /\ dead' = dead \cup {sent}
  /\ Finish("nil")
  /\ UNCHANGED <<attempt, sent, delay, slept, audited, secret, seen, cancelled, failures, late>>

\* Issuer.Revoke returns an error, before or after the provider has acted on it.
Rejected ==
  /\ pc = "call"
  /\ dead' \in {dead, dead \cup {sent}}
  /\ failures' = failures + 1
  /\ pc' = "log"
  /\ UNCHANGED <<attempt, sent, result, delay, slept, audited, secret, seen,
                 cancelled, late>>

\* Seeded fault: the last failure is not audited.
GiveUpSilently ==
  /\ pc = "log" /\ attempt = MaxAttempts
  /\ Finish("error")
  /\ UNCHANGED <<attempt, sent, delay, slept, audited, envVars>>

\* LogRevokeFailed, then the last failure ends the loop ...
GiveUp ==
  /\ pc = "log" /\ attempt = MaxAttempts
  /\ audited' = audited + 1
  /\ Finish("error")
  /\ UNCHANGED <<attempt, sent, delay, slept, envVars>>

\* Seeded fault: one attempt too many.
RetryOnceMore ==
  /\ pc = "log"
  /\ audited' = audited + 1
  /\ delay' \in Jittered(Backoff(attempt))
  /\ pc' = "pause"
  /\ UNCHANGED <<attempt, sent, result, slept, envVars>>

\* ... and any other goes on to a pause.
Retry ==
  /\ pc = "log" /\ attempt < MaxAttempts
  /\ audited' = audited + 1
  /\ delay' \in Jittered(Backoff(attempt))
  /\ pc' = "pause"
  /\ UNCHANGED <<attempt, sent, result, slept, envVars>>

CancelledBeforePause ==
  /\ pc = "pause" /\ cancelled
  /\ Finish("cancelled")
  /\ UNCHANGED <<attempt, sent, delay, slept, audited, envVars>>

\* Seeded fault: the context is not looked at again before the pause.
PauseRegardless ==
  /\ pc = "pause"
  /\ pc' = "sleep"
  /\ UNCHANGED <<attempt, sent, result, delay, slept, audited, envVars>>

Pause ==
  /\ pc = "pause" /\ ~cancelled
  /\ pc' = "sleep"
  /\ UNCHANGED <<attempt, sent, result, delay, slept, audited, envVars>>

\* Seeded fault: a pause that waits for the context only, without a timer.
WakeIfCancelled ==
  /\ pc = "sleep" /\ cancelled
  /\ slept' = slept + delay
  /\ attempt' = attempt + 1
  /\ pc' = "check"
  /\ late' = late + 1
  /\ UNCHANGED <<sent, result, delay, audited, secret, seen, dead, cancelled, failures>>

\* r.sleep(delay) is over: nothing interrupts it, a cancellation is seen after.
Wake ==
  /\ pc = "sleep"
  /\ slept' = slept + delay
  /\ attempt' = attempt + 1
  /\ pc' = "check"
  /\ late' = IF cancelled THEN late + 1 ELSE late
  /\ UNCHANGED <<sent, result, delay, audited, secret, seen, dead, cancelled, failures>>

-----------------------------------------------------------------------------
(* The rest of the broker.                                                 *)

\* Store.Extend's second critical section.
Swap ==
  /\ secret' \in Secret \ seen
  /\ seen' = IF pc = "done" THEN seen ELSE seen \cup {secret'}
  /\ UNCHANGED <<loopVars, dead, cancelled, failures, late>>

\* main.go's cancel(), or the client of a manual revocation going away.
Cancel ==
  /\ ~cancelled /\ cancelled' = TRUE
  /\ UNCHANGED <<loopVars, secret, seen, dead, failures, late>>

-----------------------------------------------------------------------------
Loop ==
  \/ Begin \/ CancelledBeforeAttempt \/ MakeCall \/ Accepted \/ Rejected
  \/ GiveUp \/ Retry \/ CancelledBeforePause \/ Pause \/ Wake

Next == Loop \/ Swap \/ Cancel

Spec == Init /\ [][Next]_vars

\* The goroutine runs, and the provider and the audit log answer.
FairSpec == Spec /\ WF_vars(Loop)

-----------------------------------------------------------------------------
(* Properties.                                                             *)

\* "Emits an audit event on each failure" (retry.go, 13): when the call ends
\* every failed attempt has its event, also when a cancellation cuts the loop
\* short, and the provider's error is returned only after every attempt failed.
EveryFailureAudited ==
  pc = "done" => /\ audited = failures
                 /\ result = "error" <=> failures = MaxAttempts

\* A cancelled call does at most one thing more: the attempt or the pause it
\* was about to make when the context was cancelled.
StopsSoon == late <= 1

\* The longest the nth pause can take: half the jitter range above the backoff.
LongestPause(n) ==
  LET d == BaseDelay * PowerOfTwo[n - 1]
      capped == IF d > MaxDelay THEN MaxDelay ELSE d
  IN  capped + (capped * JitterPercent) \div 200

\* The longest the first n pauses can take, added up.
LongestPauses[n \in Nat] ==
  IF n = 0 THEN 0 ELSE LongestPauses[n - 1] + LongestPause(n)

\* How long one unreachable provider can hold up the caller, which for the
\* worker is every other token: the pauses between the attempts, none after
\* the last.
StallBounded == slept <= LongestPauses[attempt - 1]

\* Every call returns.
Returns == <>(pc = "done")

Call == INSTANCE RevokeCall WITH
  status <- IF pc # "done" THEN "running"
            ELSE IF result = "nil" THEN "ok" ELSE "failed"

\* The loop is one RevokeCall, so what TokenStore does with a revocation
\* (nil only if a secret it held was killed, errors that prove nothing, and an
\* answer in the end) is what this code does.
ImplementsRevokeCall == Call!FairSpec
=============================================================================
