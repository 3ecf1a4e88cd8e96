----------------------------- MODULE TokenStore -----------------------------
(***************************************************************************)
(* The broker's core: store.Store (store/store.go), the self-destruction   *)
(* worker that runs beside the request handlers, and the provider both     *)
(* call.  The store has one mutex; every provider or notifier call is made *)
(* with the mutex RELEASED.  One action is therefore one critical section  *)
(* or one provider call, and anything may happen in between.               *)
(*                                                                         *)
(*   client c   the goroutine of one HTTP or Slack request, which issues,  *)
(*              adds, extends or revokes one token                         *)
(*   worker     the goroutine of Store.Run                                 *)
(*   ticker     its time.Ticker, whose channel holds at most one tick      *)
(*   Tick       wall-clock time                                            *)
(*                                                                         *)
(* RetryRevoker.Revoke, which both revoke through, appears here by what it *)
(* does to the provider and what it returns; its loop is module            *)
(* RetryRevoker.                                                           *)
(***************************************************************************)
EXTENDS ExpiryHeap, Provider, FiniteSets

CONSTANTS
  Token,          \* token ids
  Client,         \* request goroutines
  NoToken,        \* a client or worker that holds no token
  TTL,            \* Store.ttl: what one extension adds
  MaxSession,     \* Store.maxSession
  WarnBefore,     \* Store.warningBefore
  GrantTTL,       \* the TTLs handlers issue with (config TTL, break-glass TTLs)
  IssueBy,        \* bound: tokens are issued up to this time
  MaxExtensions,  \* bound: extensions per token
  MayShutDown,    \* bound: whether a shutdown signal may come
  Horizon         \* bound: the clock stops here

ASSUME TimesAssumption ==
  /\ TTL \in Nat \ {0} /\ MaxSession \in Nat \ {0} /\ WarnBefore \in Nat
  /\ GrantTTL \subseteq Nat \ {0}
  /\ IssueBy \in Nat /\ MaxExtensions \in Nat /\ Horizon \in Nat

ASSUME TokensAssumption == NoToken \notin Token /\ IsFiniteSet(Token)

VARIABLES
  now,            \* time.Now()
  tok,            \* the IssuedToken records, by id
  registered,     \* keys of Store.tokens; entries are never deleted
  pq,             \* Store.pq
  revokedCount,   \* Store.revokedCount
  leases,         \* the provider's side of every token
  client,         \* where each request is in its handler
  worker,         \* where Run is in its loop
  tickBuf,        \* ticker.C
  cancelled,      \* ctx.Done() of the worker's context is closed
  cause,          \* history: which operation marked the token Revoked
                  \* ("recovery", of a restarted broker, is in BrokerRestart)
  answer,         \* history: how the provider revocation of the token ended
  warned          \* history: impending-expiry warnings raised per token

storeVars == <<tok, registered, pq, revokedCount>>
history   == <<cause, answer, warned>>
vars == <<now, storeVars, leases, client, worker, tickBuf, cancelled, history>>

\* time.Time{}; the clock starts after it, so an empty channel is NoTime too.
NoTime == 0

Idle == [pc |-> "idle", token |-> NoToken, until |-> NoTime, secret |-> 0]

IdleWorker == [pc |-> "idle", tick |-> NoTime, target |-> NoToken, toNotify |-> {}]

\* An id no token has been issued for.
NoRecord ==
  [issuedAt |-> NoTime, expiresAt |-> NoTime, originalIssuedAt |-> NoTime,
   revoked |-> FALSE, notified |-> FALSE, extensions |-> 0, secret |-> 0]

TokenRecord ==
  [issuedAt : Nat, expiresAt : Nat, originalIssuedAt : Nat, revoked : BOOLEAN,
   notified : BOOLEAN, extensions : Nat, secret : Nat]

ClientRecord ==
  [pc : {"idle", "add", "reissue", "reissueClamped", "swap", "revoke", "force"},
   token : Token \cup {NoToken}, until : Nat, secret : Nat]

WorkerRecord ==
  [pc : {"idle", "warn", "notify", "scan", "revoke", "stopped"},
   tick : Nat, target : Token \cup {NoToken}, toNotify : SUBSET Token]

TypeOK ==
  /\ now \in Nat
  /\ tok \in [Token -> TokenRecord]
  /\ registered \subseteq Token
  /\ pq \in Seq(Token)
  /\ revokedCount \in Nat
  /\ leases \in [Token -> Seq(Lease)]
  /\ client \in [Client -> ClientRecord]
  /\ worker \in WorkerRecord
  /\ tickBuf \in Nat
  /\ cancelled \in BOOLEAN
  /\ cause \in [Token -> {"none", "manual", "auto", "ceiling", "recovery"}]
  /\ answer \in [Token -> {"none", "ok", "failed"}]
  /\ warned \in [Token -> Nat]

Init ==
  /\ now = 1
  /\ tok = [t \in Token |-> NoRecord]
  /\ registered = {}
  /\ pq = << >>
  /\ revokedCount = 0
  /\ leases = [t \in Token |-> << >>]
  /\ client = [c \in Client |-> Idle]
  /\ worker = IdleWorker
  /\ tickBuf = NoTime
  /\ cancelled = FALSE
  /\ cause = [t \in Token |-> "none"]
  /\ answer = [t \in Token |-> "none"]
  /\ warned = [t \in Token |-> 0]

-----------------------------------------------------------------------------
(* What the store's operations look at and do.                             *)

\* The heap's key: ExpiresAt as it is NOW, whatever it was when t was pushed.
Expiry == [t \in Token |-> tok[t].expiresAt]

Ceiling(t) == tok[t].originalIssuedAt + MaxSession

\* Seeded fault: the t.Revoked test is forgotten.
LiveIfKnown(t) == t \in registered

\* In the map and not revoked: what Get and List call live.
Live(t) == t \in registered /\ ~tok[t].revoked

\* Seeded fault: revokedCount kept as a gauge that goes down.
MarkRevokedAndDiscount(t, by) ==
  /\ tok' = [tok EXCEPT ![t].revoked = TRUE]
  /\ revokedCount' = revokedCount - 1
  /\ cause' = [cause EXCEPT ![t] = by]

\* t.Revoked = true; s.revokedCount++, under the mutex, on behalf of "by".
MarkRevoked(t, by) ==
  /\ tok' = [tok EXCEPT ![t].revoked = TRUE]
  /\ revokedCount' = revokedCount + 1
  /\ cause' = [cause EXCEPT ![t] = by]

Goto(c, pc, t, until, secret) ==
  client' = [client EXCEPT ![c] =
               [pc |-> pc, token |-> t, until |-> until, secret |-> secret]]

Return(c) == client' = [client EXCEPT ![c] = Idle]

(***************************************************************************)
(* The provider side of one Revoke call for t, however often it retries:   *)
(* the secret is read from the record at each attempt.                     *)
(*   RevokeSucceeds  an attempt is accepted: the call returns nil          *)
(*   RevokeLost      an attempt kills the secret but its reply is an error *)
(*   RevokeFails     the call gives up and returns the error               *)
(***************************************************************************)
\* Seeded fault: success reported without the call.
RevokeAssumed(t) ==
  /\ answer' = [answer EXCEPT ![t] = "ok"]
  /\ UNCHANGED leases

RevokeSucceeds(t) ==
  /\ leases' = Kill(leases, t, tok[t].secret)
  /\ answer' = [answer EXCEPT ![t] = "ok"]

RevokeLost(t) ==
  /\ leases' = Kill(leases, t, tok[t].secret)
  /\ UNCHANGED answer

RevokeFails(t) ==
  /\ answer' = [answer EXCEPT ![t] = "failed"]
  /\ UNCHANGED leases

-----------------------------------------------------------------------------
(* Granting: issuer.Issue in a request handler, then Store.Add.            *)

\* The provider may have created the secret and its reply still be an error.
Grant(c, t, ttl) ==
  /\ client[c].pc = "idle" /\ now <= IssueBy
  /\ leases[t] = << >>
  /\ leases' = Issue(leases, t, LeaseUntil(now, ttl))
  /\ \/ /\ tok' = [tok EXCEPT ![t].issuedAt = now, ![t].expiresAt = now + ttl,
                              ![t].secret = 1]
        /\ Goto(c, "add", t, NoTime, 0)
     \/ UNCHANGED <<tok, client>>
  /\ UNCHANGED <<now, registered, pq, revokedCount, worker, tickBuf, cancelled,
                 history>>

\* Seeded fault: the token goes into the map but not into the heap.
AddWithoutPush(c) ==
  LET t == client[c].token
  IN  /\ client[c].pc = "add"
      /\ tok' = [tok EXCEPT ![t].originalIssuedAt = tok[t].issuedAt]
      /\ registered' = registered \cup {t}
      /\ Return(c)
      /\ UNCHANGED <<now, pq, revokedCount, leases, worker, tickBuf, cancelled,
                     history>>

Add(c) ==
  LET t == client[c].token
      orig == IF tok[t].originalIssuedAt = NoTime
              THEN tok[t].issuedAt ELSE tok[t].originalIssuedAt
  IN  /\ client[c].pc = "add"
      /\ tok' = [tok EXCEPT ![t].originalIssuedAt = orig]
      /\ registered' = registered \cup {t}
      /\ pq' = HeapPush(Expiry, pq, t)
      /\ Return(c)
      /\ UNCHANGED <<now, revokedCount, leases, worker, tickBuf, cancelled, history>>

-----------------------------------------------------------------------------
(* Store.Extend.  First critical section: refused (no action) unless the   *)
(* token is live, then one of three outcomes.                              *)

NewExpiry(t) == tok[t].expiresAt + TTL

\* Seeded fault: the present expiry is compared instead of the new one.
AtCeilingAlready(t) == tok[t].expiresAt >= Ceiling(t)

AtCeiling(t) == NewExpiry(t) >= Ceiling(t)

\* The write both kinds of extension make.  pq is not touched: t keeps its
\* place in the heap although its key has just changed.
Bump(t, expiry) ==
  tok' = [tok EXCEPT ![t].expiresAt = expiry,
                     ![t].extensions = @ + 1,
                     ![t].notified = FALSE]

ExtendNormal(c, t) ==
  /\ client[c].pc = "idle" /\ Live(t) /\ tok[t].extensions < MaxExtensions
  /\ ~AtCeiling(t)
  /\ Bump(t, NewExpiry(t))
  /\ Goto(c, "reissue", t, NoTime, 0)
  /\ UNCHANGED <<now, registered, pq, revokedCount, leases, worker, tickBuf,
                 cancelled, history>>

ExtendClamped(c, t) ==
  /\ client[c].pc = "idle" /\ Live(t) /\ tok[t].extensions < MaxExtensions
  /\ AtCeiling(t) /\ now < Ceiling(t)
  /\ Bump(t, Ceiling(t))
  /\ Goto(c, "reissueClamped", t, Ceiling(t), 0)
  /\ UNCHANGED <<now, registered, pq, revokedCount, leases, worker, tickBuf,
                 cancelled, history>>

\* Seeded fault: revokes where the code clamps.
ExtendRevokesEarly(c, t) ==
  /\ client[c].pc = "idle" /\ Live(t) /\ AtCeiling(t)
  /\ MarkRevoked(t, "ceiling")
  /\ Goto(c, "force", t, NoTime, 0)
  /\ UNCHANGED <<now, registered, pq, leases, worker, tickBuf, cancelled,
                 answer, warned>>

ExtendForcesRevocation(c, t) ==
  /\ client[c].pc = "idle" /\ Live(t)
  /\ AtCeiling(t) /\ now >= Ceiling(t)
  /\ MarkRevoked(t, "ceiling")
  /\ Goto(c, "force", t, NoTime, 0)
  /\ UNCHANGED <<now, registered, pq, leases, worker, tickBuf, cancelled,
                 answer, warned>>

\* issuer.Revoke called once, straight at the provider, its error dropped.
ForceRevoke(c) ==
  LET t == client[c].token
  IN  /\ client[c].pc = "force"
      /\ Return(c)
      /\ \/ RevokeSucceeds(t)
         \/ /\ leases' = Kill(leases, t, tok[t].secret)
            /\ answer' = [answer EXCEPT ![t] = "failed"]
         \/ RevokeFails(t)
      /\ UNCHANGED <<now, storeVars, worker, tickBuf, cancelled, cause, warned>>

(***************************************************************************)
(* issuer.Issue with the mutex released.  The lease runs from the moment   *)
(* of THIS call: a plain extension asks for s.ttl, a clamped one for       *)
(* time.Until(ceiling), which may be less than a second or past.  On an    *)
(* error Extend returns with ExpiresAt already moved; the secret may exist *)
(* at the provider all the same.                                           *)
(***************************************************************************)
AskedTTL(c) == IF client[c].pc = "reissue" THEN TTL ELSE client[c].until - now

LeaseEnd(c) == LeaseUntil(now, AskedTTL(c))

Reissue(c) ==
  LET t == client[c].token
  IN  /\ client[c].pc \in {"reissue", "reissueClamped"}
      /\ Askable(AskedTTL(c))
      /\ leases' = Issue(leases, t, LeaseEnd(c))
      /\ Goto(c, "swap", t, NoTime, Len(leases[t]) + 1)
      /\ UNCHANGED <<now, storeVars, worker, tickBuf, cancelled, history>>

ReissueFails(c) ==
  /\ client[c].pc \in {"reissue", "reissueClamped"}
  /\ \/ UNCHANGED leases
     \/ /\ Askable(AskedTTL(c))
        /\ leases' = Issue(leases, client[c].token, LeaseEnd(c))
  /\ Return(c)
  /\ UNCHANGED <<now, storeVars, worker, tickBuf, cancelled, history>>

\* Seeded fault: the record issued for the extension replaces the whole entry.
SwapRecord(c) ==
  LET t == client[c].token
  IN  /\ client[c].pc = "swap"
      /\ tok' = [tok EXCEPT ![t].secret = client[c].secret, ![t].revoked = FALSE]
      /\ Return(c)
      /\ UNCHANGED <<now, registered, pq, revokedCount, leases, worker, tickBuf,
                     cancelled, history>>

\* Second critical section: the new secret replaces the old one, whether or
\* not the token has been revoked meanwhile.
SwapSecret(c) ==
  LET t == client[c].token
  IN  /\ client[c].pc = "swap"
      /\ tok' = [tok EXCEPT ![t].secret = client[c].secret]
      /\ Return(c)
      /\ UNCHANGED <<now, registered, pq, revokedCount, leases, worker, tickBuf,
                     cancelled, history>>

-----------------------------------------------------------------------------
(* Store.RevokeNow: refused unless live; marks, then revokes through the   *)
(* retry revoker with the mutex released.                                  *)

RevokeNow(c, t) ==
  /\ client[c].pc = "idle" /\ Live(t)
  /\ MarkRevoked(t, "manual")
  /\ Goto(c, "revoke", t, NoTime, 0)
  /\ UNCHANGED <<now, registered, pq, leases, worker, tickBuf, cancelled,
                 answer, warned>>

ManualRevoke(c) ==
  LET t == client[c].token
  IN  /\ client[c].pc = "revoke"
      /\ \/ RevokeSucceeds(t) /\ Return(c)
         \/ RevokeLost(t)     /\ UNCHANGED client
         \/ RevokeFails(t)    /\ Return(c)
      /\ UNCHANGED <<now, storeVars, worker, tickBuf, cancelled, cause, warned>>

-----------------------------------------------------------------------------
(* Store.Run, the worker.                                                  *)

TickerFires ==
  /\ tickBuf = NoTime
  /\ tickBuf' = now
  /\ UNCHANGED <<now, storeVars, leases, client, worker, cancelled, history>>

\* case now := <-ticker.C: the tick is the time it was SENT.
WorkerWakes ==
  /\ worker.pc = "idle" /\ tickBuf # NoTime
  /\ worker' = [worker EXCEPT !.pc = "warn", !.tick = tickBuf]
  /\ tickBuf' = NoTime
  /\ UNCHANGED <<now, storeVars, leases, client, cancelled, history>>

WorkerStops ==
  /\ worker.pc = "idle" /\ cancelled
  /\ worker' = [worker EXCEPT !.pc = "stopped"]
  /\ UNCHANGED <<now, storeVars, leases, client, tickBuf, cancelled, history>>

NeedsWarning(t) ==
  /\ Live(t) /\ ~tok[t].notified
  /\ tok[t].expiresAt > worker.tick
  /\ tok[t].expiresAt <= worker.tick + WarnBefore

\* fireWarnings calls the notifier for each marked token, then the scan starts.
NotifyRest(rest) ==
  worker' = [worker EXCEPT !.pc = IF rest = {} THEN "scan" ELSE "notify",
                           !.toNotify = rest]

\* Seeded fault: NotifiedExpiry is not set.
MarkNoWarnings ==
  /\ worker.pc = "warn"
  /\ NotifyRest({t \in registered : NeedsWarning(t)})
  /\ UNCHANGED <<now, storeVars, leases, client, tickBuf, cancelled, history>>

\* fireWarnings, the part under the mutex.
MarkWarnings ==
  LET due == {t \in registered : NeedsWarning(t)}
  IN  /\ worker.pc = "warn"
      /\ tok' = [t \in Token |-> [tok[t] EXCEPT !.notified = @ \/ t \in due]]
      /\ NotifyRest(due)
      /\ UNCHANGED <<now, registered, pq, revokedCount, leases, client, tickBuf,
                     cancelled, history>>

\* fireWarnings, the part outside it: one notifier call per token, its error
\* only logged, never tried again.
Notify(t) ==
  /\ worker.pc = "notify" /\ t \in worker.toNotify
  /\ warned' = [warned EXCEPT ![t] = @ + 1]
  /\ NotifyRest(worker.toNotify \ {t})
  /\ UNCHANGED <<now, storeVars, leases, client, tickBuf, cancelled, cause, answer>>

\* Seeded fault: collects a little ahead of time.
TopIsAlmostDue == pq # << >> /\ tok[Head(pq)].expiresAt <= worker.tick + 1

\* revokeExpired: the loop ends at the first top that is not due.
TopIsDue == pq # << >> /\ tok[Head(pq)].expiresAt <= worker.tick

ScanEnds ==
  /\ worker.pc = "scan" /\ ~TopIsDue
  /\ worker' = [worker EXCEPT !.pc = "idle", !.tick = NoTime]
  /\ UNCHANGED <<now, storeVars, leases, client, tickBuf, cancelled, history>>

\* Seeded fault: drops the top without looking whether it is revoked.
ScanDrops ==
  /\ worker.pc = "scan" /\ TopIsDue
  /\ pq' = HeapPop(Expiry, pq)
  /\ UNCHANGED <<now, tok, registered, revokedCount, leases, client, worker,
                 tickBuf, cancelled, history>>

\* The top was revoked by a request: drop it and look again.
ScanSkips ==
  /\ worker.pc = "scan" /\ TopIsDue /\ ~Live(Head(pq))
  /\ pq' = HeapPop(Expiry, pq)
  /\ UNCHANGED <<now, tok, registered, revokedCount, leases, client, worker,
                 tickBuf, cancelled, history>>

\* Seeded fault: marks the token and goes on without revoking it.
ScanMarksOnly ==
  /\ worker.pc = "scan" /\ TopIsDue /\ Live(Head(pq))
  /\ pq' = HeapPop(Expiry, pq)
  /\ MarkRevoked(Head(pq), "auto")
  /\ UNCHANGED <<now, registered, leases, client, worker, tickBuf, cancelled,
                 answer, warned>>

ScanClaims ==
  /\ worker.pc = "scan" /\ TopIsDue /\ Live(Head(pq))
  /\ pq' = HeapPop(Expiry, pq)
  /\ MarkRevoked(Head(pq), "auto")
  /\ worker' = [worker EXCEPT !.pc = "revoke", !.target = Head(pq)]
  /\ UNCHANGED <<now, registered, leases, client, tickBuf, cancelled, answer, warned>>

\* A cancelled context fails the call before its first attempt.
AutoRevoke ==
  LET t == worker.target
      next == worker' = [worker EXCEPT !.pc = "scan", !.target = NoToken]
  IN  /\ worker.pc = "revoke"
      /\ \/ ~cancelled /\ RevokeSucceeds(t) /\ next
         \/ ~cancelled /\ RevokeLost(t) /\ UNCHANGED worker
         \/ RevokeFails(t) /\ next
      /\ UNCHANGED <<now, storeVars, client, tickBuf, cancelled, cause, warned>>

-----------------------------------------------------------------------------
(* The environment: time, and main.go's shutdown goroutine.                *)

Tick ==
  /\ now < Horizon
  /\ now' = now + 1
  /\ UNCHANGED <<storeVars, leases, client, worker, tickBuf, cancelled, history>>

Cancel ==
  /\ MayShutDown /\ ~cancelled
  /\ cancelled' = TRUE
  /\ UNCHANGED <<now, storeVars, leases, client, worker, tickBuf, history>>

-----------------------------------------------------------------------------
\* What a request goroutine does once it has started.
ClientContinues(c) ==
  \/ Add(c) \/ Reissue(c) \/ ReissueFails(c) \/ SwapSecret(c)
  \/ ManualRevoke(c) \/ ForceRevoke(c)

ClientStarts(c) ==
  \E t \in Token :
    \/ \E ttl \in GrantTTL : Grant(c, t, ttl)
    \/ ExtendNormal(c, t) \/ ExtendClamped(c, t) \/ ExtendForcesRevocation(c, t)
    \/ RevokeNow(c, t)

Worker ==
  \/ WorkerWakes \/ WorkerStops
  \/ MarkWarnings \/ \E t \in Token : Notify(t)
  \/ ScanEnds \/ ScanSkips \/ ScanClaims \/ AutoRevoke

Next ==
  \/ \E c \in Client : ClientStarts(c) \/ ClientContinues(c)
  \/ Worker \/ TickerFires \/ Tick \/ Cancel

Spec == Init /\ [][Next]_vars

(***************************************************************************)
(* Time passes, the ticker ticks, and a goroutine that can run does run: a *)
(* provider or notifier call returns in the end.  That is so only while    *)
(* the broker runs: once it is cancelled main returns without waiting for  *)
(* the worker or for any request (BrokerRestart!Exit), so none of them has *)
(* to take another step.  No request has to start, and nobody has to shut  *)
(* the broker down.                                                        *)
(***************************************************************************)
Fairness ==
  /\ WF_vars(Tick) /\ WF_vars(~cancelled /\ TickerFires)
  /\ WF_vars(~cancelled /\ Worker)
  /\ \A c \in Client : WF_vars(~cancelled /\ ClientContinues(c))

FairSpec == Spec /\ Fairness

-----------------------------------------------------------------------------
(* Safety.                                                                 *)

\* c is inside an Extend of t, between its two critical sections.
Extending(c, t) ==
  client[c].token = t /\ client[c].pc \in {"reissue", "reissueClamped", "swap"}

\* The session ceiling (models.MaxSessionDuration): no sequence of extensions,
\* by however many requests, moves a token's expiry past OriginalIssuedAt +
\* maxSession.  Extend alone clamps; Add takes what the handler issued.
SessionCeiling ==
  \A t \in registered : tok[t].expiresAt <= Ceiling(t)

\* The processes that are inside a provider revocation of t.
Revokers(t) ==
  {c \in Client : client[c].token = t /\ client[c].pc \in {"revoke", "force"}}
    \cup {w \in {NoToken} : worker.pc = "revoke" /\ worker.target = t}

\* RevokeNow, Extend at the ceiling and the worker race for the same token:
\* only one of them ever gets to revoke it, and revokedCount counts it once.
RevokedOnce ==
  /\ revokedCount = Cardinality({t \in Token : tok[t].revoked})
  /\ \A t \in Token : /\ Cardinality(Revokers(t)) <= 1
                      /\ Revokers(t) # {} => tok[t].revoked /\ answer[t] = "none"

\* The worker can only find what is in the heap: every live token is there,
\* once, whatever pushes, pops and extensions have happened.
NeverUnscheduled ==
  \A t \in Token :
    Live(t) => Cardinality({i \in DOMAIN pq : pq[i] = t}) = 1

\* A token is ended for a reason that was true: the worker collects only after
\* the expiry it finally had (also when an extension lands while the worker is
\* at work on an old tick), and Extend force-revokes only after the ceiling.
EndedForCause ==
  \A t \in Token :
    /\ cause[t] = "auto" => tok[t].expiresAt <= now
    /\ cause[t] = "ceiling" => Ceiling(t) <= now

\* Of the secrets a token has had, a successful revocation leaves the provider
\* accepting at most one for each extension, whichever of them were still being
\* issued or swapped meanwhile; of a token that was never extended, none.
SurvivorsBounded ==
  \A t \in Token :
    answer[t] = "ok"
      => Cardinality({i \in DOMAIN leases[t] : Accepts(leases, now, t, i)})
           <= tok[t].extensions

\* Users get at most one impending-expiry warning per granted window: the
\* first, and one more for each extension.
OneWarningPerWindow ==
  \A t \in Token :
    warned[t] + Cardinality(worker.toNotify \cap {t}) <= tok[t].extensions + 1

\* A revoked token stays revoked with its expiry frozen, although Extend and
\* the worker keep pointers to its record across their unlocked calls.
RevokedIsFinal ==
  [][\A t \in Token :
       tok[t].revoked => /\ tok'[t].revoked
                         /\ tok'[t].expiresAt = tok[t].expiresAt
                         /\ cause'[t] = cause[t]]_vars

ScanFinishes == worker.pc = "scan" /\ worker'.pc = "idle"

NothingDue == \A t \in Token : Live(t) => tok[t].expiresAt > worker.tick

\* While no token has been extended the heap is in order, so a scan leaves
\* nothing behind that was due at its tick.
ScanCompleteUnlessExtended ==
  [][ScanFinishes /\ (\A t \in Token : tok[t].extensions = 0)
       => NothingDue]_vars

\* store.go, 302-305: on each tick Run "Pops every heap element whose
\* ExpiresAt <= now and revokes it".
ScanComplete == [][ScanFinishes => NothingDue]_vars

\* SECURITY.md, 43: "Retry with exponential backoff ensures tokens are
\* revoked".  Once a revocation has succeeded and nobody is extending the
\* token, the provider accepts no secret of it.
RevokedMeansDead ==
  \A t \in Token :
    answer[t] = "ok" /\ (\A c \in Client : ~Extending(c, t))
      => \A i \in DOMAIN leases[t] : ~Accepts(leases, now, t, i)

-----------------------------------------------------------------------------
(* Liveness, under FairSpec.                                               *)

\* Every token that is registered is in the end taken out of circulation, and
\* whoever marks it revoked carries the provider call through to an answer,
\* unless the broker is shut down, which may cut the call short.
EventuallyRevoked ==
  \A t \in Token :
    t \in registered ~> (tok[t].revoked /\ answer[t] # "none") \/ cancelled

\* retry.go, 11-12: a revocation whose attempts are exhausted, whether the
\* worker's or a request's, "will retry again on the next worker tick".
FailedRevocationRetried ==
  \A t \in Token :
    cause[t] \in {"auto", "manual"} /\ answer[t] = "failed"
      ~> (worker.pc = "revoke" /\ worker.target = t) \/ cancelled

-----------------------------------------------------------------------------
(* Refinement: what TokenLifecycle sees of this state.                     *)

Phase(t) ==
  IF t \notin registered THEN "absent"
  ELSE IF tok[t].revoked THEN cause[t] ELSE "live"

Lifecycle == INSTANCE TokenLifecycle WITH
  phase    <- [t \in Token |-> Phase(t)],
  deadline <- [t \in Token |-> IF t \in registered THEN tok[t].expiresAt ELSE 0],
  ceiling  <- [t \in Token |-> IF t \in registered THEN Ceiling(t) ELSE 0],
  ended    <- revokedCount

\* Every critical section of the store is one step of the abstract lifecycle of
\* one token, or none: however requests and worker interleave, a token behaves
\* as if each operation were atomic.
ImplementsLifecycle == Lifecycle!Spec
=============================================================================
