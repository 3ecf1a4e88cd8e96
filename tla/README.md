# Verification of the JIT access broker

This directory holds TLA+ models of the broker, TLC configurations that check
them on small instances, and TLAPS proofs of what holds for every instance.
Everything is translated from the Go source; where a comment or document says
something else, the difference is a finding (section 5).

## 1. The system

| Part | State it keeps | Operations | Talks to |
|---|---|---|---|
| Token store (`store/store.go`) | `tokens` map, expiry heap `pq`, `revokedCount`, one mutex | `Add`, `Get`, `List`, `Extend`, `RevokeNow` | provider, retry revoker, audit log; the mutex is released around every such call |
| Worker (`Store.Run`) | none of its own; the tick it is working on | `fireWarnings`, then `revokeExpired`, every 100 ms | store, notifier, retry revoker |
| Expiry heap (`tokenHeap`) | array of pointers, ordered by `ExpiresAt` read through them | `container/heap` Push and Pop | store |
| Retry revoker (`retry/retry.go`) | none between calls | `Revoke`: attempts, audit event, backoff | provider, audit log |
| Providers (`providers/`) | secrets with leases, outside the broker | `Issue`, `Revoke`; `Validate` for PagerDuty and Jira | called by store, handlers, engine |
| Persistence and recovery (`persistence/`, `store/reliability.go`) | one JSON file | `SaveAll`, `LoadActive`, `RecoverMissedExpirations`, `PersistAll` | store, provider |
| Process (`main.go`) | worker context | start, signal, `cancel`, `PersistAll`, `Shutdown` | all |
| HTTP API (`api/server.go`) and Slack (`slack/`) | none but the locals of each request | grant, extend, revoke, list, break-glass | engine, provider, store, audit log; waits for all of them |
| Validation engine (`auth/engine.go`, `providers/pagerduty.go`, `providers/jira.go`) | validator table | `Validate` | PagerDuty, Jira, whose tickets change meanwhile |
| Break-glass (`breakglass/`) | approver keys | `Verify`, `Activate` | provider, audit log |
| Configuration (`config/config.go`, `models/models.go`) | read once at start | `Load`, `Validate`, `Default` | wired into all by main |
| Audit log (`audit/`) | append-only events, never read back | one method per event | written by handlers, worker, retry revoker |
| Notifiers, CLI | none | | |

What makes it hard: the store's mutex protects single critical sections, but
`Extend` needs two of them with a provider call between, `RevokeNow`, the
ceiling and the worker race to end the same token, the worker acts on ticks
that may be old, the heap's keys live in records that `Extend` changes in
place, provider calls fail, lose replies or take as long as they like, and the
state reaches disk only at a graceful shutdown. A handler decides on what the
ticket said and on what the store knew a while ago.

What makes each part correct:

* store: a token ends once, for a true reason, and stays ended; extensions
  respect the session ceiling; every live token can be found by the worker;
* worker: every token is revoked in the end, none early; one warning per window;
* heap: holds what was pushed, pops in order of expiry;
* retry revoker: returns, reports every failure, claims success only if the
  provider took a secret back, and stops soon after a cancellation;
* recovery: a token that was live at shutdown is live or revoked after restart,
  within the ceiling it had, and a revocation that is on file is never undone;
* API: nothing is granted or extended without a context that was valid during
  the request; a denied extension leaves no token live in the store; no request
  hangs; the audit trail says of each token what happened, and once;
* engine: exactly somebody who is at work on the ticket is confirmed;
* break-glass: two different approvers, known by their ids, whose keys signed
  what the request reads as, all of them and only they in the audit event, and a
  positive lifetime within the maximum;
* configuration: what a broker that starts runs with lies within the limits.

The list of hazards, each at its line, is in `PROJECT.json`.

## 2. Modules

| Module | Models | Used by |
|---|---|---|
| `ExpiryHeap` | `tokenHeap` and `container/heap`'s up and down, as operators over an array and a key function | `ExpiryQueue`, `TokenStore` |
| `ExpiryQueue` | pushes and pops with keys nobody changes | `MCExpiryQueue` |
| `Provider` | secrets and leases at the target provider | `TokenStore` |
| `TokenStore` | store, worker, ticker, requests, clock, shutdown signal | `MCTokenStore`, proofs |
| `TokenLifecycle` | what the store promises of one token, without locks, heap, worker and provider | refined by `TokenStore` |
| `RetryRevoker` | one `Revoke` call | `MCRetryRevoker` |
| `RevokeCall` | what such a call promises; the part `TokenStore` assumes | refined by `RetryRevoker` |
| `BrokerRestart` | the process around `TokenStore`: start, recovery, state file, shutdown, crash | `MCBrokerRestart` |
| `ContextEngine` | the decision of `Engine.Validate` and both validators, as operators | `AccessApi`, `Admission` |
| `AccessApi` | the request handlers, the ticket and the audit trail, around `TokenStore` | `MCAccessApi`; implements `TokenStore` |
| `Limits` | the constants of `models.go` | `Settings`, `BreakGlass` |
| `Settings` | what a configuration file turns into, as operators | `Admission` |
| `BreakGlass` | `Verify`'s loop and `Activate` | `Admission` |
| `Admission` | configuration, decision by context and break-glass together: whether a token is granted and for how long | `MCAdmission` |
| `ExpiryHeapProofs`, `ExpiryQueueProofs`, `TokenStoreProofs`, `WorkerProofs`, `RetryRevokerProofs`, `BrokerRestartProofs`, `AccessApiProofs`, `AdmissionProofs` | theorems about the module of that name (`WorkerProofs`: `TokenStore`; `AdmissionProofs`: `BreakGlass` too) | |

The two compositions share nothing but their parts: `AccessApi` is about the
order of things (who does what to which token, and when), `Admission` about the
values (which decision, which lifetime). What `Admission` lets through is what
`AccessApi` assumes of a grant: `GrantTTL` stands for the lifetimes
`GrantsWithinLimits` allows.

### TokenStore

One action is one critical section of the store's mutex, or one call to the
provider or the notifier, which the code makes with the mutex released. Between
two actions anything else may happen.

* `client[c]` is a request goroutine: its `pc` says where in the handler it is,
  and holds the locals the code carries across an unlock (the token, the new
  secret). `worker` is the goroutine of `Run` with its tick, the tokens still to
  be notified, or the token being revoked.
* `Grant`, `Add`: `Issuer.Issue` in a handler, then `Store.Add`. `GrantTTL`
  holds every TTL a handler may issue with (`token_ttl`, the break-glass TTLs).
* `Extend` is `ExtendNormal`, `ExtendClamped` or `ExtendForcesRevocation` (its
  first critical section), then `Reissue` or `ReissueFails`, then `SwapSecret`;
  at the ceiling `ForceRevoke` instead. An `Extend` or `RevokeNow` that is
  refused changes nothing and is no action.
* `RevokeNow` and `ManualRevoke`: the mark, then the call.
* `TickerFires`, `WorkerWakes`, `MarkWarnings`, `Notify`, `ScanSkips`,
  `ScanClaims`, `AutoRevoke`, `ScanEnds`, `WorkerStops`: one round of `Run`. The
  ticker's channel holds one tick, so the worker may work with an old time.
* `leases[t]` lists every secret the provider ever issued for `t`; a secret is
  its position in that list. Killing a secret and having read it from the record
  is one action: the kill commutes with the swap and with time, and a read of a
  half-written string (the code reads `Token` without the mutex) is a call the
  provider rejects, which `RevokeFails` covers.
* `LeaseUntil` is when the lease of a new secret ends: the TTL asked for in whole
  seconds, rounded towards zero as `VaultClient.Issue` does; zero is no TTL to
  Vault, which then grants its `DefaultLease`. A clamped extension may ask for
  less than a second, or, if the ceiling has passed meanwhile, for a negative
  number, which is refused (`Askable`).
* A provider call may fail before or after it took effect.
* `cause`, `answer` and `warned` are history variables; no action reads them.

Not in the model: the time that passes inside a provider call between the
request and the creation of the lease, and the wiring-time setters. The mode
without a retry revoker (tests only) differs by a single attempt and has no
further outcome.

### RetryRevoker

The loop of `Revoke` step by step, with the two places where it looks at the
context, the audit event of each failure and the pause that nothing interrupts.
Around it the secret may be swapped and the context cancelled at any moment.
Durations are whole units; with `BaseDelay = 20` a unit is 50 ms.

### BrokerRestart

`proc` is `down`, `boot` (main before the worker and the server) or `up`. While
it is up every action of `TokenStore` may happen, as `Request`, `Handler`,
`WorkerStep` and `TickerStep`; `Clock` runs always.

* `Signal`, `StartWrite`, `FinishWrite`, `Rename` or `SaveFails`, `Exit`: main's
  signal goroutine. Requests and worker run on between these steps, and `Exit`
  waits for none of them: `Shutdown` makes `ListenAndServe` return, and main
  with it.
* `Crash` ends the process at any step, also during recovery. `ProcessEnds`
  is what both leave: memory gone, the file, the provider and the history kept.
* `Start`, `Readd`, `MarkMissed`, `RevokeMissed`, `BootEnds`:
  `RecoverMissedExpirations`. `boot` holds the time it read at its beginning and
  the two lists it split the records into. Records are taken in any order (the
  file is written in the order of a Go map).
* `file` and `tmp` are the state file and the temporary one; `whole` is false
  while only part of the data has been written. A file that is not whole cannot
  be parsed, and recovery gives up with an empty store. A whole file can be
  read: errors of the disk on reading are not modelled, those on writing are.

### ContextEngine

`Validate(request, ticket)` is "ok", "denied" or "error". Text is a word with a
mark for its spelling, so that what the code compares exactly (PagerDuty's
status, the ids) and what it folds (names, the type, Jira's status) stay apart;
`Blank` is a field that is empty or missing. The `http` field of a ticket is how
the exchange with its system ends: 404 denies, everything else that is not 200
is an error. `InContext` states what the decision is for without the code's
order of tests.

### AccessApi

`handler[c]` is the part of request `c` outside the store, `client[c]` its store
operation; a handler step that calls the store is one step of both. In between
the request waits for PagerDuty, Jira or the provider, and everything else may
happen: other requests, the worker, time, and `ContextChanges`, somebody working
on the ticket.

* `ReceiveAccess`, `ReceiveSlack`, `ReceiveBreakGlass`, `ReceiveExtend`,
  `ReceiveRevoke`: the request up to its first wait. `extendAccess` and
  `revokeToken` have looked the token up by then (`Store.Get`) and act on it by
  id afterwards, whatever it has become.
* `ValidationPasses`, `ValidationDenies`, `ValidationFails`: the lookup sees the
  ticket as it is at that moment, or fails. A denied extension goes on to
  `RevokeNow`, as in the code.
* `IssueToken`, `IssueRefused`, `AddIssued`: provider, then `Store.Add`. The
  break-glass event is written before `Add`, the one of `requestAccess` after,
  Slack writes none (section 5).
* `ExtendToken`, `ExtendReturns`, `RevokeToken`, `RevokeReturns`: the store's
  operations, each refused if the token has ended meanwhile.
* `LogOutcome`, `WorkerRevokes`: the audit events after the fact. `logged`
  counts them by token and kind; `origin` and `inOrder` are history variables.

A refusal that needs no look at anything but the request changes no state and is
no action; neither is `listTokens`. A client that hangs up cancels `r.Context()`
and makes the remaining calls of its request fail, which they may do here at any
time. The shutdown is left to `BrokerRestart`. `Issuable` and `ExtensionsBegun`
keep requests that could only run into a bound of the model from arriving.
`CanGoOn` is what a handler's next step asks of the store; `NoHandlerWaits` says of
each handler that has begun that this holds, and that the step is enabled.

### Settings and Limits

A duration in the file is absent, garbled or a number; `Load` yields the record
main wires the broker with, or `Refused`. `Acceptable` and `OrDefault` follow
the order of `Validate`: the checks, the defaults for values that are zero or
negative, and the check of the session ceiling among them. `max_tokens_per_user`
and `vault.token_ttl` are read by nothing.

### BreakGlass

`CheckSignature` is one pass through the loop of `Verify`: the `continue`s in
`Counts`, then the set and the list it fills side by side. `Decide` is the
quorum and `Activate`'s lifetime, with the product wrapping as int64 does, in a
word of `2 * HalfWord`. The terms of a request are three texts, sequences over
`Character`, and the minutes. `CanonicalMessage` joins the texts with `Bar`, as
the code does, whatever bars they have themselves; the minutes come last and have
none, and stay a number. A signature names an approver, the key it was made with
and the terms its maker had before him (`over`); that Ed25519 accepts a signature
exactly if key and message fit is assumed. `Signers` are the approver ids whose
key signed the message, `Endorsers` those whose key signed these very terms.
Approvers are ids: `Trusted` may give two of them one key.

### Admission

`Configure` is main's start with a file or without one, `DecideByContext` the
decision of `requestAccess` and Slack with the configured lifetime,
`BreakGlassStep` the other route. One request at a time is enough: these parts
keep no state between requests.

## 3. Runs

| Run | Instance | Shows |
|---|---|---|
| `order` | 6 tokens, 3 expiries, symmetry | sift loses nothing, keeps order, pops in order |
| `session` | 1 token, 2 requests, 2 extensions, session of two and a half TTLs of one second each, warnings on, shutdown, clock past the ceiling | types, ceiling, one revocation per token, reasons are true (on old ticks too), one warning per window, revoked is final, a confirmed revocation leaves at most one secret per extension alive, refinement of `TokenLifecycle` |
| `scan` | 2 tokens of different TTL, 1 request, 1 extension each, fair scheduling | every live token in the heap, complete scans as long as nothing is extended; every token ends and its revocation is answered |
| `call` | 4 attempts, 2 secrets, cap reached by the third pause | the retry loop's properties and its refinement of `RevokeCall` |
| `restart` | 1 token, 1 extension, one shutdown, one crash at any step, saves that may fail, fair scheduling | the file stays whole; recovery takes each active record to exactly one side and into the heap; the store is never behind its file; a revocation on file is final; what is on file ends |
| `api` | 1 token, 2 requests of any kind, an incident that changes, clock past the ceiling | nothing granted or extended out of context, denied extensions end the token, the audit trail, no handler waits for ever, refinement of `TokenStore` |
| `admission` | every configuration file over 5 durations, every spelling and absence of names, up to 3 signatures out of 8 kinds, 3 requests two of which read the same, two approvers with one key, every value of a small word | the decision by context, the limits, the quorum, the approvers named, the emergency lifetime |
| `scan_violation`, `retry_violation`, `secret_violation`, `orphan_violation`, `trail_violation` | 1 or 2 tokens | the findings of section 5 |

Bounds. Races need two actors and one token; a second token is needed for the
heap to have an order and for the worker to be busy elsewhere. In `session` a
second is two units, the first extension is a normal one, the second is clamped and
may leave one unit, which is rounded to nothing, and a third would meet the
ceiling; in `api` every extension is clamped at once, or forces a revocation when it
comes at the ceiling. Elsewhere a second is one unit and nothing is rounded. The
horizon lies at or past the longest ceiling in each of them, so forced revocation
happens, and ticks can be one or more units old. Three tokens in a heap are where sifting
starts to choose a child; `order` has six, three levels, with ties.
In `scan` tokens come in with two lifetimes, so that a heap that is out of order by
an extension and one that is not both occur while the worker scans.
`IssueBy` bounds when tokens are issued, `MaxExtensions` how often one is
extended, `Horizon` the clock, `MayShutDown` whether a shutdown signal may come; no
other counter grows without limit. There is no signal in `scan`, whose promise ends with
one; what happens after it is in `session` and `restart`.
In `api` two requests are any two of the five kinds at any two stages: one
extends while another revokes, one is denied while another is confirmed. A third
would meet the same token and the same ticket in the same states. In `admission`
`MaxTTL` is two minutes of three units and the word has 32 values, so minutes
overflow into negative products as well as small positive ones; three signatures
are the least with which a quorum can be missed by repetition and reached
nevertheless. Texts of up to three characters, one of them a bar, are the least of
which two different requests are joined to the same message.
`CHECK_DEADLOCK FALSE` where the broker may have been shut down, main has exited on
a bad configuration, or all tokens are used up and the bounded clock stops.

Fairness (`TokenStore!Fairness`): weak fairness of the clock, and until the
shutdown signal of the ticker, the worker and each request that has begun. After
the signal nothing of the process is fair: main cancels, persists, calls
`Shutdown` and returns without waiting for the worker or a late handler, so a
revocation under way may be cut off (`BrokerRestart!Exit`). That is why
the promise of `EventuallyRevoked` ends with the shutdown. Go runs every goroutine
that can run; a provider or notifier call is assumed to return (the Vault client has no timeout
of its own, a hung connection would stop the worker, and this is an
assumption). No request has to arrive and no shutdown has to happen. In the
fair runs the horizon lies at or beyond the end of the longest session, so "in the
end" is within the clock. `BrokerFairness` adds that a broker that is down is
started again (the service manager's part; without it nothing can end a token)
and that main's own steps at start and shutdown go on. Signals and crashes are
never fair, and there are boundedly many: `MaxShutdowns`, `MaxCrashes`.

The `restart` run has one token: recovery treats each record by itself, and the
only thing two records share is the heap, whose operators the other runs check.
One crash and one shutdown give up to three lives of the process, among them a
recovery that is cut short and repeated, and an old file read a second time.

## 4. Proofs

For every set of tokens, requests, tickets and approvers, and every TTL, ceiling
and bound:

| Module | Theorem | Says |
|---|---|---|
| `ExpiryHeapProofs` | `HeapPushCorrect` | a push adds exactly its token, keeps the array free of repetitions and in order if it was |
| | `HeapPopCorrect` | a pop takes exactly the first token out, also of a disordered array, and keeps it in order if it was |
| `ExpiryQueueProofs` | `HoldsQueuedAlways` | `Spec => []HoldsQueued` |
| | `OrderedAlways` | `Spec => []Ordered` |
| | `PopsInOrderAlways` | `Spec => PopsInOrder` |
| `TokenStoreProofs` | `TypeCorrect` | `Spec => []TypeOK` |
| | `RevocationIsFinal` | `Spec => RevokedIsFinal` |
| | `CeilingHolds` | `Spec => []SessionCeiling`, if no grant is longer than a session |
| | `EndedForCauseHolds` | `Spec => []EndedForCause` |
| | `RevokedOnceHolds` | `Spec => []RevokedOnce` |
| | `StoreImplementsLifecycle` | `TokenStore` implements `TokenLifecycle` |
| `WorkerProofs` | `OneWarningHolds` | `Spec => []OneWarningPerWindow` |
| | `NeverUnscheduledHolds` | `Spec => []NeverUnscheduled` |
| | `ScanCompleteHolds` | `Spec => ScanCompleteUnlessExtended` |
| | `ScanBounded` | a scan turns at most once for each token due, queued or on its way in, when it began |
| | `SurvivorsHolds` | `Spec => []SurvivorsBounded` |
| `RetryRevokerProofs` | `LoopTypeCorrect` | `Spec => []TypeOK` |
| | `StallHolds` | `Spec => []StallBounded` |
| | `AuditHolds` | `Spec => []EveryFailureAudited` |
| | `StopsSoonHolds` | `Spec => []StopsSoon` |
| | `LoopImplementsCall` | every step of the retry loop is a step of `RevokeCall` or none |
| | `LoopTerminates` | the loop makes at most six steps per attempt, and until it returns it has one to make |
| `BrokerRestartProofs` | `BrokerTypeHolds` | `BrokerSpec => []BrokerTypeOK` |
| | `FileAlwaysWholeHolds` | `BrokerSpec => []FileAlwaysWhole` |
| | `RecoverySplitsHolds` | `BrokerSpec => RecoverySplits` |
| | `RecoveredAreScheduled` | `BrokerSpec => []NeverUnscheduled` |
| | `StoreNotBehindFileHolds` | `BrokerSpec => []StoreNotBehindFile`, if no grant is longer than a session |
| | `CeilingSurvivesRestarts` | `BrokerSpec => []SessionCeiling`, under the same premise |
| | `RecoveredEndForCause` | `BrokerSpec => []EndedForCause` |
| | `RevokedOnFileHolds` | `BrokerSpec => RevokedOnFileIsFinal` |
| | `RevokedIsFinalWhileUp` | `RevokedIsFinal` within each life of the process |
| | `OneWarningWhileUp` | `BrokerSpec => []OneWarningPerWindow` (warnings are counted from the start of the process) |
| | `RecoveryTerminates` | recovery comes nearer to its end with every step it makes |
| `AccessApiProofs` | `ServerImplementsStore` | `AccessApi` implements `TokenStore` |
| | `ApiTypeCorrect` | `ApiSpec => []ApiTypeOK` |
| | `DenialEndsTokenHolds` | `ApiSpec => DenialEndsToken` |
| | `ActsInContextHolds` | `ApiSpec => ActsInContext` |
| | `GrantLoggedHolds` | `ApiSpec => []GrantLogged` |
| | `RevocationLoggedHolds` | `ApiSpec => []RevocationLogged` |
| | `ServerKeepsPromises` | the theorems about `TokenStore`, of the server |
| | `HandlersCanGoOn` | each handler that has begun finds the guard of its next step true, for finitely many requests |
| `AdmissionProofs` | `ContextDecidesHolds` | `AdmissionSpec => []ContextDecides` |
| | `QuorumHolds` | `BgSpec => []QuorumDistinct` |
| | `ApproversNamedHolds` | `BgSpec => []ApproversNamed` |
| | `LifetimeHolds` | `BgSpec => []LifetimeInRange` |
| | `GrantsStayWithinLimits` | `AdmissionSpec => []GrantsWithinLimits` |

`ServerImplementsStore` carries the theorems about `TokenStore` over to the
server (`ServerKeepsPromises`), and `StoreImplementsLifecycle` carries them down to the life of one
token: registered, renewed, ended once. With `LoopImplementsCall` the store's
view of a revocation rests on the loop that makes it.

**Assumptions.** `TimesAssumption` and `DurationsAssumption`: durations are
naturals, positive where the code divides by them or adds them as a lifetime,
and the jitter is a percentage.
`TokensAssumption`: finitely many tokens, `NoToken` none of them.
`ConfiguredTTL`: the TTL is among the lifetimes a grant may get.
`LeaseAssumption`: a second is a positive number of units.
`LimitsAssumption`: the compiled-in limits are positive and `MaxTTL` fits in
`MaxSessionDuration`. `ConfigAssumption`: the durations in a file are integers.
`BreakGlassAssumption`: the bar is a character, `NoKey` is no key, a trusted
approver has a key or `NoKey`, and `MaxTTL` fits in an int64.
`EmergenciesAssumption`: a request has terms (three finite texts and int64
minutes) and a finite list of signatures over terms. And, in the shape of the
model, that a rename reaches the disk after the data it names: `SaveAll` does not
sync, so `FileAlwaysWhole` holds of a process that dies, and of a machine that
dies only if its file system keeps that order. `CeilingHolds`,
`StoreNotBehindFileHolds` and `CeilingSurvivesRestarts` have a premise besides: no
grant is longer than a session. Nothing in the configuration checks that (see the hazards), and where
it fails the first grant is already past the ceiling, and the extension that
clamps it moves its expiry back, behind the one on file.

**The heap.** `SiftPath` is a recursive function, and what it computes needs an
induction. The library's induction theorems take a predicate, which the provers
cannot instantiate; the lemma `Induction` takes a set instead (one that holds 0 and with n
also n + 1 holds every natural) and follows from well-foundedness. By it `SiftPathChain` says that a
path is a chain of places, each the child or the parent the code goes to next,
that ends where the code stops. `SiftPermutes` turns the swaps along a chain into a
permutation, hence `HeapPushElements` and `HeapPopElements`, which need no order: a
heap that an extension has disordered loses nothing. `UpSifted` and
`DownSifted` say where the order may be broken while the sift is under way: around
the one element that moves.

**The queue.** In `ExpiryQueue`, where keys stay, `QueueInv` adds that nothing
queued expires before what was popped last. In the store, `Scheduled` is the
inductive form of `NeverUnscheduled`: the array has no repetitions, holds
registered tokens only, and all that are live. `InOrderUnlessExtended` keeps the heap
order until the first extension, and an ordered heap whose root is not due has
nothing that is.

**The store.** `TypeOK` is inductive with `HoldsToken` (whoever is inside an
operation has a token). `StepKinds` sorts every step by what it does to a token
record: nothing that matters, a grant, a registration, an extension, an end; the
other proofs about the store go through it. `Registration` says that a token is
handed to `Add` once and by one request, which is what keeps `Add` from touching
a known token. `Sessions` strengthens the ceiling to tokens on their way to
`Add`; `Reasons` adds that ticks lie in the past; `Responsible` says that whoever
is in a provider revocation marked the token itself, alone, and nobody has
answered; `Accountable`, that it is the one the token's end is attributed to.

**Secrets.** `SurvivorsBounded` says what is left of the promise that
`secret_violation` refutes. `SecretsCounted` keeps the account: the secrets issued for
a token and the requests that have still to ask for one are together at most one
more than the extensions in its record (`IssuingKinds`: an extension promises one, asking uses
the promise up, whatever the answer). `SecretsKnown` says that a record and a
request about to swap name secrets that exist, so that a confirmed revocation
killed one of them. The bound is reached: with two extensions both other secrets
can survive. It is a bound within one life of the process, since a crash may lose the count of an
extension that was not yet on file.

**The scan.** `revokeExpired` gives the mutex away for every provider call, and
requests may push and extend meanwhile. `Overdue` is what a scan can still come
across: a grant is past the tick already, an extension only moves a token away from
it (`ExpiryMoves`), so `Overdue` shrinks with every pop and never grows. That the
worker gets back from the provider is left to fairness.

**Warnings.** `OneWarningPerWindow` counts what was sent and what the worker has
taken down to send. It is not inductive: it does not see the mark that keeps the
worker from taking a token down again. `WarnInv` adds what an unmarked record still
allows, and that only the notifying worker holds such tokens.

**The life of a token.** The refinement needs `LifeInv`: the inductive invariant, the
reasons, and `Pending`: a token that is not registered belongs to no session,
and one on its way to `Add` was issued in the past for a lifetime some handler
grants. The lemmas `AddRegisters`, `ExtendsRenews`, `EndsEnds` and
`TimeMoves` map the kinds of steps, one each.

**Restarts.** `BrokerInv` is the store's invariants with `Scheduled`
(`MemoryInv`), what is on disk and which records are complete (`DiskInv`), which
stages of process and shutdown go together (`ProcessInv`), and how far recovery has
got (`RecoveryInv`: every active record is on one of the two lists, on the
right one, or has been dealt with). `BrokerKinds` sorts the steps: those of the store,
those that leave memory alone, the end of the process, the three of recovery. The store's lemmas do
the first kind. `CoverInv` makes `StoreNotBehindFile` inductive: it holds of the save under
way too, and no session, in memory or on file, is past its ceiling, so that no
extension moves an expiry back; the ceiling over restarts comes with it.
`Buried` makes `RevokedOnFileIsFinal` inductive: the token has been added before,
so no request adds it again, and neither memory, nor the file, nor the save
under way has it as live. `FileBuries` says that being revoked on file is enough
for that, which a new file earns through `SavedAsRevoked`. A revocation that only
memory knows is undone by a crash (the old file has the token active), which is
why the property is about the file. While the process is up, memory keeps what it
knows: `RevokedIsFinalWhileUp` needs that recovery registers a record only once,
and `OneWarningWhileUp` that the worker is at rest and owes no warning until the process is
up (`QuietBeforeUp`). `RecoveryLeft` counts the records recovery has still to
deal with, twice for those it revokes; the only step of it that brings it no nearer is
a revocation whose reply is lost, and those `LoopTerminates` bounds.

**The server.** `ApiInv` is the typing of the handlers' own state. `Paired` puts a
handler's place and its store operation in step. `Denials` adds
what the handler remembers between its verdict and its answer: it extends a
registered token, and one whose extension was denied is still on its way to
revoke that token or has found it revoked. `ContextNoted` says that a request
that waits for its lookup has noted whether the ticket was in order since it
came in, and that one which goes on to issue or extend has noted that it was;
`ConfirmedIsInContext` is the link to the engine's decision.
`CanGoOn` lists, place by place, what the next step of a handler asks of the
store: most ask nothing, a revocation asks that the token is live or that it has
ended, an extension besides that the count is within the model's bound.
`Begun` counts the extensions on their way, so that requests cannot use each
other's up; that set has to be finite for its size to mean anything, hence the
premise of `HandlersCanGoOn`.

**The audit trail.** What is documented (every grant, every revocation, the
outcome) does not hold (section 5). `GrantLogged` and `RevocationLogged` are what
holds: no event twice, none without its cause, none missing that a handler owes.
They count an event as pending when some handler is about to write it, which two
handlers might be. `Trail` says that an event that is due is written or owed by
exactly one of them. `RecordKinds` and `WorldRecords` sort the steps by what they do
to the trail. That an end becomes due only once comes from `Responsible` and
`Accountable` (whoever hears from the provider is alone and is the one named in
`cause`); that a grant does, from `Registration`. `GrantFits` and `EventsFit` lead
from the account to the two properties.

**The engine, break-glass and limits.** `ContextDecides` follows from two
lemmas about `Validate`, one per direction, and from the fact that the
verdict recorded is the one for the request and ticket recorded.
`BgInv` says that the list of those who signed, in the order found, has no
duplicates and is the set of the approver ids whose signature verified: that is
`ApproversNamed`, and with `QuorumHasTwo` the first and last part of
`QuorumDistinct`. Its middle part, that signers of a request without bars signed
that very request, is about joined texts (`PlainIsUnambiguous`). `MessageLayout`
says where each character of a message comes from. A request without bars has
exactly two in its message, after the first text and after the second; another
request with the same message has at least the bars that join it, at its own
borders, so these are the same two places, and the texts between them are equal.

**The retry loop.** `Attempts` relates failures and audit events to the attempt
number at each place of the loop; `Stopping` says that the one thing done after
a cancellation leaves the loop where it looks at the context next; `Carried`, that
an attempt carries a secret the record has held during the call. The backoff doubles: `PowerOfTwo` is a
recursive function, whose existence `RecursionExists` shows by `Induction`.
`Paced` bounds what the pauses so far add up to by the longest ones possible
up to this attempt. `LoopImplementsCall`
is about steps. `StepsLeft` is the variant of the loop: six
steps per attempt still allowed, less those of the present one. `LoopTerminates` shows
that it falls with every step of the loop and that a step is open until the
call returns, since a pause can always be drawn
(`JitterExists`); only that an open step is taken is left to fairness.

**Only model-checked.** What is about liveness under fairness: `EventuallyRevoked`,
`Returns`, `ImplementsRevokeCall` (its fairness; its steps are
`LoopImplementsCall`), `RecordedEventuallyEnds`. And the half of `NoHandlerWaits`
that is about ENABLED, which the provers do not know; its other half, that the
guards in `CanGoOn` hold, is `HandlersCanGoOn`; the run checks both.
What can be said of termination without fairness is proved: `LoopTerminates`,
`RecoveryTerminates`, `ScanBounded`. Every other property of the passing runs is a
theorem.

## 5. Findings

Each is a run in which TLC finds the quoted statement violated; `PROJECT.json`
has the lines.

* **A scan can leave due tokens behind** (`scan_violation`). `Extend` moves
  `ExpiresAt` of a token in the heap without `heap.Fix`. The root may then be
  the extended token while a due one sits below it, and the scan ends at the
  root. The due token outlives its expiry until the extended one is due; it is
  not lost (`NeverUnscheduled`, `EventuallyRevoked` hold), and without
  extensions scans are complete (`ScanCompleteUnlessExtended`).
* **A failed revocation is never tried again** (`retry_violation`). The token
  has left the heap and is marked revoked when the call gives up, so there is no
  "next worker tick" for it, and nothing sets `revocation_pending`.
* **Revoking an extended token leaves secrets alive** (`secret_violation`). Each
  extension issues a new secret and forgets the old one, and the swap stores a
  new secret also in a token revoked meanwhile. What does hold is
  `SurvivorsBounded`: at most one for each extension, and none of a token that was
  never extended.
* **A graceful shutdown can orphan a token** (`orphan_violation`). The state is
  written once, while the server still answers; what is granted after
  `PersistAll` has read the map is on no disk. A revocation that the shutdown cuts
  off or makes fail is an orphan too, since the file has it as revoked or not at
  all. What is active on file does end (`RecordedEventuallyEnds`).
* **A token can come and go without a trace in the audit log** (`trail_violation`).
  `README.md:38` and `SECURITY.md:45` say that every grant and every revocation is
  logged, and `audit.go:161` has a name for those at the session ceiling. Grants
  through Slack (`slack.go:138`) and revocations at the ceiling (`store.go:217`) are
  not; the run has a token with both. The other grants are logged once, and so is each
  successful revocation by the worker or by request (`GrantLogged`, `RevocationLogged`).

Met on the way, without a run: what follows from the text of the code alone, or
is stated of it nowhere.

* An extension promises more than it obtained. The record moves before the
  provider is asked and stays moved when the answer is an error (`store.go:271`),
  of which the caller hears that nothing was extended; when there is none, the lease
  runs one TTL from now while the record moves one TTL from its old expiry
  (`store.go:267-269`). Either way the secret dies before the recorded expiry, although
  the comments at 236 and 267 speak of extending the "real TTL".
* The worker logs `revoked`, always with outcome success, when its call is over,
  whether or not the provider took the secret back (`store.go:392`), although
  `audit.go:43` says the outcome tells. Requests log successes only.
* A denied extension is answered with "token revoked" whatever became of the
  revocation: `server.go:187` drops the error. In the store the token has ended
  (`DenialEndsToken`), at the provider perhaps not.
* `CanonicalMessage` does not escape the bars in the texts it joins
  (`breakglass.go:158`), so different requests may read the same; as long as a
  request has none itself its signatures are over this very request
  (`QuorumDistinct`), which is less than `breakglass.go:5-7` says.
* A quorum counts approver ids (`breakglass.go:110`). Two ids configured with one
  key are two approvers, where `breakglass.go:10-12` says that no single person
  suffices; nothing looks at this in the configuration.
* A break-glass lifetime above the maximum is clamped (`breakglass.go:134`), as
  `TestTTLCeiling` expects, where `models.go:89-90` says rejected.
* `LogRequested` and `LogWarningSent` have no caller.
* A clamped extension of less than a second gets Vault's default lease, which may
  be longer than the session (`vault.go:52`).
* An extension is validated against the justification it brings; the one stored
  with the token (`models.go:59`) is never read. A request to extend with empty
  fields is a denial, and a denial revokes the token.
* A session ceiling below the TTL passes validation (`config.go:203`): the premise
  of `CeilingHolds` is not guaranteed.
* `max_tokens_per_user` and `vault.token_ttl` have no effect.

## 6. What is left

Not modelled:

* the command line client: stateless calls and printing;
* the fan-out of `MultiNotifier`: no state, and no error of it reaches the worker;
* HTTP and JSON themselves: methods, sizes, parse errors lead to refusals that
  change nothing; the formatting of messages and events;
* the AWS issuer, which is a skeleton in the code;
* Ed25519, hex, key generation: a signature is the key it was made with;
* wiring-time setters of the store and the mode without a retry revoker.

Worth proving next: a bound like `SurvivorsBounded` across restarts, which has to count
the extensions a crash made the broker forget; and the account of the audit trail
for the ends that recovery brings about, which `BrokerRestart` does not log.
