------------------------------ MODULE AccessApi ------------------------------
(***************************************************************************)
(* The request handlers (api/server.go, slack/slack.go) around TokenStore: *)
(* receive, validate the operational context, act on the store, write the  *)
(* audit event.  Each handler is a goroutine that waits for PagerDuty,     *)
(* Jira or the provider between these steps, while other requests, the     *)
(* worker and the people working on the ticket go on.                      *)
(*                                                                         *)
(*   handler[c]  where request c is, over and above its store operation,   *)
(*               which is client[c]                                        *)
(*   ticket      the incident or issue, as its own system has it now       *)
(*   logged      how often each audit event was written for a token        *)
(*                                                                         *)
(* A refusal that is decided on the request alone (method, JSON, missing   *)
(* id, unknown token, Slack token and e-mail map) changes no state and is  *)
(* no action; neither is listTokens.  A client that hangs up cancels       *)
(* r.Context() (Slack's handler uses none), which makes the calls to       *)
(* PagerDuty, Jira and the provider fail from then on: every such call may *)
(* fail here at any time.                                                  *)
(***************************************************************************)
EXTENDS TokenStore, ContextEngine

CONSTANTS
  Ticket,         \* the states the external ticket goes through
  Requests        \* the bodies of access and extension requests

ASSUME ConfiguredTTL == TTL \in GrantTTL

VARIABLES handler, ticket, logged, origin

apiVars == <<handler, ticket, logged, origin>>
allVars == <<vars, apiVars>>

Routes == {"access", "slack", "breakGlass", "extend", "revoke"}
Events == {"granted", "breakGlass", "extended", "revoked"}

\* inOrder is history: the ticket was in order at some moment of
\* the request before it was acted on.
NoRequest == [who |-> Blank, resource |-> Blank, kind |-> Blank, ref |-> Blank]
Free == [pc |-> "free", route |-> "access", request |-> NoRequest, token |-> NoToken,
         denied |-> FALSE, inOrder |-> FALSE]

HandlerRecord ==
  [pc : {"free", "validate", "act", "add", "extend", "revoke", "log"},
   route : Routes, request : Requests \cup {NoRequest}, token : Token \cup {NoToken},
   denied : BOOLEAN, inOrder : BOOLEAN]

ApiTypeOK ==
  /\ TypeOK
  /\ handler \in [Client -> HandlerRecord]
  /\ ticket \in Ticket
  /\ logged \in [Token -> [Events -> Nat]]
  /\ origin \in [Token -> {"none", "access", "slack", "breakGlass"}]

ApiInit ==
  /\ Init
  /\ handler = [c \in Client |-> Free]
  /\ ticket \in Ticket
  /\ logged = [t \in Token |-> [e \in Events |-> 0]]
  /\ origin = [t \in Token |-> "none"]

-----------------------------------------------------------------------------
(* Helpers.                                                                *)

HandlerGoes(c, pc) == handler' = [handler EXCEPT ![c].pc = pc]

\* The handler writes its response and the goroutine ends.
Respond(c) == handler' = [handler EXCEPT ![c] = Free]

Log(t, event) == logged' = [logged EXCEPT ![t][event] = @ + 1]

Receive(c, route, request, t, pc) ==
  /\ handler[c].pc = "free"
  /\ handler' = [handler EXCEPT ![c] =
       [Free EXCEPT !.pc = pc, !.route = route, !.request = request, !.token = t,
                    !.inOrder = request # NoRequest /\ InContext(request, ticket)]]
  /\ UNCHANGED <<vars, ticket, logged, origin>>

-----------------------------------------------------------------------------
(* A request comes in.                                                     *)

\* The bounds Token and IssueBy: with no token left to issue, a request for one
\* can only end in a refusal.
Issuable == now <= IssueBy /\ \E t \in Token : leases[t] = << >>

ReceiveAccess(c, request) ==
  Issuable /\ Receive(c, "access", request, NoToken, "validate")

\* Handle: the request is made of the words of the command and the e-mail.
ReceiveSlack(c, request) ==
  Issuable /\ Receive(c, "slack", request, NoToken, "validate")

\* Manager.Verify has found its quorum (module BreakGlass).
ReceiveBreakGlass(c) ==
  Issuable /\ Receive(c, "breakGlass", NoRequest, NoToken, "act")

\* The bound MaxExtensions, counting the extensions that are on their way.
ExtensionsBegun(t) ==
  tok[t].extensions + Cardinality({c \in Client :
    handler[c].route = "extend" /\ handler[c].token = t
      /\ handler[c].pc \in {"validate", "act"}})

\* extendAccess up to Store.Get.
ReceiveExtend(c, t, request) ==
  /\ Live(t) /\ ExtensionsBegun(t) < MaxExtensions
  /\ Receive(c, "extend", request, t, "validate")

\* revokeToken up to Store.Get.
ReceiveRevoke(c, t) == Live(t) /\ Receive(c, "revoke", NoRequest, t, "act")

-----------------------------------------------------------------------------
(* Validation.  The lookup sees the ticket as it is now, or fails.         *)

\* All there is to see of a ticket whose system does not answer.
Unreachable == [http |-> "failed"]

Verdicts(c) == {Validate(handler[c].request, seen) : seen \in {Unreachable, ticket}}

ValidationFails(c) ==
  /\ handler[c].pc = "validate" /\ "error" \in Verdicts(c)
  /\ Respond(c)
  /\ UNCHANGED <<vars, ticket, logged, origin>>

ValidationPasses(c) ==
  /\ handler[c].pc = "validate" /\ "ok" \in Verdicts(c)
  /\ HandlerGoes(c, "act")
  /\ UNCHANGED <<vars, ticket, logged, origin>>

\* A new request is refused; a token whose extension is denied is to end.
ValidationDenies(c) ==
  /\ handler[c].pc = "validate" /\ "denied" \in Verdicts(c)
  /\ IF handler[c].route = "extend"
     THEN handler' = [handler EXCEPT ![c].pc = "act", ![c].denied = TRUE]
     ELSE Respond(c)
  /\ UNCHANGED <<vars, ticket, logged, origin>>

-----------------------------------------------------------------------------
(* requestAccess, Slack's Handle and breakGlassActivate: issue, then Add.  *)

\* Emergency tokens have any lifetime, the others the configured one.
Lifetimes(route) == IF route = "breakGlass" THEN GrantTTL ELSE {TTL}

\* Activate writes its audit event here, before the token is registered.
IssueToken(c, t) ==
  /\ handler[c].pc = "act" /\ handler[c].route \in {"access", "slack", "breakGlass"}
  /\ \E ttl \in Lifetimes(handler[c].route) : Grant(c, t, ttl)
  /\ IF client'[c].pc = "add"
     THEN /\ handler' = [handler EXCEPT ![c].pc = "add", ![c].token = t,
                                        ![c].request = NoRequest]
          /\ origin' = [origin EXCEPT ![t] = handler[c].route]
          /\ IF handler[c].route = "breakGlass" THEN Log(t, "breakGlass")
             ELSE UNCHANGED logged
     ELSE Respond(c) /\ UNCHANGED <<logged, origin>>
  /\ UNCHANGED ticket

IssueRefused(c) ==
  /\ handler[c].pc = "act" /\ handler[c].route \in {"access", "slack", "breakGlass"}
  /\ Respond(c)
  /\ UNCHANGED <<vars, ticket, logged, origin>>

\* Seeded fault: requestAccess answers as soon as the token is registered.
AddIssuedUnlogged(c) ==
  /\ handler[c].pc = "add" /\ Add(c)
  /\ Respond(c)
  /\ UNCHANGED <<ticket, logged, origin>>

\* Only requestAccess has an audit event to write after Add.
AddIssued(c) ==
  /\ handler[c].pc = "add" /\ Add(c)
  /\ IF handler[c].route = "access" THEN HandlerGoes(c, "log") ELSE Respond(c)
  /\ UNCHANGED <<ticket, logged, origin>>

-----------------------------------------------------------------------------
(* extendAccess with a valid context: Store.Extend.                        *)

\* Seeded fault: the extension is applied to the record Get returned, as if
\* nothing could have happened to the token since.
ExtendLookedUp(c) ==
  LET t == handler[c].token
  IN  /\ handler[c].pc = "act" /\ handler[c].route = "extend" /\ ~handler[c].denied
      /\ Bump(t, NewExpiry(t)) /\ Goto(c, "reissue", t, NoTime, 0)
      /\ HandlerGoes(c, "extend")
      /\ UNCHANGED <<now, registered, pq, revokedCount, leases, worker, tickBuf,
                     cancelled, history, ticket, logged, origin>>

ExtendToken(c) ==
  LET t == handler[c].token
  IN  /\ handler[c].pc = "act" /\ handler[c].route = "extend" /\ ~handler[c].denied
      /\ \/ /\ \/ ExtendNormal(c, t) \/ ExtendClamped(c, t)
               \/ ExtendForcesRevocation(c, t)
            /\ HandlerGoes(c, "extend")
         \/ ~Live(t) /\ Respond(c) /\ UNCHANGED vars
      /\ UNCHANGED <<ticket, logged, origin>>

\* Extend at the provider and back.  The revocation at the ceiling is answered
\* with a refusal and leaves no audit event.
ExtendReturns(c) ==
  /\ handler[c].pc = "extend"
  /\ \/ Reissue(c) /\ UNCHANGED handler
     \/ (ReissueFails(c) \/ ForceRevoke(c)) /\ Respond(c)
     \/ SwapSecret(c) /\ HandlerGoes(c, "log")
  /\ UNCHANGED <<ticket, logged, origin>>

-----------------------------------------------------------------------------
(* Store.RevokeNow, for revokeToken and for a denied extension.            *)

Revoking(c) == handler[c].route = "revoke" \/ handler[c].denied

\* Seeded fault: a token that has ended meanwhile is waited for.
RevokeLive(c) ==
  /\ handler[c].pc = "act" /\ Revoking(c)
  /\ RevokeNow(c, handler[c].token) /\ HandlerGoes(c, "revoke")
  /\ UNCHANGED <<ticket, logged, origin>>

\* Seeded fault: the denied extension is answered and nothing revoked.
RevokeUnlessDenied(c) ==
  /\ handler[c].pc = "act" /\ Revoking(c)
  /\ \/ ~handler[c].denied /\ RevokeNow(c, handler[c].token) /\ HandlerGoes(c, "revoke")
     \/ (handler[c].denied \/ ~Live(handler[c].token)) /\ Respond(c) /\ UNCHANGED vars
  /\ UNCHANGED <<ticket, logged, origin>>

\* Idempotent: a token that has ended meanwhile is reported as revoked.
RevokeToken(c) ==
  /\ handler[c].pc = "act" /\ Revoking(c)
  /\ \/ RevokeNow(c, handler[c].token) /\ HandlerGoes(c, "revoke")
     \/ ~Live(handler[c].token) /\ Respond(c) /\ UNCHANGED vars
  /\ UNCHANGED <<ticket, logged, origin>>

\* Seeded fault: the outcome of the revocation is not looked at.
RevokeReturnsAnyway(c) ==
  /\ handler[c].pc = "revoke" /\ ManualRevoke(c)
  /\ IF client'[c].pc = "revoke" THEN UNCHANGED handler ELSE HandlerGoes(c, "log")
  /\ UNCHANGED <<ticket, logged, origin>>

\* Only a success is logged.
RevokeReturns(c) ==
  LET t == handler[c].token
  IN  /\ handler[c].pc = "revoke" /\ ManualRevoke(c)
      /\ IF client'[c].pc = "revoke" THEN UNCHANGED handler
         ELSE IF answer'[t] = "ok" THEN HandlerGoes(c, "log") ELSE Respond(c)
      /\ UNCHANGED <<ticket, logged, origin>>

-----------------------------------------------------------------------------
(* The audit events written after the fact.                                *)

EventOf(c) ==
  CASE handler[c].route = "access" -> "granted"
    [] Revoking(c)                 -> "revoked"
    [] OTHER                       -> "extended"

LogOutcome(c) ==
  /\ handler[c].pc = "log"
  /\ Log(handler[c].token, EventOf(c))
  /\ Respond(c)
  /\ UNCHANGED <<vars, ticket, origin>>

\* Seeded fault: one event per attempt.
WorkerLogsAttempts ==
  /\ AutoRevoke
  /\ Log(worker.target, "revoked")
  /\ UNCHANGED <<handler, ticket, origin>>

\* revokeExpired logs "revoked" when the call is over, whatever came of it.
WorkerRevokes ==
  /\ AutoRevoke
  /\ IF worker'.pc = "scan" THEN Log(worker.target, "revoked") ELSE UNCHANGED logged
  /\ UNCHANGED <<handler, ticket, origin>>

-----------------------------------------------------------------------------
(* The world outside.                                                      *)

\* Somebody resolves, reassigns or picks up the incident.
ContextChanges ==
  /\ ticket' \in Ticket \ {ticket}
  /\ handler' = [c \in Client |->
       [handler[c] EXCEPT !.inOrder = @ \/ /\ handler[c].pc = "validate"
                                           /\ InContext(handler[c].request, ticket')]]
  /\ UNCHANGED <<vars, logged, origin>>

-----------------------------------------------------------------------------
HandlerStarts(c) ==
  \/ \E request \in Requests :
       \/ ReceiveAccess(c, request) \/ ReceiveSlack(c, request)
       \/ \E t \in Token : ReceiveExtend(c, t, request)
  \/ ReceiveBreakGlass(c)
  \/ \E t \in Token : ReceiveRevoke(c, t)

HandlerContinues(c) ==
  \/ ValidationFails(c) \/ ValidationPasses(c) \/ ValidationDenies(c)
  \/ IssueRefused(c) \/ \E t \in Token : IssueToken(c, t)
  \/ AddIssued(c) \/ ExtendToken(c) \/ ExtendReturns(c)
  \/ RevokeToken(c) \/ RevokeReturns(c) \/ LogOutcome(c)

\* The worker's other steps write no audit event.
WorkerElse ==
  /\ \/ WorkerWakes \/ MarkWarnings \/ \E t \in Token : Notify(t)
     \/ ScanEnds \/ ScanSkips \/ ScanClaims
  /\ UNCHANGED apiVars

ApiWorker == WorkerRevokes \/ WorkerElse

ClockAndTicker == (Tick \/ TickerFires) /\ UNCHANGED apiVars

ApiNext ==
  \/ \E c \in Client : HandlerStarts(c) \/ HandlerContinues(c)
  \/ ApiWorker \/ ClockAndTicker \/ ContextChanges

ApiSpec == ApiInit /\ [][ApiNext]_allVars

-----------------------------------------------------------------------------
(* Properties.                                                             *)

\* No access without a valid context, but for break-glass: whenever
\* requestAccess or Slack registers a token, and whenever extendAccess moves an
\* expiry, the ticket was in order at some moment since that very request came
\* in, although it may not be any more.
ActsInContext ==
  [][\A c \in Client :
       /\ handler[c].pc = "add" /\ handler'[c].pc # "add"
            => handler[c].route = "breakGlass" \/ handler[c].inOrder
       /\ client[c].pc = "idle" /\ client'[c].pc \in {"reissue", "reissueClamped"}
            => handler[c].inOrder]_allVars

\* extendAccess answers a denial with "token revoked" without a look at what
\* RevokeNow did: whoever won the race meanwhile, the token has ended.
DenialEndsToken ==
  [][\A c \in Client :
       handler[c].denied /\ handler'[c].pc = "free"
         => tok'[handler[c].token].revoked]_allVars

\* About to write the audit event e for t.
AboutToLog(t, e) ==
  \E c \in Client : handler[c].pc = "log" /\ handler[c].token = t /\ EventOf(c) = e

\* No grant is logged twice or under the wrong name, and none of requestAccess or
\* breakGlassActivate goes unlogged: once the token is registered its event is
\* written, or its handler is about to write it whatever has become of the token.
GrantLogged ==
  \A t \in registered :
    LET pending == IF AboutToLog(t, "granted") THEN 1 ELSE 0
        granted == logged[t]["granted"] + pending
    IN  /\ granted + logged[t]["breakGlass"] <= 1
        /\ origin[t] = "access" => granted = 1
        /\ origin[t] = "breakGlass" => logged[t]["breakGlass"] = 1

\* The trail of ends and the ends agree in every interleaving of requests and
\* worker: a revocation that succeeded, of RevokeNow or of the worker, has one
\* event or its handler is about to write it, no end has two, and none is there
\* before the call is answered or, of a request's, without its success.
RevocationLogged ==
  \A t \in Token :
    LET pending == IF AboutToLog(t, "revoked") THEN 1 ELSE 0
        events  == logged[t]["revoked"] + pending
    IN  /\ events <= 1
        /\ cause[t] \in {"auto", "manual"} /\ answer[t] = "ok" => events = 1
        /\ events = 1 => tok[t].revoked /\ answer[t] # "none"
        /\ events = 1 /\ cause[t] = "manual" => answer[t] = "ok"

\* No handler and no worker is at work on t.
AtRest(t) ==
  worker.target # t /\ \A c \in Client : handler[c].token # t

\* SECURITY.md, 45: "Every grant and revocation logged as structured JSON" (also
\* README.md, 38; audit.go, 161, has a source "ceiling").  The least of it: a
\* token that was granted, and revoked with success, has an event of one or the
\* other once everybody is done with it.
LifeOnRecord ==
  \A t \in registered :
    LET granted == logged[t]["granted"] + logged[t]["breakGlass"]
    IN  answer[t] = "ok" /\ AtRest(t) => granted + logged[t]["revoked"] >= 1

\* Whatever handlers do between their store operations, the store sees a
\* behaviour of TokenStore: its properties hold of the server as a whole.
ApiImplementsStore == Spec

\* What the next step of request c asks for, place by place: the store's word
\* on the token, and no other request's.
CanGoOn(c) ==
  LET h == handler[c]
      k == client[c].pc
      t == h.token
      extendable == \/ tok[t].extensions < MaxExtensions
                    \/ AtCeiling(t) /\ now >= Ceiling(t)
  IN  \/ h.pc = "validate" /\ Verdicts(c) \cap {"ok", "denied", "error"} # {}
      \/ h.pc = "act" /\ h.route \in {"access", "slack", "breakGlass"}
      \/ /\ h.pc = "act" /\ h.route = "extend" /\ ~h.denied
         /\ ~Live(t) \/ (k = "idle" /\ extendable)
      \/ h.pc = "act" /\ Revoking(c) /\ (~Live(t) \/ k = "idle")
      \/ h.pc = "add" /\ k = "add"
      \/ h.pc = "extend" /\ k \in {"reissue", "reissueClamped", "swap", "force"}
      \/ h.pc = "revoke" /\ k = "revoke"
      \/ h.pc = "log"

\* A request that has come in can always go on to its answer: no token that has
\* ended meanwhile, no lookup and no other request leaves its handler waiting.
NoHandlerWaits ==
  \A c \in Client :
    handler[c].pc # "free" => CanGoOn(c) /\ ENABLED HandlerContinues(c)
=============================================================================
