--------------------------- MODULE AccessApiProofs ---------------------------
(***************************************************************************)
(* The request handlers implement the store's specification: every step of *)
(* AccessApi is a step of TokenStore or leaves TokenStore's variables      *)
(* alone.  With it the theorems about TokenStore hold of the server, and   *)
(* with them what handlers promise over several store operations: that a   *)
(* denial ends its token, that nothing is done out of context, and that    *)
(* grants and ends are in the audit trail once.                            *)
(***************************************************************************)
EXTENDS AccessApi, WorkerProofs

-----------------------------------------------------------------------------
(* One lemma per kind of actor.                                            *)

\* Receiving a request and validating it touch neither store nor provider.
LEMMA StartsStutter ==
  ASSUME NEW c \in Client, HandlerStarts(c)
  PROVE  UNCHANGED vars
<1>1. ASSUME NEW route, NEW request, NEW t, NEW pc, Receive(c, route, request, t, pc)
      PROVE  UNCHANGED vars
  BY <1>1 DEF Receive
<1> QED
  BY <1>1 DEF HandlerStarts, ReceiveAccess, ReceiveSlack, ReceiveExtend, ReceiveBreakGlass,
              ReceiveRevoke

\* Issuing a token is the Grant of some lifetime handlers issue with: the
\* configured one is among them.
LEMMA IssueIsGrant ==
  ASSUME NEW c \in Client, NEW t \in Token, IssueToken(c, t)
  PROVE  ClientStarts(c)
<1>1. Lifetimes(handler[c].route) \subseteq GrantTTL
  BY ConfiguredTTL DEF Lifetimes
<1>2. PICK ttl \in Lifetimes(handler[c].route) : Grant(c, t, ttl)
  BY DEF IssueToken
<1> QED
  BY <1>1, <1>2 DEF ClientStarts

\* The token a handler acts on is a token.
HandlersHoldTokens ==
  \A c \in Client :
    handler[c].pc = "act" /\ (handler[c].route = "extend" \/ Revoking(c))
      => handler[c].token \in Token

\* Extending and revoking are what a request goroutine of TokenStore starts.
LEMMA ActIsStart ==
  ASSUME NEW c \in Client, HandlersHoldTokens, ExtendToken(c) \/ RevokeToken(c)
  PROVE  ClientStarts(c) \/ UNCHANGED vars
<1> DEFINE t == handler[c].token
<1>1. t \in Token
  BY DEF HandlersHoldTokens, ExtendToken, RevokeToken
<1>2. \/ ExtendNormal(c, t) \/ ExtendClamped(c, t) \/ ExtendForcesRevocation(c, t)
      \/ RevokeNow(c, t) \/ UNCHANGED vars
  BY DEF ExtendToken, RevokeToken
<1> QED
  BY <1>1, <1>2 DEF ClientStarts

\* What a handler does after it has started is a store step or its own affair.
LEMMA ContinuesIsStep ==
  ASSUME NEW c \in Client, HandlersHoldTokens, HandlerContinues(c)
  PROVE  ClientStarts(c) \/ ClientContinues(c) \/ UNCHANGED vars
<1>1. CASE \/ ValidationFails(c) \/ ValidationPasses(c) \/ ValidationDenies(c)
           \/ IssueRefused(c) \/ LogOutcome(c)
  BY <1>1 DEF ValidationFails, ValidationPasses, ValidationDenies, IssueRefused,
              LogOutcome
<1>2. CASE \E t \in Token : IssueToken(c, t)
  BY <1>2, IssueIsGrant
<1>3. CASE AddIssued(c)
  BY <1>3 DEF AddIssued, ClientContinues
<1>4. CASE ExtendToken(c) \/ RevokeToken(c)
  BY <1>4, ActIsStart
<1>5. CASE ExtendReturns(c)
  BY <1>5 DEF ExtendReturns, ClientContinues
<1>6. CASE RevokeReturns(c)
  BY <1>6 DEF RevokeReturns, ClientContinues
<1> QED
  BY <1>1, <1>2, <1>3, <1>4, <1>5, <1>6 DEF HandlerContinues

\* Every step of the server is a step of the store or none.
LEMMA ApiStepIsStoreStep ==
  ASSUME HandlersHoldTokens, [ApiNext]_allVars
  PROVE  [Next]_vars
<1>1. CASE \E c \in Client : HandlerStarts(c)
  BY <1>1, StartsStutter
<1>2. CASE \E c \in Client : HandlerContinues(c)
  BY <1>2, ContinuesIsStep DEF Next
<1>3. CASE ApiWorker
  BY <1>3 DEF ApiWorker, WorkerRevokes, WorkerElse, Worker, Next
<1>4. CASE ClockAndTicker
  BY <1>4 DEF ClockAndTicker, Next
<1>5. CASE ContextChanges
  BY <1>5 DEF ContextChanges
<1>6. CASE UNCHANGED allVars
  BY <1>6 DEF allVars
<1> QED
  BY <1>1, <1>2, <1>3, <1>4, <1>5, <1>6 DEF ApiNext

-----------------------------------------------------------------------------
(* Types.                                                                  *)

HandlersTyped ==
  /\ handler \in [Client -> HandlerRecord]
  /\ ticket \in Ticket
  /\ logged \in [Token -> [Events -> Nat]]
  /\ origin \in [Token -> {"none", "access", "slack", "breakGlass"}]

\* Who extends or revokes was told which token; only extensions are denied.
Owners ==
  \A c \in Client :
    /\ handler[c].pc # "free" /\ handler[c].route \in {"extend", "revoke"}
         => handler[c].token \in Token
    /\ handler[c].denied => handler[c].route = "extend" /\ handler[c].pc # "free"

ApiInv == HandlersTyped /\ Owners

\* A request that has been answered leaves a well-typed, free slot behind.
LEMMA FreeTyped == Free \in HandlerRecord /\ Free.pc = "free" /\ ~Free.denied
  BY DEF Free, HandlerRecord, Routes

\* One handler's record is replaced by one that is typed and owns its token.
LEMMA HandlerReplaced ==
  ASSUME ApiInv, NEW c \in Client, NEW h \in HandlerRecord,
         handler' = [handler EXCEPT ![c] = h],
         h.pc # "free" /\ h.route \in {"extend", "revoke"} => h.token \in Token,
         h.denied => h.route = "extend" /\ h.pc # "free"
  PROVE  handler' \in [Client -> HandlerRecord] /\ Owners'
  BY DEF ApiInv, HandlersTyped, Owners

\* Answering keeps all handlers typed and in possession of their tokens.
LEMMA RespondTyped ==
  ASSUME ApiInv, NEW c \in Client, Respond(c)
  PROVE  handler' \in [Client -> HandlerRecord] /\ Owners'
  BY FreeTyped, HandlerReplaced DEF Respond

\* So does moving on to the next place in a handler.
LEMMA GoesTyped ==
  ASSUME ApiInv, NEW c \in Client, handler[c].pc # "free",
         NEW pc \in {"validate", "act", "add", "extend", "revoke", "log"},
         HandlerGoes(c, pc)
  PROVE  handler' \in [Client -> HandlerRecord] /\ Owners'
<1> DEFINE h == [handler[c] EXCEPT !.pc = pc]
<1>1. handler[c] \in HandlerRecord
  BY DEF ApiInv, HandlersTyped
<1>2. /\ h \in HandlerRecord /\ h.pc = pc /\ h.route = handler[c].route
      /\ h.token = handler[c].token /\ h.denied = handler[c].denied
  BY <1>1 DEF HandlerRecord
<1>3. handler' = [handler EXCEPT ![c] = h]
  BY DEF HandlerGoes
<1> QED
  BY <1>1, <1>2, <1>3, HandlerReplaced DEF ApiInv, Owners

\* Writing an audit event counts up in one place.
LEMMA LogTyped ==
  ASSUME ApiInv, NEW t, NEW e \in Events, Log(t, e)
  PROVE  logged' \in [Token -> [Events -> Nat]]
<1>1. logged \in [Token -> [Events -> Nat]]
  BY DEF ApiInv, HandlersTyped
<1> DEFINE counts == [logged[t] EXCEPT ![e] = @ + 1]
<1>2. logged' = [logged EXCEPT ![t] = counts]
  BY DEF Log
<1>3. CASE t \in Token
  <2>1. logged[t] \in [Events -> Nat] /\ logged[t][e] + 1 \in Nat
    BY <1>1, <1>3
  <2>2. counts \in [Events -> Nat]
    BY <2>1
  <2> QED
    BY <1>1, <1>2, <2>2
<1>4. CASE t \notin Token
  BY <1>1, <1>2, <1>4
<1> QED
  BY <1>3, <1>4

\* A new request is well-typed and names its token if it is about one.
LEMMA ReceiveTyped ==
  ASSUME ApiInv, NEW c \in Client, NEW route \in Routes,
         NEW r \in Requests \cup {NoRequest}, NEW t \in Token \cup {NoToken},
         NEW pc \in {"validate", "act"},
         route \in {"extend", "revoke"} => t \in Token,
         Receive(c, route, r, t, pc)
  PROVE  ApiInv'
<1> DEFINE b == r # NoRequest /\ InContext(r, ticket)
           h == [Free EXCEPT !.pc = pc, !.route = route, !.request = r,
                             !.token = t, !.inOrder = b]
<1>1. b \in BOOLEAN
  OBVIOUS
<1> HIDE DEF b
<1>2. /\ h \in HandlerRecord /\ h.pc = pc /\ h.route = route /\ h.token = t
      /\ ~h.denied
  BY <1>1 DEF Free, HandlerRecord
<1>3. handler' = [handler EXCEPT ![c] = h]
  BY DEF Receive, b
<1>4. handler' \in [Client -> HandlerRecord] /\ Owners'
  BY <1>2, <1>3, HandlerReplaced
<1> QED
  BY <1>4 DEF Receive, ApiInv, HandlersTyped

\* Whatever comes in, the invariant holds afterwards.
LEMMA StartsTyped ==
  ASSUME ApiInv, NEW c \in Client, HandlerStarts(c)
  PROVE  ApiInv'
<1>1. CASE \E r \in Requests : ReceiveAccess(c, r) \/ ReceiveSlack(c, r)
  BY <1>1, ReceiveTyped DEF ReceiveAccess, ReceiveSlack, Routes
<1>2. CASE \E r \in Requests : \E t \in Token : ReceiveExtend(c, t, r)
  BY <1>2, ReceiveTyped DEF ReceiveExtend, Routes
<1>3. CASE ReceiveBreakGlass(c)
  BY <1>3, ReceiveTyped DEF ReceiveBreakGlass, Routes
<1>4. CASE \E t \in Token : ReceiveRevoke(c, t)
  BY <1>4, ReceiveTyped DEF ReceiveRevoke, Routes
<1> QED
  BY <1>1, <1>2, <1>3, <1>4 DEF HandlerStarts

\* A token that was issued becomes the one its handler works for.
LEMMA IssueTyped ==
  ASSUME ApiInv, NEW c \in Client, NEW t \in Token, IssueToken(c, t)
  PROVE  ApiInv'
<1>1. CASE client'[c].pc = "add"
  <2> DEFINE h == [handler[c] EXCEPT !.pc = "add", !.token = t, !.request = NoRequest]
  <2>1. handler[c] \in HandlerRecord
    BY DEF ApiInv, HandlersTyped
  <2>2. /\ h \in HandlerRecord /\ h.pc = "add" /\ h.route = handler[c].route
        /\ h.token = t /\ h.denied = handler[c].denied
    BY <2>1 DEF HandlerRecord
  <2>3. handler' = [handler EXCEPT ![c] = h]
    BY <1>1 DEF IssueToken
  <2>4. handler' \in [Client -> HandlerRecord] /\ Owners'
    BY <2>2, <2>3, HandlerReplaced DEF ApiInv, Owners
  <2>5. /\ handler[c].route \in {"access", "slack", "breakGlass"}
        /\ origin' = [origin EXCEPT ![t] = handler[c].route]
        /\ Log(t, "breakGlass") \/ UNCHANGED logged
        /\ UNCHANGED ticket
    BY <1>1 DEF IssueToken
  <2>6. logged' \in [Token -> [Events -> Nat]]
    BY <2>5, LogTyped DEF ApiInv, HandlersTyped, Events
  <2> QED
    BY <2>4, <2>5, <2>6 DEF ApiInv, HandlersTyped
<1>2. CASE client'[c].pc # "add"
  BY <1>2, RespondTyped DEF IssueToken, ApiInv, HandlersTyped
<1> QED
  BY <1>1, <1>2

\* No step of a handler breaks a type or takes its token away.
LEMMA ContinuesTyped ==
  ASSUME ApiInv, NEW c \in Client, HandlerContinues(c)
  PROVE  ApiInv'
<1>1. CASE ValidationFails(c) \/ IssueRefused(c)
  BY <1>1, RespondTyped DEF ValidationFails, IssueRefused, ApiInv, HandlersTyped
<1>2. CASE ValidationPasses(c)
  BY <1>2, GoesTyped DEF ValidationPasses, ApiInv, HandlersTyped
<1>3. CASE ValidationDenies(c)
  <2>1. CASE handler[c].route = "extend"
    <3> DEFINE h == [handler[c] EXCEPT !.pc = "act", !.denied = TRUE]
    <3>1. handler[c] \in HandlerRecord
      BY DEF ApiInv, HandlersTyped
    <3>2. /\ h \in HandlerRecord /\ h.pc = "act" /\ h.route = handler[c].route
          /\ h.token = handler[c].token
      BY <3>1 DEF HandlerRecord
    <3>3. handler' = [handler EXCEPT ![c] = h] /\ handler[c].pc = "validate"
      BY <1>3, <2>1 DEF ValidationDenies
    <3>4. handler[c].token \in Token
      BY <2>1, <3>3 DEF ApiInv, Owners
    <3>5. handler' \in [Client -> HandlerRecord] /\ Owners'
      BY <2>1, <3>2, <3>3, <3>4, HandlerReplaced
    <3> QED
      BY <1>3, <3>5 DEF ValidationDenies, ApiInv, HandlersTyped
  <2>2. CASE handler[c].route # "extend"
    BY <1>3, <2>2, RespondTyped DEF ValidationDenies, ApiInv, HandlersTyped
  <2> QED
    BY <2>1, <2>2
<1>4. CASE \E t \in Token : IssueToken(c, t)
  BY <1>4, IssueTyped
<1>5. CASE AddIssued(c)
  BY <1>5, RespondTyped, GoesTyped DEF AddIssued, ApiInv, HandlersTyped
<1>6. CASE ExtendToken(c)
  BY <1>6, RespondTyped, GoesTyped DEF ExtendToken, ApiInv, HandlersTyped
<1>7. CASE ExtendReturns(c)
  BY <1>7, RespondTyped, GoesTyped DEF ExtendReturns, ApiInv, HandlersTyped, Owners
<1>8. CASE RevokeToken(c)
  BY <1>8, RespondTyped, GoesTyped DEF RevokeToken, ApiInv, HandlersTyped
<1>9. CASE RevokeReturns(c)
  <2>1. HandlerGoes(c, "log") \/ Respond(c) \/ UNCHANGED handler
    BY <1>9 DEF RevokeReturns
  <2>2. handler[c].pc = "revoke" /\ UNCHANGED <<ticket, logged, origin>>
    BY <1>9 DEF RevokeReturns
  <2>3. handler' \in [Client -> HandlerRecord] /\ Owners'
    BY <2>1, <2>2, RespondTyped, GoesTyped DEF ApiInv, HandlersTyped, Owners
  <2> QED
    BY <2>2, <2>3 DEF ApiInv, HandlersTyped
<1>10. CASE LogOutcome(c)
  <2>1. EventOf(c) \in Events
    BY DEF EventOf, Events
  <2> QED
    BY <1>10, <2>1, RespondTyped, LogTyped DEF LogOutcome, ApiInv, HandlersTyped
<1> QED
  BY <1>1, <1>2, <1>3, <1>4, <1>5, <1>6, <1>7, <1>8, <1>9, <1>10 DEF HandlerContinues

\* The ticket leaves nothing but history in the handlers.
LEMMA ContextChangesTyped ==
  ASSUME ApiInv, ContextChanges
  PROVE  ApiInv'
<1>1. \A c \in Client :
        /\ handler'[c] \in HandlerRecord
        /\ handler'[c].pc = handler[c].pc /\ handler'[c].route = handler[c].route
        /\ handler'[c].token = handler[c].token
        /\ handler'[c].denied = handler[c].denied
  <2> SUFFICES ASSUME NEW c \in Client
               PROVE  /\ handler'[c] \in HandlerRecord
                      /\ handler'[c].pc = handler[c].pc
                      /\ handler'[c].route = handler[c].route
                      /\ handler'[c].token = handler[c].token
                      /\ handler'[c].denied = handler[c].denied
    OBVIOUS
  <2> DEFINE b == handler[c].inOrder \/ /\ handler[c].pc = "validate"
                                        /\ InContext(handler[c].request, ticket')
  <2>1. b \in BOOLEAN
    OBVIOUS
  <2>2. handler'[c] = [handler[c] EXCEPT !.inOrder = b]
    BY DEF ContextChanges
  <2>3. handler[c] \in HandlerRecord
    BY DEF ApiInv, HandlersTyped
  <2> HIDE DEF b
  <2> QED
    BY <2>1, <2>2, <2>3 DEF HandlerRecord
<1>2. handler' \in [Client -> HandlerRecord]
  <2>1. handler' = [c \in Client |-> handler'[c]]
    BY DEF ContextChanges
  <2> QED
    BY <1>1, <2>1
<1>3. Owners'
  BY <1>1 DEF ApiInv, Owners
<1> QED
  BY <1>2, <1>3 DEF ContextChanges, ApiInv, HandlersTyped

\* No step of the server breaks the invariant.
LEMMA ApiInvStep ==
  ASSUME ApiInv, [ApiNext]_allVars
  PROVE  ApiInv'
<1>1. CASE \E c \in Client : HandlerStarts(c)
  BY <1>1, StartsTyped
<1>2. CASE \E c \in Client : HandlerContinues(c)
  BY <1>2, ContinuesTyped
<1>3. CASE WorkerRevokes
  <2>1. Log(worker.target, "revoked") \/ UNCHANGED logged
    BY <1>3 DEF WorkerRevokes
  <2>2. logged' \in [Token -> [Events -> Nat]]
    BY <2>1, LogTyped DEF Events, ApiInv, HandlersTyped
  <2> QED
    BY <1>3, <2>2 DEF WorkerRevokes, ApiInv, HandlersTyped, Owners
<1>4. CASE WorkerElse \/ ClockAndTicker \/ UNCHANGED allVars
  BY <1>4 DEF WorkerElse, ClockAndTicker, allVars, apiVars, ApiInv, HandlersTyped, Owners
<1>5. CASE ContextChanges
  BY <1>5, ContextChangesTyped
<1> QED
  BY <1>1, <1>2, <1>3, <1>4, <1>5 DEF ApiNext, ApiWorker

\* Initially every handler is free and nothing has been logged.
LEMMA ApiInvInit == ApiInit => ApiInv
  BY FreeTyped DEF ApiInit, ApiInv, HandlersTyped, Owners, Events

\* Types and ownership of tokens hold throughout.
LEMMA ApiInvariant == ApiSpec => []ApiInv
<1>1. ApiInv /\ [ApiNext]_allVars => ApiInv'
  BY ApiInvStep
<1> QED
  BY <1>1, ApiInvInit, PTL DEF ApiSpec

-----------------------------------------------------------------------------
(* Refinement.                                                             *)

\* The server, its handlers and its worker together, is an implementation of
\* the store's specification (api/server.go and slack/slack.go around Store).
THEOREM ServerImplementsStore == ApiSpec => ApiImplementsStore
<1>1. ApiInit => Init
  BY DEF ApiInit
<1>2. ApiInv /\ [ApiNext]_allVars => [Next]_vars
  <2> SUFFICES ASSUME ApiInv, [ApiNext]_allVars PROVE [Next]_vars
    OBVIOUS
  <2>1. HandlersHoldTokens
    BY DEF ApiInv, Owners, HandlersHoldTokens, Revoking
  <2> QED
    BY <2>1, ApiStepIsStoreStep
<1> QED
  BY <1>1, <1>2, ApiInvariant, PTL DEF ApiSpec, ApiImplementsStore, Spec

\* The types of handlers, ticket and audit trail, and of the store below.
THEOREM ApiTypeCorrect == ApiSpec => []ApiTypeOK
<1>1. ApiInv /\ TypeOK => ApiTypeOK
  BY DEF ApiInv, HandlersTyped, ApiTypeOK
<1> QED
  BY <1>1, ApiInvariant, ServerImplementsStore, TypeCorrect, PTL
     DEF ApiImplementsStore

\* What the store promises holds of the running server: whatever the handlers do
\* between their store operations (server.go, 77-275, slack.go), a token is ended
\* once, for a cause and finally, is found by the worker when it expires, is
\* warned about once per expiry, and leaves no more secrets alive than it had
\* extensions.
THEOREM ServerKeepsPromises ==
  ApiSpec =>
    /\ []RevokedOnce /\ []EndedForCause /\ RevokedIsFinal
    /\ []NeverUnscheduled /\ ScanCompleteUnlessExtended
    /\ []OneWarningPerWindow /\ []SurvivorsBounded
    /\ ImplementsLifecycle
BY ServerImplementsStore, RevokedOnceHolds, EndedForCauseHolds, RevocationIsFinal,
   NeverUnscheduledHolds, ScanCompleteHolds, OneWarningHolds, SurvivorsHolds,
   StoreImplementsLifecycle, PTL DEF ApiImplementsStore

-----------------------------------------------------------------------------
(* Denied extensions.                                                      *)

\* A handler that extends knows a registered token, and one whose extension was
\* denied is on its way through RevokeNow.
Denials ==
  \A c \in Client :
    /\ handler[c].pc # "free" /\ handler[c].route = "extend"
         => handler[c].token \in registered
    /\ handler[c].denied => handler[c].pc \in {"act", "revoke", "log"}
    /\ handler[c].denied /\ handler[c].pc \in {"revoke", "log"}
         => tok[handler[c].token].revoked

\* What matters here of a handler's record.
Same(h, g) ==
  /\ h.pc = g.pc /\ h.route = g.route /\ h.token = g.token /\ h.denied = g.denied

\* Registered tokens stay registered and ended ones ended.
LEMMA StoreKeeps ==
  ASSUME Inv, [Next]_vars
  PROVE  /\ registered \subseteq registered'
         /\ \A t \in registered : tok[t].revoked => tok'[t].revoked
<1>1. registered \subseteq registered'
  BY StepKinds DEF Inv, Quiet, Grant, Add, Extends, Ends
<1> QED
  BY <1>1, KnownRecord

\* A request's own steps touch no other request, neither its handler nor its
\* store operation.
LEMMA OthersStay ==
  ASSUME TypeInv, ApiInv, NEW c \in Client, HandlerStarts(c) \/ HandlerContinues(c),
         NEW d \in Client, c # d
  PROVE  handler'[d] = handler[d] /\ client'[d] = client[d]
<1>0. handler \in [Client -> HandlerRecord] /\ client \in [Client -> ClientRecord]
  BY DEF ApiInv, HandlersTyped, TypeInv, TypeOK
<1>1. ASSUME HandlerStarts(c) PROVE handler'[d] = handler[d] /\ client'[d] = client[d]
  <2>1. ASSUME NEW route, NEW request, NEW t, NEW pc, Receive(c, route, request, t, pc)
        PROVE  handler'[d] = handler[d]
    BY <1>0, <2>1 DEF Receive
  <2>2. handler'[d] = handler[d]
    BY <1>1, <2>1 DEF HandlerStarts, ReceiveAccess, ReceiveSlack, ReceiveExtend,
                      ReceiveBreakGlass, ReceiveRevoke
  <2>3. UNCHANGED client
    BY <1>1, StartsStutter DEF vars
  <2> QED
    BY <2>2, <2>3
<1>2. ASSUME HandlerContinues(c) PROVE handler'[d] = handler[d] /\ client'[d] = client[d]
  <2>1. ASSUME Respond(c) PROVE handler'[d] = handler[d]
    BY <1>0, <2>1 DEF Respond
  <2>2. ASSUME NEW pc, HandlerGoes(c, pc) PROVE handler'[d] = handler[d]
    BY <1>0, <2>2 DEF HandlerGoes
  <2>3. ASSUME NEW h, handler' = [handler EXCEPT ![c] = h] PROVE handler'[d] = handler[d]
    BY <1>0, <2>3
  <2>4. ASSUME Return(c) PROVE client'[d] = client[d]
    BY <1>0, <2>4 DEF Return
  <2>5. ASSUME NEW pc, NEW t, NEW u, NEW k, Goto(c, pc, t, u, k) PROVE client'[d] = client[d]
    BY <1>0, <2>5 DEF Goto
  <2>6. CASE ValidationDenies(c)
    <3> DEFINE h == [handler[c] EXCEPT !.pc = "act", !.denied = TRUE]
    <3>1. handler' = [handler EXCEPT ![c] = h] \/ Respond(c)
      BY <2>6 DEF ValidationDenies
    <3>2. UNCHANGED client
      BY <2>6 DEF ValidationDenies, vars
    <3> HIDE DEF h
    <3> QED
      BY <2>1, <2>3, <3>1, <3>2
  <2>7. ASSUME NEW t \in Token, IssueToken(c, t)
        PROVE  handler'[d] = handler[d] /\ client'[d] = client[d]
    <3> DEFINE h == [handler[c] EXCEPT !.pc = "add", !.token = t, !.request = NoRequest]
    <3>1. handler' = [handler EXCEPT ![c] = h] \/ Respond(c)
      BY <2>7 DEF IssueToken
    <3>2. Goto(c, "add", t, NoTime, 0) \/ UNCHANGED client
      BY <2>7 DEF IssueToken, Grant
    <3> HIDE DEF h
    <3> QED
      BY <2>1, <2>3, <2>5, <3>1, <3>2
  <2>8. CASE \/ ValidationFails(c) \/ ValidationPasses(c) \/ IssueRefused(c)
             \/ AddIssued(c) \/ ExtendToken(c) \/ ExtendReturns(c) \/ RevokeToken(c)
             \/ RevokeReturns(c) \/ LogOutcome(c)
    <3>1. Respond(c) \/ (\E pc : HandlerGoes(c, pc)) \/ UNCHANGED handler
      BY <2>8 DEF ValidationFails, ValidationPasses, IssueRefused, AddIssued, ExtendToken,
           ExtendReturns, RevokeToken, RevokeReturns, LogOutcome
    <3>2. Return(c) \/ (\E pc, t, u, k : Goto(c, pc, t, u, k)) \/ UNCHANGED client
      <4>1. CASE ValidationFails(c) \/ ValidationPasses(c) \/ IssueRefused(c) \/ LogOutcome(c)
        BY <4>1 DEF ValidationFails, ValidationPasses, IssueRefused, LogOutcome, vars
      <4>2. CASE AddIssued(c) \/ RevokeReturns(c)
        BY <4>2 DEF AddIssued, Add, RevokeReturns, ManualRevoke
      <4>3. CASE ExtendToken(c)
        BY <4>3 DEF ExtendToken, ExtendNormal, ExtendClamped, ExtendForcesRevocation, vars
      <4>4. CASE ExtendReturns(c)
        BY <4>4 DEF ExtendReturns, Reissue, ReissueFails, ForceRevoke, SwapSecret
      <4>5. CASE RevokeToken(c)
        BY <4>5 DEF RevokeToken, RevokeNow, vars
      <4> QED
        BY <2>8, <4>1, <4>2, <4>3, <4>4, <4>5
    <3> QED
      BY <2>1, <2>2, <2>4, <2>5, <3>1, <3>2
  <2> QED
    BY <1>2, <2>6, <2>7, <2>8 DEF HandlerContinues
<1> QED
  BY <1>1, <1>2

\* A handler's record is changed by its own goroutine only, but for the history
\* the ticket leaves in it.
LEMMA OwnSteps ==
  ASSUME TypeInv, ApiInv, [ApiNext]_allVars, NEW d \in Client
  PROVE  Same(handler'[d], handler[d]) \/ HandlerStarts(d) \/ HandlerContinues(d)
<1>0. handler \in [Client -> HandlerRecord]
  BY DEF ApiInv, HandlersTyped
<1>1. ASSUME NEW c \in Client, c # d, HandlerStarts(c) \/ HandlerContinues(c)
      PROVE  handler'[d] = handler[d]
  BY <1>1, OthersStay
<1>2. CASE ApiWorker \/ ClockAndTicker \/ UNCHANGED allVars
  <2>1. UNCHANGED handler
    BY <1>2 DEF ApiWorker, WorkerRevokes, WorkerElse, ClockAndTicker, allVars, apiVars
  <2> QED
    BY <2>1 DEF Same
<1>3. CASE ContextChanges
  <2> DEFINE b == handler[d].inOrder \/ /\ handler[d].pc = "validate"
                                        /\ InContext(handler[d].request, ticket')
  <2>1. handler'[d] = [handler[d] EXCEPT !.inOrder = b]
    BY <1>3 DEF ContextChanges
  <2> HIDE DEF b
  <2> QED
    BY <1>0, <2>1 DEF HandlerRecord, Same
<1> QED
  BY <1>1, <1>2, <1>3 DEF ApiNext, Same

\* What a denial turns into when its handler moves on.
LEMMA DenialMoves ==
  ASSUME Inv, ApiInv, Denials, [Next]_vars,
         NEW c \in Client, HandlerStarts(c) \/ HandlerContinues(c)
  PROVE  /\ handler'[c].pc # "free" /\ handler'[c].route = "extend"
              => handler'[c].token \in registered
         /\ handler'[c].denied
              => handler'[c].pc = "act" \/ tok'[handler'[c].token].revoked
         /\ handler'[c].denied => handler'[c].pc \in {"act", "revoke", "log"}
         /\ handler[c].denied /\ handler'[c].pc = "free"
              => tok'[handler[c].token].revoked
<1> DEFINE t == handler[c].token
           Goal == /\ handler'[c].pc # "free" /\ handler'[c].route = "extend"
                        => handler'[c].token \in registered
                   /\ handler'[c].denied
                        => handler'[c].pc = "act" \/ tok'[handler'[c].token].revoked
                   /\ handler'[c].denied => handler'[c].pc \in {"act", "revoke", "log"}
                   /\ handler[c].denied /\ handler'[c].pc = "free"
                        => tok'[handler[c].token].revoked
<1>0. /\ handler \in [Client -> HandlerRecord] /\ handler[c] \in HandlerRecord
      /\ registered \subseteq Token
  BY DEF ApiInv, HandlersTyped, Inv, TypeInv, TypeOK
<1>1. ASSUME Respond(c), handler[c].denied => tok'[t].revoked PROVE Goal
  <2>1. handler'[c] = Free
    BY <1>0, <1>1 DEF Respond
  <2> QED
    BY <1>1, <2>1 DEF Free
<1>2. ASSUME NEW pc \in {"validate", "act", "add", "extend", "revoke", "log"},
             HandlerGoes(c, pc), handler[c].pc # "free",
             handler[c].denied => pc \in {"revoke", "log"} /\ tok'[t].revoked
      PROVE  Goal
  <2>1. /\ handler'[c].pc = pc /\ handler'[c].route = handler[c].route
        /\ handler'[c].token = handler[c].token /\ handler'[c].denied = handler[c].denied
    BY <1>0, <1>2 DEF HandlerGoes, HandlerRecord
  <2> QED
    BY <1>2, <2>1 DEF Denials
<1>3. ASSUME NEW route, NEW r, NEW x, NEW pc, Receive(c, route, r, x, pc),
             route = "extend" => x \in registered
      PROVE  Goal
  <2> DEFINE b == r # NoRequest /\ InContext(r, ticket)
  <2>1. handler'[c] = [Free EXCEPT !.pc = pc, !.route = route, !.request = r,
                                   !.token = x, !.inOrder = b]
    BY <1>0, <1>3 DEF Receive
  <2> HIDE DEF b
  <2>2. /\ handler'[c].route = route /\ handler'[c].token = x /\ handler'[c].denied = FALSE
    BY <2>1 DEF Free
  <2>3. handler[c].pc = "free"
    BY <1>3 DEF Receive
  <2>4. handler[c].denied = FALSE
    BY <1>0, <2>3 DEF ApiInv, Owners, HandlerRecord
  <2> QED
    BY <1>3, <2>2, <2>4
<1>4. CASE HandlerStarts(c)
  <2>1. \E route, r, x, pc :
          Receive(c, route, r, x, pc) /\ (route = "extend" => x \in registered)
    BY <1>4 DEF HandlerStarts, ReceiveAccess, ReceiveSlack, ReceiveExtend,
                ReceiveBreakGlass, ReceiveRevoke, Live
  <2> QED
    BY <1>3, <2>1
<1>5. handler[c].denied => /\ handler[c].route = "extend" /\ t \in registered
                           /\ handler[c].pc \in {"act", "revoke", "log"}
                           /\ handler[c].pc \in {"revoke", "log"} => tok'[t].revoked
  BY StoreKeeps DEF ApiInv, Owners, Denials
<1>6. CASE ValidationFails(c) \/ ValidationPasses(c) \/ IssueRefused(c) \/ AddIssued(c)
  <2>1. ~handler[c].denied
    BY <1>5, <1>6 DEF ValidationFails, ValidationPasses, IssueRefused, AddIssued
  <2>2. handler[c].pc # "free" /\ (Respond(c) \/ HandlerGoes(c, "act") \/ HandlerGoes(c, "log"))
    BY <1>6 DEF ValidationFails, ValidationPasses, IssueRefused, AddIssued
  <2> QED
    BY <1>1, <1>2, <2>1, <2>2
<1>7. CASE ValidationDenies(c)
  <2>1. CASE handler[c].route = "extend"
    <3> DEFINE h == [handler[c] EXCEPT !.pc = "act", !.denied = TRUE]
    <3>1. h.pc = "act" /\ h.route = handler[c].route /\ h.token = t
      BY <1>0 DEF HandlerRecord
    <3>2. handler' = [handler EXCEPT ![c] = h] /\ handler[c].pc = "validate"
      BY <1>7, <2>1 DEF ValidationDenies
    <3> HIDE DEF h
    <3>3. handler'[c] = h /\ t \in registered
      BY <1>0, <2>1, <3>2 DEF Denials
    <3> QED
      BY <3>1, <3>3
  <2>2. CASE handler[c].route # "extend"
    BY <1>1, <1>5, <1>7, <2>2 DEF ValidationDenies
  <2> QED
    BY <2>1, <2>2
<1>8. ASSUME NEW x \in Token, IssueToken(c, x) PROVE Goal
  <2>1. handler[c].route \in {"access", "slack", "breakGlass"} /\ ~handler[c].denied
    BY <1>5, <1>8 DEF IssueToken
  <2>2. CASE client'[c].pc = "add"
    <3> DEFINE h == [handler[c] EXCEPT !.pc = "add", !.token = x, !.request = NoRequest]
    <3>1. h.pc = "add" /\ h.route = handler[c].route /\ h.denied = handler[c].denied
      BY <1>0 DEF HandlerRecord
    <3>2. handler' = [handler EXCEPT ![c] = h]
      BY <1>8, <2>2 DEF IssueToken
    <3> HIDE DEF h
    <3>3. handler'[c] = h
      BY <1>0, <3>2
    <3> QED
      BY <2>1, <3>1, <3>3
  <2>3. CASE client'[c].pc # "add"
    BY <1>1, <1>8, <2>1, <2>3 DEF IssueToken
  <2> QED
    BY <2>2, <2>3
<1>9. CASE ExtendToken(c) \/ ExtendReturns(c)
  <2>1. ~handler[c].denied /\ handler[c].pc # "free"
    BY <1>5, <1>9 DEF ExtendToken, ExtendReturns
  <2>2. \/ Respond(c) \/ HandlerGoes(c, "extend") \/ HandlerGoes(c, "log")
        \/ UNCHANGED handler
    BY <1>9 DEF ExtendToken, ExtendReturns
  <2>3. CASE UNCHANGED handler
    BY <2>1, <2>3 DEF Denials
  <2> QED
    BY <1>1, <1>2, <2>1, <2>2, <2>3
<1>10. CASE RevokeToken(c)
  <2>1. handler[c].pc = "act" /\ t \in Token
    BY <1>10 DEF RevokeToken, Revoking, ApiInv, Owners
  <2>2. CASE RevokeNow(c, t) /\ HandlerGoes(c, "revoke")
    <3>1. tok'[t].revoked
      BY <2>1, <2>2 DEF RevokeNow, MarkRevoked, Inv, TypeInv, TypeOK, TokenRecord
    <3> QED
      BY <1>2, <2>1, <2>2, <3>1
  <2>3. CASE ~Live(t) /\ Respond(c) /\ UNCHANGED vars
    <3>1. UNCHANGED tok
      BY <2>3 DEF vars, storeVars
    <3>2. handler[c].denied => tok'[t].revoked
      BY <1>5, <2>3, <3>1 DEF Live
    <3> QED
      BY <1>1, <2>3, <3>2
  <2> QED
    BY <1>10, <2>2, <2>3 DEF RevokeToken
<1>11. CASE RevokeReturns(c) \/ LogOutcome(c)
  <2>1. handler[c].pc \in {"revoke", "log"}
    BY <1>11 DEF RevokeReturns, LogOutcome
  <2>2. HandlerGoes(c, "log") \/ Respond(c) \/ UNCHANGED handler
    BY <1>11 DEF RevokeReturns, LogOutcome
  <2>3. CASE UNCHANGED handler
    BY <1>5, <2>1, <2>3 DEF Denials
  <2> QED
    BY <1>1, <1>2, <1>5, <2>1, <2>2, <2>3
<1> QED
  BY <1>4, <1>6, <1>7, <1>8, <1>9, <1>10, <1>11 DEF HandlerContinues

\* The facts about denials are inductive.
LEMMA DenialsStep ==
  ASSUME Inv, ApiInv, Denials, [Next]_vars, [ApiNext]_allVars
  PROVE  Denials'
<1> SUFFICES ASSUME NEW c \in Client
             PROVE  /\ handler'[c].pc # "free" /\ handler'[c].route = "extend"
                         => handler'[c].token \in registered'
                    /\ handler'[c].denied => handler'[c].pc \in {"act", "revoke", "log"}
                    /\ handler'[c].denied /\ handler'[c].pc \in {"revoke", "log"}
                         => tok'[handler'[c].token].revoked
  BY DEF Denials
<1>1. CASE HandlerStarts(c) \/ HandlerContinues(c)
  BY <1>1, DenialMoves, StoreKeeps
<1>2. CASE Same(handler'[c], handler[c])
  BY <1>2, StoreKeeps DEF Same, Denials, ApiInv, Owners
<1> QED
  BY <1>1, <1>2, OwnSteps DEF Inv

\* When extendAccess answers that a denied extension has revoked the token
\* (server.go, 185-194), the token has ended, whether RevokeNow won the race for
\* it or lost it.
THEOREM DenialEndsTokenHolds == ApiSpec => DenialEndsToken
<1> DEFINE Ended == \A c \in Client :
                      handler[c].denied /\ handler'[c].pc = "free"
                        => tok'[handler[c].token].revoked
<1>1. ApiInit => Denials
  BY DEF ApiInit, Denials, Free
<1>2. Inv /\ ApiInv /\ Denials /\ [Next]_vars /\ [ApiNext]_allVars => Denials'
  BY DenialsStep
<1>3. Inv /\ ApiInv /\ Denials /\ [Next]_vars /\ [ApiNext]_allVars => [Ended]_allVars
  <2> SUFFICES ASSUME Inv, ApiInv, Denials, [Next]_vars, [ApiNext]_allVars,
                      NEW c \in Client, handler[c].denied, handler'[c].pc = "free"
               PROVE  tok'[handler[c].token].revoked
    OBVIOUS
  <2>1. ~Same(handler'[c], handler[c])
    BY DEF Same, Denials
  <2> QED
    BY <2>1, OwnSteps, DenialMoves DEF Inv
<1>4. ApiSpec => [][Next]_vars /\ []Inv
  BY ServerImplementsStore, InvHolds, PTL DEF ApiImplementsStore, Spec
<1>5. DenialEndsToken <=> [][Ended]_allVars
  BY DEF DenialEndsToken
<1> QED
  BY <1>1, <1>2, <1>3, <1>4, <1>5, ApiInvariant, PTL DEF ApiSpec

-----------------------------------------------------------------------------
(* Handlers and their store operations.                                    *)

\* Where a request is in its handler and where it is in the store.
Pairs(h, k) ==
  /\ h.pc \in {"free", "validate", "act", "log"} => k.pc = "idle"
  /\ h.pc = "add" => /\ k.pc = "add" /\ k.token = h.token
                     /\ h.route \in {"access", "slack", "breakGlass"}
  /\ h.pc = "extend" => /\ k.pc \in {"reissue", "reissueClamped", "swap", "force"}
                        /\ k.token = h.token /\ h.route = "extend" /\ ~h.denied
  /\ h.pc = "revoke" => /\ k.pc = "revoke" /\ k.token = h.token
                        /\ h.route = "revoke" \/ h.denied
  /\ h.pc = "log" => h.token \in Token

Paired == \A c \in Client : Pairs(handler[c], client[c])

\* What a request's own step makes of its pair.
LEMMA PairMoves ==
  ASSUME TypeInv, ApiInv, Paired,
         NEW c \in Client, HandlerStarts(c) \/ HandlerContinues(c)
  PROVE  Pairs(handler'[c], client'[c])
<1> DEFINE t == handler[c].token
<1>0. /\ handler \in [Client -> HandlerRecord] /\ handler[c] \in HandlerRecord
      /\ client \in [Client -> ClientRecord] /\ client[c] \in ClientRecord
      /\ Pairs(handler[c], client[c])
  BY DEF ApiInv, HandlersTyped, TypeInv, TypeOK, Paired
<1>1. ASSUME Respond(c), client'[c].pc = "idle" PROVE Pairs(handler'[c], client'[c])
  <2>1. handler'[c] = Free
    BY <1>0, <1>1 DEF Respond
  <2> QED
    BY <1>1, <2>1 DEF Free, Pairs
<1>2. ASSUME NEW pc, HandlerGoes(c, pc)
      PROVE  /\ handler'[c].pc = pc /\ handler'[c].route = handler[c].route
             /\ handler'[c].token = t /\ handler'[c].denied = handler[c].denied
  BY <1>0, <1>2 DEF HandlerGoes, HandlerRecord
<1>3. ASSUME Return(c) PROVE client'[c].pc = "idle"
  BY <1>0, <1>3 DEF Return, Idle
<1>4. ASSUME NEW pc, NEW x, NEW u, NEW k, Goto(c, pc, x, u, k)
      PROVE  client'[c].pc = pc /\ client'[c].token = x
  BY <1>0, <1>4 DEF Goto
<1>5. CASE HandlerStarts(c)
  <2>1. ASSUME NEW route, NEW r, NEW x, NEW pc \in {"validate", "act"},
               Receive(c, route, r, x, pc)
        PROVE  handler'[c].pc \in {"validate", "act"} /\ handler[c].pc = "free"
    <3> DEFINE b == r # NoRequest /\ InContext(r, ticket)
    <3>1. handler'[c] = [Free EXCEPT !.pc = pc, !.route = route, !.request = r,
                                     !.token = x, !.inOrder = b]
      BY <1>0, <2>1 DEF Receive
    <3> HIDE DEF b
    <3>2. handler'[c].pc = pc
      BY <3>1 DEF Free
    <3> QED
      BY <2>1, <3>2 DEF Receive
  <2>2. handler'[c].pc \in {"validate", "act"} /\ handler[c].pc = "free"
    BY <1>5, <2>1 DEF HandlerStarts, ReceiveAccess, ReceiveSlack, ReceiveExtend,
                      ReceiveBreakGlass, ReceiveRevoke
  <2>3. UNCHANGED client
    BY <1>5, StartsStutter DEF vars
  <2> QED
    BY <1>0, <2>2, <2>3 DEF Pairs
<1>6. CASE ValidationFails(c) \/ ValidationPasses(c) \/ IssueRefused(c) \/ LogOutcome(c)
  <2>1. client'[c].pc = "idle"
    BY <1>0, <1>6 DEF ValidationFails, ValidationPasses, IssueRefused, LogOutcome, vars, Pairs
  <2>2. Respond(c) \/ HandlerGoes(c, "act")
    BY <1>6 DEF ValidationFails, ValidationPasses, IssueRefused, LogOutcome
  <2>3. CASE HandlerGoes(c, "act")
    BY <1>2, <2>1, <2>3 DEF Pairs
  <2> QED
    BY <1>1, <2>1, <2>2, <2>3
<1>7. CASE ValidationDenies(c)
  <2>1. client'[c].pc = "idle"
    BY <1>0, <1>7 DEF ValidationDenies, vars, Pairs
  <2>2. CASE handler[c].route = "extend"
    <3> DEFINE h == [handler[c] EXCEPT !.pc = "act", !.denied = TRUE]
    <3>1. h.pc = "act"
      BY <1>0 DEF HandlerRecord
    <3>2. handler'[c] = h
      BY <1>0, <1>7, <2>2 DEF ValidationDenies
    <3> HIDE DEF h
    <3> QED
      BY <2>1, <3>1, <3>2 DEF Pairs
  <2>3. CASE handler[c].route # "extend"
    BY <1>1, <1>7, <2>1, <2>3 DEF ValidationDenies
  <2> QED
    BY <2>2, <2>3
<1>8. ASSUME NEW x \in Token, IssueToken(c, x) PROVE Pairs(handler'[c], client'[c])
  <2>1. handler[c].route \in {"access", "slack", "breakGlass"}
    BY <1>8 DEF IssueToken
  <2>2. Goto(c, "add", x, NoTime, 0) \/ UNCHANGED client
    BY <1>8 DEF IssueToken, Grant
  <2>3. CASE client'[c].pc = "add"
    <3> DEFINE h == [handler[c] EXCEPT !.pc = "add", !.token = x, !.request = NoRequest]
    <3>1. h.pc = "add" /\ h.route = handler[c].route /\ h.token = x
      BY <1>0 DEF HandlerRecord
    <3>2. handler'[c] = h
      BY <1>0, <1>8, <2>3 DEF IssueToken
    <3> HIDE DEF h
    <3>3. client[c].pc = "idle"
      BY <1>8 DEF IssueToken, Grant
    <3>4. client'[c].token = x
      BY <1>4, <2>2, <2>3, <3>3
    <3> QED
      BY <2>1, <2>3, <3>1, <3>2, <3>4 DEF Pairs
  <2>4. CASE client'[c].pc # "add"
    <3>1. client'[c].pc = "idle"
      BY <1>4, <1>8, <2>2, <2>4 DEF IssueToken, Grant
    <3> QED
      BY <1>1, <1>8, <2>4, <3>1 DEF IssueToken
  <2> QED
    BY <2>3, <2>4
<1>9. CASE AddIssued(c)
  <2>1. client'[c].pc = "idle" /\ t \in Token
    BY <1>0, <1>3, <1>9 DEF AddIssued, Add, Pairs, TypeInv, HoldsToken
  <2>2. Respond(c) \/ HandlerGoes(c, "log")
    BY <1>9 DEF AddIssued
  <2>3. CASE HandlerGoes(c, "log")
    BY <1>2, <2>1, <2>3 DEF Pairs
  <2> QED
    BY <1>1, <2>1, <2>2, <2>3
<1>10. CASE ExtendToken(c)
  <2>1. CASE /\ ExtendNormal(c, t) \/ ExtendClamped(c, t) \/ ExtendForcesRevocation(c, t)
             /\ HandlerGoes(c, "extend")
    <3>1. client'[c].pc \in {"reissue", "reissueClamped", "force"} /\ client'[c].token = t
      BY <1>4, <2>1 DEF ExtendNormal, ExtendClamped, ExtendForcesRevocation
    <3>2. handler[c].route = "extend" /\ ~handler[c].denied
      BY <1>10 DEF ExtendToken
    <3> QED
      BY <1>2, <2>1, <3>1, <3>2 DEF Pairs
  <2>2. CASE Respond(c) /\ UNCHANGED vars
    <3>1. client'[c].pc = "idle"
      BY <1>0, <1>10, <2>2 DEF ExtendToken, vars, Pairs
    <3> QED
      BY <1>1, <2>2, <3>1
  <2> QED
    BY <1>10, <2>1, <2>2 DEF ExtendToken
<1>11. CASE ExtendReturns(c)
  <2>1. CASE Reissue(c) /\ UNCHANGED handler
    <3>1. client'[c].pc = "swap" /\ client'[c].token = client[c].token
      BY <1>4, <2>1 DEF Reissue
    <3> QED
      BY <1>0, <1>11, <2>1, <3>1 DEF ExtendReturns, Pairs
  <2>2. CASE (ReissueFails(c) \/ ForceRevoke(c)) /\ Respond(c)
    BY <1>1, <1>3, <2>2 DEF ReissueFails, ForceRevoke
  <2>3. CASE SwapSecret(c) /\ HandlerGoes(c, "log")
    <3>1. client'[c].pc = "idle" /\ t \in Token
      BY <1>0, <1>3, <1>11, <2>3 DEF SwapSecret, ExtendReturns, Pairs, TypeInv, HoldsToken
    <3> QED
      BY <1>2, <2>3, <3>1 DEF Pairs
  <2> QED
    BY <1>11, <2>1, <2>2, <2>3 DEF ExtendReturns
<1>12. CASE RevokeToken(c)
  <2>1. CASE RevokeNow(c, t) /\ HandlerGoes(c, "revoke")
    <3>1. client'[c].pc = "revoke" /\ client'[c].token = t
      BY <1>4, <2>1 DEF RevokeNow
    <3>2. handler[c].route = "revoke" \/ handler[c].denied
      BY <1>12 DEF RevokeToken, Revoking
    <3> QED
      BY <1>2, <2>1, <3>1, <3>2 DEF Pairs
  <2>2. CASE Respond(c) /\ UNCHANGED vars
    <3>1. client'[c].pc = "idle"
      BY <1>0, <1>12, <2>2 DEF RevokeToken, vars, Pairs
    <3> QED
      BY <1>1, <2>2, <3>1
  <2> QED
    BY <1>12, <2>1, <2>2 DEF RevokeToken
<1>13. CASE RevokeReturns(c)
  <2>1. handler[c].pc = "revoke" /\ (Return(c) \/ UNCHANGED client)
    BY <1>13 DEF RevokeReturns, ManualRevoke
  <2>2. CASE client'[c].pc = "revoke"
    <3>1. UNCHANGED <<client, handler>>
      BY <1>3, <1>13, <2>1, <2>2 DEF RevokeReturns
    <3> QED
      BY <1>0, <3>1
  <2>3. CASE client'[c].pc # "revoke"
    <3>1. client'[c].pc = "idle" /\ t \in Token
      BY <1>0, <1>3, <2>1, <2>3 DEF Pairs, TypeInv, HoldsToken
    <3>2. Respond(c) \/ HandlerGoes(c, "log")
      BY <1>13, <2>3 DEF RevokeReturns
    <3>3. CASE HandlerGoes(c, "log")
      BY <1>2, <3>1, <3>3 DEF Pairs
    <3> QED
      BY <1>1, <3>1, <3>2, <3>3
  <2> QED
    BY <2>2, <2>3
<1> QED
  BY <1>5, <1>6, <1>7, <1>8, <1>9, <1>10, <1>11, <1>12, <1>13 DEF HandlerContinues

\* Steps of the worker, the clock and the ticket touch no request's operation.
LEMMA WorldLeavesRequests ==
  ASSUME ApiWorker \/ ClockAndTicker \/ ContextChanges \/ UNCHANGED allVars
  PROVE  UNCHANGED client
<1>1. CASE ApiWorker
  BY <1>1 DEF ApiWorker, WorkerRevokes, WorkerElse, AutoRevoke, WorkerWakes, MarkWarnings,
              Notify, ScanEnds, ScanSkips, ScanClaims
<1>2. CASE ClockAndTicker \/ ContextChanges \/ UNCHANGED allVars
  BY <1>2 DEF ClockAndTicker, Tick, TickerFires, ContextChanges, allVars, vars
<1> QED
  BY <1>1, <1>2

\* Handlers and store operations stay in step.
LEMMA PairedStep ==
  ASSUME TypeInv, ApiInv, Paired, [ApiNext]_allVars
  PROVE  Paired'
<1> SUFFICES ASSUME NEW d \in Client PROVE Pairs(handler'[d], client'[d])
  BY DEF Paired
<1>0. Pairs(handler[d], client[d])
  BY DEF Paired
<1>1. CASE HandlerStarts(d) \/ HandlerContinues(d)
  BY <1>1, PairMoves
<1>2. ASSUME NEW c \in Client, c # d, HandlerStarts(c) \/ HandlerContinues(c)
      PROVE  Pairs(handler'[d], client'[d])
  BY <1>0, <1>2, OthersStay
<1>3. CASE ApiWorker \/ ClockAndTicker \/ ContextChanges \/ UNCHANGED allVars
  <2>1. UNCHANGED client
    BY <1>3, WorldLeavesRequests
  <2>2. Same(handler'[d], handler[d])
    <3>1. CASE ContextChanges
      <4> DEFINE b == handler[d].inOrder \/ /\ handler[d].pc = "validate"
                                            /\ InContext(handler[d].request, ticket')
      <4>1. handler'[d] = [handler[d] EXCEPT !.inOrder = b]
        BY <3>1 DEF ContextChanges
      <4>2. handler[d] \in HandlerRecord
        BY DEF ApiInv, HandlersTyped
      <4> HIDE DEF b
      <4> QED
        BY <4>1, <4>2 DEF HandlerRecord, Same
    <3>2. CASE ApiWorker \/ ClockAndTicker \/ UNCHANGED allVars
      <4>1. UNCHANGED handler
        BY <3>2 DEF ApiWorker, WorkerRevokes, WorkerElse, ClockAndTicker, allVars, apiVars
      <4> QED
        BY <4>1 DEF Same
    <3> QED
      BY <1>3, <3>1, <3>2
  <2> QED
    BY <1>0, <2>1, <2>2 DEF Same, Pairs
<1> QED
  BY <1>1, <1>2, <1>3 DEF ApiNext

\* At the start every request is free and idle.
LEMMA PairedInit == ApiInit => Paired
BY DEF ApiInit, Init, Paired, Pairs, Free, Idle

\* Handlers and store operations are in step throughout.
LEMMA PairedHolds == ApiSpec => []Inv /\ []Paired
<1>1. Inv /\ ApiInv /\ Paired /\ [ApiNext]_allVars => Paired'
  BY PairedStep DEF Inv
<1>2. ApiSpec => []Inv
  BY ServerImplementsStore, InvHolds, PTL DEF ApiImplementsStore
<1> QED
  BY <1>1, <1>2, PairedInit, ApiInvariant, PTL DEF ApiSpec

-----------------------------------------------------------------------------
(* What each step writes into its handler's record.                        *)

\* h is g at another place of the handler.
Moved(h, g, pc) ==
  /\ h.pc = pc /\ h.route = g.route /\ h.request = g.request /\ h.token = g.token
  /\ h.denied = g.denied /\ h.inOrder = g.inOrder

\* Moving on changes the place only.
LEMMA GoesWrites ==
  ASSUME ApiInv, NEW c \in Client, NEW pc, HandlerGoes(c, pc)
  PROVE  Moved(handler'[c], handler[c], pc)
BY DEF ApiInv, HandlersTyped, HandlerRecord, HandlerGoes, Moved

\* Answering leaves a free slot.
LEMMA RespondWrites ==
  ASSUME ApiInv, NEW c \in Client, Respond(c)
  PROVE  handler'[c] = Free /\ Free.pc = "free"
BY DEF ApiInv, HandlersTyped, Respond, Free

\* A new request notes at once whether the ticket is in order.
LEMMA ReceiveWrites ==
  ASSUME ApiInv, NEW c \in Client, NEW route, NEW r, NEW t, NEW pc,
         Receive(c, route, r, t, pc)
  PROVE  /\ handler'[c].pc = pc /\ handler'[c].route = route /\ handler'[c].request = r
         /\ handler'[c].token = t /\ handler'[c].denied = FALSE
         /\ handler'[c].inOrder = (r # NoRequest /\ InContext(r, ticket))
<1> DEFINE b == r # NoRequest /\ InContext(r, ticket)
<1>1. handler'[c] = [Free EXCEPT !.pc = pc, !.route = route, !.request = r,
                                 !.token = t, !.inOrder = b]
  BY DEF Receive, ApiInv, HandlersTyped
<1> HIDE DEF b
<1>2. /\ handler'[c].pc = pc /\ handler'[c].route = route /\ handler'[c].request = r
      /\ handler'[c].token = t /\ handler'[c].denied = FALSE /\ handler'[c].inOrder = b
  BY <1>1 DEF Free
<1> QED
  BY <1>2 DEF b

\* A denied extension goes on to revoke its token.
LEMMA DeniesWrites ==
  ASSUME ApiInv, NEW c \in Client, ValidationDenies(c), handler[c].route = "extend"
  PROVE  /\ handler'[c].pc = "act" /\ handler'[c].route = handler[c].route
         /\ handler'[c].token = handler[c].token /\ handler'[c].denied = TRUE
BY DEF ApiInv, HandlersTyped, HandlerRecord, ValidationDenies

\* A token that was issued is on its way to Add.
LEMMA IssueWrites ==
  ASSUME ApiInv, NEW c \in Client, NEW t, IssueToken(c, t), client'[c].pc = "add"
  PROVE  /\ handler'[c].pc = "add" /\ handler'[c].route = handler[c].route
         /\ handler'[c].token = t /\ handler'[c].denied = handler[c].denied
         /\ handler'[c].inOrder = handler[c].inOrder
<1> DEFINE h == [handler[c] EXCEPT !.pc = "add", !.token = t, !.request = NoRequest]
<1>1. handler'[c] = h
  BY DEF IssueToken, ApiInv, HandlersTyped
<1>2. handler[c] \in HandlerRecord
  BY DEF ApiInv, HandlersTyped
<1> QED
  BY <1>1, <1>2 DEF HandlerRecord

\* A change of the ticket leaves nothing in the records but history.
LEMMA TicketWrites ==
  ASSUME ApiInv, ContextChanges, NEW c \in Client
  PROVE  /\ handler'[c].pc = handler[c].pc /\ handler'[c].route = handler[c].route
         /\ handler'[c].request = handler[c].request
         /\ handler'[c].token = handler[c].token /\ handler'[c].denied = handler[c].denied
         /\ handler'[c].inOrder = (handler[c].inOrder
              \/ (handler[c].pc = "validate" /\ InContext(handler[c].request, ticket')))
<1> DEFINE b == handler[c].inOrder \/ /\ handler[c].pc = "validate"
                                      /\ InContext(handler[c].request, ticket')
<1>1. handler'[c] = [handler[c] EXCEPT !.inOrder = b]
  BY DEF ContextChanges
<1>2. handler[c] \in HandlerRecord
  BY DEF ApiInv, HandlersTyped
<1> HIDE DEF b
<1>3. /\ handler'[c].pc = handler[c].pc /\ handler'[c].route = handler[c].route
      /\ handler'[c].request = handler[c].request
      /\ handler'[c].token = handler[c].token /\ handler'[c].denied = handler[c].denied
      /\ handler'[c].inOrder = b
  BY <1>1, <1>2 DEF HandlerRecord
<1> QED
  BY <1>3 DEF b

-----------------------------------------------------------------------------
(* Acting in context only.                                                 *)

\* Whom the engine confirms is at work on an active ticket of that kind.
LEMMA ConfirmedIsInContext ==
  ASSUME NEW request, NEW seen, Validate(request, seen) = "ok"
  PROVE  InContext(request, seen)
<1> USE DEF EqualFold, Text
<1>1. Complete(request)
  BY DEF Validate
<1>2. CASE EqualFold(request.kind, Text("pagerduty", FALSE))
  <2>1. Lookup(PagerDutyConfirms(request.who, seen), seen) = "ok"
    BY <1>1, <1>2 DEF Validate
  <2>2. seen.http = "found" /\ PagerDutyConfirms(request.who, seen)
    BY <2>1 DEF Lookup
  <2> QED
    BY <1>1, <1>2, <2>2 DEF Complete, PagerDutyConfirms, InContext, AssignedUnder, ActiveStatus
<1>3. CASE /\ ~EqualFold(request.kind, Text("pagerduty", FALSE))
           /\ EqualFold(request.kind, Text("jira", FALSE))
  <2>1. Lookup(JiraConfirms(request.who, seen), seen) = "ok"
    BY <1>1, <1>3 DEF Validate
  <2>2. seen.http = "found" /\ JiraConfirms(request.who, seen)
    BY <2>1 DEF Lookup
  <2> QED
    BY <1>1, <1>3, <2>2 DEF Complete, JiraConfirms, InContext, AssignedUnder, ActiveStatus
<1> QED
  BY <1>1, <1>2, <1>3 DEF Validate

\* A request that waits for its lookup has noted whether the ticket was in order
\* since it came in; one that goes on to issue or to extend has noted that it was.
Noted(h, tk) ==
  /\ h.pc = "validate" /\ InContext(h.request, tk) => h.inOrder
  /\ h.route \in {"access", "slack"} /\ h.pc \in {"act", "add"} => h.inOrder
  /\ h.route = "extend" /\ h.pc = "act" /\ ~h.denied => h.inOrder

ContextNoted == \A c \in Client : Noted(handler[c], ticket)

\* A request's own step keeps the note.
LEMMA NoteKept ==
  ASSUME ApiInv, ContextNoted,
         NEW c \in Client, HandlerStarts(c) \/ HandlerContinues(c)
  PROVE  Noted(handler'[c], ticket')
<1>0. /\ Noted(handler[c], ticket) /\ handler[c] \in HandlerRecord
      /\ UNCHANGED ticket
  <2>1. UNCHANGED ticket
    BY DEF HandlerStarts, ReceiveAccess, ReceiveSlack, ReceiveExtend, ReceiveBreakGlass,
           ReceiveRevoke, Receive, HandlerContinues, ValidationFails, ValidationPasses,
           ValidationDenies, IssueRefused, IssueToken, AddIssued, ExtendToken,
           ExtendReturns, RevokeToken, RevokeReturns, LogOutcome
  <2> QED
    BY <2>1 DEF ContextNoted, ApiInv, HandlersTyped
<1>1. ASSUME Respond(c) PROVE Noted(handler'[c], ticket')
  BY <1>1, RespondWrites DEF Noted
<1>2. ASSUME NEW pc \in {"extend", "revoke", "log"}, HandlerGoes(c, pc)
      PROVE  Noted(handler'[c], ticket')
  BY <1>2, GoesWrites DEF Moved, Noted
<1>3. CASE HandlerStarts(c)
  <2>1. ~InContext(NoRequest, ticket)
    <3>1. NoRequest.kind.word = ""
      BY DEF NoRequest, Blank, Text
    <3> QED
      BY <3>1 DEF InContext
  <2>2. ASSUME NEW route, NEW r, NEW t, NEW pc, Receive(c, route, r, t, pc),
               route \in {"access", "slack", "extend"} => pc = "validate"
        PROVE  Noted(handler'[c], ticket')
    <3>1. /\ handler'[c].pc = pc /\ handler'[c].route = route /\ handler'[c].request = r
          /\ handler'[c].inOrder = (r # NoRequest /\ InContext(r, ticket))
      BY <2>2, ReceiveWrites
    <3> QED
      BY <1>0, <2>1, <2>2, <3>1 DEF Noted
  <2> QED
    BY <1>3, <2>2 DEF HandlerStarts, ReceiveAccess, ReceiveSlack, ReceiveExtend,
                      ReceiveBreakGlass, ReceiveRevoke
<1>4. CASE ValidationPasses(c)
  <2>1. ~InContext(handler[c].request, Unreachable)
    BY DEF InContext, Unreachable
  <2>2. InContext(handler[c].request, ticket)
    BY <1>4, <2>1, ConfirmedIsInContext DEF ValidationPasses, Verdicts
  <2>3. handler[c].inOrder
    BY <1>0, <1>4, <2>2 DEF ValidationPasses, Noted
  <2>4. Moved(handler'[c], handler[c], "act")
    BY <1>4, GoesWrites DEF ValidationPasses
  <2> QED
    BY <2>3, <2>4 DEF Moved, Noted
<1>5. CASE ValidationDenies(c)
  <2>1. CASE handler[c].route = "extend"
    BY <1>5, <2>1, DeniesWrites DEF Noted
  <2>2. CASE handler[c].route # "extend"
    BY <1>1, <1>5, <2>2 DEF ValidationDenies
  <2> QED
    BY <2>1, <2>2
<1>6. ASSUME NEW t \in Token, IssueToken(c, t) PROVE Noted(handler'[c], ticket')
  <2>1. CASE client'[c].pc = "add"
    <3>1. handler[c].pc = "act" /\ handler[c].route \in {"access", "slack", "breakGlass"}
      BY <1>6 DEF IssueToken
    <3> QED
      BY <1>0, <1>6, <2>1, <3>1, IssueWrites DEF Noted
  <2>2. CASE client'[c].pc # "add"
    BY <1>1, <1>6, <2>2 DEF IssueToken
  <2> QED
    BY <2>1, <2>2
<1>7. CASE \/ ValidationFails(c) \/ IssueRefused(c) \/ AddIssued(c) \/ ExtendToken(c)
           \/ ExtendReturns(c) \/ RevokeToken(c) \/ RevokeReturns(c) \/ LogOutcome(c)
  <2>1. \/ Respond(c)
        \/ HandlerGoes(c, "extend") \/ HandlerGoes(c, "revoke") \/ HandlerGoes(c, "log")
        \/ UNCHANGED handler
    BY <1>7 DEF ValidationFails, IssueRefused, AddIssued, ExtendToken, ExtendReturns,
                RevokeToken, RevokeReturns, LogOutcome
  <2> QED
    BY <1>0, <1>1, <1>2, <2>1
<1> QED
  BY <1>3, <1>4, <1>5, <1>6, <1>7 DEF HandlerContinues

\* Nothing else takes the note back, and a change of the ticket is noted.
LEMMA ContextNotedStep ==
  ASSUME TypeInv, ApiInv, ContextNoted, [ApiNext]_allVars
  PROVE  ContextNoted'
<1> SUFFICES ASSUME NEW d \in Client PROVE Noted(handler'[d], ticket')
  BY DEF ContextNoted
<1>0. Noted(handler[d], ticket)
  BY DEF ContextNoted
<1>1. CASE HandlerStarts(d) \/ HandlerContinues(d)
  BY <1>1, NoteKept
<1>2. ASSUME NEW c \in Client, c # d, HandlerStarts(c) \/ HandlerContinues(c)
      PROVE  Noted(handler'[d], ticket')
  <2>1. UNCHANGED ticket
    BY <1>2 DEF HandlerStarts, ReceiveAccess, ReceiveSlack, ReceiveExtend, ReceiveBreakGlass,
           ReceiveRevoke, Receive, HandlerContinues, ValidationFails, ValidationPasses,
           ValidationDenies, IssueRefused, IssueToken, AddIssued, ExtendToken,
           ExtendReturns, RevokeToken, RevokeReturns, LogOutcome
  <2> QED
    BY <1>0, <1>2, <2>1, OthersStay
<1>3. CASE ContextChanges
  BY <1>0, <1>3, TicketWrites DEF Noted
<1>4. CASE ApiWorker \/ ClockAndTicker \/ UNCHANGED allVars
  BY <1>0, <1>4 DEF ApiWorker, WorkerRevokes, WorkerElse, ClockAndTicker, allVars, apiVars
<1> QED
  BY <1>1, <1>2, <1>3, <1>4 DEF ApiNext

\* A request starts to extend in one place of one handler.
LEMMA ExtensionsStart ==
  ASSUME TypeInv, ApiInv, [ApiNext]_allVars, NEW c \in Client,
         client[c].pc = "idle", client'[c].pc \in {"reissue", "reissueClamped"}
  PROVE  ExtendToken(c)
<1>0. client \in [Client -> ClientRecord]
  BY DEF TypeInv, TypeOK
<1>1. client'[c] # client[c]
  OBVIOUS
<1>2. CASE HandlerStarts(c)
  BY <1>1, <1>2, StartsStutter DEF vars
<1>3. CASE HandlerContinues(c)
  <2>1. CASE \/ ValidationFails(c) \/ ValidationPasses(c) \/ ValidationDenies(c)
             \/ IssueRefused(c) \/ LogOutcome(c)
    BY <1>1, <2>1 DEF ValidationFails, ValidationPasses, ValidationDenies, IssueRefused,
                      LogOutcome, vars
  <2>2. ASSUME NEW t \in Token, IssueToken(c, t) PROVE FALSE
    <3>1. Goto(c, "add", t, NoTime, 0) \/ UNCHANGED client
      BY <2>2 DEF IssueToken, Grant
    <3> QED
      BY <1>0, <1>1, <3>1 DEF Goto
  <2>3. CASE AddIssued(c) \/ ExtendReturns(c) \/ RevokeReturns(c)
    BY <2>3 DEF AddIssued, Add, ExtendReturns, Reissue, ReissueFails, ForceRevoke,
                SwapSecret, RevokeReturns, ManualRevoke
  <2>4. CASE RevokeToken(c)
    <3>1. Goto(c, "revoke", handler[c].token, NoTime, 0) \/ UNCHANGED client
      BY <2>4 DEF RevokeToken, RevokeNow, vars
    <3> QED
      BY <1>0, <1>1, <3>1 DEF Goto
  <2> QED
    BY <1>3, <2>1, <2>2, <2>3, <2>4 DEF HandlerContinues
<1>4. ASSUME NEW d \in Client, d # c, HandlerStarts(d) \/ HandlerContinues(d) PROVE FALSE
  BY <1>1, <1>4, OthersStay
<1>5. CASE ApiWorker \/ ClockAndTicker \/ ContextChanges \/ UNCHANGED allVars
  BY <1>1, <1>5, WorldLeavesRequests
<1> QED
  BY <1>2, <1>3, <1>4, <1>5 DEF ApiNext

\* Whatever people do to the ticket while requests wait for it, no token is
\* registered through requestAccess or Slack, and no expiry moved by extendAccess
\* (server.go, 77-224), unless the ticket was in order at some moment
\* since that very request came in.
THEOREM ActsInContextHolds == ApiSpec => ActsInContext
<1> DEFINE Justified ==
      \A c \in Client :
        /\ handler[c].pc = "add" /\ handler'[c].pc # "add"
             => handler[c].route = "breakGlass" \/ handler[c].inOrder
        /\ client[c].pc = "idle" /\ client'[c].pc \in {"reissue", "reissueClamped"}
             => handler[c].inOrder
<1>1. ApiInit => ContextNoted
  BY DEF ApiInit, ContextNoted, Noted, Free
<1>2. Inv /\ ApiInv /\ ContextNoted /\ [ApiNext]_allVars => ContextNoted'
  BY ContextNotedStep DEF Inv
<1>3. Inv /\ ApiInv /\ Paired /\ ContextNoted /\ [ApiNext]_allVars => [Justified]_allVars
  <2> SUFFICES ASSUME Inv, ApiInv, Paired, ContextNoted, [ApiNext]_allVars,
                      NEW c \in Client
               PROVE  /\ handler[c].pc = "add"
                           => handler[c].route = "breakGlass" \/ handler[c].inOrder
                      /\ client[c].pc = "idle"
                           /\ client'[c].pc \in {"reissue", "reissueClamped"}
                           => handler[c].inOrder
    OBVIOUS
  <2>1. handler[c].pc = "add" => handler[c].route = "breakGlass" \/ handler[c].inOrder
    BY DEF Paired, Pairs, ContextNoted, Noted
  <2>2. ExtendToken(c) => handler[c].inOrder
    BY DEF ExtendToken, ContextNoted, Noted
  <2> QED
    BY <2>1, <2>2, ExtensionsStart DEF Inv
<1>4. ActsInContext <=> [][Justified]_allVars
  BY DEF ActsInContext
<1> QED
  BY <1>1, <1>2, <1>3, <1>4, ApiInvariant, PairedHolds, PTL DEF ApiSpec

-----------------------------------------------------------------------------
(* The audit trail.                                                        *)

\* The store owes the trail an event about t's end: the worker is done with it,
\* or a request's revocation has succeeded.
EndDue(t) ==
  \/ cause[t] = "auto" /\ answer[t] # "none"
  \/ cause[t] = "manual" /\ answer[t] = "ok"

\* A step without an answer from the provider makes nothing due: marking a token
\* is not yet the end.
LEMMA NoAnswerNothingDue ==
  ASSUME Inv, Responsible, [Next]_vars, UNCHANGED answer, NEW t \in Token
  PROVE  EndDue(t)' <=> EndDue(t)
<1>1. answer[t] # "none" => cause'[t] = cause[t]
  BY KnownRecord DEF Inv, Registration, Responsible
<1> QED
  BY <1>1 DEF EndDue

\* RevokeNow makes the event due if and only if its call succeeds.
LEMMA ManualDue ==
  ASSUME Inv, Responsible, Accountable, NEW c \in Client, ManualRevoke(c),
         NEW t \in Token
  PROVE  /\ client[c].token # t => (EndDue(t)' <=> EndDue(t))
         /\ client[c].token = t
              => /\ ~EndDue(t)
                 /\ EndDue(t)' <=> answer'[t] = "ok"
                 /\ client'[c].pc = "revoke" => answer'[t] # "ok"
<1>1. /\ answer \in [Token -> {"none", "ok", "failed"}]
      /\ client \in [Client -> ClientRecord] /\ UNCHANGED cause
  BY DEF Inv, TypeInv, TypeOK, ManualRevoke
<1>2. CASE client[c].token # t
  <2>1. answer'[t] = answer[t]
    BY <1>1, <1>2 DEF ManualRevoke, RevokeSucceeds, RevokeLost, RevokeFails
  <2> QED
    BY <1>1, <1>2, <2>1 DEF EndDue
<1>3. CASE client[c].token = t
  <2>1. answer[t] = "none" /\ cause[t] = "manual"
    BY <1>3 DEF ManualRevoke, Responsible, Owns, Accountable
  <2>2. Return(c) => client'[c].pc = "idle"
    BY <1>1 DEF Return, Idle
  <2>3. client'[c].pc = "revoke" => answer'[t] # "ok"
    BY <2>1, <2>2 DEF ManualRevoke, RevokeLost
  <2> QED
    BY <1>1, <1>3, <2>1, <2>3 DEF EndDue
<1> QED
  BY <1>2, <1>3

\* The worker makes it due when its call is over, whatever came of it.
LEMMA WorkerDue ==
  ASSUME Inv, Responsible, Accountable, AutoRevoke, NEW t \in Token
  PROVE  /\ worker.target # t => (EndDue(t)' <=> EndDue(t))
         /\ worker.target = t => ~EndDue(t) /\ (EndDue(t)' <=> worker'.pc = "scan")
<1>1. /\ answer \in [Token -> {"none", "ok", "failed"}]
      /\ worker \in WorkerRecord /\ worker.pc = "revoke" /\ UNCHANGED cause
  BY DEF Inv, TypeInv, TypeOK, AutoRevoke
<1>2. CASE worker.target # t
  <2>1. answer'[t] = answer[t]
    BY <1>1, <1>2 DEF AutoRevoke, RevokeSucceeds, RevokeLost, RevokeFails
  <2> QED
    BY <1>1, <1>2, <2>1 DEF EndDue
<1>3. CASE worker.target = t
  <2>1. answer[t] = "none" /\ cause[t] = "auto"
    BY <1>1, <1>3 DEF Responsible, WorkerOwns, Accountable
  <2>2. answer'[t] # "none" <=> worker'.pc = "scan"
    BY <1>1, <1>3, <2>1 DEF AutoRevoke, RevokeSucceeds, RevokeLost, RevokeFails, WorkerRecord
  <2> QED
    BY <1>1, <1>3, <2>1, <2>2 DEF EndDue
<1> QED
  BY <1>2, <1>3

\* The revocation at the ceiling makes nothing due.
LEMMA CeilingDue ==
  ASSUME Inv, Accountable, NEW c \in Client, ForceRevoke(c), NEW x \in Token
  PROVE  EndDue(x)' <=> EndDue(x)
<1> DEFINE t == client[c].token
<1>1. cause[t] = "ceiling" /\ UNCHANGED cause
  BY DEF ForceRevoke, Accountable
<1>2. answer \in [Token -> {"none", "ok", "failed"}]
  BY DEF Inv, TypeInv, TypeOK
<1>3. x # t => answer'[x] = answer[x]
  BY <1>2 DEF ForceRevoke, RevokeSucceeds, RevokeFails
<1> HIDE DEF t
<1> QED
  BY <1>1, <1>3 DEF EndDue

\* What a request does that neither issues nor registers a token, ends one with
\* success, nor writes an event: the trail and what it owes stay.
Aside(c) ==
  /\ UNCHANGED <<logged, origin, registered>>
  /\ \A t \in Token : EndDue(t)' <=> EndDue(t)
  /\ handler[c].pc # "log" /\ handler'[c].pc # "add"
  /\ handler'[c].pc = "log" => handler'[c].route = "extend" /\ ~handler'[c].denied

\* RevokeNow comes back with a success, which its handler is going to log.
RevokeSucceeded(c) ==
  /\ RevokeReturns(c) /\ HandlerGoes(c, "log")
  /\ answer'[handler[c].token] = "ok"

\* The five kinds of steps of a request, as far as the trail is concerned.
LEMMA RecordKinds ==
  ASSUME Inv, Responsible, Accountable, ApiInv, Paired, [Next]_vars,
         NEW c \in Client, HandlerStarts(c) \/ HandlerContinues(c)
  PROVE  \/ Aside(c)
         \/ \E t \in Token : IssueToken(c, t) /\ client'[c].pc = "add"
         \/ AddIssued(c)
         \/ RevokeSucceeded(c)
         \/ LogOutcome(c)
<1>0. Pairs(handler[c], client[c])
  BY DEF Paired
<1>1. UNCHANGED answer => \A t \in Token : EndDue(t)' <=> EndDue(t)
  BY NoAnswerNothingDue
<1>2. Respond(c) => handler'[c].pc = "free"
  BY RespondWrites
<1>3. ASSUME NEW pc, HandlerGoes(c, pc)
      PROVE  /\ handler'[c].pc = pc /\ handler'[c].route = handler[c].route
             /\ handler'[c].denied = handler[c].denied
  BY <1>3, GoesWrites DEF Moved
<1>4. CASE HandlerStarts(c)
  <2>1. PICK route, r, x, pc : Receive(c, route, r, x, pc) /\ pc \in {"validate", "act"}
    BY <1>4 DEF HandlerStarts, ReceiveAccess, ReceiveSlack, ReceiveExtend,
                ReceiveBreakGlass, ReceiveRevoke
  <2>2. handler[c].pc = "free" /\ handler'[c].pc \in {"validate", "act"}
    <3>1. handler'[c].pc = pc
      BY <2>1, ReceiveWrites
    <3> QED
      BY <2>1, <3>1 DEF Receive
  <2>3. UNCHANGED <<logged, origin, vars>>
    BY <2>1 DEF Receive
  <2> QED
    BY <1>1, <2>2, <2>3 DEF Aside, vars, storeVars, history
<1>5. CASE ValidationFails(c) \/ ValidationPasses(c) \/ IssueRefused(c)
  <2>1. /\ UNCHANGED <<logged, origin, vars>> /\ handler[c].pc \in {"validate", "act"}
        /\ Respond(c) \/ HandlerGoes(c, "act")
    BY <1>5 DEF ValidationFails, ValidationPasses, IssueRefused
  <2>2. handler'[c].pc \in {"free", "act"}
    BY <1>2, <1>3, <2>1
  <2> QED
    BY <1>1, <2>1, <2>2 DEF Aside, vars, storeVars, history
<1>6. CASE ValidationDenies(c)
  <2>1. UNCHANGED <<logged, origin, vars>> /\ handler[c].pc = "validate"
    BY <1>6 DEF ValidationDenies
  <2>2. handler'[c].pc \in {"free", "act"}
    BY <1>2, <1>6, DeniesWrites DEF ValidationDenies
  <2> QED
    BY <1>1, <2>1, <2>2 DEF Aside, vars, storeVars, history
<1>7. ASSUME NEW t \in Token, IssueToken(c, t), client'[c].pc # "add"
      PROVE  Aside(c)
  <2>1. UNCHANGED <<logged, origin, registered, answer>> /\ handler[c].pc = "act"
    BY <1>7 DEF IssueToken, Grant, history
  <2>2. handler'[c].pc = "free"
    BY <1>2, <1>7 DEF IssueToken
  <2> QED
    BY <1>1, <2>1, <2>2 DEF Aside
<1>8. CASE ExtendToken(c)
  <2>1. UNCHANGED <<logged, origin, registered, answer>> /\ handler[c].pc = "act"
    BY <1>8 DEF ExtendToken, ExtendNormal, ExtendClamped, ExtendForcesRevocation, vars,
                storeVars, history
  <2>2. Respond(c) \/ HandlerGoes(c, "extend")
    BY <1>8 DEF ExtendToken
  <2>3. handler'[c].pc \in {"free", "extend"}
    BY <1>2, <1>3, <2>2
  <2> QED
    BY <1>1, <2>1, <2>3 DEF Aside
<1>9. CASE ExtendReturns(c)
  <2>1. handler[c].pc = "extend" /\ UNCHANGED <<logged, origin>>
    BY <1>9 DEF ExtendReturns
  <2>2. handler[c].route = "extend" /\ ~handler[c].denied
    BY <1>0, <2>1 DEF Pairs
  <2>3. UNCHANGED registered
    BY <1>9 DEF ExtendReturns, Reissue, ReissueFails, ForceRevoke, SwapSecret, storeVars
  <2>4. \A t \in Token : EndDue(t)' <=> EndDue(t)
    <3>1. CASE ForceRevoke(c)
      BY <3>1, CeilingDue
    <3>2. CASE ~ForceRevoke(c)
      BY <1>1, <1>9, <3>2 DEF ExtendReturns, Reissue, ReissueFails, SwapSecret, history
    <3> QED
      BY <3>1, <3>2
  <2>5. UNCHANGED handler \/ Respond(c) \/ HandlerGoes(c, "log")
    BY <1>9 DEF ExtendReturns
  <2>6. /\ handler'[c].pc \in {"extend", "free", "log"}
        /\ handler'[c].pc = "log" => handler'[c].route = "extend" /\ ~handler'[c].denied
    BY <1>2, <1>3, <2>1, <2>2, <2>5
  <2> QED
    BY <2>1, <2>3, <2>4, <2>6 DEF Aside
<1>10. CASE RevokeToken(c)
  <2>1. UNCHANGED <<logged, origin, registered, answer>> /\ handler[c].pc = "act"
    BY <1>10 DEF RevokeToken, RevokeNow, vars, storeVars, history
  <2>2. Respond(c) \/ HandlerGoes(c, "revoke")
    BY <1>10 DEF RevokeToken
  <2>3. handler'[c].pc \in {"free", "revoke"}
    BY <1>2, <1>3, <2>2
  <2> QED
    BY <1>1, <2>1, <2>3 DEF Aside
<1>11. CASE RevokeReturns(c) /\ ~RevokeSucceeded(c)
  <2>1. /\ handler[c].pc = "revoke" /\ ManualRevoke(c) /\ UNCHANGED <<logged, origin>>
        /\ UNCHANGED registered
    BY <1>11 DEF RevokeReturns, ManualRevoke, storeVars
  <2>2. client[c].token = handler[c].token
    BY <1>0, <2>1 DEF Pairs
  <2>3. \/ client'[c].pc = "revoke" /\ UNCHANGED handler
        \/ answer'[handler[c].token] # "ok" /\ Respond(c)
    BY <1>11 DEF RevokeReturns, RevokeSucceeded
  <2>4. handler'[c].pc \in {"revoke", "free"}
    BY <1>2, <2>1, <2>3
  <2>5. ASSUME NEW t \in Token PROVE EndDue(t)' <=> EndDue(t)
    <3>1. client[c].token = t => answer'[t] # "ok"
      BY <2>1, <2>2, <2>3, ManualDue
    <3> QED
      BY <2>1, <3>1, ManualDue
  <2> QED
    BY <2>1, <2>4, <2>5 DEF Aside
<1> QED
  BY <1>4, <1>5, <1>6, <1>7, <1>8, <1>9, <1>10, <1>11 DEF HandlerContinues

\* What worker, clock and ticket do to the trail: the worker writes an event when
\* its revocation is over, nothing else writes or owes one.
LEMMA WorldRecords ==
  ASSUME Inv, Responsible, Accountable, ApiInv, [Next]_vars,
         ApiWorker \/ ClockAndTicker \/ ContextChanges \/ UNCHANGED allVars
  PROVE  /\ UNCHANGED <<origin, registered>>
         /\ \A d \in Client : Same(handler'[d], handler[d])
         /\ \/ UNCHANGED logged /\ \A t \in Token : EndDue(t)' <=> EndDue(t)
            \/ AutoRevoke /\ worker'.pc = "scan" /\ Log(worker.target, "revoked")
<1>1. UNCHANGED answer => \A t \in Token : EndDue(t)' <=> EndDue(t)
  BY NoAnswerNothingDue
<1>2. ASSUME UNCHANGED handler PROVE \A d \in Client : Same(handler'[d], handler[d])
  BY <1>2 DEF Same
<1>3. CASE WorkerRevokes
  <2>1. AutoRevoke /\ UNCHANGED <<handler, origin, registered>>
    BY <1>3 DEF WorkerRevokes, AutoRevoke, storeVars
  <2>2. CASE worker'.pc = "scan"
    BY <1>2, <1>3, <2>1, <2>2 DEF WorkerRevokes
  <2>3. CASE worker'.pc # "scan"
    <3>1. \A t \in Token : EndDue(t)' <=> EndDue(t)
      BY <2>1, <2>3, WorkerDue
    <3> QED
      BY <1>2, <1>3, <2>1, <2>3, <3>1 DEF WorkerRevokes
  <2> QED
    BY <2>2, <2>3
<1>4. CASE WorkerElse \/ ClockAndTicker \/ UNCHANGED allVars
  <2>1. UNCHANGED <<handler, logged, origin>>
    BY <1>4 DEF WorkerElse, ClockAndTicker, allVars, apiVars
  <2>2. UNCHANGED <<registered, answer>>
    BY <1>4 DEF WorkerElse, ClockAndTicker, allVars, WorkerWakes, MarkWarnings, Notify,
                ScanEnds, ScanSkips, ScanClaims, Tick, TickerFires, vars, storeVars, history
  <2> QED
    BY <1>1, <1>2, <2>1, <2>2
<1>5. CASE ContextChanges
  <2>1. \A d \in Client : Same(handler'[d], handler[d])
    BY <1>5, TicketWrites DEF Same
  <2>2. UNCHANGED <<logged, origin, registered, answer>>
    BY <1>5 DEF ContextChanges, vars, storeVars, history
  <2> QED
    BY <1>1, <2>1, <2>2
<1> QED
  BY <1>3, <1>4, <1>5 DEF ApiWorker

\* h is about to write that t was granted, or that t was revoked.
OwesGrant(h, t) == h.pc = "log" /\ h.token = t /\ h.route = "access"
OwesEnd(h, t) == h.pc = "log" /\ h.token = t /\ (h.route = "revoke" \/ h.denied)

Granters(t) == {c \in Client : OwesGrant(handler[c], t)}
Enders(t) == {c \in Client : OwesEnd(handler[c], t)}

\* An event that is due is in the log or on its way there, once.
Trail(due, written, owing) ==
  \/ ~due /\ written = 0 /\ owing = {}
  \/ due /\ written = 1 /\ owing = {}
  \/ due /\ written = 0 /\ \E c : owing = {c}

\* The event a handler writes is the one it owes.
LEMMA EventFits ==
  ASSUME ApiInv, NEW c \in Client
  PROVE  /\ EventOf(c) \in Events
         /\ EventOf(c) = "granted" <=> handler[c].route = "access"
         /\ EventOf(c) = "revoked" <=> handler[c].route = "revoke" \/ handler[c].denied
<1>1. handler[c].denied => handler[c].route = "extend"
  BY DEF ApiInv, Owners
<1>2. CASE handler[c].route = "access"
  BY <1>1, <1>2 DEF EventOf, Events, Revoking
<1>3. CASE Revoking(c)
  BY <1>1, <1>3 DEF EventOf, Events, Revoking
<1>4. CASE handler[c].route # "access" /\ ~Revoking(c)
  BY <1>4 DEF EventOf, Events, Revoking
<1> QED
  BY <1>2, <1>3, <1>4

\* Writing an event counts up where it belongs and nowhere else.
LEMMA LogWrites ==
  ASSUME ApiInv, NEW t \in Token, NEW e \in Events, Log(t, e)
  PROVE  \A x \in Token, f \in Events :
           logged'[x][f] = IF x = t /\ f = e THEN logged[x][f] + 1 ELSE logged[x][f]
BY DEF ApiInv, HandlersTyped, Log

\* A request's step changes what it owes itself, and nothing for the others.
LEMMA OwnDebts ==
  ASSUME TypeInv, ApiInv, NEW c \in Client, HandlerStarts(c) \/ HandlerContinues(c),
         NEW t
  PROVE  /\ Granters(t)' = (Granters(t) \ {c})
                             \cup {d \in {c} : OwesGrant(handler'[c], t)}
         /\ Enders(t)' = (Enders(t) \ {c}) \cup {d \in {c} : OwesEnd(handler'[c], t)}
<1>1. \A d \in Client \ {c} : handler'[d] = handler[d]
  BY OthersStay
<1>2. Granters(t)' = {d \in Client : OwesGrant(handler'[d], t)}
  BY DEF Granters, OwesGrant
<1>3. Enders(t)' = {d \in Client : OwesEnd(handler'[d], t)}
  BY DEF Enders, OwesEnd
<1>4. Granters(t)' = (Granters(t) \ {c}) \cup {d \in {c} : OwesGrant(handler'[c], t)}
  BY <1>1, <1>2 DEF Granters
<1>5. Enders(t)' = (Enders(t) \ {c}) \cup {d \in {c} : OwesEnd(handler'[c], t)}
  BY <1>1, <1>3 DEF Enders
<1> QED
  BY <1>4, <1>5

\* Nobody owes anything new while all handlers stay where they are.
LEMMA DebtsStay ==
  ASSUME \A d \in Client : Same(handler'[d], handler[d]), NEW t
  PROVE  Granters(t)' = Granters(t) /\ Enders(t)' = Enders(t)
<1>1. \A d \in Client : /\ OwesGrant(handler'[d], t) <=> OwesGrant(handler[d], t)
                        /\ OwesEnd(handler'[d], t) <=> OwesEnd(handler[d], t)
  BY DEF Same, OwesGrant, OwesEnd
<1>2. Granters(t)' = {d \in Client : OwesGrant(handler'[d], t)}
  BY DEF Granters, OwesGrant
<1>3. Enders(t)' = {d \in Client : OwesEnd(handler'[d], t)}
  BY DEF Enders, OwesEnd
<1> QED
  BY <1>1, <1>2, <1>3 DEF Granters, Enders

\* The ends of tokens: what is due is written or owed.
EndsRecorded == \A t \in Token : Trail(EndDue(t), logged[t]["revoked"], Enders(t))

\* Nothing about t's end changes.
LEMMA EndRecordStays ==
  ASSUME NEW t \in Token, EndDue(t)' <=> EndDue(t),
         logged'[t]["revoked"] = logged[t]["revoked"], Enders(t)' = Enders(t),
         Trail(EndDue(t), logged[t]["revoked"], Enders(t))
  PROVE  Trail(EndDue(t), logged[t]["revoked"], Enders(t))'
BY DEF Trail

\* A request keeps the record of ends.
LEMMA EndsRecordedByRequest ==
  ASSUME Inv, Responsible, Accountable, ApiInv, Paired, EndsRecorded, [Next]_vars,
         NEW c \in Client, HandlerStarts(c) \/ HandlerContinues(c)
  PROVE  EndsRecorded'
<1> SUFFICES ASSUME NEW t \in Token
             PROVE  Trail(EndDue(t), logged[t]["revoked"], Enders(t))'
  BY DEF EndsRecorded
<1>0. /\ Trail(EndDue(t), logged[t]["revoked"], Enders(t))
      /\ Enders(t)' = (Enders(t) \ {c}) \cup {d \in {c} : OwesEnd(handler'[c], t)}
      /\ c \in Enders(t) <=> OwesEnd(handler[c], t)
      /\ Pairs(handler[c], client[c])
  BY OwnDebts DEF EndsRecorded, Inv, Enders, Paired
<1>1. ASSUME ~OwesEnd(handler[c], t), ~OwesEnd(handler'[c], t)
      PROVE  Enders(t)' = Enders(t)
  BY <1>0, <1>1
<1>2. CASE Aside(c)
  <2>1. ~OwesEnd(handler[c], t) /\ ~OwesEnd(handler'[c], t)
    BY <1>2 DEF Aside, OwesEnd
  <2> QED
    BY <1>0, <1>1, <1>2, <2>1, EndRecordStays DEF Aside
<1>3. ASSUME NEW x \in Token, IssueToken(c, x), client'[c].pc = "add"
      PROVE  Trail(EndDue(t), logged[t]["revoked"], Enders(t))'
  <2>1. ~OwesEnd(handler[c], t) /\ ~OwesEnd(handler'[c], t)
    BY <1>3, IssueWrites DEF IssueToken, OwesEnd
  <2>2. EndDue(t)' <=> EndDue(t)
    BY <1>3, NoAnswerNothingDue DEF IssueToken, Grant, history
  <2>3. Log(x, "breakGlass") \/ UNCHANGED logged
    BY <1>3 DEF IssueToken
  <2>4. logged'[t]["revoked"] = logged[t]["revoked"]
    BY <2>3, LogWrites DEF Events
  <2> QED
    BY <1>0, <1>1, <2>1, <2>2, <2>4, EndRecordStays
<1>4. CASE AddIssued(c)
  <2>1. handler[c].pc = "add" /\ UNCHANGED <<logged, answer>>
    BY <1>4 DEF AddIssued, Add, history
  <2>2. ~OwesEnd(handler[c], t) /\ ~OwesEnd(handler'[c], t)
    <3>1. \/ handler'[c].pc = "free"
          \/ /\ handler[c].route = "access" /\ handler'[c].route = handler[c].route
             /\ handler'[c].denied = handler[c].denied
      BY <1>4, RespondWrites, GoesWrites DEF AddIssued, Moved
    <3>2. handler[c].denied => handler[c].route = "extend"
      BY DEF ApiInv, Owners
    <3> QED
      BY <2>1, <3>1, <3>2 DEF OwesEnd
  <2>3. EndDue(t)' <=> EndDue(t)
    BY <2>1, NoAnswerNothingDue
  <2> QED
    BY <1>0, <1>1, <2>1, <2>2, <2>3, EndRecordStays
<1>5. CASE RevokeSucceeded(c)
  <2>1. /\ handler[c].pc = "revoke" /\ ManualRevoke(c) /\ UNCHANGED logged
        /\ answer'[handler[c].token] = "ok"
        /\ Moved(handler'[c], handler[c], "log")
    BY <1>5, GoesWrites DEF RevokeSucceeded, RevokeReturns
  <2>2. /\ client[c].token = handler[c].token
        /\ handler[c].route = "revoke" \/ handler[c].denied
    BY <1>0, <2>1 DEF Pairs
  <2>3. ~OwesEnd(handler[c], t) /\ (OwesEnd(handler'[c], t) <=> handler[c].token = t)
    BY <2>1, <2>2 DEF OwesEnd, Moved
  <2>4. CASE handler[c].token = t
    <3>1. ~EndDue(t) /\ EndDue(t)'
      BY <2>1, <2>2, <2>4, ManualDue
    <3>2. Enders(t) = {} /\ logged[t]["revoked"] = 0
      BY <1>0, <3>1 DEF Trail
    <3>3. Enders(t)' = {c}
      BY <1>0, <2>3, <2>4, <3>2
    <3> QED
      BY <2>1, <3>1, <3>2, <3>3 DEF Trail
  <2>5. CASE handler[c].token # t
    <3>1. EndDue(t)' <=> EndDue(t)
      BY <2>1, <2>2, <2>5, ManualDue
    <3> QED
      BY <1>0, <1>1, <2>1, <2>3, <2>5, <3>1, EndRecordStays
  <2> QED
    BY <2>4, <2>5
<1>6. CASE LogOutcome(c)
  <2>1. /\ handler[c].pc = "log" /\ Log(handler[c].token, EventOf(c)) /\ UNCHANGED answer
        /\ handler[c].token \in Token
    BY <1>0, <1>6 DEF LogOutcome, vars, history, Pairs
  <2>2. ~OwesEnd(handler'[c], t)
    BY <1>6, RespondWrites DEF LogOutcome, OwesEnd
  <2>3. EndDue(t)' <=> EndDue(t)
    BY <2>1, NoAnswerNothingDue
  <2>4. logged'[t]["revoked"] = IF t = handler[c].token /\ "revoked" = EventOf(c)
                                THEN logged[t]["revoked"] + 1 ELSE logged[t]["revoked"]
    BY <2>1, EventFits, LogWrites DEF Events
  <2>5. OwesEnd(handler[c], t) <=> t = handler[c].token /\ "revoked" = EventOf(c)
    BY <2>1, EventFits DEF OwesEnd
  <2>6. CASE OwesEnd(handler[c], t)
    <3>1. EndDue(t) /\ logged[t]["revoked"] = 0 /\ \E d : Enders(t) = {d}
      BY <1>0, <2>6 DEF Trail
    <3>2. Enders(t)' = {}
      BY <1>0, <2>2, <2>6, <3>1
    <3> QED
      BY <2>3, <2>4, <2>5, <2>6, <3>1, <3>2 DEF Trail
  <2>7. CASE ~OwesEnd(handler[c], t)
    BY <1>0, <1>1, <2>2, <2>3, <2>4, <2>5, <2>7, EndRecordStays
  <2> QED
    BY <2>6, <2>7
<1> QED
  BY <1>2, <1>3, <1>4, <1>5, <1>6, RecordKinds

\* So do the worker, which writes its own events, and the rest of the world.
LEMMA EndsRecordedByWorld ==
  ASSUME Inv, Responsible, Accountable, ApiInv, EndsRecorded, [Next]_vars,
         ApiWorker \/ ClockAndTicker \/ ContextChanges \/ UNCHANGED allVars
  PROVE  EndsRecorded'
<1> SUFFICES ASSUME NEW t \in Token
             PROVE  Trail(EndDue(t), logged[t]["revoked"], Enders(t))'
  BY DEF EndsRecorded
<1>0. Trail(EndDue(t), logged[t]["revoked"], Enders(t)) /\ Enders(t)' = Enders(t)
  BY WorldRecords, DebtsStay DEF EndsRecorded
<1>1. CASE UNCHANGED logged /\ \A x \in Token : EndDue(x)' <=> EndDue(x)
  BY <1>0, <1>1, EndRecordStays
<1>2. CASE AutoRevoke /\ worker'.pc = "scan" /\ Log(worker.target, "revoked")
  <2>1. worker.target \in Token
    BY <1>2 DEF AutoRevoke, Inv, TypeInv, HoldsToken
  <2>2. logged'[t]["revoked"] = IF t = worker.target THEN logged[t]["revoked"] + 1
                                                    ELSE logged[t]["revoked"]
    BY <1>2, <2>1, LogWrites DEF Events
  <2>3. CASE worker.target = t
    <3>1. ~EndDue(t) /\ EndDue(t)'
      BY <1>2, <2>3, WorkerDue
    <3>2. Enders(t) = {} /\ logged[t]["revoked"] = 0
      BY <1>0, <3>1 DEF Trail
    <3> QED
      BY <1>0, <2>2, <2>3, <3>1, <3>2 DEF Trail
  <2>4. CASE worker.target # t
    <3>1. EndDue(t)' <=> EndDue(t)
      BY <1>2, <2>4, WorkerDue
    <3> QED
      BY <1>0, <2>2, <2>4, <3>1, EndRecordStays
  <2> QED
    BY <2>3, <2>4
<1> QED
  BY <1>1, <1>2, WorldRecords

\* No step loses an event about an end or writes one twice.
LEMMA EndsRecordedStep ==
  ASSUME Inv, Responsible, Accountable, ApiInv, Paired, EndsRecorded, [Next]_vars,
         [ApiNext]_allVars
  PROVE  EndsRecorded'
BY EndsRecordedByRequest, EndsRecordedByWorld DEF ApiNext

\* What RevocationLogged says of n events for t.
EventsFit(t, n) ==
  /\ n <= 1
  /\ cause[t] \in {"auto", "manual"} /\ answer[t] = "ok" => n = 1
  /\ n = 1 => tok[t].revoked /\ answer[t] # "none"
  /\ n = 1 /\ cause[t] = "manual" => answer[t] = "ok"

\* A successful revocation of RevokeNow or of the worker has left exactly one
\* "revoked" event (store.go, 168-181 and 382-393) or its handler is about to write
\* it; no end has two, and of a request's there is none without success.
THEOREM RevocationLoggedHolds == ApiSpec => []RevocationLogged
<1>1. ApiInit => EndsRecorded
  <2> SUFFICES ASSUME ApiInit, NEW t \in Token
               PROVE  Trail(EndDue(t), logged[t]["revoked"], Enders(t))
    BY DEF EndsRecorded
  <2>1. Enders(t) = {} /\ ~EndDue(t)
    BY DEF ApiInit, Init, Enders, OwesEnd, Free, EndDue
  <2>2. logged[t]["revoked"] = 0
    BY DEF ApiInit, Events
  <2> QED
    BY <2>1, <2>2 DEF Trail
<1>2. Inv /\ Responsible /\ Accountable /\ ApiInv /\ Paired /\ EndsRecorded /\ [Next]_vars
        /\ [ApiNext]_allVars => EndsRecorded'
  BY EndsRecordedStep
<1>3. Inv /\ ApiInv /\ EndsRecorded => RevocationLogged
  <2> SUFFICES ASSUME Inv, ApiInv, EndsRecorded, NEW t \in Token
               PROVE  EventsFit(t, logged[t]["revoked"]
                                     + IF AboutToLog(t, "revoked") THEN 1 ELSE 0)
    BY DEF RevocationLogged, EventsFit
  <2>1. AboutToLog(t, "revoked") <=> Enders(t) # {}
    BY EventFits DEF AboutToLog, Enders, OwesEnd
  <2>2. Trail(EndDue(t), logged[t]["revoked"], Enders(t))
    BY DEF EndsRecorded
  <2>3. logged[t]["revoked"] + (IF AboutToLog(t, "revoked") THEN 1 ELSE 0)
          = IF EndDue(t) THEN 1 ELSE 0
    BY <2>1, <2>2 DEF Trail
  <2>4. EndDue(t) => tok[t].revoked
    BY DEF EndDue, Inv, Registration
  <2> QED
    BY <2>3, <2>4 DEF EventsFit, EndDue
<1>4. ApiSpec => [][Next]_vars /\ []Inv /\ []Responsible /\ []Accountable
  BY ServerImplementsStore, InvHolds, ResponsibleHolds, AccountableHolds, PTL
     DEF ApiImplementsStore, Spec
<1> QED
  BY <1>1, <1>2, <1>3, <1>4, ApiInvariant, PairedHolds, PTL DEF ApiSpec

\* The grants of tokens: requestAccess's event is due once its token is registered,
\* the emergency one is written with the token itself, and a token nobody has
\* issued has no origin.
GrantRecorded(t) ==
  /\ Trail(t \in registered /\ origin[t] = "access", logged[t]["granted"], Granters(t))
  /\ logged[t]["breakGlass"] = IF origin[t] = "breakGlass" THEN 1 ELSE 0
  /\ leases[t] = << >> => origin[t] = "none"

\* Whoever is about to register a token is the one it came from.
Origins == \A c \in Client : handler[c].pc = "add" => origin[handler[c].token] = handler[c].route

GrantsRecorded == Origins /\ \A t \in Token : GrantRecorded(t)

\* Nothing about t's grant changes.
LEMMA GrantRecordStays ==
  ASSUME TypeInv, [Next]_vars, NEW t \in Token, GrantRecorded(t),
         t \in registered' <=> t \in registered, origin'[t] = origin[t],
         logged'[t]["granted"] = logged[t]["granted"],
         logged'[t]["breakGlass"] = logged[t]["breakGlass"],
         Granters(t)' = Granters(t)
  PROVE  GrantRecorded(t)'
<1>1. leases'[t] = << >> => leases[t] = << >>
  BY LeasesStay
<1> QED
  BY <1>1 DEF GrantRecorded, Trail

\* The others' tokens keep their origins if those they are about to add do.
LEMMA OriginsKept ==
  ASSUME TypeInv, ApiInv, Origins,
         NEW c \in Client, HandlerStarts(c) \/ HandlerContinues(c),
         handler'[c].pc = "add" => origin'[handler'[c].token] = handler'[c].route,
         \A d \in Client \ {c} : handler[d].pc = "add"
            => origin'[handler[d].token] = origin[handler[d].token]
  PROVE  Origins'
<1>1. \A d \in Client \ {c} : handler'[d] = handler[d]
  BY OthersStay
<1> QED
  BY <1>1 DEF Origins

\* A request that issues a token starts its record.
LEMMA IssueRecorded ==
  ASSUME Inv, ApiInv, Paired, GrantsRecorded, [Next]_vars, NEW c \in Client,
         NEW x \in Token, IssueToken(c, x), client'[c].pc = "add"
  PROVE  GrantsRecorded'
<1>0. HandlerContinues(c) /\ Inv' /\ Pairs(handler'[c], client'[c])
  <2>1. HandlerContinues(c)
    BY DEF HandlerContinues
  <2>2. Inv'
    BY TypeStep, RegistrationStep DEF Inv
  <2> QED
    BY <2>1, <2>2, PairMoves DEF Inv
<1>1. /\ handler[c].pc = "act" /\ handler[c].route \in {"access", "slack", "breakGlass"}
      /\ leases[x] = << >> /\ UNCHANGED registered
      /\ origin' = [origin EXCEPT ![x] = handler[c].route]
      /\ IF handler[c].route = "breakGlass" THEN Log(x, "breakGlass") ELSE UNCHANGED logged
  BY DEF IssueToken, Grant
<1>2. /\ handler'[c].pc = "add" /\ handler'[c].token = x
      /\ handler'[c].route = handler[c].route
  BY IssueWrites
<1>3. \A t \in Token : origin'[t] = IF t = x THEN handler[c].route ELSE origin[t]
  BY <1>1 DEF ApiInv, HandlersTyped
<1>4. \A t \in Token : Granters(t)' = Granters(t)
  <2> SUFFICES ASSUME NEW t \in Token PROVE Granters(t)' = Granters(t)
    OBVIOUS
  <2>1. ~OwesGrant(handler[c], t) /\ ~OwesGrant(handler'[c], t)
    BY <1>1, <1>2 DEF OwesGrant
  <2>2. Granters(t)' = (Granters(t) \ {c}) \cup {d \in {c} : OwesGrant(handler'[c], t)}
    BY <1>0, OwnDebts DEF Inv
  <2> QED
    BY <2>1, <2>2 DEF Granters
<1>5. \A t \in Token :
        /\ logged'[t]["granted"] = logged[t]["granted"]
        /\ logged'[t]["breakGlass"] = IF t = x /\ handler[c].route = "breakGlass"
                                      THEN logged[t]["breakGlass"] + 1
                                      ELSE logged[t]["breakGlass"]
  BY <1>1, LogWrites DEF Events
<1>6. x \notin registered /\ GrantRecorded(x) /\ origin[x] = "none"
  BY <1>1 DEF Inv, Registration, GrantsRecorded, GrantRecorded
<1>7. leases'[x] # << >>
  BY <1>0, <1>2 DEF Pairs, Inv, Registration
<1>8. GrantRecorded(x)'
  BY <1>1, <1>3, <1>4, <1>5, <1>6, <1>7 DEF GrantRecorded, Trail
<1>9. ASSUME NEW t \in Token, t # x PROVE GrantRecorded(t)'
  BY <1>1, <1>3, <1>4, <1>5, <1>9, GrantRecordStays DEF GrantsRecorded, Inv
<1>10. Origins'
  <2>1. ASSUME NEW d \in Client \ {c}, handler[d].pc = "add"
        PROVE  origin'[handler[d].token] = origin[handler[d].token]
    <3>1. client[d].pc = "add" /\ client[d].token = handler[d].token
      BY <2>1 DEF Paired, Pairs
    <3>2. client[d].token \in Token /\ leases[client[d].token] # << >>
      BY <3>1 DEF Inv, TypeInv, HoldsToken, Registration
    <3> QED
      BY <1>1, <1>3, <3>1, <3>2
  <2>2. origin'[handler'[c].token] = handler'[c].route
    BY <1>2, <1>3
  <2> QED
    BY <1>0, <2>1, <2>2, OriginsKept DEF Inv, GrantsRecorded
<1> QED
  BY <1>8, <1>9, <1>10 DEF GrantsRecorded

\* requestAccess owes its event from the moment it has registered the token.
LEMMA AddRecorded ==
  ASSUME Inv, ApiInv, Paired, GrantsRecorded, [Next]_vars, NEW c \in Client, AddIssued(c)
  PROVE  GrantsRecorded'
<1>0. handler[c].token \in Token
  BY DEF AddIssued, Paired, Pairs, Inv, TypeInv, HoldsToken
<1> PICK x \in Token : x = handler[c].token
  BY <1>0
<1>1. /\ handler[c].pc = "add" /\ client[c].pc = "add" /\ client[c].token = x
      /\ registered' = registered \cup {x} /\ UNCHANGED <<logged, origin>>
      /\ IF handler[c].route = "access" THEN HandlerGoes(c, "log") ELSE Respond(c)
  BY DEF AddIssued, Add, Paired, Pairs
<1>2. x \notin registered /\ origin[x] = handler[c].route
  BY <1>1 DEF Inv, TypeInv, HoldsToken, Registration, GrantsRecorded, Origins
<1>3. /\ handler'[c].pc \in {"log", "free"}
      /\ \A t : OwesGrant(handler'[c], t) <=> t = x /\ handler[c].route = "access"
  BY <1>1, RespondWrites, GoesWrites DEF Moved, OwesGrant
<1>4. \A t \in Token :
        Granters(t)' = Granters(t)
          \cup {d \in {c} : t = x /\ handler[c].route = "access"}
  <2> SUFFICES ASSUME NEW t \in Token
               PROVE  Granters(t)' = Granters(t)
                        \cup {d \in {c} : t = x /\ handler[c].route = "access"}
    OBVIOUS
  <2>1. ~OwesGrant(handler[c], t)
    BY <1>1 DEF OwesGrant
  <2>2. Granters(t)' = (Granters(t) \ {c}) \cup {d \in {c} : OwesGrant(handler'[c], t)}
    BY OwnDebts DEF Inv, HandlerContinues
  <2>3. c \notin Granters(t)
    BY <2>1 DEF Granters
  <2> QED
    BY <1>3, <2>2, <2>3
<1>5. leases'[x] # << >>
  BY <1>1, <1>2, LeasesStay DEF Inv, Registration
<1>6. GrantRecorded(x)'
  <2>1. Granters(x) = {} /\ logged[x]["granted"] = 0 /\ GrantRecorded(x)
    BY <1>2 DEF GrantsRecorded, GrantRecorded, Trail
  <2>2. x \in registered' /\ origin'[x] = origin[x]
    BY <1>1
  <2>3. handler[c].route = "access" => Granters(x)' = {c}
    BY <1>2, <1>4, <2>1
  <2>4. handler[c].route # "access" => Granters(x)' = {}
    BY <1>2, <1>4, <2>1
  <2> QED
    BY <1>1, <1>2, <1>5, <2>1, <2>2, <2>3, <2>4 DEF GrantRecorded, Trail
<1>7. ASSUME NEW t \in Token, t # x PROVE GrantRecorded(t)'
  <2>1. Granters(t)' = Granters(t) /\ (t \in registered' <=> t \in registered)
    BY <1>1, <1>4, <1>7
  <2> QED
    BY <1>1, <2>1, GrantRecordStays DEF GrantsRecorded, Inv
<1>8. Origins'
  BY <1>1, <1>3, OriginsKept DEF Inv, GrantsRecorded, HandlerContinues
<1> QED
  BY <1>6, <1>7, <1>8 DEF GrantsRecorded

\* A request that ends a token, or does nothing to the trail, keeps the record.
LEMMA NoGrantRecorded ==
  ASSUME Inv, ApiInv, Paired, GrantsRecorded, [Next]_vars,
         NEW c \in Client, HandlerStarts(c) \/ HandlerContinues(c),
         Aside(c) \/ RevokeSucceeded(c)
  PROVE  GrantsRecorded'
<1>0. Pairs(handler[c], client[c])
  BY DEF Paired
<1>1. /\ UNCHANGED <<logged, origin, registered>> /\ handler'[c].pc # "add"
      /\ \A t : ~OwesGrant(handler[c], t) /\ ~OwesGrant(handler'[c], t)
  <2>1. CASE Aside(c)
    BY <2>1 DEF Aside, OwesGrant
  <2>2. CASE RevokeSucceeded(c)
    <3>1. /\ handler[c].pc = "revoke" /\ ManualRevoke(c) /\ UNCHANGED <<logged, origin>>
          /\ Moved(handler'[c], handler[c], "log")
      BY <2>2, GoesWrites DEF RevokeSucceeded, RevokeReturns
    <3>2. handler[c].route # "access"
      BY <1>0, <3>1 DEF Pairs, ApiInv, Owners
    <3> QED
      BY <3>1, <3>2 DEF Moved, OwesGrant, ManualRevoke, storeVars
  <2> QED
    BY <2>1, <2>2
<1>2. ASSUME NEW t \in Token PROVE GrantRecorded(t)'
  <2>1. Granters(t)' = Granters(t)
    <3>1. Granters(t)' = (Granters(t) \ {c}) \cup {d \in {c} : OwesGrant(handler'[c], t)}
      BY OwnDebts DEF Inv
    <3> QED
      BY <1>1, <3>1 DEF Granters
  <2> QED
    BY <1>1, <2>1, GrantRecordStays DEF GrantsRecorded, Inv
<1>3. Origins'
  BY <1>1, OriginsKept DEF GrantsRecorded, Inv
<1> QED
  BY <1>2, <1>3 DEF GrantsRecorded

\* requestAccess pays what it owes, others write their own events.
LEMMA LogRecorded ==
  ASSUME Inv, ApiInv, Paired, GrantsRecorded, [Next]_vars, NEW c \in Client, LogOutcome(c)
  PROVE  GrantsRecorded'
<1>1. /\ handler[c].pc = "log" /\ Log(handler[c].token, EventOf(c))
      /\ UNCHANGED <<origin, registered>> /\ handler[c].token \in Token
      /\ handler'[c].pc = "free" /\ HandlerContinues(c)
  BY RespondWrites DEF LogOutcome, vars, storeVars, Paired, Pairs, HandlerContinues
<1>2. ASSUME NEW t \in Token PROVE GrantRecorded(t)'
  <2>1. GrantRecorded(t) /\ EventOf(c) # "breakGlass"
    BY DEF GrantsRecorded, EventOf
  <2>2. /\ logged'[t]["granted"] = IF t = handler[c].token /\ "granted" = EventOf(c)
                                   THEN logged[t]["granted"] + 1 ELSE logged[t]["granted"]
        /\ logged'[t]["breakGlass"] = logged[t]["breakGlass"]
    BY <1>1, <2>1, EventFits, LogWrites DEF Events
  <2>3. OwesGrant(handler[c], t) <=> t = handler[c].token /\ "granted" = EventOf(c)
    BY <1>1, EventFits DEF OwesGrant
  <2>4. Granters(t)' = Granters(t) \ {c} /\ (c \in Granters(t) <=> OwesGrant(handler[c], t))
    <3>1. Granters(t)' = (Granters(t) \ {c}) \cup {d \in {c} : OwesGrant(handler'[c], t)}
      BY <1>1, OwnDebts DEF Inv
    <3>2. ~OwesGrant(handler'[c], t)
      BY <1>1 DEF OwesGrant
    <3> QED
      BY <3>1, <3>2 DEF Granters
  <2>5. CASE OwesGrant(handler[c], t)
    <3>1. /\ t \in registered /\ origin[t] = "access" /\ logged[t]["granted"] = 0
          /\ \E d : Granters(t) = {d}
      BY <2>1, <2>4, <2>5 DEF GrantRecorded, Trail
    <3>2. Granters(t)' = {}
      BY <2>4, <2>5, <3>1
    <3>3. leases'[t] # << >>
      BY <3>1, LeasesStay DEF Inv, Registration
    <3> QED
      BY <1>1, <2>1, <2>2, <2>3, <2>5, <3>1, <3>2, <3>3 DEF GrantRecorded, Trail
  <2>6. CASE ~OwesGrant(handler[c], t)
    <3>1. Granters(t)' = Granters(t)
      BY <2>4, <2>6
    <3>2. logged'[t]["granted"] = logged[t]["granted"]
      BY <2>2, <2>3, <2>6
    <3> QED
      BY <1>1, <2>1, <2>2, <3>1, <3>2, GrantRecordStays DEF Inv
  <2> QED
    BY <2>5, <2>6
<1>3. Origins'
  BY <1>1, OriginsKept DEF GrantsRecorded, Inv
<1> QED
  BY <1>2, <1>3 DEF GrantsRecorded

\* The worker's events are about ends; nothing else in the world writes any.
LEMMA WorldKeepsGrants ==
  ASSUME Inv, Responsible, Accountable, ApiInv, GrantsRecorded, [Next]_vars,
         ApiWorker \/ ClockAndTicker \/ ContextChanges \/ UNCHANGED allVars
  PROVE  GrantsRecorded'
<1>1. UNCHANGED <<origin, registered>> /\ \A d \in Client : Same(handler'[d], handler[d])
  BY WorldRecords
<1>2. \A t \in Token : /\ logged'[t]["granted"] = logged[t]["granted"]
                       /\ logged'[t]["breakGlass"] = logged[t]["breakGlass"]
  <2>1. CASE UNCHANGED logged
    BY <2>1
  <2>2. CASE AutoRevoke /\ Log(worker.target, "revoked")
    <3>1. worker.target \in Token
      BY <2>2 DEF AutoRevoke, Inv, TypeInv, HoldsToken
    <3> QED
      BY <2>2, <3>1, LogWrites DEF Events
  <2> QED
    BY <2>1, <2>2, WorldRecords
<1>3. ASSUME NEW t \in Token PROVE GrantRecorded(t)'
  <2>1. Granters(t)' = Granters(t)
    BY <1>1, DebtsStay
  <2> QED
    BY <1>1, <1>2, <2>1, GrantRecordStays DEF GrantsRecorded, Inv
<1>4. Origins'
  BY <1>1 DEF GrantsRecorded, Origins, Same
<1> QED
  BY <1>3, <1>4 DEF GrantsRecorded

\* No step loses the event of a grant, writes it twice or mistakes its kind.
LEMMA GrantsRecordedStep ==
  ASSUME Inv, Responsible, Accountable, ApiInv, Paired, GrantsRecorded, [Next]_vars,
         [ApiNext]_allVars
  PROVE  GrantsRecorded'
<1>1. ASSUME NEW c \in Client, HandlerStarts(c) \/ HandlerContinues(c)
      PROVE  GrantsRecorded'
  BY <1>1, RecordKinds, NoGrantRecorded, IssueRecorded, AddRecorded, LogRecorded
<1> QED
  BY <1>1, WorldKeepsGrants DEF ApiNext

\* What GrantLogged says of a token with n "granted" events.
GrantFits(t, n) ==
  /\ n + logged[t]["breakGlass"] <= 1
  /\ origin[t] = "access" => n = 1
  /\ origin[t] = "breakGlass" => logged[t]["breakGlass"] = 1

\* A token that is registered through requestAccess has exactly one "granted" event,
\* or its handler is about to write it, also if the token has ended meanwhile; an
\* emergency one has exactly its "breakGlass" event, and no token has more than one
\* of both (server.go, 110-142 and 276-326).
THEOREM GrantLoggedHolds == ApiSpec => []GrantLogged
<1>1. ApiInit => GrantsRecorded
  <2> SUFFICES ASSUME ApiInit PROVE GrantsRecorded
    OBVIOUS
  <2>1. Origins
    BY DEF ApiInit, Origins, Free
  <2>2. ASSUME NEW t \in Token PROVE GrantRecorded(t)
    <3>1. Granters(t) = {} /\ t \notin registered
      BY DEF ApiInit, Init, Granters, OwesGrant, Free
    <3>2. /\ logged[t]["granted"] = 0 /\ logged[t]["breakGlass"] = 0
          /\ origin[t] = "none"
      BY DEF ApiInit, Events
    <3> QED
      BY <3>1, <3>2 DEF GrantRecorded, Trail
  <2> QED
    BY <2>1, <2>2 DEF GrantsRecorded
<1>2. Inv /\ Responsible /\ Accountable /\ ApiInv /\ Paired /\ GrantsRecorded /\ [Next]_vars
        /\ [ApiNext]_allVars => GrantsRecorded'
  BY GrantsRecordedStep
<1>3. Inv /\ ApiInv /\ GrantsRecorded => GrantLogged
  <2> SUFFICES ASSUME Inv, ApiInv, GrantsRecorded, NEW t \in registered
               PROVE  GrantFits(t, logged[t]["granted"]
                                     + IF AboutToLog(t, "granted") THEN 1 ELSE 0)
    BY DEF GrantLogged, GrantFits
  <2>1. AboutToLog(t, "granted") <=> Granters(t) # {}
    BY EventFits DEF AboutToLog, Granters, OwesGrant
  <2>2. GrantRecorded(t)
    BY DEF GrantsRecorded, Inv, TypeInv, TypeOK
  <2>3. /\ logged[t]["breakGlass"] = IF origin[t] = "breakGlass" THEN 1 ELSE 0
        /\ Trail(origin[t] = "access", logged[t]["granted"], Granters(t))
    BY <2>2 DEF GrantRecorded, Trail
  <2>4. logged[t]["granted"] + (IF AboutToLog(t, "granted") THEN 1 ELSE 0)
          = IF origin[t] = "access" THEN 1 ELSE 0
    <3>1. CASE origin[t] = "access"
      BY <2>1, <2>3, <3>1 DEF Trail
    <3>2. CASE origin[t] # "access"
      BY <2>1, <2>3, <3>2 DEF Trail
    <3> QED
      BY <3>1, <3>2
  <2>5. CASE origin[t] = "access"
    BY <2>3, <2>4, <2>5 DEF GrantFits
  <2>6. CASE origin[t] # "access"
    BY <2>3, <2>4, <2>6 DEF GrantFits
  <2> QED
    BY <2>5, <2>6
<1>4. ApiSpec => [][Next]_vars /\ []Inv /\ []Responsible /\ []Accountable
  BY ServerImplementsStore, InvHolds, ResponsibleHolds, AccountableHolds, PTL
     DEF ApiImplementsStore, Spec
<1> QED
  BY <1>1, <1>2, <1>3, <1>4, ApiInvariant, PairedHolds, PTL DEF ApiSpec

-----------------------------------------------------------------------------
(* No handler waits for another: NoHandlerWaits without its ENABLED.       *)

\* The extensions of t that have come in and are not decided yet.
Begun(t) ==
  {c \in Client : handler[c].route = "extend" /\ handler[c].token = t
                    /\ handler[c].pc \in {"validate", "act"}}

\* The number of extensions stays within its bound, those on their way counted.
WithinBound == \A t \in Token : ExtensionsBegun(t) <= MaxExtensions

\* One extension writes one record, and only ExtendToken extends.
LEMMA ExtensionsCounted ==
  ASSUME TypeInv, ApiInv, [ApiNext]_allVars, NEW t \in Token
  PROVE  \/ tok'[t].extensions = tok[t].extensions
         \/ /\ tok'[t].extensions = tok[t].extensions + 1
            /\ \E c \in Client : ExtendToken(c) /\ handler[c].token = t /\ HandlerGoes(c, "extend")
<1> DEFINE Same1 == tok'[t].extensions = tok[t].extensions
<1>0. tok \in [Token -> TokenRecord]
  BY DEF TypeInv, TypeOK
<1>1. ASSUME NEW x, NEW by, MarkRevoked(x, by) PROVE Same1
  BY <1>0, <1>1 DEF MarkRevoked, TokenRecord
<1>2. ASSUME NEW c \in Client, NEW x \in Token, IssueToken(c, x) PROVE Same1
  <2>1. PICK ttl : Grant(c, x, ttl)
    BY <1>2 DEF IssueToken
  <2> DEFINE r == [tok[x] EXCEPT !.issuedAt = now, !.expiresAt = now + ttl, !.secret = 1]
  <2>2. tok' = [tok EXCEPT ![x] = r] \/ UNCHANGED tok
    BY <2>1 DEF Grant
  <2>3. r.extensions = tok[x].extensions
    BY <1>0 DEF TokenRecord
  <2> HIDE DEF r
  <2> QED
    BY <1>0, <2>2, <2>3
<1>3. ASSUME NEW c \in Client, AddIssued(c) PROVE Same1
  <2>1. PICK x, o : tok' = [tok EXCEPT ![x].originalIssuedAt = o]
    BY <1>3 DEF AddIssued, Add
  <2> QED
    BY <1>0, <2>1 DEF TokenRecord
<1>4. ASSUME NEW c \in Client, ExtendToken(c)
      PROVE  \/ Same1
             \/ /\ tok'[t].extensions = tok[t].extensions + 1
                /\ handler[c].token = t /\ HandlerGoes(c, "extend")
  <2>1. CASE ExtendForcesRevocation(c, handler[c].token)
    BY <1>1, <2>1 DEF ExtendForcesRevocation
  <2>2. CASE UNCHANGED vars
    BY <2>2 DEF vars, storeVars
  <2>3. CASE /\ HandlerGoes(c, "extend")
             /\ ExtendNormal(c, handler[c].token) \/ ExtendClamped(c, handler[c].token)
    <3>1. PICK e : Bump(handler[c].token, e)
      BY <2>3 DEF ExtendNormal, ExtendClamped
    <3>2. CASE handler[c].token = t
      BY <1>0, <2>3, <3>1, <3>2 DEF Bump, TokenRecord
    <3>3. CASE handler[c].token # t
      BY <1>0, <3>1, <3>3 DEF Bump
    <3> QED
      BY <3>2, <3>3
  <2> QED
    BY <1>4, <2>1, <2>2, <2>3 DEF ExtendToken
<1>5. ASSUME NEW c \in Client, ExtendReturns(c) PROVE Same1
  <2>1. UNCHANGED tok \/ \E x, k : tok' = [tok EXCEPT ![x].secret = k]
    BY <1>5 DEF ExtendReturns, Reissue, ReissueFails, ForceRevoke, SwapSecret, storeVars
  <2> QED
    BY <1>0, <2>1 DEF TokenRecord
<1>6. ASSUME NEW c \in Client, RevokeToken(c) PROVE Same1
  <2>1. UNCHANGED tok \/ MarkRevoked(handler[c].token, "manual")
    BY <1>6 DEF RevokeToken, RevokeNow, vars, storeVars
  <2> QED
    BY <1>1, <2>1
<1>7. ASSUME NEW c \in Client,
             \/ ValidationFails(c) \/ ValidationPasses(c) \/ ValidationDenies(c)
             \/ IssueRefused(c) \/ RevokeReturns(c) \/ LogOutcome(c)
      PROVE  Same1
  BY <1>7 DEF ValidationFails, ValidationPasses, ValidationDenies, IssueRefused,
              RevokeReturns, ManualRevoke, LogOutcome, vars, storeVars
<1>8. ASSUME NEW c \in Client, HandlerStarts(c) PROVE Same1
  BY <1>8, StartsStutter DEF vars, storeVars
<1>9. CASE ScanClaims \/ MarkWarnings
  <2>1. CASE ScanClaims
    BY <1>1, <2>1 DEF ScanClaims
  <2>2. CASE MarkWarnings
    <3> DEFINE due == {x \in registered : NeedsWarning(x)}
    <3>1. tok' = [x \in Token |-> [tok[x] EXCEPT !.notified = @ \/ x \in due]]
      BY <2>2 DEF MarkWarnings
    <3> HIDE DEF due
    <3> QED
      BY <1>0, <3>1 DEF TokenRecord
  <2> QED
    BY <1>9, <2>1, <2>2
<1>10. CASE (ApiWorker /\ ~ScanClaims /\ ~MarkWarnings) \/ ClockAndTicker
            \/ ContextChanges \/ UNCHANGED allVars
  BY <1>10 DEF ApiWorker, WorkerRevokes, AutoRevoke, WorkerElse, WorkerWakes, Notify,
               ScanEnds, ScanSkips, ClockAndTicker, Tick, TickerFires, ContextChanges,
               allVars, vars, storeVars
<1> QED
  BY <1>2, <1>3, <1>4, <1>5, <1>6, <1>7, <1>8, <1>9, <1>10 DEF ApiNext, HandlerContinues

\* A request joins those that are to extend t when it comes in, and no later.
LEMMA BegunByReceiving ==
  ASSUME ApiInv, NEW c \in Client, HandlerStarts(c) \/ HandlerContinues(c), NEW t \in Token,
         handler'[c].route = "extend", handler'[c].token = t,
         handler'[c].pc \in {"validate", "act"}
  PROVE  \/ c \in Begun(t)
         \/ c \notin Begun(t) /\ ExtensionsBegun(t) < MaxExtensions /\ UNCHANGED vars
<1>1. CASE HandlerStarts(c)
  <2>1. handler[c].pc = "free" /\ UNCHANGED vars
    BY <1>1 DEF HandlerStarts, ReceiveAccess, ReceiveSlack, ReceiveExtend, ReceiveBreakGlass,
                ReceiveRevoke, Receive
  <2>2. ASSUME NEW route, NEW r, NEW x, NEW pc, Receive(c, route, r, x, pc)
        PROVE  handler'[c].route = route /\ handler'[c].token = x
    BY <2>2, ReceiveWrites
  <2>3. ExtensionsBegun(t) < MaxExtensions
    BY <1>1, <2>2 DEF HandlerStarts, ReceiveAccess, ReceiveSlack, ReceiveExtend,
                      ReceiveBreakGlass, ReceiveRevoke
  <2> QED
    BY <2>1, <2>3 DEF Begun
<1>2. ASSUME Respond(c) PROVE FALSE
  BY <1>2, RespondWrites
<1>3. ASSUME NEW pc, HandlerGoes(c, pc)
      PROVE  /\ handler'[c].pc = pc /\ handler[c].route = "extend"
             /\ handler[c].token = t
  BY <1>3, GoesWrites DEF Moved
<1>4. CASE ValidationDenies(c)
  <2>1. handler[c].route = "extend" /\ handler[c].pc = "validate"
    BY <1>2, <1>4 DEF ValidationDenies
  <2> QED
    BY <1>4, <2>1, DeniesWrites DEF Begun
<1>5. CASE ValidationPasses(c)
  BY <1>3, <1>5 DEF ValidationPasses, Begun
<1>6. ASSUME NEW x \in Token, IssueToken(c, x) PROVE FALSE
  <2>1. CASE client'[c].pc = "add"
    BY <1>6, <2>1, IssueWrites
  <2>2. CASE client'[c].pc # "add"
    BY <1>2, <1>6, <2>2 DEF IssueToken
  <2> QED
    BY <2>1, <2>2
<1>7. CASE \/ ValidationFails(c) \/ IssueRefused(c) \/ AddIssued(c) \/ ExtendToken(c)
           \/ ExtendReturns(c) \/ RevokeToken(c) \/ RevokeReturns(c) \/ LogOutcome(c)
  <2>1. \/ Respond(c)
        \/ HandlerGoes(c, "extend") \/ HandlerGoes(c, "revoke") \/ HandlerGoes(c, "log")
        \/ handler[c].pc \in {"extend", "revoke"} /\ UNCHANGED handler
    BY <1>7 DEF ValidationFails, IssueRefused, AddIssued, ExtendToken, ExtendReturns,
                RevokeToken, RevokeReturns, LogOutcome
  <2> QED
    BY <1>2, <1>3, <2>1
<1> QED
  BY <1>1, <1>4, <1>5, <1>6, <1>7 DEF HandlerContinues

\* An extension leaves those on their way as it is counted in the record.
LEMMA BoundStep ==
  ASSUME IsFiniteSet(Client), TypeInv, ApiInv, WithinBound, [ApiNext]_allVars
  PROVE  WithinBound'
<1> SUFFICES ASSUME NEW t \in Token PROVE (ExtensionsBegun(t))' <= MaxExtensions
  BY DEF WithinBound
<1> DEFINE n == tok[t].extensions
           B == Begun(t)
           N == {c \in Client : handler'[c].route = "extend" /\ handler'[c].token = t
                                  /\ handler'[c].pc \in {"validate", "act"}}
<1>1. /\ ExtensionsBegun(t) = n + Cardinality(B)
      /\ (ExtensionsBegun(t))' = tok'[t].extensions + Cardinality(N)
  BY DEF ExtensionsBegun, Begun
<1>2. ExtensionsBegun(t) <= MaxExtensions
  BY DEF WithinBound
<1>3. /\ IsFiniteSet(B) /\ IsFiniteSet(N)
      /\ Cardinality(B) \in Nat /\ Cardinality(N) \in Nat /\ n \in Nat
  <2>1. B \subseteq Client /\ N \subseteq Client
    BY DEF Begun
  <2>2. n \in Nat
    BY DEF TypeInv, TypeOK, TokenRecord
  <2> QED
    BY <2>1, <2>2, FS_Subset, FS_CardinalityType
<1>4. \A d \in Client : HandlerStarts(d) \/ HandlerContinues(d) \/ (d \in N => d \in B)
  BY OwnSteps DEF Same, Begun
<1>5. \A c, d \in Client : (HandlerStarts(c) \/ HandlerContinues(c)) /\ c # d
                             => (d \in N => d \in B)
  BY OthersStay DEF Begun
<1>6. \A c \in Client : (HandlerStarts(c) \/ HandlerContinues(c)) /\ c \in N =>
        \/ c \in B
        \/ c \notin B /\ ExtensionsBegun(t) < MaxExtensions /\ UNCHANGED vars
  BY BegunByReceiving
<1> HIDE DEF N, B
<1>7. CASE tok'[t].extensions = n /\ N \subseteq B
  <2>1. Cardinality(N) <= Cardinality(B)
    BY <1>3, <1>7, FS_Subset
  <2> QED
    BY <1>1, <1>2, <1>3, <1>7, <2>1, TimesAssumption
<1>8. CASE \E c \in Client : tok'[t].extensions = n /\ N \subseteq B \cup {c}
                               /\ ExtensionsBegun(t) < MaxExtensions
  <2>1. PICK c \in Client : N \subseteq B \cup {c} /\ ExtensionsBegun(t) < MaxExtensions
    BY <1>8
  <2>2. /\ IsFiniteSet(B \cup {c}) /\ Cardinality(B \cup {c}) \in Nat
        /\ Cardinality(B \cup {c}) <= Cardinality(B) + 1
    <3>1. IsFiniteSet(B \cup {c})
      BY <1>3, FS_AddElement
    <3>2. Cardinality(B \cup {c}) \in {Cardinality(B), Cardinality(B) + 1}
      BY <1>3, FS_AddElement
    <3> QED
      BY <1>3, <3>1, <3>2
  <2>3. Cardinality(N) <= Cardinality(B \cup {c})
    BY <2>1, <2>2, FS_Subset
  <2> QED
    BY <1>1, <1>3, <1>8, <2>1, <2>2, <2>3, TimesAssumption
<1>9. CASE \E c \in Client : tok'[t].extensions = n + 1 /\ c \in B /\ N \subseteq B \ {c}
  <2>1. PICK c \in Client : c \in B /\ N \subseteq B \ {c}
    BY <1>9
  <2>2. IsFiniteSet(B \ {c}) /\ Cardinality(B \ {c}) = Cardinality(B) - 1
    BY <1>3, <2>1, FS_RemoveElement
  <2>3. Cardinality(N) <= Cardinality(B \ {c})
    BY <2>1, <2>2, FS_Subset
  <2> QED
    BY <1>1, <1>2, <1>3, <1>9, <2>2, <2>3, TimesAssumption
<1>10. \/ tok'[t].extensions = n
       \/ /\ tok'[t].extensions = n + 1
          /\ \E c \in Client : ExtendToken(c) /\ handler[c].token = t /\ HandlerGoes(c, "extend")
  BY ExtensionsCounted
<1>11. CASE tok'[t].extensions = n
  <2>1. CASE N \subseteq B
    BY <1>7, <1>11, <2>1
  <2>2. CASE ~(N \subseteq B)
    <3>1. PICK c \in Client : c \in N /\ c \notin B /\ (HandlerStarts(c) \/ HandlerContinues(c))
      <4>1. N \subseteq Client
        BY DEF N
      <4> QED
        BY <1>4, <2>2, <4>1
    <3>2. ExtensionsBegun(t) < MaxExtensions
      BY <1>6, <3>1
    <3>3. N \subseteq B \cup {c}
      BY <1>5, <3>1 DEF N
    <3> QED
      BY <1>8, <1>11, <3>2, <3>3
  <2> QED
    BY <2>1, <2>2
<1>12. ASSUME NEW c \in Client, tok'[t].extensions = n + 1, ExtendToken(c),
              handler[c].token = t, HandlerGoes(c, "extend")
       PROVE  (ExtensionsBegun(t))' <= MaxExtensions
  <2>1. c \in B
    BY <1>12 DEF B, Begun, ExtendToken
  <2>2. c \notin N
    BY <1>12, GoesWrites DEF N, Moved
  <2>3. N \subseteq B \ {c}
    <3>1. HandlerContinues(c)
      BY <1>12 DEF HandlerContinues
    <3> QED
      BY <1>5, <2>2, <3>1 DEF N
  <2> QED
    BY <1>9, <1>12, <2>1, <2>3
<1> QED
  BY <1>10, <1>11, <1>12

\* Every lookup ends in one of the three verdicts.
LEMMA LookupAnswers ==
  ASSUME NEW c \in Client
  PROVE  Verdicts(c) \cap {"ok", "denied", "error"} # {}
<1>1. Validate(handler[c].request, Unreachable) \in {"denied", "error"}
  <2>1. \A confirms : Lookup(confirms, Unreachable) = "error"
    BY DEF Lookup, Unreachable
  <2> QED
    BY <2>1 DEF Validate
<1> QED
  BY <1>1 DEF Verdicts

\* Where its handler is, the store has what its next step asks for.
LEMMA NextStepOpen ==
  ASSUME IsFiniteSet(Client), Inv, ApiInv, Paired, WithinBound,
         NEW c \in Client, handler[c].pc # "free"
  PROVE  CanGoOn(c)
<1> DEFINE t == handler[c].token
<1>0. handler[c] \in HandlerRecord /\ Pairs(handler[c], client[c])
  BY DEF ApiInv, HandlersTyped, Paired
<1>1. CASE handler[c].pc = "validate"
  BY <1>1, LookupAnswers DEF CanGoOn
<1>2. CASE handler[c].pc \in {"add", "extend", "revoke", "log"}
  BY <1>0, <1>2 DEF Pairs, CanGoOn
<1>3. CASE handler[c].pc = "act"
  <2>1. client[c].pc = "idle"
    BY <1>0, <1>3 DEF Pairs
  <2>2. CASE handler[c].route \in {"access", "slack", "breakGlass"}
    BY <1>3, <2>2 DEF CanGoOn
  <2>3. CASE Revoking(c)
    BY <1>3, <2>1, <2>3 DEF CanGoOn
  <2>4. CASE handler[c].route = "extend" /\ ~handler[c].denied /\ Live(t)
    <3>1. t \in Token
      BY <2>4 DEF Live, Inv, TypeInv, TypeOK
    <3>2. c \in Begun(t)
      BY <1>3, <2>4 DEF Begun
    <3>3. IsFiniteSet(Begun(t))
      BY FS_Subset DEF Begun
    <3>4. Cardinality(Begun(t)) \in Nat \ {0}
      BY <3>2, <3>3, FS_EmptySet, FS_CardinalityType
    <3>5. tok[t].extensions + Cardinality(Begun(t)) <= MaxExtensions
      BY <3>1 DEF WithinBound, ExtensionsBegun, Begun
    <3>6. tok[t].extensions \in Nat
      BY <3>1 DEF Inv, TypeInv, TypeOK, TokenRecord
    <3>7. tok[t].extensions < MaxExtensions
      BY <3>4, <3>5, <3>6, TimesAssumption
    <3> QED
      BY <1>3, <2>1, <2>4, <3>7 DEF CanGoOn
  <2>5. CASE handler[c].route = "extend" /\ ~handler[c].denied /\ ~Live(t)
    BY <1>3, <2>5 DEF CanGoOn
  <2> QED
    BY <1>0, <2>2, <2>3, <2>4, <2>5 DEF HandlerRecord, Routes, Revoking
<1> QED
  BY <1>0, <1>1, <1>2, <1>3 DEF HandlerRecord

\* The part of NoHandlerWaits that is about the store's state, for any finite
\* number of requests: whatever the worker, the ticket and the other requests did
\* to its token meanwhile, each handler (server.go, 77-275, slack.go) finds its
\* next step open, up to the answer.
THEOREM HandlersCanGoOn ==
  ASSUME IsFiniteSet(Client)
  PROVE  ApiSpec => [](\A c \in Client : handler[c].pc # "free" => CanGoOn(c))
<1>1. ApiInit => WithinBound
  <2> SUFFICES ASSUME ApiInit, NEW t \in Token PROVE ExtensionsBegun(t) <= MaxExtensions
    BY DEF WithinBound
  <2>1. Begun(t) = {}
    BY DEF ApiInit, Free, Begun
  <2>2. tok[t].extensions = 0
    BY DEF ApiInit, Init, NoRecord
  <2>3. ExtensionsBegun(t) = tok[t].extensions + Cardinality(Begun(t))
    BY DEF ExtensionsBegun, Begun
  <2>4. Cardinality(Begun(t)) = 0
    BY <2>1, FS_EmptySet
  <2> QED
    BY <2>2, <2>3, <2>4, TimesAssumption
<1>2. Inv /\ ApiInv /\ WithinBound /\ [ApiNext]_allVars => WithinBound'
  BY BoundStep DEF Inv
<1>3. Inv /\ ApiInv /\ Paired /\ WithinBound =>
        \A c \in Client : handler[c].pc # "free" => CanGoOn(c)
  BY NextStepOpen
<1> QED
  BY <1>1, <1>2, <1>3, ApiInvariant, PairedHolds, PTL DEF ApiSpec
=============================================================================
