------------------------------ MODULE Admission ------------------------------
(***************************************************************************)
(* What decides whether a token is granted, and for how long: main.go      *)
(* loads the configuration; then a request either has its context          *)
(* validated and gets the configured lifetime, or comes with signatures    *)
(* and gets the lifetime they were made over.  What happens to the token   *)
(* afterwards is TokenStore, the interleaving of requests AccessApi.       *)
(***************************************************************************)
EXTENDS BreakGlass, Settings, ContextEngine

CONSTANTS
  ConfigFiles,      \* configuration files
  AccessRequests,   \* requests with a justification
  Tickets           \* what the ticket systems may answer, by kind of ticket

\* time.Duration is an integer; nothing else is known of a file.
ASSUME ConfigAssumption ==
  \A file \in ConfigFiles : \A d \in Durations(file) : d.value \in Int

VARIABLES
  settings,   \* the configuration in force, Refused once main has exited
  lookup      \* the last request validated: [request, ticket, verdict, ttl]

admissionVars == <<bgVars, settings, lookup>>

Starting == [Refused EXCEPT !.tokenTTL = -1]

None == [request |-> [kind |-> Blank], verdict |-> "none", ttl |-> 0]

AdmissionInit ==
  /\ BgInit
  /\ settings = Starting
  /\ lookup = None

\* main without a file, or with one: log.Fatalf if it cannot be loaded.
Configure ==
  /\ settings = Starting
  /\ settings' \in {DefaultSettings} \cup {Load(file) : file \in ConfigFiles}
  /\ UNCHANGED <<bgVars, lookup>>

Serving == settings.accepted

\* The ticket a request of this kind is looked up as.
TicketsFor(kind) == Tickets[IF kind.word = "jira" THEN "jira" ELSE "pagerduty"]

\* requestAccess or Slack's Handle, the decision and the lifetime.
DecideByContext ==
  /\ Serving /\ stage = "idle" /\ lookup = None
  /\ \E r \in AccessRequests : \E ticket \in TicketsFor(r.kind) :
       LET verdict == Validate(r, ticket)
       IN  lookup' = [request |-> r, ticket |-> ticket, verdict |-> verdict,
                      ttl |-> IF verdict = "ok" THEN settings.tokenTTL ELSE 0]
  /\ UNCHANGED <<bgVars, settings>>

ContextAnswered == lookup # None /\ lookup' = None /\ UNCHANGED <<bgVars, settings>>

\* breakGlassActivate: main has wired a manager only if somebody is trusted.
BreakGlassStep ==
  /\ Serving /\ DOMAIN Trusted # {} /\ lookup = None
  /\ BgNext
  /\ UNCHANGED <<settings, lookup>>

AdmissionNext == Configure \/ DecideByContext \/ ContextAnswered \/ BreakGlassStep

AdmissionSpec == AdmissionInit /\ [][AdmissionNext]_admissionVars

-----------------------------------------------------------------------------
\* README.md, 379: a grant by context means that the user is at work on a
\* ticket in its active status, whichever fields the answer has and however the
\* names are spelled; and whoever is so under the ticket's own id is granted.
ContextDecides ==
  lookup # None =>
    LET r == lookup.request
        ownId == r.who \in AssignedUnder(r.kind, lookup.ticket).ids
        spelled == lookup.ticket.status = Text(ActiveStatus(r.kind), FALSE)
    IN  /\ lookup.verdict = "ok" => InContext(r, lookup.ticket)
        /\ InContext(r, lookup.ticket) /\ ownId /\ spelled => lookup.verdict = "ok"

\* A broker that serves has settings TokenStore can work with, whatever the
\* file left out or got wrong, and a grant never outlives MaxTTL on any route.
GrantsWithinLimits ==
  Serving =>
    /\ FitsTheStore(settings)
    /\ settings.maxSession <= MaxSessionDuration
    /\ lookup.ttl <= MaxTTL
    /\ stage = "granted" => ttl <= MaxTTL
=============================================================================
