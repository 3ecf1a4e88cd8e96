---------------------------- MODULE ContextEngine ----------------------------
(***************************************************************************)
(* The contextual validation engine: auth.Engine.Validate (auth/engine.go) *)
(* and the two validators it dispatches to, PagerDutyClient.Validate       *)
(* (providers/pagerduty.go) and JiraClient.Validate (providers/jira.go).   *)
(* They keep no state, so they are operators over the request and the      *)
(* external ticket as its system answers for it at the time of the lookup. *)
(*                                                                         *)
(* Text that is compared is a record: "caps" tells apart spellings that    *)
(* strings.EqualFold takes for equal.  A ticket is of one of two shapes:   *)
(*   PagerDuty  [http, status, assignees: set of [id, summary]]            *)
(*   Jira       [http, status, assignee: [account, email, name]]           *)
(***************************************************************************)

Text(word, caps) == [word |-> word, caps |-> caps]

\* An empty or absent field; for the fields of a request also one of spaces.
Blank == Text("", FALSE)

EqualFold(a, b) == a.word = b.word

\* Seeded fault: the incident's status is not looked at.
PagerDutyAnyStatus(who, ticket) ==
  \E a \in ticket.assignees : a.id = who \/ EqualFold(a.summary, who)

\* PagerDutyClient.Validate on an incident: acknowledged, in exactly this
\* spelling, with the user among the assignees by id or by name.
PagerDutyConfirms(who, incident) ==
  /\ incident.status = Text("acknowledged", FALSE)
  /\ \E a \in incident.assignees : a.id = who \/ EqualFold(a.summary, who)

\* Seeded fault: an issue nobody is assigned to confirms anyone.
JiraUnassignedToo(who, issue) ==
  LET a == issue.assignee
  IN  /\ EqualFold(issue.status, Text("in progress", FALSE))
      /\ (a.account = Blank /\ a.email = Blank)
           \/ a.account = who \/ EqualFold(a.email, who) \/ EqualFold(a.name, who)

\* JiraClient.Validate on an issue: in progress, in any spelling, and assigned
\* to the user; a display name alone does not count as an assignee.
JiraConfirms(who, issue) ==
  LET a == issue.assignee
  IN  /\ EqualFold(issue.status, Text("in progress", FALSE))
      /\ ~(a.account = Blank /\ a.email = Blank)
      /\ a.account = who \/ EqualFold(a.email, who) \/ EqualFold(a.name, who)

\* What the HTTP exchange with the ticket's system leads to: 404 denies, any
\* other status but 200 and any transport error is an error.
Lookup(confirms, ticket) ==
  CASE ticket.http = "found"    -> IF confirms THEN "ok" ELSE "denied"
    [] ticket.http = "notFound" -> "denied"
    [] OTHER                    -> "error"

Complete(request) ==
  Blank \notin {request.who, request.resource, request.kind, request.ref}

\* Engine.Validate: the four fields, then the validator for the type, which is
\* lower-cased first.
Validate(request, ticket) ==
  IF ~Complete(request) THEN "denied"
  ELSE CASE EqualFold(request.kind, Text("pagerduty", FALSE))
              -> Lookup(PagerDutyConfirms(request.who, ticket), ticket)
         [] EqualFold(request.kind, Text("jira", FALSE))
              -> Lookup(JiraConfirms(request.who, ticket), ticket)
         [] OTHER -> "denied"

-----------------------------------------------------------------------------
(* What the decision is for: the names somebody may be assigned under, and *)
(* the user at work on the ticket.                                         *)

\* Names are the ticket's own ids, which compare exactly, and people's names.
AssignedUnder(kind, ticket) ==
  IF EqualFold(kind, Text("pagerduty", FALSE))
  THEN [ids   |-> {a.id : a \in ticket.assignees},
        names |-> {a.summary.word : a \in ticket.assignees}]
  ELSE [ids   |-> {ticket.assignee.account},
        names |-> {ticket.assignee.email.word, ticket.assignee.name.word}]

ActiveStatus(kind) ==
  IF EqualFold(kind, Text("pagerduty", FALSE)) THEN "acknowledged" ELSE "in progress"

\* The user named in the request is at work on the active ticket it names.
InContext(request, ticket) ==
  LET assigned == AssignedUnder(request.kind, ticket)
  IN  /\ request.kind.word \in {"pagerduty", "jira"}
      /\ Blank \notin {request.who, request.resource, request.ref}
      /\ ticket.http = "found"
      /\ ticket.status.word = ActiveStatus(request.kind)
      /\ request.who \in assigned.ids \/ request.who.word \in assigned.names
=============================================================================
