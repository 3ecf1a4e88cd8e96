----------------------------- MODULE MCAccessApi -----------------------------
(***************************************************************************)
(* TLC instance of AccessApi: one incident that is acknowledged and        *)
(* resolved again and again, and its assignee asking under the name        *)
(* PagerDuty has with other capitals.                                      *)
(***************************************************************************)
EXTENDS AccessApi, TLC

Symmetry == Permutations(Client)

Assignees == {[id |-> Text("PABC123", FALSE), summary |-> Text("alice", FALSE)]}

Incident(status) ==
  [http |-> "found", status |-> Text(status, FALSE), assignees |-> Assignees]

MCTicket == {Incident("acknowledged"), Incident("resolved")}

MCRequests ==
  {[who |-> Text("alice", TRUE), resource |-> Text("production_db", FALSE),
    kind |-> Text("pagerduty", TRUE), ref |-> Text("PX1", FALSE)]}
=============================================================================
