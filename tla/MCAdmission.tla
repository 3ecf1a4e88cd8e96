----------------------------- MODULE MCAdmission -----------------------------
(***************************************************************************)
(* TLC instance of Admission.  MaxTTL is two "minutes" of three units, and *)
(* the word is so small that minutes overflow into negative and into small *)
(* positive lifetimes.                                                     *)
(***************************************************************************)
EXTENDS Admission, TLC

CONSTANTS k1, k2, k3, x, y

\* Four approvers with good keys, two of them with the same one, and one whose
\* configured key is broken.
MCTrusted == [ann |-> k1, amy |-> k1, bob |-> k2, cid |-> k3, dan |-> NoKey]

Asked(user, resource, reason, minutes) ==
  [user |-> user, resource |-> resource, reason |-> reason, minutes |-> minutes]

\* Texts without a bar, and two requests that read the same.
Simple(m)  == Asked(<<x>>, <<y>>, <<x>>, m)
Barred(m)  == Asked(<<x, Bar, y>>, <<x>>, <<y>>, m)
Rebarred(m) == Asked(<<x>>, <<y>>, <<x, Bar, y>>, m)

Signature(who, key, terms) == [approver |-> who, key |-> key, over |-> terms]

\* Good ones, one by a stranger, one with another's key, one for another
\* lifetime, one that is not a signature, one for an approver with a bad key.
Pool(m) ==
  {Signature("ann", k1, Simple(m)), Signature("amy", k1, Simple(m)),
   Signature("bob", k2, Simple(m)), Signature("ann", k2, Simple(m)),
   Signature("eve", k3, Simple(m)), Signature("cid", k3, Simple(1 - m)),
   Signature("bob", NoKey, Simple(m)), Signature("dan", NoKey, Simple(m))}

\* The same approvers over requests that look alike, to the eye or to Verify.
Lookalikes(m) ==
  [approver : {"bob"}, key : {k2}, over : {Simple(m), Barred(m), Rebarred(m)}]
  \cup [approver : {"cid"}, key : {k3}, over : {Simple(m), Barred(m), Rebarred(m)}]

Lists(signatures, n) == UNION {[1..k -> signatures] : k \in 0..n}

MCEmergencies ==
  UNION {[terms : {Simple(m)}, signatures : Lists(Pool(m), 3)] : m \in {0, 2}}
  \cup [terms : {Simple(2), Barred(2), Rebarred(2)}, signatures : Lists(Lookalikes(2), 2)]
  \cup
  UNION {[terms : {Simple(m), Asked(<< >>, <<y>>, <<x>>, m), Asked(<<x>>, << >>, << >>, m)},
          signatures : {<<Signature("ann", k1, Simple(m)), Signature("cid", k3, Simple(m))>>}] :
           m \in -16..15}

Field(values) == {Absent, Garbled} \cup {Given(d) : d \in values}

MCConfigFiles ==
  [addressed : BOOLEAN, shutdownTimeout : {Absent, Garbled, Given(1)},
   vaultTTL : Field({0, 6, 7}), tokenTTL : Field({-1, 0, 1, 6, 7}),
   maxSession : Field({-1, 0, 1, 12, 13}), warningBefore : Field({-1, 0, 5})]

Names == {Blank, Text("alice", FALSE), Text("alice", TRUE), Text("bob", FALSE)}

MCAccessRequests ==
  [who : Names, resource : {Blank, Text("db", FALSE)},
   kind : {Blank, Text("pagerduty", TRUE), Text("jira", FALSE), Text("email", FALSE)},
   ref : {Blank, Text("X1", FALSE)}]

Answers == {"found", "notFound", "failed"}

MCTickets ==
  [pagerduty |->
     [http : Answers,
      status : {Text("acknowledged", FALSE), Text("acknowledged", TRUE), Text("resolved", FALSE)},
      assignees : {S \in SUBSET [id : Names, summary : Names] : Cardinality(S) <= 1}
        \cup {{[id |-> Text("bob", FALSE), summary |-> Blank],
               [id |-> Text("x", FALSE), summary |-> Text("alice", FALSE)]}}],
   jira |->
     [http : Answers,
      status : {Text("in progress", FALSE), Text("in progress", TRUE), Text("done", FALSE)},
      assignee : [account : Names, email : Names, name : Names]]]
=============================================================================
