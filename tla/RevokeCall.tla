----------------------------- MODULE RevokeCall -----------------------------
(***************************************************************************)
(* What one RetryRevoker.Revoke call promises to the store, and all that   *)
(* TokenStore assumes of it: while it runs it may kill secrets the token   *)
(* record has held since the call began, nil is returned only when one was *)
(* killed, and an error says nothing about the provider.                   *)
(***************************************************************************)
EXTENDS Naturals

CONSTANT Secret

VARIABLES
  secret,   \* IssuedToken.Token, which a concurrent Extend may replace
  seen,     \* the secrets the record has held during the call
  dead,     \* the secrets the provider has killed
  status    \* "running", "ok" or "failed"

vars == <<secret, seen, dead, status>>

Init ==
  /\ secret \in Secret
  /\ seen = {secret}
  /\ dead = {}
  /\ status = "running"

Swap ==
  /\ secret' \in Secret
  /\ seen' = IF status = "running" THEN seen \cup {secret'} ELSE seen
  /\ UNCHANGED <<dead, status>>

Succeed ==
  /\ status = "running" /\ status' = "ok"
  /\ \E s \in seen : dead' = dead \cup {s}
  /\ UNCHANGED <<secret, seen>>

ReplyLost ==
  /\ status = "running"
  /\ \E s \in seen : dead' = dead \cup {s}
  /\ UNCHANGED <<secret, seen, status>>

Fail ==
  /\ status = "running" /\ status' = "failed"
  /\ UNCHANGED <<secret, seen, dead>>

Next == Swap \/ Succeed \/ ReplyLost \/ Fail

Spec == Init /\ [][Next]_vars

\* A call that has been made comes back.
FairSpec == Spec /\ WF_vars(Succeed \/ Fail)
=============================================================================
