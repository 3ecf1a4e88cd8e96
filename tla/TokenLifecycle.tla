--------------------------- MODULE TokenLifecycle ---------------------------
(***************************************************************************)
(* What the token store promises about one token, with no locks, heap,     *)
(* worker or provider in sight: a token is registered once, its deadline   *)
(* moves only while it is live and never past its ceiling by an extension, *)
(* and it ends exactly once, for exactly one reason, which is true at the  *)
(* moment it ends.  TokenStore is shown to implement this.                 *)
(***************************************************************************)
EXTENDS Naturals

CONSTANTS Token, TTL, MaxSession, GrantTTL

VARIABLES
  now,
  phase,      \* "absent", "live", or the reason the token ended
  deadline,   \* the time the token may be collected at
  ceiling,    \* the end of its session, whatever the extensions
  ended       \* how many tokens have ended

vars == <<now, phase, deadline, ceiling, ended>>

Init ==
  /\ now = 1
  /\ phase = [t \in Token |-> "absent"]
  /\ deadline = [t \in Token |-> 0]
  /\ ceiling = [t \in Token |-> 0]
  /\ ended = 0

\* The token was issued at "start", possibly some time ago.
Register(t) ==
  /\ phase[t] = "absent"
  /\ \E start \in 1..now, ttl \in GrantTTL :
       /\ deadline' = [deadline EXCEPT ![t] = start + ttl]
       /\ ceiling'  = [ceiling EXCEPT ![t] = start + MaxSession]
  /\ phase' = [phase EXCEPT ![t] = "live"]
  /\ UNCHANGED <<now, ended>>

Renew(t) ==
  /\ phase[t] = "live"
  /\ deadline' = [deadline EXCEPT ![t] =
                    IF @ + TTL < ceiling[t] THEN @ + TTL ELSE ceiling[t]]
  /\ UNCHANGED <<now, phase, ceiling, ended>>

End(t, reason) ==
  /\ phase[t] = "live"
  /\ phase' = [phase EXCEPT ![t] = reason]
  /\ ended' = ended + 1
  /\ UNCHANGED <<now, deadline, ceiling>>

Expire(t)     == deadline[t] <= now /\ End(t, "auto")
HitCeiling(t) == ceiling[t] <= now /\ End(t, "ceiling")
Revoke(t)     == End(t, "manual")

Tick == now' = now + 1 /\ UNCHANGED <<phase, deadline, ceiling, ended>>

Next ==
  \/ \E t \in Token :
       Register(t) \/ Renew(t) \/ Expire(t) \/ HitCeiling(t) \/ Revoke(t)
  \/ Tick

Spec == Init /\ [][Next]_vars
=============================================================================
