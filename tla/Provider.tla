------------------------------ MODULE Provider ------------------------------
(***************************************************************************)
(* The target provider (Vault, or the demo issuer) as the broker uses it   *)
(* through providers.TokenIssuer: it hands out secrets with a lease, and a *)
(* secret dies when its lease runs out or when it is revoked.              *)
(*                                                                         *)
(* leases[t] holds every secret ever issued for broker token t, oldest     *)
(* first; a secret is named by its position.  An extension issues a NEW    *)
(* secret (VaultClient.Issue creates a token; nothing renews one), so the  *)
(* earlier ones keep living until their own lease ends.                    *)
(***************************************************************************)
EXTENDS Integers, Sequences

CONSTANTS
  Second,         \* time.Second, in units of the clock
  DefaultLease    \* what the provider grants when no TTL is asked for

ASSUME LeaseAssumption == Second \in Nat \ {0} /\ DefaultLease \in Nat

\* VaultClient.Issue asks for int(ttl.Seconds()), which is rounded towards zero;
\* Vault takes 0 for "no TTL asked for" and refuses a negative number.
Askable(ttl) == ttl + Second > 0

LeaseUntil(now, ttl) ==
  now + (IF ttl < Second THEN DefaultLease ELSE (ttl \div Second) * Second)

Lease == [until : Nat, killed : BOOLEAN]

\* TokenIssuer.Issue: a new secret for t, valid up to (excluding) "until".
Issue(leases, t, until) ==
  [leases EXCEPT ![t] = Append(@, [until |-> until, killed |-> FALSE])]

\* TokenIssuer.Revoke of secret i of t; revoking a dead secret changes nothing.
Kill(leases, t, i) == [leases EXCEPT ![t][i].killed = TRUE]

\* The provider accepts secret i of t at time now.
Accepts(leases, now, t, i) ==
  /\ i \in DOMAIN leases[t]
  /\ ~leases[t][i].killed
  /\ now < leases[t][i].until
=============================================================================
