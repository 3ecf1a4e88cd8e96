----------------------------- MODULE BreakGlass -----------------------------
(***************************************************************************)
(* The emergency pathway (breakglass/breakglass.go): Manager.Verify walks  *)
(* through the signatures of a request and collects the approvers who      *)
(* signed it; Manager.Activate issues a token if there are enough.         *)
(*                                                                         *)
(* A request has its terms (user, resource, reason, minutes) and its       *)
(* signatures.  A signature carries the approver it claims, the key it was *)
(* made with (NoKey: not hex, or not of a signature's size) and the terms  *)
(* its maker had before him (SignMessage).  Verify only sees whether it is *)
(* over the request's CanonicalMessage, and different terms may have the   *)
(* same one; and it tells approvers apart by their ids, not by their keys. *)
(***************************************************************************)
EXTENDS Limits, Sequences, FiniteSets

CONSTANTS
  Character,    \* what users, resources and reasons are made of
  Bar,          \* the character "|"
  Key,          \* Ed25519 key pairs
  NoKey,        \* something that is no key, or no signature
  Trusted,      \* approver id -> public key, from the configuration
  Minute,       \* time.Minute
  HalfWord,     \* int64 goes from -HalfWord to HalfWord - 1
  Emergencies   \* the requests that come in

ASSUME BreakGlassAssumption ==
  /\ Bar \in Character /\ NoKey \notin Key
  /\ \A a \in DOMAIN Trusted : Trusted[a] \in Key \cup {NoKey}
  /\ Minute \in Nat \ {0} /\ HalfWord \in Nat \ {0} /\ MaxTTL < HalfWord

QuorumRequired == 2

Terms ==
  [user : Seq(Character), resource : Seq(Character), reason : Seq(Character),
   minutes : -HalfWord..(HalfWord - 1)]

\* The three texts with a bar between them, whatever bars they have themselves,
\* then a bar and the minutes in decimal, which have none.
CanonicalMessage(terms) ==
  [text |-> terms.user \o <<Bar>> \o terms.resource \o <<Bar>> \o terms.reason,
   minutes |-> terms.minutes]

ASSUME EmergenciesAssumption ==
  \A r \in Emergencies :
    /\ r.terms \in Terms
    /\ Len(r.signatures) \in Nat /\ DOMAIN r.signatures = 1..Len(r.signatures)
    /\ \A i \in DOMAIN r.signatures : r.signatures[i].over \in Terms

VARIABLES
  stage,        \* where breakGlassActivate is
  request,      \* its req
  next,         \* Verify: the signature it looks at next
  verified,     \* Verify: verifiedApprovers
  approverList, \* Verify: approverList
  ttl           \* Activate: the lifetime it issues with

bgVars == <<stage, request, next, verified, approverList, ttl>>

NoEmergency ==
  [terms |-> [user |-> << >>, resource |-> << >>, reason |-> << >>, minutes |-> 0],
   signatures |-> << >>]

BgInit ==
  /\ stage = "idle" /\ request = NoEmergency /\ next = 1
  /\ verified = {} /\ approverList = << >> /\ ttl = 0

-----------------------------------------------------------------------------
\* The checks of Verify's loop, in the order of its "continue"s.
Counts(sig, r) ==
  /\ sig.approver \in DOMAIN Trusted
  /\ Trusted[sig.approver] # NoKey
  /\ sig.key # NoKey
  /\ sig.key = Trusted[sig.approver]
  /\ CanonicalMessage(sig.over) = CanonicalMessage(r.terms)

\* Verify's early returns, before it looks at a signature.
Named(r) == r.terms.user # << >> /\ r.terms.resource # << >>

Hopeless(r) == ~Named(r) \/ Len(r.signatures) < QuorumRequired

Arrive ==
  /\ stage = "idle"
  /\ \E r \in Emergencies :
       /\ stage' = IF Hopeless(r) THEN "rejected" ELSE "verify"
       /\ request' = r
  /\ UNCHANGED <<next, verified, approverList, ttl>>

\* Seeded fault: the list is not deduplicated, and the list is what is counted.
CheckWithoutDedup ==
  LET sig == request.signatures[next]
  IN  /\ stage = "verify" /\ next <= Len(request.signatures)
      /\ next' = next + 1
      /\ IF Counts(sig, request)
         THEN /\ verified' = verified \cup {sig.approver}
              /\ approverList' = Append(approverList, sig.approver)
         ELSE UNCHANGED <<verified, approverList>>
      /\ UNCHANGED <<stage, request, ttl>>

CheckSignature ==
  LET sig == request.signatures[next]
  IN  /\ stage = "verify" /\ next <= Len(request.signatures)
      /\ next' = next + 1
      /\ IF Counts(sig, request) /\ sig.approver \notin verified
         THEN /\ verified' = verified \cup {sig.approver}
              /\ approverList' = Append(approverList, sig.approver)
         ELSE UNCHANGED <<verified, approverList>>
      /\ UNCHANGED <<stage, request, ttl>>

\* int64 multiplication.
Wrap(n) == ((n + HalfWord) % (2 * HalfWord)) - HalfWord

\* Seeded fault: only the upper bound is enforced.
LifetimeCapped(r) ==
  LET asked == Wrap(r.terms.minutes * Minute)
  IN  IF asked > MaxTTL THEN MaxTTL ELSE asked

\* Activate: the lifetime asked for, or the maximum if that is out of range.
Lifetime(r) ==
  LET asked == Wrap(r.terms.minutes * Minute)
  IN  IF asked <= 0 \/ asked > MaxTTL THEN MaxTTL ELSE asked

\* Seeded fault: the signatures are counted, not those who made them.
DecideBySignatures ==
  /\ stage = "verify" /\ next > Len(request.signatures)
  /\ IF next - 1 < QuorumRequired
     THEN stage' = "rejected" /\ UNCHANGED ttl
     ELSE stage' = "issue" /\ ttl' = Lifetime(request)
  /\ UNCHANGED <<request, next, verified, approverList>>

\* The end of Verify, and Activate up to the provider call.
Decide ==
  /\ stage = "verify" /\ next > Len(request.signatures)
  /\ IF Cardinality(verified) < QuorumRequired
     THEN stage' = "rejected" /\ UNCHANGED ttl
     ELSE stage' = "issue" /\ ttl' = Lifetime(request)
  /\ UNCHANGED <<request, next, verified, approverList>>

\* Issuer.Issue fails, or a token exists and LogBreakGlass names the approvers.
Issued ==
  /\ stage = "issue"
  /\ stage' \in {"failed", "granted"}
  /\ UNCHANGED <<request, next, verified, approverList, ttl>>

Answer ==
  /\ stage \in {"rejected", "failed", "granted"}
  /\ stage' = "idle" /\ request' = NoEmergency /\ next' = 1
  /\ verified' = {} /\ approverList' = << >> /\ ttl' = 0

BgNext ==
  \/ Arrive \/ CheckSignature \/ Decide \/ Issued \/ Answer

BgSpec == BgInit /\ [][BgNext]_bgVars

-----------------------------------------------------------------------------
(* What break-glass promises, stated without the loop.                     *)

\* a's configured key made signature i of r.
MadeBy(a, r, i) ==
  /\ r.signatures[i].approver = a
  /\ Trusted[a] # NoKey /\ r.signatures[i].key = Trusted[a]

\* The approvers whose key signed what r reads as, whatever else is in its list
\* of signatures and however often.
Signers(r) ==
  {a \in DOMAIN Trusted :
     \E i \in DOMAIN r.signatures :
       /\ MadeBy(a, r, i)
       /\ CanonicalMessage(r.signatures[i].over) = CanonicalMessage(r.terms)}

\* The approvers whose key signed the terms of r and nothing else.
Endorsers(r) ==
  {a \in DOMAIN Trusted :
     \E i \in DOMAIN r.signatures :
       MadeBy(a, r, i) /\ r.signatures[i].over = r.terms}

\* No text has a bar in it.
Plain(terms) ==
  \A text \in {terms.user, terms.resource, terms.reason} :
    \A i \in DOMAIN text : text[i] # Bar

OutOfRange(r) == r.terms.minutes * Minute \notin 1..MaxTTL

Accepted == stage \in {"issue", "failed", "granted"}

\* A token is issued only if the keys of two approver ids signed the message,
\* also if signatures are repeated, foreign, broken or made over another lifetime;
\* if the request's texts have no bar they signed this very request, whatever bars
\* are in other requests they signed; and a request that names user and resource
\* and asks for a lifetime in range is not refused to two signers.
QuorumDistinct ==
  /\ Accepted => Cardinality(Signers(request)) >= QuorumRequired
  /\ Accepted /\ Plain(request.terms)
       => \E a, b \in Endorsers(request) : a # b
  /\ stage = "rejected"
       => \/ ~Named(request) \/ OutOfRange(request)
          \/ Cardinality(Signers(request)) < QuorumRequired

\* The audit event names those who signed, each once: the "quorum_met" it
\* reports is the number of approver ids.
ApproversNamed ==
  stage \in {"issue", "granted"} =>
    /\ Len(approverList) = Cardinality(Signers(request))
    /\ {approverList[i] : i \in DOMAIN approverList} = Signers(request)

\* The emergency token lives for a positive time within MaxTTL, also where the
\* minutes asked for overflow int64, and no longer than the approvers signed
\* for if that is a time at all.
LifetimeInRange ==
  Accepted =>
    /\ ttl \in 1..MaxTTL
    /\ request.terms.minutes > 0 => ttl <= request.terms.minutes * Minute
=============================================================================
