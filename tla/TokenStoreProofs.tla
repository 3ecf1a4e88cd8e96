-------------------------- MODULE TokenStoreProofs --------------------------
(***************************************************************************)
(* What holds of TokenStore for every set of tokens and requests, every    *)
(* TTL and ceiling and every bound.  TypeInv is the inductive form of      *)
(* TypeOK; Inv adds the facts about registration, revocation and time that *)
(* the other theorems need.                                                *)
(***************************************************************************)
EXTENDS TokenStore, ExpiryHeapProofs, FiniteSetTheorems

\* A goroutine that is inside an operation has a token.
HoldsToken ==
  /\ \A c \in Client : client[c].pc # "idle" => client[c].token \in Token
  /\ worker.pc = "revoke" => worker.target \in Token

TypeInv == TypeOK /\ HoldsToken

\* Killing a secret keeps the lease table well-formed, whether or not the
\* secret exists.
LEMMA KillType ==
  ASSUME NEW L \in [Token -> Seq(Lease)], NEW t \in Token, NEW i \in Nat
  PROVE  Kill(L, t, i) \in [Token -> Seq(Lease)]
<1> DEFINE s == L[t]
           r == [s EXCEPT ![i].killed = TRUE]
<1>1. r \in Seq(Lease)
  <2>1. CASE i \in 1..Len(s)
    <3>0. s \in Seq(Lease) /\ s[i] \in Lease
      BY <2>1, ElementOfSeq
    <3>1. [s[i] EXCEPT !.killed = TRUE] \in Lease
      BY <3>0 DEF Lease
    <3>2. [s EXCEPT ![i] = [s[i] EXCEPT !.killed = TRUE]] \in Seq(Lease)
      BY <2>1, <3>0, <3>1, ExceptSeq
    <3> QED
      BY <3>2
  <2>2. CASE i \notin 1..Len(s)
    <3>1. r = s
      BY <2>2
    <3> QED
      BY <3>1
  <2> QED
    BY <2>1, <2>2
<1>2. Kill(L, t, i) = [L EXCEPT ![t] = r]
  BY DEF Kill
<1> QED
  BY <1>1, <1>2

\* Issuing adds a well-formed lease.
LEMMA IssueType ==
  ASSUME NEW L \in [Token -> Seq(Lease)], NEW t \in Token, NEW u \in Nat
  PROVE  Issue(L, t, u) \in [Token -> Seq(Lease)]
<1>1. [until |-> u, killed |-> FALSE] \in Lease
  BY DEF Lease
<1>2. Append(L[t], [until |-> u, killed |-> FALSE]) \in Seq(Lease)
  BY <1>1
<1> QED
  BY <1>2 DEF Issue

\* A lease that is granted now has an end, whatever TTL is asked for.
LEMMA LeaseUntilType ==
  ASSUME NEW n \in Nat, NEW ttl \in Int
  PROVE  LeaseUntil(n, ttl) \in Nat
<1>1. Second \in Nat \ {0} /\ DefaultLease \in Nat
  BY LeaseAssumption
<1>2. CASE ttl < Second
  BY <1>1, <1>2 DEF LeaseUntil
<1>3. CASE ~(ttl < Second)
  <2> DEFINE q == ttl \div Second
  <2>1. q \in Nat
    BY <1>1, <1>3
  <2> HIDE DEF q
  <2>2. q * Second \in Nat
    BY <1>1, <2>1
  <2>3. LeaseUntil(n, ttl) = n + q * Second
    BY <1>3 DEF LeaseUntil, q
  <2> QED
    BY <2>2, <2>3
<1> QED
  BY <1>2, <1>3

\* So has the one an extension asks for.
LEMMA LeaseEndType == ASSUME TypeOK, NEW c \in Client PROVE LeaseEnd(c) \in Nat
<1>1. now \in Nat /\ AskedTTL(c) \in Int
  BY TimesAssumption DEF AskedTTL, TypeOK, ClientRecord
<1> QED
  BY <1>1, LeaseUntilType DEF LeaseEnd

\* And every lease of a grant.
LEMMA GrantLeaseType ==
  ASSUME TypeOK, NEW ttl \in GrantTTL
  PROVE  LeaseUntil(now, ttl) \in Nat
<1>1. now \in Nat /\ ttl \in Int
  BY TimesAssumption DEF TypeOK
<1> QED
  BY <1>1, LeaseUntilType

\* The broker starts well-typed, nobody inside an operation.
LEMMA TypeInit == Init => TypeInv
<1> SUFFICES ASSUME Init PROVE TypeInv
  OBVIOUS
<1> USE DEF Init, NoRecord, IdleWorker
<1>1. tok \in [Token -> TokenRecord]
  BY DEF TokenRecord, NoTime
<1>2. client \in [Client -> ClientRecord] /\ worker \in WorkerRecord
  BY DEF ClientRecord, WorkerRecord, Idle, NoTime
<1>3. pq \in Seq(Token) /\ leases \in [Token -> Seq(Lease)]
  BY EmptySeq
<1>4. HoldsToken
  BY DEF HoldsToken, Idle
<1> QED
  BY <1>1, <1>2, <1>3, <1>4 DEF TypeInv, TypeOK, NoTime

\* What the shared operators do to well-typed state.
LEMMA GotoType ==
  ASSUME TypeInv, NEW c \in Client, NEW t \in Token, NEW u \in Nat, NEW k \in Nat,
         NEW pc \in {"add", "reissue", "reissueClamped", "swap", "revoke", "force"},
         Goto(c, pc, t, u, k), UNCHANGED worker
  PROVE  client' \in [Client -> ClientRecord] /\ HoldsToken'
BY DEF TypeInv, TypeOK, HoldsToken, Goto, ClientRecord

\* A request that returns holds no token and owes none.
LEMMA ReturnType ==
  ASSUME TypeInv, NEW c \in Client, Return(c), UNCHANGED worker
  PROVE  client' \in [Client -> ClientRecord] /\ HoldsToken'
BY DEF TypeInv, TypeOK, HoldsToken, Return, Idle, ClientRecord, NoTime

\* Steps that move neither a request nor the worker keep both well-typed.
LEMMA StayType ==
  ASSUME TypeInv, UNCHANGED <<client, worker>>
  PROVE  client' \in [Client -> ClientRecord] /\ HoldsToken'
BY DEF TypeInv, TypeOK, HoldsToken

\* Writing one field of a token record.
LEMMA RecordUpdate ==
  ASSUME NEW r \in TokenRecord, NEW n \in Nat, NEW b \in BOOLEAN
  PROVE  /\ [r EXCEPT !.issuedAt = n] \in TokenRecord
         /\ [r EXCEPT !.expiresAt = n] \in TokenRecord
         /\ [r EXCEPT !.originalIssuedAt = n] \in TokenRecord
         /\ [r EXCEPT !.extensions = n] \in TokenRecord
         /\ [r EXCEPT !.secret = n] \in TokenRecord
         /\ [r EXCEPT !.revoked = b] \in TokenRecord
         /\ [r EXCEPT !.notified = b] \in TokenRecord
         /\ r.extensions + 1 \in Nat
BY DEF TokenRecord

\* The record a grant makes of r.
Granted(r, start, end) ==
  [r EXCEPT !.issuedAt = start, !.expiresAt = end, !.secret = 1]

\* A grant writes the times and the secret of its record and nothing else.
LEMMA GrantedRecord ==
  ASSUME NEW r \in TokenRecord, NEW start \in Nat, NEW end \in Nat
  PROVE  /\ Granted(r, start, end) \in TokenRecord
         /\ Granted(r, start, end).issuedAt = start
         /\ Granted(r, start, end).expiresAt = end
         /\ Granted(r, start, end).revoked = r.revoked
         /\ Granted(r, start, end).secret = 1
         /\ Granted(r, start, end).originalIssuedAt = r.originalIssuedAt
         /\ Granted(r, start, end).notified = r.notified
         /\ Granted(r, start, end).extensions = r.extensions
<1> DEFINE r1 == [r EXCEPT !.issuedAt = start]
           r2 == [r1 EXCEPT !.expiresAt = end]
           r3 == [r2 EXCEPT !.secret = 1]
<1>1. r1 \in TokenRecord
  BY RecordUpdate
<1>2. r2 \in TokenRecord
  <2> HIDE DEF r1
  <2> QED
    BY <1>1, RecordUpdate
<1>3. r3 \in TokenRecord
  <2> HIDE DEF r2
  <2> QED
    BY <1>2, RecordUpdate
<1>4. /\ r1.issuedAt = start /\ r1.revoked = r.revoked
      /\ r1.originalIssuedAt = r.originalIssuedAt
      /\ r1.notified = r.notified /\ r1.extensions = r.extensions
  BY DEF TokenRecord
<1>5. /\ r2.issuedAt = r1.issuedAt /\ r2.expiresAt = end /\ r2.revoked = r1.revoked
      /\ r2.originalIssuedAt = r1.originalIssuedAt
      /\ r2.notified = r1.notified /\ r2.extensions = r1.extensions
  <2> HIDE DEF r1
  <2> QED
    BY <1>1 DEF TokenRecord
<1>6. /\ r3.issuedAt = r2.issuedAt /\ r3.expiresAt = r2.expiresAt
      /\ r3.revoked = r2.revoked /\ r3.originalIssuedAt = r2.originalIssuedAt
      /\ r3.secret = 1 /\ r3.notified = r2.notified /\ r3.extensions = r2.extensions
  <2> HIDE DEF r2
  <2> QED
    BY <1>2 DEF TokenRecord
<1>7. Granted(r, start, end) = r3
  BY DEF Granted
<1> HIDE DEF r1, r2, r3
<1> QED
  BY <1>3, <1>4, <1>5, <1>6, <1>7

\* What a grant does to the records: nothing if its reply is lost, and otherwise
\* it writes the times and the secret of one of them.
LEMMA GrantWrites ==
  ASSUME TypeInv, NEW c \in Client, NEW t \in Token, NEW ttl \in GrantTTL,
         Grant(c, t, ttl)
  PROVE  \/ UNCHANGED <<tok, client>>
         \/ /\ Goto(c, "add", t, NoTime, 0)
            /\ tok' \in [Token -> TokenRecord]
            /\ tok'[t].issuedAt = now /\ tok'[t].expiresAt = now + ttl
            /\ tok'[t].secret = 1
            /\ \A x \in Token \ {t} : tok'[x] = tok[x]
            /\ \A x \in Token : /\ tok'[x].revoked = tok[x].revoked
                               /\ tok'[x].originalIssuedAt = tok[x].originalIssuedAt
                               /\ tok'[x].notified = tok[x].notified
                               /\ tok'[x].extensions = tok[x].extensions
<1> DEFINE g == Granted(tok[t], now, now + ttl)
<1>1. now \in Nat /\ now + ttl \in Nat /\ tok[t] \in TokenRecord
  BY TimesAssumption DEF TypeInv, TypeOK
<1>2. /\ g \in TokenRecord /\ g.issuedAt = now /\ g.expiresAt = now + ttl
      /\ g.revoked = tok[t].revoked /\ g.originalIssuedAt = tok[t].originalIssuedAt
      /\ g.secret = 1 /\ g.notified = tok[t].notified /\ g.extensions = tok[t].extensions
  BY <1>1, GrantedRecord
<1>3. \/ UNCHANGED <<tok, client>>
      \/ tok' = [tok EXCEPT ![t] = g] /\ Goto(c, "add", t, NoTime, 0)
  BY DEF TypeInv, TypeOK, Grant, Granted
<1> HIDE DEF g
<1>4. tok \in [Token -> TokenRecord]
  BY DEF TypeInv, TypeOK
<1>5. CASE tok' = [tok EXCEPT ![t] = g]
  <2>1. tok'[t] = g /\ \A x \in Token \ {t} : tok'[x] = tok[x]
    BY <1>4, <1>5
  <2>2. tok' \in [Token -> TokenRecord]
    BY <1>2, <1>4, <1>5
  <2>3. \A x \in Token : /\ tok'[x].revoked = tok[x].revoked
                        /\ tok'[x].originalIssuedAt = tok[x].originalIssuedAt
                        /\ tok'[x].notified = tok[x].notified
                        /\ tok'[x].extensions = tok[x].extensions
    BY <1>2, <2>1
  <2> QED
    BY <1>2, <1>3, <2>1, <2>2, <2>3
<1> QED
  BY <1>3, <1>5

\* Writing the three fields an extension writes.
LEMMA BumpType ==
  ASSUME TypeInv, NEW t \in Token, NEW e \in Nat, Bump(t, e)
  PROVE  tok' \in [Token -> TokenRecord]
<1> DEFINE r  == tok[t]
           r1 == [r EXCEPT !.expiresAt = e]
           r2 == [r1 EXCEPT !.extensions = r.extensions + 1]
           r3 == [r2 EXCEPT !.notified = FALSE]
<1>1. r \in TokenRecord
  BY DEF TypeInv, TypeOK
<1>2. r1 \in TokenRecord
  BY <1>1, RecordUpdate
<1>3. r2 \in TokenRecord
  <2> HIDE DEF r1
  <2> QED
    BY <1>1, <1>2, RecordUpdate
<1>4. r3 \in TokenRecord
  <2> HIDE DEF r2
  <2> QED
    BY <1>3, RecordUpdate
<1>5. tok' = [tok EXCEPT ![t] = r3]
  BY DEF TypeInv, TypeOK, Bump
<1> HIDE DEF r3
<1> QED
  BY <1>4, <1>5 DEF TypeInv, TypeOK

\* Marking a token revoked writes one flag of its record, the counter and the
\* reason.
LEMMA MarkRevokedType ==
  ASSUME TypeInv, NEW t \in Token, NEW by \in {"manual", "auto", "ceiling"},
         MarkRevoked(t, by)
  PROVE  /\ tok' \in [Token -> TokenRecord]
         /\ revokedCount' \in Nat
         /\ cause' \in [Token -> {"none", "manual", "auto", "ceiling", "recovery"}]
<1>1. [tok[t] EXCEPT !.revoked = TRUE] \in TokenRecord
  BY RecordUpdate DEF TypeInv, TypeOK
<1>2. tok' = [tok EXCEPT ![t] = [tok[t] EXCEPT !.revoked = TRUE]]
  BY DEF TypeInv, TypeOK, MarkRevoked
<1> QED
  BY <1>1, <1>2 DEF TypeInv, TypeOK, MarkRevoked

\* However a provider revocation goes, leases and answers keep their types.
LEMMA RevokeType ==
  ASSUME TypeInv, NEW t \in Token,
         RevokeSucceeds(t) \/ RevokeLost(t) \/ RevokeFails(t)
  PROVE  /\ leases' \in [Token -> Seq(Lease)]
         /\ answer' \in [Token -> {"none", "ok", "failed"}]
<1>1. tok[t].secret \in Nat
  BY DEF TypeInv, TypeOK, TokenRecord
<1>2. Kill(leases, t, tok[t].secret) \in [Token -> Seq(Lease)]
  BY <1>1, KillType DEF TypeInv, TypeOK
<1> QED
  BY <1>2 DEF TypeInv, TypeOK, RevokeSucceeds, RevokeLost, RevokeFails

\* No step of a request, the worker, the ticker or the environment breaks a type.
LEMMA TypeStep == TypeInv /\ [Next]_vars => TypeInv'
<1> SUFFICES ASSUME TypeInv, [Next]_vars PROVE TypeInv'
  OBVIOUS
<1> USE TimesAssumption, TokensAssumption
<1> USE DEF TypeInv
<1>1. ASSUME NEW c \in Client, NEW t \in Token, NEW ttl \in GrantTTL, Grant(c, t, ttl)
      PROVE  TypeInv'
  <2>0. now + ttl \in Nat /\ now \in Nat
    BY DEF TypeOK
  <2>1. leases' \in [Token -> Seq(Lease)]
    BY <1>1, GrantLeaseType, IssueType DEF Grant, TypeOK
  <2>2. CASE Goto(c, "add", t, NoTime, 0) /\ tok' \in [Token -> TokenRecord]
    <3>2. client' \in [Client -> ClientRecord] /\ HoldsToken'
      BY <1>1, <2>2, GotoType DEF Grant, NoTime
    <3> QED
      BY <1>1, <2>1, <2>2, <3>2 DEF Grant, TypeOK, history
  <2>3. CASE UNCHANGED <<tok, client>>
    BY <1>1, <2>1, <2>3, StayType DEF Grant, TypeOK, history
  <2> QED
    BY <1>1, <2>2, <2>3, GrantWrites
<1>2. ASSUME NEW c \in Client, Add(c) PROVE TypeInv'
  <2> DEFINE t == client[c].token
  <2>1. t \in Token
    BY <1>2 DEF Add, HoldsToken
  <2>2. tok' \in [Token -> TokenRecord]
    <3> DEFINE orig == IF tok[t].originalIssuedAt = NoTime
                       THEN tok[t].issuedAt ELSE tok[t].originalIssuedAt
    <3>1. tok[t] \in TokenRecord /\ orig \in Nat
      BY <2>1 DEF TypeOK, TokenRecord
    <3>2. tok' = [tok EXCEPT ![t].originalIssuedAt = orig]
      BY <1>2 DEF Add
    <3> HIDE DEF orig
    <3>3. [tok[t] EXCEPT !.originalIssuedAt = orig] \in TokenRecord
      BY <3>1, RecordUpdate
    <3> QED
      BY <2>1, <3>2, <3>3 DEF TypeOK
  <2>3. pq' \in Seq(Token)
    BY <1>2, <2>1, HeapPushType DEF Add, TypeOK
  <2>4. client' \in [Client -> ClientRecord] /\ HoldsToken'
    BY <1>2, ReturnType DEF Add
  <2> QED
    BY <1>2, <2>1, <2>2, <2>3, <2>4 DEF Add, TypeOK, history
<1>3. ASSUME NEW c \in Client, NEW t \in Token,
             ExtendNormal(c, t) \/ ExtendClamped(c, t)
      PROVE  TypeInv'
  <2>1. NewExpiry(t) \in Nat /\ Ceiling(t) \in Nat
    BY DEF NewExpiry, Ceiling, TypeOK, TokenRecord
  <2>2. tok' \in [Token -> TokenRecord]
    BY <1>3, <2>1, BumpType DEF ExtendNormal, ExtendClamped
  <2>3. client' \in [Client -> ClientRecord] /\ HoldsToken'
    BY <1>3, <2>1, GotoType DEF ExtendNormal, ExtendClamped, NoTime
  <2> QED
    BY <1>3, <2>2, <2>3 DEF ExtendNormal, ExtendClamped, TypeOK, history
<1>4. ASSUME NEW c \in Client, NEW t \in Token,
             ExtendForcesRevocation(c, t) \/ RevokeNow(c, t)
      PROVE  TypeInv'
  <2>1. client' \in [Client -> ClientRecord] /\ HoldsToken'
    BY <1>4, GotoType DEF ExtendForcesRevocation, RevokeNow, NoTime
  <2> QED
    BY <1>4, <2>1, MarkRevokedType DEF ExtendForcesRevocation, RevokeNow, TypeOK
<1>5. ASSUME NEW c \in Client, ForceRevoke(c) PROVE TypeInv'
  <2> DEFINE t == client[c].token
  <2>1. t \in Token
    BY <1>5 DEF ForceRevoke, HoldsToken
  <2>2. leases' \in [Token -> Seq(Lease)] /\ answer' \in [Token -> {"none", "ok", "failed"}]
    <3>1. tok[t].secret \in Nat
      BY <2>1 DEF TypeOK, TokenRecord
    <3>2. Kill(leases, t, tok[t].secret) \in [Token -> Seq(Lease)]
      BY <2>1, <3>1, KillType DEF TypeOK
    <3> QED
      BY <1>5, <2>1, <3>2, RevokeType DEF ForceRevoke, TypeOK
  <2>3. client' \in [Client -> ClientRecord] /\ HoldsToken'
    BY <1>5, ReturnType DEF ForceRevoke
  <2> QED
    BY <1>5, <2>2, <2>3 DEF ForceRevoke, TypeOK, storeVars
<1>6. ASSUME NEW c \in Client, Reissue(c) \/ ReissueFails(c) PROVE TypeInv'
  <2> DEFINE t == client[c].token
  <2>1. t \in Token
    BY <1>6 DEF Reissue, ReissueFails, HoldsToken
  <2>2. LeaseEnd(c) \in Nat
    BY LeaseEndType
  <2>3. leases' \in [Token -> Seq(Lease)]
    <3>1. Issue(leases, t, LeaseEnd(c)) \in [Token -> Seq(Lease)]
      <4> HIDE DEF t
      <4> QED
        BY <2>1, <2>2, IssueType DEF TypeOK
    <3> QED
      BY <1>6, <3>1 DEF Reissue, ReissueFails, TypeOK
  <2>4. client' \in [Client -> ClientRecord] /\ HoldsToken'
    <3>1. CASE Reissue(c)
      <4>1. Len(leases[t]) + 1 \in Nat
        BY <2>1 DEF TypeOK
      <4> QED
        BY <2>1, <3>1, <4>1, GotoType DEF Reissue, NoTime
    <3>2. CASE ReissueFails(c)
      BY <3>2, ReturnType DEF ReissueFails
    <3> QED
      BY <1>6, <3>1, <3>2
  <2> QED
    BY <1>6, <2>3, <2>4 DEF Reissue, ReissueFails, TypeOK, storeVars, history
<1>7. ASSUME NEW c \in Client, SwapSecret(c) PROVE TypeInv'
  <2>1. tok' \in [Token -> TokenRecord]
    <3> DEFINE t == client[c].token
    <3>1. t \in Token /\ tok[t] \in TokenRecord
      BY <1>7 DEF SwapSecret, HoldsToken, TypeOK
    <3>2. client[c].secret \in Nat
      BY DEF TypeOK, ClientRecord
    <3>3. [tok[t] EXCEPT !.secret = client[c].secret] \in TokenRecord
      BY <3>1, <3>2, RecordUpdate
    <3> QED
      BY <1>7, <3>1, <3>3 DEF SwapSecret, TypeOK
  <2>2. client' \in [Client -> ClientRecord] /\ HoldsToken'
    BY <1>7, ReturnType DEF SwapSecret
  <2> QED
    BY <1>7, <2>1, <2>2 DEF SwapSecret, TypeOK, history
<1>8. ASSUME NEW c \in Client, ManualRevoke(c) PROVE TypeInv'
  <2>1. client[c].token \in Token
    BY <1>8 DEF ManualRevoke, HoldsToken
  <2>2. leases' \in [Token -> Seq(Lease)] /\ answer' \in [Token -> {"none", "ok", "failed"}]
    BY <1>8, <2>1, RevokeType DEF ManualRevoke
  <2>3. client' \in [Client -> ClientRecord] /\ HoldsToken'
    BY <1>8, ReturnType, StayType DEF ManualRevoke
  <2> QED
    BY <1>8, <2>2, <2>3 DEF ManualRevoke, TypeOK, storeVars
<1>9. CASE WorkerWakes \/ WorkerStops \/ ScanEnds
  <2>1. worker' \in WorkerRecord /\ UNCHANGED client /\ worker'.pc # "revoke"
    <3>1. CASE WorkerWakes
      BY <3>1 DEF WorkerWakes, TypeOK, WorkerRecord
    <3>2. CASE WorkerStops
      BY <3>2 DEF WorkerStops, TypeOK, WorkerRecord
    <3>3. CASE ScanEnds
      BY <3>3 DEF ScanEnds, TypeOK, WorkerRecord, NoTime
    <3> QED
      BY <1>9, <3>1, <3>2, <3>3
  <2>2. HoldsToken'
    BY <2>1 DEF HoldsToken
  <2> QED
    BY <1>9, <2>1, <2>2 DEF WorkerWakes, WorkerStops, ScanEnds, TypeOK, storeVars, history,
                      NoTime
<1>10. CASE MarkWarnings
  <2>1. tok' \in [Token -> TokenRecord]
    <3> DEFINE due == {t \in registered : NeedsWarning(t)}
    <3>1. \A t \in Token :
            [tok[t] EXCEPT !.notified = @ \/ t \in due] \in TokenRecord
      <4> SUFFICES ASSUME NEW t \in Token
                   PROVE  [tok[t] EXCEPT !.notified = @ \/ t \in due] \in TokenRecord
        OBVIOUS
      <4>1. tok[t] \in TokenRecord
        BY DEF TypeOK
      <4> HIDE DEF due
      <4> QED
        BY <4>1 DEF TokenRecord
    <3>2. tok' = [t \in Token |-> [tok[t] EXCEPT !.notified = @ \/ t \in due]]
      BY <1>10 DEF MarkWarnings
    <3> QED
      BY <3>1, <3>2
  <2>2. worker' \in WorkerRecord /\ HoldsToken'
    BY <1>10 DEF MarkWarnings, NotifyRest, HoldsToken, TypeOK, WorkerRecord
  <2> QED
    BY <1>10, <2>1, <2>2 DEF MarkWarnings, TypeOK, history
<1>11. ASSUME NEW t \in Token, Notify(t) PROVE TypeInv'
  <2>1. worker' \in WorkerRecord /\ HoldsToken'
    BY <1>11 DEF Notify, NotifyRest, HoldsToken, TypeOK, WorkerRecord
  <2>2. warned' \in [Token -> Nat]
    BY <1>11 DEF Notify, TypeOK
  <2> QED
    BY <1>11, <2>1, <2>2 DEF Notify, TypeOK, storeVars
<1>12. CASE ScanSkips \/ ScanClaims
  <2>1. pq' \in Seq(Token) /\ Head(pq) \in Token
    BY <1>12, HeapPopType, HeadTailProperties DEF ScanSkips, ScanClaims, TopIsDue, TypeOK
  <2>2. CASE ScanSkips
    BY <2>1, <2>2, StayType DEF ScanSkips, TypeOK, history
  <2>3. CASE ScanClaims
    <3>1. worker' \in WorkerRecord /\ HoldsToken'
      BY <2>1, <2>3 DEF ScanClaims, HoldsToken, TypeOK, WorkerRecord
    <3> QED
      BY <2>1, <2>3, <3>1, MarkRevokedType DEF ScanClaims, TypeOK
  <2> QED
    BY <1>12, <2>2, <2>3
<1>13. CASE AutoRevoke
  <2>1. worker.target \in Token
    BY <1>13 DEF AutoRevoke, HoldsToken
  <2>2. leases' \in [Token -> Seq(Lease)] /\ answer' \in [Token -> {"none", "ok", "failed"}]
    BY <1>13, <2>1, RevokeType DEF AutoRevoke
  <2>3. worker' \in WorkerRecord /\ HoldsToken'
    BY <1>13, <2>1 DEF AutoRevoke, HoldsToken, TypeOK, WorkerRecord
  <2> QED
    BY <1>13, <2>2, <2>3 DEF AutoRevoke, TypeOK, storeVars
<1>14. CASE TickerFires \/ Tick \/ Cancel \/ UNCHANGED vars
  <2>1. HoldsToken' /\ UNCHANGED <<storeVars, leases, client, worker, history>>
    BY <1>14, StayType DEF TickerFires, Tick, Cancel, vars
  <2>2. now' \in Nat /\ tickBuf' \in Nat /\ cancelled' \in BOOLEAN
    <3>1. CASE TickerFires
      BY <3>1 DEF TickerFires, TypeOK
    <3>2. CASE Tick
      BY <3>2 DEF Tick, TypeOK
    <3>3. CASE Cancel
      BY <3>3 DEF Cancel, TypeOK
    <3>4. CASE UNCHANGED vars
      BY <3>4 DEF vars, TypeOK
    <3> QED
      BY <1>14, <3>1, <3>2, <3>3, <3>4
  <2>3. TypeOK
    OBVIOUS
  <2> HIDE DEF TypeInv
  <2>4. TypeOK'
    BY <2>1, <2>2, <2>3 DEF storeVars, history, TypeOK
  <2> QED
    BY <2>1, <2>4 DEF TypeInv
<1> QED
  BY <1>1, <1>2, <1>3, <1>4, <1>5, <1>6, <1>7, <1>8, <1>9, <1>10, <1>11, <1>12,
     <1>13, <1>14
     DEF Next, ClientStarts, ClientContinues, Worker

\* Every variable keeps its type, for any tokens, requests, times and bounds.
THEOREM TypeCorrect == Spec => []TypeOK
<1>1. Spec => []TypeInv
  BY TypeInit, TypeStep, PTL DEF Spec
<1>2. TypeInv => TypeOK
  BY DEF TypeInv
<1> QED
  BY <1>1, <1>2, PTL

-----------------------------------------------------------------------------
(***************************************************************************)
(* Every step is one of five kinds, as far as a token's life is concerned: *)
(* the other invariants are proved for the kinds, not for the actions.     *)
(***************************************************************************)

\* Nothing that decides about a token's life changes.
Quiet ==
  /\ UNCHANGED <<registered, revokedCount, cause>>
  /\ \A t \in Token :
       /\ tok'[t].issuedAt = tok[t].issuedAt
       /\ tok'[t].expiresAt = tok[t].expiresAt
       /\ tok'[t].originalIssuedAt = tok[t].originalIssuedAt
       /\ tok'[t].revoked = tok[t].revoked

\* A live token's expiry moves to e: one TTL on, or to the ceiling if that is
\* earlier.
Extends(t, e) ==
  /\ Live(t) /\ Bump(t, e)
  /\ e = IF NewExpiry(t) < Ceiling(t) THEN NewExpiry(t) ELSE Ceiling(t)
  /\ UNCHANGED <<registered, revokedCount, cause, now>>

\* An extension leaves every Revoked flag as it is.
LEMMA ExtendsKeepsFlags ==
  ASSUME TypeInv, NEW t \in Token, NEW e \in Nat, Extends(t, e)
  PROVE  \A x \in Token : tok'[x].revoked = tok[x].revoked
<1>1. DOMAIN tok = Token /\ \A x \in Token : "revoked" \in DOMAIN tok[x]
  BY DEF TypeInv, TypeOK, TokenRecord
<1> QED
  BY <1>1 DEF Extends, Bump

\* A live token is marked revoked, for a reason that is true.
Ends(t, by) ==
  /\ Live(t) /\ MarkRevoked(t, by)
  /\ by = "auto" => tok[t].expiresAt <= worker.tick
  /\ by = "ceiling" => Ceiling(t) <= now
  /\ UNCHANGED <<registered, now>>

\* What a step can do to a token record comes in five kinds: nothing that matters
\* here, a grant, a registration, an extension or an end.
LEMMA StepKinds ==
  ASSUME TypeInv, [Next]_vars
  PROVE  \/ Quiet
         \/ \E c \in Client, t \in Token : \E ttl \in GrantTTL : Grant(c, t, ttl)
         \/ \E c \in Client : Add(c)
         \/ \E t \in Token, e \in Nat : Extends(t, e)
         \/ \E t \in Token, by \in {"manual", "auto", "ceiling"} : Ends(t, by)
<1> USE DEF TypeInv
<1>1. ASSUME NEW c \in Client, NEW t \in Token, ExtendNormal(c, t)
      PROVE  \E e \in Nat : Extends(t, e)
  <2>1. NewExpiry(t) \in Nat /\ Ceiling(t) \in Nat
    BY TimesAssumption DEF NewExpiry, Ceiling, TypeOK, TokenRecord
  <2>2. Extends(t, NewExpiry(t))
    BY <1>1, <2>1 DEF ExtendNormal, AtCeiling, Extends, history
  <2> QED
    BY <2>1, <2>2
<1>2. ASSUME NEW c \in Client, NEW t \in Token, ExtendClamped(c, t)
      PROVE  \E e \in Nat : Extends(t, e)
  <2>1. Ceiling(t) \in Nat
    BY TimesAssumption DEF Ceiling, TypeOK, TokenRecord
  <2>2. NewExpiry(t) \in Nat
    BY TimesAssumption DEF NewExpiry, TypeOK, TokenRecord
  <2>3. Extends(t, Ceiling(t))
    BY <1>2, <2>1, <2>2 DEF ExtendClamped, AtCeiling, Extends, history
  <2> QED
    BY <2>1, <2>3
<1>3. ASSUME NEW c \in Client, NEW t \in Token, ExtendForcesRevocation(c, t)
      PROVE  Ends(t, "ceiling")
  <2>1. Ceiling(t) \in Nat /\ now \in Nat
    BY TimesAssumption DEF Ceiling, TypeOK, TokenRecord
  <2> QED
    BY <1>3, <2>1 DEF ExtendForcesRevocation, Ends
<1>4. ASSUME NEW c \in Client, NEW t \in Token, RevokeNow(c, t)
      PROVE  Ends(t, "manual")
  BY <1>4 DEF RevokeNow, Ends
<1>5. CASE ScanClaims
  <2>1. Head(pq) \in Token
    BY <1>5, HeadTailProperties DEF ScanClaims, TopIsDue, TypeOK
  <2>2. Ends(Head(pq), "auto")
    BY <1>5 DEF ScanClaims, TopIsDue, Ends
  <2> QED
    BY <2>1, <2>2
<1>6. ASSUME NEW c \in Client, SwapSecret(c) PROVE Quiet
  <2> DEFINE x == client[c].token
           r == [tok[x] EXCEPT !.secret = client[c].secret]
  <2>1. tok' = [tok EXCEPT ![x] = r] /\ x \in Token /\ tok[x] \in TokenRecord
    BY <1>6 DEF SwapSecret, HoldsToken, TypeOK
  <2>2. /\ r.issuedAt = tok[x].issuedAt /\ r.expiresAt = tok[x].expiresAt
        /\ r.originalIssuedAt = tok[x].originalIssuedAt /\ r.revoked = tok[x].revoked
    BY <2>1 DEF TokenRecord
  <2> HIDE DEF r, x
  <2>3. \A t \in Token : /\ tok'[t].issuedAt = tok[t].issuedAt
                        /\ tok'[t].expiresAt = tok[t].expiresAt
                        /\ tok'[t].originalIssuedAt = tok[t].originalIssuedAt
                        /\ tok'[t].revoked = tok[t].revoked
    BY <2>1, <2>2 DEF TypeOK
  <2> QED
    BY <1>6, <2>3 DEF SwapSecret, Quiet, history
<1>7. CASE MarkWarnings
  <2>1. \A t \in Token :
          /\ tok'[t].issuedAt = tok[t].issuedAt
          /\ tok'[t].expiresAt = tok[t].expiresAt
          /\ tok'[t].originalIssuedAt = tok[t].originalIssuedAt
          /\ tok'[t].revoked = tok[t].revoked
    BY <1>7 DEF MarkWarnings, TypeOK, TokenRecord
  <2> QED
    BY <1>7, <2>1 DEF MarkWarnings, Quiet, history
<1>8. ASSUME \/ \E c \in Client : \/ Reissue(c) \/ ReissueFails(c)
                                  \/ ManualRevoke(c) \/ ForceRevoke(c)
             \/ WorkerWakes \/ WorkerStops \/ (\E t \in Token : Notify(t))
             \/ ScanEnds \/ ScanSkips \/ AutoRevoke
             \/ TickerFires \/ Tick \/ Cancel \/ UNCHANGED vars
      PROVE  Quiet
  <2>1. UNCHANGED <<tok, registered, revokedCount, cause>>
    BY <1>8 DEF Reissue, ReissueFails, ManualRevoke, ForceRevoke, WorkerWakes,
         WorkerStops, Notify, ScanEnds, ScanSkips, AutoRevoke, TickerFires, Tick,
         Cancel, vars, storeVars, history
  <2> QED
    BY <2>1 DEF Quiet
<1> QED
  BY <1>1, <1>2, <1>3, <1>4, <1>5, <1>6, <1>7, <1>8
     DEF Next, ClientStarts, ClientContinues, Worker

-----------------------------------------------------------------------------
(* Registration: who knows a token, and that it is handed to the store once. *)

Registration ==
  /\ \A t \in Token : cause[t] # "none" => tok[t].revoked
  /\ \A t \in Token : tok[t].revoked => t \in registered
  /\ \A t \in registered : leases[t] # << >>
  /\ \A c \in Client : client[c].pc = "add" =>
       /\ client[c].token \notin registered
       /\ leases[client[c].token] # << >>
  /\ \A c, d \in Client :
       client[c].pc = "add" /\ client[d].pc = "add"
         /\ client[c].token = client[d].token => c = d

\* The provider's side changes by issuing one more secret or by revoking one: a
\* grant's first, an extension's next, or the one in the record.
LEMMA LeaseKinds ==
  ASSUME TypeInv, [Next]_vars
  PROVE  \/ UNCHANGED leases
         \/ \E c \in Client, x \in Token : \E ttl \in GrantTTL :
              Grant(c, x, ttl) /\ leases' = Issue(leases, x, LeaseUntil(now, ttl))
         \/ \E c \in Client, u \in Nat :
              /\ client[c].pc \in {"reissue", "reissueClamped"}
              /\ client[c].token \in Token
              /\ leases' = Issue(leases, client[c].token, u)
         \/ \E x \in Token : leases' = Kill(leases, x, tok[x].secret) /\ UNCHANGED tok
<1> USE DEF TypeInv
<1>1. ASSUME NEW c \in Client, NEW x \in Token, NEW ttl \in GrantTTL, Grant(c, x, ttl)
      PROVE  leases' = Issue(leases, x, LeaseUntil(now, ttl))
  BY <1>1 DEF Grant
<1>2. ASSUME NEW c \in Client, Reissue(c) \/ ReissueFails(c)
      PROVE  \/ UNCHANGED leases
             \/ \E u \in Nat : /\ client[c].pc \in {"reissue", "reissueClamped"}
                               /\ client[c].token \in Token
                               /\ leases' = Issue(leases, client[c].token, u)
  <2>1. client[c].token \in Token
    BY <1>2 DEF Reissue, ReissueFails, HoldsToken
  <2>2. LeaseEnd(c) \in Nat
    BY LeaseEndType
  <2> QED
    BY <1>2, <2>1, <2>2 DEF Reissue, ReissueFails
<1>3. ASSUME NEW c \in Client, ManualRevoke(c) \/ ForceRevoke(c)
      PROVE  \/ UNCHANGED leases
             \/ \E x \in Token : leases' = Kill(leases, x, tok[x].secret) /\ UNCHANGED tok
  <2>1. client[c].token \in Token
    BY <1>3 DEF ManualRevoke, ForceRevoke, HoldsToken
  <2> QED
    BY <1>3, <2>1 DEF ManualRevoke, ForceRevoke, RevokeSucceeds, RevokeLost, RevokeFails,
       storeVars
<1>4. CASE AutoRevoke
  BY <1>4 DEF AutoRevoke, HoldsToken, RevokeSucceeds, RevokeLost, RevokeFails, storeVars
<1>5. ASSUME \/ \E c \in Client : Add(c) \/ SwapSecret(c)
             \/ \E c \in Client, x \in Token :
                  \/ ExtendNormal(c, x) \/ ExtendClamped(c, x)
                  \/ ExtendForcesRevocation(c, x) \/ RevokeNow(c, x)
             \/ WorkerWakes \/ WorkerStops \/ MarkWarnings
             \/ (\E x \in Token : Notify(x)) \/ ScanEnds \/ ScanSkips \/ ScanClaims
             \/ TickerFires \/ Tick \/ Cancel \/ UNCHANGED vars
      PROVE  UNCHANGED leases
  BY <1>5 DEF Add, SwapSecret, ExtendNormal, ExtendClamped, ExtendForcesRevocation,
       RevokeNow, WorkerWakes, WorkerStops, MarkWarnings, Notify, ScanEnds, ScanSkips,
       ScanClaims, TickerFires, Tick, Cancel, vars
<1> QED
  BY <1>1, <1>2, <1>3, <1>4, <1>5 DEF Next, ClientStarts, ClientContinues, Worker

\* The provider never forgets that it issued a secret for a token.
LEMMA LeasesStay ==
  ASSUME TypeInv, [Next]_vars, NEW t \in Token, leases[t] # << >>
  PROVE  leases'[t] # << >>
<1> USE DEF TypeInv
<1>1. \A x \in Token, u \in Nat : Issue(leases, x, u)[t] # << >>
  <2> SUFFICES ASSUME NEW x \in Token, NEW u \in Nat
               PROVE  Issue(leases, x, u)[t] # << >>
    OBVIOUS
  <2>1. CASE x = t
    <3> DEFINE l == [until |-> u, killed |-> FALSE]
    <3>1. Issue(leases, x, u)[t] = Append(leases[t], l)
      BY <2>1 DEF Issue, TypeOK
    <3>2. l \in Lease /\ leases[t] \in Seq(Lease)
      BY DEF Lease, TypeOK
    <3> HIDE DEF l
    <3> QED
      BY <3>1, <3>2
  <2>2. CASE x # t
    BY <2>2 DEF Issue, TypeOK
  <2> QED
    BY <2>1, <2>2
<1>2. \A x \in Token, i \in Nat : Kill(leases, x, i)[t] # << >>
  <2> SUFFICES ASSUME NEW x \in Token, NEW i \in Nat
               PROVE  Kill(leases, x, i)[t] # << >>
    OBVIOUS
  <2>1. leases[t] \in Seq(Lease) /\ Len(leases[t]) \in Nat \ {0}
    BY EmptySeq DEF TypeOK
  <2>2. DOMAIN leases[t] = 1..Len(leases[t]) /\ 1 \in DOMAIN leases[t]
    BY <2>1
  <2>3. DOMAIN Kill(leases, x, i)[t] = DOMAIN leases[t]
    BY DEF Kill, TypeOK
  <2> QED
    BY <2>2, <2>3
<1>3. \A ttl \in GrantTTL : LeaseUntil(now, ttl) \in Nat
  BY GrantLeaseType
<1>4. \A x \in Token : tok[x].secret \in Nat
  BY DEF TypeOK, TokenRecord
<1> QED
  BY <1>1, <1>2, <1>3, <1>4, LeaseKinds

\* Only Grant puts a request at the point where it will call Add.
LEMMA AddFollowsGrant ==
  ASSUME TypeInv, [Next]_vars, NEW c \in Client, client'[c].pc = "add"
  PROVE  \/ client'[c] = client[c]
         \/ \E t \in Token, ttl \in GrantTTL :
              Grant(c, t, ttl) /\ client'[c].token = t
<1> USE DEF TypeInv
<1>1. ASSUME NEW d \in Client, NEW t \in Token, NEW ttl \in GrantTTL, Grant(d, t, ttl)
      PROVE  client'[c] = client[c] \/ (c = d /\ client'[c].token = t)
  BY <1>1 DEF Grant, Goto, TypeOK
<1>2. ASSUME NEW d \in Client, NEW t \in Token,
             \/ ExtendNormal(d, t) \/ ExtendClamped(d, t)
             \/ ExtendForcesRevocation(d, t) \/ RevokeNow(d, t)
      PROVE  client'[c] = client[c]
  BY <1>2 DEF ExtendNormal, ExtendClamped, ExtendForcesRevocation, RevokeNow, Goto,
       TypeOK
<1>3. ASSUME NEW d \in Client, Return(d) \/ UNCHANGED client
      PROVE  client'[c] = client[c]
  BY <1>3 DEF Return, Idle, TypeOK
<1>4. ASSUME NEW d \in Client, ClientContinues(d)
      PROVE  client'[c] = client[c]
  <2>1. CASE Reissue(d)
    BY <2>1 DEF Reissue, Goto, TypeOK
  <2>2. CASE Add(d) \/ ReissueFails(d) \/ SwapSecret(d) \/ ForceRevoke(d)
             \/ ManualRevoke(d)
    BY <1>3, <2>2 DEF Add, ReissueFails, SwapSecret, ForceRevoke, ManualRevoke
  <2> QED
    BY <1>4, <2>1, <2>2 DEF ClientContinues
<1>5. ASSUME Worker \/ TickerFires \/ Tick \/ Cancel \/ UNCHANGED vars
      PROVE  UNCHANGED client
  BY <1>5 DEF Worker, WorkerWakes, WorkerStops, MarkWarnings, Notify, ScanEnds,
       ScanSkips, ScanClaims, AutoRevoke, TickerFires, Tick, Cancel, vars
<1> QED
  BY <1>1, <1>2, <1>4, <1>5 DEF Next, ClientStarts

\* Initially nothing is registered and nothing has ended.
LEMMA RegistrationInit == Init => Registration
BY DEF Init, Registration, Idle, NoRecord, IdleWorker

\* No step registers a token twice, or gives a reason to one that has not ended.
LEMMA RegistrationStep ==
  ASSUME TypeInv, Registration, [Next]_vars
  PROVE  Registration'
<1> USE DEF TypeInv
<1>1. \/ UNCHANGED registered
      \/ \E c \in Client : Add(c) /\ registered' = registered \cup {client[c].token}
  BY StepKinds DEF Quiet, Grant, Add, Extends, Ends
<1>2. \A t \in Token : /\ cause'[t] # "none" => tok'[t].revoked
                       /\ tok'[t].revoked => t \in registered'
  <2>1. CASE Quiet
    BY <2>1 DEF Quiet, Registration
  <2>2. ASSUME NEW c \in Client, NEW t \in Token, NEW ttl \in GrantTTL, Grant(c, t, ttl)
        PROVE  /\ \A x \in Token : tok'[x].revoked = tok[x].revoked
               /\ UNCHANGED <<cause, registered>>
    <3>1. \A x \in Token : tok'[x].revoked = tok[x].revoked
      BY <2>2, GrantWrites
    <3> QED
      BY <2>2, <3>1 DEF Grant, history
  <2>3. ASSUME NEW c \in Client, Add(c)
        PROVE  /\ \A x \in Token : tok'[x].revoked = tok[x].revoked
               /\ UNCHANGED cause /\ registered \subseteq registered'
    BY <2>3 DEF Add, TypeOK, TokenRecord, history
  <2>4. ASSUME NEW t \in Token, NEW e \in Nat, Extends(t, e)
        PROVE  /\ \A x \in Token : tok'[x].revoked = tok[x].revoked
               /\ UNCHANGED <<cause, registered>>
    BY <2>4, ExtendsKeepsFlags DEF Extends
  <2>5. ASSUME NEW t \in Token, NEW by \in {"manual", "auto", "ceiling"}, Ends(t, by)
        PROVE  /\ tok'[t].revoked /\ t \in registered' /\ UNCHANGED registered
               /\ \A x \in Token \ {t} : /\ tok'[x].revoked = tok[x].revoked
                                        /\ cause'[x] = cause[x]
    BY <2>5 DEF Ends, Live, MarkRevoked, TypeOK, TokenRecord
  <2> SUFFICES ASSUME NEW x \in Token
               PROVE  /\ cause'[x] # "none" => tok'[x].revoked
                      /\ tok'[x].revoked => x \in registered'
    OBVIOUS
  <2>6. CASE \E t \in Token, by \in {"manual", "auto", "ceiling"} : Ends(t, by)
    <3>1. PICK t \in Token, by \in {"manual", "auto", "ceiling"} : Ends(t, by)
      BY <2>6
    <3>2. CASE x = t
      BY <2>5, <3>1, <3>2
    <3>3. CASE x # t
      BY <2>5, <3>1, <3>3 DEF Registration
    <3> QED
      BY <3>2, <3>3
  <2> QED
    BY StepKinds, <2>1, <2>2, <2>3, <2>4, <2>6 DEF Registration
<1>3. ASSUME NEW t \in registered' PROVE leases'[t] # << >>
  <2>1. t \in Token /\ leases[t] # << >>
    <3>1. CASE t \in registered
      BY <3>1 DEF Registration, TypeOK
    <3>2. ASSUME NEW c \in Client, Add(c), t = client[c].token
          PROVE  t \in Token /\ leases[t] # << >>
      <4>1. client[c].pc = "add"
        BY <3>2 DEF Add
      <4> QED
        BY <3>2, <4>1 DEF Registration, HoldsToken
    <3> QED
      BY <1>1, <3>1, <3>2
  <2> QED
    BY <2>1, LeasesStay
<1>4. ASSUME NEW c \in Client, client'[c].pc = "add"
      PROVE  /\ client'[c].token \notin registered'
             /\ leases'[client'[c].token] # << >>
  <2>1. CASE client'[c] = client[c]
    <3>1. client[c].token \in Token /\ client[c].token \notin registered
      BY <1>4, <2>1 DEF HoldsToken, Registration
    <3>2. ASSUME NEW d \in Client, Add(d) PROVE client[d].token # client[c].token
      <4>1. client'[d].pc = "idle" /\ client[d].pc = "add"
        BY <3>2 DEF Add, Return, Idle, TypeOK
      <4> QED
        BY <1>4, <2>1, <4>1 DEF Registration
    <3> QED
      BY <1>1, <1>4, <2>1, <3>1, <3>2, LeasesStay DEF Registration
  <2>2. ASSUME NEW t \in Token, NEW ttl \in GrantTTL, Grant(c, t, ttl)
        PROVE  t \notin registered' /\ leases'[t] # << >>
    <3>1. t \notin registered /\ UNCHANGED registered
      BY <2>2 DEF Grant, Registration
    <3> DEFINE l == [until |-> LeaseUntil(now, ttl), killed |-> FALSE]
    <3>2. leases'[t] = Append(leases[t], l)
      BY <2>2 DEF Grant, Issue, TypeOK
    <3>3. l \in Lease /\ leases[t] \in Seq(Lease)
      BY GrantLeaseType DEF Lease, TypeOK
    <3> HIDE DEF l
    <3> QED
      BY <3>1, <3>2, <3>3
  <2> QED
    BY <1>4, <2>1, <2>2, AddFollowsGrant
<1>5. ASSUME NEW c \in Client, NEW d \in Client,
             client'[c].pc = "add", client'[d].pc = "add",
             client'[c].token = client'[d].token
      PROVE  c = d
  <2>1. ASSUME NEW a \in Client, NEW b \in Client, NEW t \in Token,
               NEW ttl \in GrantTTL, Grant(a, t, ttl), a # b,
               client'[b].pc = "add", client'[b].token = t
        PROVE  FALSE
    <3>1. client'[b] = client[b] /\ leases[t] = << >>
      <4>1. CASE UNCHANGED client
        BY <2>1, <4>1 DEF Grant
      <4>2. CASE Goto(a, "add", t, NoTime, 0)
        BY <2>1, <4>2 DEF Grant, Goto, TypeOK
      <4> QED
        BY <2>1, <4>1, <4>2 DEF Grant
    <3> QED
      BY <2>1, <3>1 DEF Registration
  <2>2. CASE client'[c] = client[c] /\ client'[d] = client[d]
    BY <1>5, <2>2 DEF Registration
  <2> QED
    BY <1>5, <2>1, <2>2, AddFollowsGrant
<1> QED
  BY <1>2, <1>3, <1>4, <1>5 DEF Registration

Inv == TypeInv /\ Registration

\* The facts about types and registration hold throughout.
LEMMA InvHolds == Spec => []Inv
<1>1. Init => Inv
  BY TypeInit, RegistrationInit DEF Inv
<1>2. Inv /\ [Next]_vars => Inv'
  BY TypeStep, RegistrationStep DEF Inv
<1> QED
  BY <1>1, <1>2, PTL DEF Spec

-----------------------------------------------------------------------------
(* Finality.                                                               *)

\* A step leaves the start of a known token's session alone, moves its expiry
\* only as an extension, and touches a revoked token not at all.
LEMMA KnownRecord ==
  ASSUME Inv, [Next]_vars, NEW t \in registered
  PROVE  /\ tok'[t].originalIssuedAt = tok[t].originalIssuedAt
         /\ tok'[t].expiresAt = tok[t].expiresAt \/ \E e \in Nat : Extends(t, e)
         /\ tok[t].revoked => tok'[t].revoked /\ cause'[t] = cause[t]
         /\ cause'[t] = cause[t] \/ \E by \in {"manual", "auto", "ceiling"} : Ends(t, by)
<1> USE DEF Inv, TypeInv
<1>0. t \in Token
  BY DEF TypeOK
<1>1. CASE Quiet
  BY <1>0, <1>1 DEF Quiet
<1>2. ASSUME NEW c \in Client, NEW x \in Token, NEW ttl \in GrantTTL, Grant(c, x, ttl)
      PROVE  tok'[t] = tok[t] /\ cause'[t] = cause[t]
  <2>1. x # t
    BY <1>2 DEF Grant, Registration
  <2> QED
    BY <1>0, <1>2, <2>1 DEF Grant, TypeOK, history
<1>3. ASSUME NEW c \in Client, Add(c)
      PROVE  tok'[t] = tok[t] /\ cause'[t] = cause[t]
  <2>1. client[c].token # t
    BY <1>3 DEF Add, Registration
  <2> QED
    BY <1>0, <1>3, <2>1 DEF Add, TypeOK, history
<1>4. ASSUME NEW x \in Token, NEW e \in Nat, Extends(x, e)
      PROVE  /\ tok'[t].originalIssuedAt = tok[t].originalIssuedAt
             /\ tok'[t].revoked = tok[t].revoked
             /\ x = t \/ tok'[t].expiresAt = tok[t].expiresAt
             /\ UNCHANGED cause
  <2>1. Bump(x, e) /\ UNCHANGED cause
    BY <1>4 DEF Extends
  <2>2. /\ tok'[t].originalIssuedAt = tok[t].originalIssuedAt
        /\ tok'[t].revoked = tok[t].revoked
        /\ x = t \/ tok'[t].expiresAt = tok[t].expiresAt
    BY <1>0, <2>1 DEF Bump, TypeOK, TokenRecord
  <2> QED
    BY <2>1, <2>2
<1>5. ASSUME NEW x \in Token, NEW by \in {"manual", "auto", "ceiling"}, Ends(x, by)
      PROVE  /\ tok'[t].originalIssuedAt = tok[t].originalIssuedAt
             /\ tok'[t].expiresAt = tok[t].expiresAt
             /\ tok[t].revoked => tok'[t].revoked /\ cause'[t] = cause[t]
             /\ x = t \/ cause'[t] = cause[t]
  BY <1>0, <1>5 DEF Ends, Live, MarkRevoked, TypeOK, TokenRecord
<1>6. CASE \E x \in Token, e \in Nat : Extends(x, e)
  BY <1>4, <1>6
<1>7. CASE \E x \in Token, by \in {"manual", "auto", "ceiling"} : Ends(x, by)
  <2>1. PICK x \in Token, by \in {"manual", "auto", "ceiling"} : Ends(x, by)
    BY <1>7
  <2>2. tok'[t].expiresAt = tok[t].expiresAt
    BY <1>5, <2>1
  <2>3. cause'[t] = cause[t] \/ Ends(t, by)
    BY <1>5, <2>1
  <2> QED
    BY <1>5, <2>1, <2>2, <2>3
<1> QED
  BY StepKinds, <1>1, <1>2, <1>3, <1>6, <1>7

\* A token that has been revoked stays revoked, with the expiry and the reason
\* it was revoked with, whatever Extend, RevokeNow and the worker still do with
\* the pointers they hold.
THEOREM RevocationIsFinal == Spec => RevokedIsFinal
<1> DEFINE Final == \A t \in Token :
                      tok[t].revoked => /\ tok'[t].revoked
                                        /\ tok'[t].expiresAt = tok[t].expiresAt
                                        /\ cause'[t] = cause[t]
<1>1. Inv /\ [Next]_vars => [Final]_vars
  <2> SUFFICES ASSUME Inv, [Next]_vars, NEW t \in Token, tok[t].revoked
               PROVE  /\ tok'[t].revoked
                      /\ tok'[t].expiresAt = tok[t].expiresAt
                      /\ cause'[t] = cause[t]
    OBVIOUS
  <2>1. t \in registered /\ ~Live(t)
    BY DEF Inv, Registration, Live
  <2> QED
    BY <2>1, KnownRecord DEF Extends
<1>2. RevokedIsFinal <=> [][Final]_vars
  BY DEF RevokedIsFinal
<1> QED
  BY <1>1, <1>2, InvHolds, PTL DEF Spec

-----------------------------------------------------------------------------
(* The session ceiling.                                                    *)

\* The ceiling invariant made inductive: it also holds of a token that has been
\* issued and is on its way to Add, for which no session start is set yet.
Sessions ==
  /\ SessionCeiling
  /\ \A t \in Token \ registered : tok[t].originalIssuedAt = NoTime
  /\ \A c \in Client : client[c].pc = "add" =>
       LET t == client[c].token
       IN  tok[t].expiresAt <= tok[t].issuedAt + MaxSession

\* Initially no token has a session.
LEMMA SessionsInit == Init => Sessions
BY DEF Init, Sessions, SessionCeiling, Idle, NoRecord, IdleWorker

\* Between issue and Add nobody but the issuing request touches a record.
LEMMA PendingRecord ==
  ASSUME Inv, [Next]_vars, NEW t \in Token \ registered, leases[t] # << >>
  PROVE  /\ tok'[t].expiresAt = tok[t].expiresAt
         /\ tok'[t].issuedAt = tok[t].issuedAt
         /\ t \notin registered' => tok'[t].originalIssuedAt = tok[t].originalIssuedAt
<1> USE DEF Inv, TypeInv
<1>1. CASE Quiet
  BY <1>1 DEF Quiet
<1>2. ASSUME NEW c \in Client, NEW x \in Token, NEW ttl \in GrantTTL, Grant(c, x, ttl)
      PROVE  tok'[t] = tok[t]
  BY <1>2 DEF Grant, TypeOK
<1>3. ASSUME NEW c \in Client, Add(c)
      PROVE  /\ tok'[t].expiresAt = tok[t].expiresAt
             /\ tok'[t].issuedAt = tok[t].issuedAt
             /\ t \notin registered' => tok'[t].originalIssuedAt = tok[t].originalIssuedAt
  <2>1. client[c].token \in Token
    BY <1>3 DEF Add, HoldsToken
  <2> QED
    BY <1>3, <2>1 DEF Add, TypeOK, TokenRecord
<1>4. ASSUME NEW x \in Token, NEW e \in Nat, Extends(x, e)
      PROVE  tok'[t] = tok[t]
  BY <1>4 DEF Extends, Live, Bump, TypeOK
<1>5. ASSUME NEW x \in Token, NEW by \in {"manual", "auto", "ceiling"}, Ends(x, by)
      PROVE  tok'[t] = tok[t]
  BY <1>5 DEF Ends, Live, MarkRevoked, TypeOK
<1> QED
  BY StepKinds, <1>1, <1>2, <1>3, <1>4, <1>5

\* No step takes a token past its ceiling, if no grant starts out past it.
LEMMA SessionsStep ==
  ASSUME \A ttl \in GrantTTL : ttl <= MaxSession,
         Inv, Sessions, [Next]_vars
  PROVE  Sessions'
<1> USE DEF Inv, TypeInv
<1>1. \/ UNCHANGED registered
      \/ \E c \in Client : Add(c) /\ registered' = registered \cup {client[c].token}
  BY StepKinds DEF Quiet, Grant, Add, Extends, Ends
<1>2. ASSUME NEW t \in registered
      PROVE  tok'[t].expiresAt <= tok'[t].originalIssuedAt + MaxSession
  <2>1. tok[t].expiresAt <= Ceiling(t) /\ t \in Token
    BY DEF Sessions, SessionCeiling, TypeOK
  <2>2. ASSUME NEW e \in Nat, Extends(t, e)
        PROVE  tok'[t].expiresAt <= Ceiling(t)
    <3>1. tok'[t].expiresAt = e
      BY <2>1, <2>2 DEF Extends, Bump, TypeOK, TokenRecord
    <3>2. NewExpiry(t) \in Nat /\ Ceiling(t) \in Nat
      BY <2>1, TimesAssumption DEF NewExpiry, Ceiling, TypeOK, TokenRecord
    <3> QED
      BY <2>2, <3>1, <3>2 DEF Extends
  <2> QED
    BY <2>1, <2>2, KnownRecord DEF Ceiling
<1>3. ASSUME NEW c \in Client, Add(c)
      PROVE  LET t == client[c].token
             IN  tok'[t].expiresAt <= tok'[t].originalIssuedAt + MaxSession
  <2> DEFINE t == client[c].token
  <2>1. t \in Token /\ t \notin registered
    BY <1>3 DEF Add, HoldsToken, Registration
  <2>2. tok[t].originalIssuedAt = NoTime
    BY <2>1 DEF Sessions
  <2>3. tok[t].expiresAt <= tok[t].issuedAt + MaxSession
    BY <1>3 DEF Add, Sessions
  <2>4. /\ tok'[t].expiresAt = tok[t].expiresAt
        /\ tok'[t].originalIssuedAt = tok[t].issuedAt
    BY <1>3, <2>1, <2>2 DEF Add, TypeOK, TokenRecord
  <2> QED
    BY <2>3, <2>4
<1>4. SessionCeiling'
  <2> SUFFICES ASSUME NEW t \in registered'
               PROVE  tok'[t].expiresAt <= tok'[t].originalIssuedAt + MaxSession
    BY DEF SessionCeiling, Ceiling
  <2> QED
    BY <1>1, <1>2, <1>3
<1>5. ASSUME NEW t \in Token \ registered'
      PROVE  tok'[t].originalIssuedAt = NoTime
  <2>1. t \notin registered /\ tok[t].originalIssuedAt = NoTime
    BY <1>1 DEF Sessions
  <2>3. ASSUME NEW c \in Client, NEW x \in Token, NEW ttl \in GrantTTL, Grant(c, x, ttl)
        PROVE  tok'[t].originalIssuedAt = tok[t].originalIssuedAt
    BY <2>3, GrantWrites
  <2>4. ASSUME NEW c \in Client, Add(c)
        PROVE  tok'[t] = tok[t]
    <3>1. client[c].token # t
      BY <2>4 DEF Add
    <3> QED
      BY <2>4, <3>1 DEF Add, TypeOK
  <2>5. ASSUME NEW x \in Token, NEW e \in Nat, Extends(x, e) PROVE tok'[t] = tok[t]
    BY <2>1, <2>5 DEF Extends, Live, Bump, TypeOK
  <2>6. ASSUME NEW x \in Token, NEW by \in {"manual", "auto", "ceiling"}, Ends(x, by)
        PROVE  tok'[t] = tok[t]
    BY <2>1, <2>6 DEF Ends, Live, MarkRevoked, TypeOK
  <2> QED
    BY StepKinds, <2>1, <2>3, <2>4, <2>5, <2>6 DEF Quiet
<1>6. ASSUME NEW c \in Client, client'[c].pc = "add"
      PROVE  LET t == client'[c].token
             IN  tok'[t].expiresAt <= tok'[t].issuedAt + MaxSession
  <2>1. CASE client'[c] = client[c]
    <3>1. /\ client[c].token \in Token \ registered
          /\ leases[client[c].token] # << >>
      BY <1>6, <2>1 DEF HoldsToken, Registration
    <3> QED
      BY <1>6, <2>1, <3>1, PendingRecord DEF Sessions
  <2>2. ASSUME NEW t \in Token, NEW ttl \in GrantTTL, Grant(c, t, ttl)
        PROVE  tok'[t].expiresAt <= tok'[t].issuedAt + MaxSession
    <3>1. CASE UNCHANGED <<tok, client>>
      BY <1>6, <2>2, <3>1 DEF Grant
    <3>2. CASE tok'[t].expiresAt = now + ttl /\ tok'[t].issuedAt = now
      <4>2. now \in Nat /\ ttl \in Nat /\ MaxSession \in Nat /\ ttl <= MaxSession
        BY TimesAssumption DEF TypeOK
      <4> QED
        BY <3>2, <4>2
    <3> QED
      BY <2>2, <3>1, <3>2, GrantWrites
  <2> QED
    BY <1>6, <2>1, <2>2, AddFollowsGrant
<1> QED
  BY <1>4, <1>5, <1>6 DEF Sessions

\* If no handler issues a token for longer than a session may last, then no
\* sequence of extensions moves a token's expiry past its session ceiling.
THEOREM CeilingHolds ==
  ASSUME \A ttl \in GrantTTL : ttl <= MaxSession
  PROVE  Spec => []SessionCeiling
<1>1. Inv /\ Sessions /\ [Next]_vars => Sessions'
  BY SessionsStep
<1>2. Sessions => SessionCeiling
  BY DEF Sessions
<1> QED
  BY <1>1, <1>2, SessionsInit, InvHolds, PTL DEF Spec

-----------------------------------------------------------------------------
(* Reasons.                                                                *)

\* EndedForCause made inductive: the tick the worker holds, and the one that is
\* waiting for it, lie in the past.
Reasons ==
  /\ EndedForCause
  /\ worker.tick <= now /\ tickBuf <= now

\* Initially nothing has ended and there has been no tick.
LEMMA ReasonsInit == Init => Reasons
BY DEF Init, Reasons, EndedForCause, NoTime, NoRecord, IdleWorker

\* Time does not run backwards, and no tick is ahead of it.
LEMMA TicksArePast ==
  ASSUME TypeInv, worker.tick <= now, tickBuf <= now, [Next]_vars
  PROVE  now <= now' /\ worker'.tick <= now' /\ tickBuf' <= now'
<1> USE DEF TypeInv
<1>1. now \in Nat /\ worker.tick \in Nat /\ tickBuf \in Nat
  BY DEF TypeOK, WorkerRecord
<1>2. CASE WorkerWakes
  BY <1>1, <1>2 DEF WorkerWakes, TypeOK, WorkerRecord, NoTime
<1>3. CASE ScanEnds
  BY <1>1, <1>3 DEF ScanEnds, TypeOK, WorkerRecord, NoTime
<1>4. CASE Tick
  BY <1>1, <1>4 DEF Tick
<1>5. CASE TickerFires
  BY <1>1, <1>5 DEF TickerFires
<1>6. CASE WorkerStops \/ MarkWarnings \/ (\E t \in Token : Notify(t)) \/ ScanSkips
           \/ ScanClaims \/ AutoRevoke
  <2>1. worker'.tick = worker.tick
    BY <1>6 DEF WorkerStops, MarkWarnings, Notify, NotifyRest, ScanSkips, ScanClaims,
         AutoRevoke, TypeOK, WorkerRecord
  <2>2. UNCHANGED <<now, tickBuf>>
    BY <1>6 DEF WorkerStops, MarkWarnings, Notify, ScanSkips, ScanClaims, AutoRevoke
  <2> QED
    BY <1>1, <2>1, <2>2
<1>7. CASE Cancel \/ UNCHANGED vars \/ \E c \in Client : ClientStarts(c) \/ ClientContinues(c)
  <2>1. CASE Cancel \/ UNCHANGED vars
    BY <1>1, <2>1 DEF Cancel, vars
  <2>2. ASSUME NEW c \in Client, ClientStarts(c)
        PROVE  UNCHANGED <<now, worker, tickBuf>>
    BY <2>2 DEF ClientStarts, Grant, ExtendNormal, ExtendClamped, ExtendForcesRevocation,
         RevokeNow
  <2>3. ASSUME NEW c \in Client, ClientContinues(c)
        PROVE  UNCHANGED <<now, worker, tickBuf>>
    BY <2>3 DEF ClientContinues, Add, Reissue, ReissueFails, SwapSecret, ManualRevoke,
         ForceRevoke
  <2> QED
    BY <1>1, <1>7, <2>1, <2>2, <2>3
<1> QED
  BY <1>2, <1>3, <1>4, <1>5, <1>6, <1>7 DEF Next, Worker

\* No step ends a token for a reason that is not true yet.
LEMMA ReasonsStep ==
  ASSUME Inv, Reasons, [Next]_vars
  PROVE  Reasons'
<1> USE DEF Inv, TypeInv
<1>1. now <= now' /\ worker'.tick <= now' /\ tickBuf' <= now'
  BY TicksArePast DEF Reasons
<1>2. ASSUME NEW t \in Token, cause'[t] # "none"
      PROVE  t \in registered
  <2>1. ASSUME NEW x \in Token, NEW by \in {"manual", "auto", "ceiling"}, Ends(x, by)
        PROVE  x = t \/ cause'[t] = cause[t]
    BY <2>1 DEF Ends, MarkRevoked, TypeOK
  <2>2. cause'[t] = cause[t] \/ \E by \in {"manual", "auto", "ceiling"} : Ends(t, by)
    BY StepKinds, <2>1 DEF Quiet, Grant, Add, Extends, history
  <2>3. CASE cause'[t] = cause[t]
    BY <1>2, <2>3 DEF Registration
  <2>4. ASSUME NEW by \in {"manual", "auto", "ceiling"}, Ends(t, by)
        PROVE  t \in registered
    BY <2>4 DEF Ends, Live
  <2> QED
    BY <2>2, <2>3, <2>4
<1>3. ASSUME NEW t \in Token, cause'[t] # "none"
      PROVE  /\ cause'[t] = "auto" => tok'[t].expiresAt <= now'
             /\ cause'[t] = "ceiling" => tok'[t].originalIssuedAt + MaxSession <= now'
  <2>1. t \in registered /\ tok'[t].originalIssuedAt = tok[t].originalIssuedAt
    BY <1>2, <1>3, KnownRecord
  <2>2. /\ now \in Nat /\ now' \in Nat /\ worker.tick \in Nat
        /\ tok[t].expiresAt \in Nat /\ Ceiling(t) \in Nat
    <3>1. TypeOK'
      BY TypeStep
    <3>2. now' \in Nat
      BY <3>1 DEF TypeOK
    <3>3. now \in Nat /\ worker.tick \in Nat /\ tok[t] \in TokenRecord
      BY DEF TypeOK, WorkerRecord
    <3>4. tok[t].expiresAt \in Nat /\ Ceiling(t) \in Nat
      BY <3>3, TimesAssumption DEF TokenRecord, Ceiling
    <3> QED
      BY <3>2, <3>3, <3>4
  <2>3. CASE cause'[t] = cause[t]
    <3>1. tok[t].revoked
      BY <1>3, <2>3 DEF Registration
    <3>2. tok'[t].expiresAt = tok[t].expiresAt
      BY <2>1, <3>1, KnownRecord DEF Extends, Live
    <3> QED
      BY <1>1, <2>1, <2>2, <2>3, <3>2 DEF Reasons, EndedForCause, Ceiling
  <2>4. ASSUME NEW by \in {"manual", "auto", "ceiling"}, Ends(t, by)
        PROVE  /\ cause'[t] = "auto" => tok'[t].expiresAt <= now'
               /\ cause'[t] = "ceiling" => tok'[t].originalIssuedAt + MaxSession <= now'
    <3>1. cause'[t] = by /\ tok'[t].expiresAt = tok[t].expiresAt
      BY <2>4 DEF Ends, MarkRevoked, TypeOK, TokenRecord
    <3>2. /\ by = "auto" => tok[t].expiresAt <= worker.tick
          /\ by = "ceiling" => Ceiling(t) <= now
      BY <2>4 DEF Ends
    <3>3. worker.tick <= now
      BY DEF Reasons
    <3> QED
      BY <1>1, <2>1, <2>2, <3>1, <3>2, <3>3 DEF Ceiling
  <2> QED
    BY <2>1, <2>3, <2>4, KnownRecord
<1>4. EndedForCause'
  BY <1>3 DEF EndedForCause, Ceiling
<1> QED
  BY <1>1, <1>4 DEF Reasons

\* The worker collects no token before its expiry, also not one that was being
\* extended while the worker held an old tick, and Extend force-revokes none
\* before its ceiling.
THEOREM EndedForCauseHolds == Spec => []EndedForCause
<1>1. Inv /\ Reasons /\ [Next]_vars => Reasons'
  BY ReasonsStep
<1>2. Reasons => EndedForCause
  BY DEF Reasons
<1> QED
  BY <1>1, <1>2, ReasonsInit, InvHolds, PTL DEF Spec

-----------------------------------------------------------------------------
(* One revocation per token.                                               *)

\* Request c, or the worker, is inside a provider revocation of t.
Owns(c, t) == client[c].pc \in {"revoke", "force"} /\ client[c].token = t
WorkerOwns(t) == worker.pc = "revoke" /\ worker.target = t

RevokedTokens == {t \in Token : tok[t].revoked}

\* RevokedOnce made inductive: whoever revokes a token at the provider is the
\* one that marked it, is alone, and no answer has been recorded yet.
Responsible ==
  /\ \A t \in Token : answer[t] # "none" => tok[t].revoked
  /\ \A c \in Client, t \in Token : Owns(c, t) => tok[t].revoked /\ answer[t] = "none"
  /\ \A t \in Token : WorkerOwns(t) => tok[t].revoked /\ answer[t] = "none"
  /\ \A c, d \in Client, t \in Token : Owns(c, t) /\ Owns(d, t) => c = d
  /\ \A c \in Client, t \in Token : ~(Owns(c, t) /\ WorkerOwns(t))

\* Initially nobody revokes anything.
LEMMA ResponsibleInit == Init => Responsible
BY DEF Init, Responsible, Owns, WorkerOwns, Idle, NoRecord, IdleWorker

\* Only marking a token revoked changes any Revoked flag, and it changes one.
LEMMA RevokedFlags ==
  ASSUME TypeInv, [Next]_vars
  PROVE  \/ /\ \A x \in Token : tok'[x].revoked = tok[x].revoked
            /\ UNCHANGED revokedCount
         \/ \E t \in Token, by \in {"manual", "auto", "ceiling"} : Ends(t, by)
<1> USE DEF TypeInv
<1>1. CASE Quiet
  BY <1>1 DEF Quiet
<1>2. ASSUME NEW c \in Client, NEW t \in Token, NEW ttl \in GrantTTL, Grant(c, t, ttl)
      PROVE  /\ \A x \in Token : tok'[x].revoked = tok[x].revoked
             /\ UNCHANGED revokedCount
  <2>1. \A x \in Token : tok'[x].revoked = tok[x].revoked
    BY <1>2, GrantWrites
  <2> QED
    BY <1>2, <2>1 DEF Grant
<1>3. ASSUME NEW c \in Client, Add(c)
      PROVE  /\ \A x \in Token : tok'[x].revoked = tok[x].revoked
             /\ UNCHANGED revokedCount
  BY <1>3 DEF Add, TypeOK, TokenRecord
<1>4. ASSUME NEW t \in Token, NEW e \in Nat, Extends(t, e)
      PROVE  /\ \A x \in Token : tok'[x].revoked = tok[x].revoked
             /\ UNCHANGED revokedCount
  BY <1>4, ExtendsKeepsFlags DEF Extends
<1> QED
  BY StepKinds, <1>1, <1>2, <1>3, <1>4

\* A step that starts no revocation and answers none keeps the responsibilities.
LEMMA ResponsibleKept ==
  ASSUME Responsible, UNCHANGED answer,
         \A x \in Token : tok'[x].revoked = tok[x].revoked,
         \A c \in Client, x \in Token : Owns(c, x)' => Owns(c, x),
         \A x \in Token : WorkerOwns(x)' => WorkerOwns(x)
  PROVE  Responsible'
BY DEF Responsible

\* The flags after one token has been marked.
LEMMA Marked ==
  ASSUME TypeInv, NEW t \in Token, NEW by, MarkRevoked(t, by)
  PROVE  \A x \in Token : tok'[x].revoked = (x = t \/ tok[x].revoked)
BY DEF TypeInv, TypeOK, TokenRecord, MarkRevoked

\* A request takes responsibility for a live token.
LEMMA RequestClaims ==
  ASSUME TypeInv, Responsible, NEW c \in Client, NEW t \in Token,
         ExtendForcesRevocation(c, t) \/ RevokeNow(c, t)
  PROVE  Responsible'
<1> USE DEF TypeInv
<1>1. ~tok[t].revoked /\ client[c].pc = "idle" /\ UNCHANGED <<answer, worker>>
  BY DEF ExtendForcesRevocation, RevokeNow, Live
<1>2. \A x \in Token : tok'[x].revoked = (x = t \/ tok[x].revoked)
  BY Marked DEF ExtendForcesRevocation, RevokeNow
<1>3. \A d \in Client, x \in Token : Owns(d, x)' <=> Owns(d, x) \/ (d = c /\ x = t)
  <2>1. PICK pc \in {"revoke", "force"} : Goto(c, pc, t, NoTime, 0)
    BY DEF ExtendForcesRevocation, RevokeNow
  <2> QED
    BY <1>1, <2>1 DEF Goto, Owns, TypeOK
<1>4. \A x \in Token : WorkerOwns(x)' = WorkerOwns(x)
  BY <1>1 DEF WorkerOwns
<1> QED
  BY <1>1, <1>2, <1>3, <1>4 DEF Responsible

\* The worker takes responsibility for a live token.
LEMMA WorkerClaims ==
  ASSUME TypeInv, Responsible, ScanClaims
  PROVE  Responsible'
<1> USE DEF TypeInv
<1> DEFINE t == Head(pq)
<1>1. t \in Token
  BY HeadTailProperties DEF ScanClaims, TopIsDue, TypeOK
<1>2. /\ ~tok[t].revoked /\ UNCHANGED <<answer, client>>
      /\ MarkRevoked(t, "auto")
  BY DEF ScanClaims, Live
<1>3. worker.pc = "scan" /\ worker'.pc = "revoke" /\ worker'.target = t
  BY DEF ScanClaims, TypeOK, WorkerRecord
<1> HIDE DEF t
<1>4. \A x \in Token : tok'[x].revoked = (x = t \/ tok[x].revoked)
  BY <1>1, <1>2, Marked
<1>5. \A d \in Client, x \in Token : Owns(d, x)' = Owns(d, x)
  BY <1>2 DEF Owns
<1>6. \A x \in Token : WorkerOwns(x)' <=> x = t
  BY <1>3 DEF WorkerOwns
<1> QED
  BY <1>1, <1>2, <1>4, <1>5, <1>6 DEF Responsible

\* A request that hears from the provider is done with the token.
LEMMA RequestAnswered ==
  ASSUME TypeInv, Responsible, NEW c \in Client, ManualRevoke(c) \/ ForceRevoke(c)
  PROVE  Responsible'
<1> USE DEF TypeInv
<1> DEFINE t == client[c].token
<1>1. Owns(c, t) /\ t \in Token
  BY DEF ManualRevoke, ForceRevoke, Owns, HoldsToken
<1>2. UNCHANGED <<tok, worker>>
  BY DEF ManualRevoke, ForceRevoke, storeVars
<1>3. CASE UNCHANGED <<client, answer>>
  BY <1>2, <1>3, ResponsibleKept DEF Owns, WorkerOwns
<1>4. CASE Return(c) /\ \A x \in Token \ {t} : answer'[x] = answer[x]
  <2>1. \A d \in Client, x \in Token : Owns(d, x)' => Owns(d, x) /\ d # c
    BY <1>4 DEF Return, Idle, Owns, TypeOK
  <2>2. \A x \in Token : WorkerOwns(x)' = WorkerOwns(x)
    BY <1>2 DEF WorkerOwns
  <2>3. tok[t].revoked /\ ~WorkerOwns(t) /\ \A d \in Client : Owns(d, t) => d = c
    BY <1>1 DEF Responsible
  <2> HIDE DEF t
  <2> QED
    BY <1>1, <1>2, <1>4, <2>1, <2>2, <2>3 DEF Responsible
<1> QED
  BY <1>1, <1>3, <1>4
     DEF ManualRevoke, ForceRevoke, RevokeSucceeds, RevokeLost, RevokeFails, TypeOK

\* The worker that hears from the provider is done with the token.
LEMMA WorkerAnswered ==
  ASSUME TypeInv, Responsible, AutoRevoke
  PROVE  Responsible'
<1> USE DEF TypeInv
<1> DEFINE t == worker.target
<1>1. WorkerOwns(t) /\ t \in Token
  BY DEF AutoRevoke, WorkerOwns, HoldsToken
<1>2. UNCHANGED <<tok, client>>
  BY DEF AutoRevoke, storeVars
<1>3. CASE UNCHANGED <<worker, answer>>
  BY <1>2, <1>3, ResponsibleKept DEF Owns, WorkerOwns
<1>4. CASE /\ worker' = [worker EXCEPT !.pc = "scan", !.target = NoToken]
           /\ \A x \in Token \ {t} : answer'[x] = answer[x]
  <2>1. \A x \in Token : ~WorkerOwns(x)'
    BY <1>4 DEF WorkerOwns, TypeOK, WorkerRecord
  <2>2. \A d \in Client, x \in Token : Owns(d, x)' = Owns(d, x)
    BY <1>2 DEF Owns
  <2>3. tok[t].revoked /\ \A d \in Client : ~Owns(d, t)
    BY <1>1 DEF Responsible
  <2> HIDE DEF t
  <2> QED
    BY <1>1, <1>2, <1>4, <2>1, <2>2, <2>3 DEF Responsible
<1> QED
  BY <1>3, <1>4
     DEF AutoRevoke, RevokeSucceeds, RevokeLost, RevokeFails, TypeOK

\* No step makes two of them responsible, or answers for somebody else.
LEMMA ResponsibleStep ==
  ASSUME TypeInv, Responsible, [Next]_vars
  PROVE  Responsible'
<1> USE DEF TypeInv
<1>1. ASSUME \/ \E c \in Client, t \in Token : \E ttl \in GrantTTL : Grant(c, t, ttl)
             \/ \E c \in Client, t \in Token : ExtendNormal(c, t) \/ ExtendClamped(c, t)
             \/ \E c \in Client : Add(c) \/ Reissue(c) \/ ReissueFails(c) \/ SwapSecret(c)
      PROVE  Responsible'
  <2>1. UNCHANGED <<answer, worker, revokedCount>>
    BY <1>1 DEF Grant, Add, ExtendNormal, ExtendClamped, Reissue, ReissueFails,
         SwapSecret, storeVars, history
  <2>2. \A x \in Token : tok'[x].revoked = tok[x].revoked
    <3>1. ASSUME NEW t \in Token, NEW by \in {"manual", "auto", "ceiling"}, Ends(t, by)
          PROVE  FALSE
      BY <2>1, <3>1 DEF Ends, MarkRevoked, TypeOK
    <3> QED
      BY <3>1, RevokedFlags
  <2>3. ASSUME NEW d \in Client, NEW x \in Token, Owns(d, x)'
        PROVE  Owns(d, x)
    <3>1. ASSUME NEW c \in Client, NEW t \in Token, NEW u, NEW k,
                 NEW pc \in {"add", "reissue", "reissueClamped", "swap"},
                 Goto(c, pc, t, u, k)
          PROVE  Owns(d, x)
      BY <2>3, <3>1 DEF Goto, Owns, TypeOK
    <3>2. ASSUME NEW c \in Client, Return(c) \/ UNCHANGED client
          PROVE  Owns(d, x)
      <4>1. CASE UNCHANGED client
        BY <2>3, <4>1 DEF Owns
      <4>2. CASE Return(c)
        <5>1. client'[d] = client[d] \/ client'[d].pc = "idle"
          BY <4>2 DEF Return, Idle, TypeOK
        <5> QED
          BY <2>3, <5>1 DEF Owns
      <4> QED
        BY <3>2, <4>1, <4>2
    <3>3. \A c \in Client : Reissue(c) => client[c].token \in Token
      BY DEF Reissue, HoldsToken
    <3> QED
      BY <1>1, <3>1, <3>2, <3>3 DEF Grant, Add, ExtendNormal, ExtendClamped, Reissue,
           ReissueFails, SwapSecret
  <2> QED
    BY <2>1, <2>2, <2>3, ResponsibleKept DEF WorkerOwns
<1>2. ASSUME \/ WorkerWakes \/ WorkerStops \/ MarkWarnings \/ (\E t \in Token : Notify(t))
             \/ ScanEnds \/ ScanSkips \/ TickerFires \/ Tick \/ Cancel \/ UNCHANGED vars
      PROVE  Responsible'
  <2>1. UNCHANGED <<answer, client, revokedCount>>
    BY <1>2 DEF WorkerWakes, WorkerStops, MarkWarnings, Notify, ScanEnds, ScanSkips,
         TickerFires, Tick, Cancel, vars, storeVars, history
  <2>2. \A x \in Token : tok'[x].revoked = tok[x].revoked
    <3>1. ASSUME NEW t \in Token, NEW by \in {"manual", "auto", "ceiling"}, Ends(t, by)
          PROVE  FALSE
      BY <2>1, <3>1 DEF Ends, MarkRevoked, TypeOK
    <3> QED
      BY <3>1, RevokedFlags
  <2>3. \A x \in Token : WorkerOwns(x)' => WorkerOwns(x)
    BY <1>2 DEF WorkerWakes, WorkerStops, MarkWarnings, Notify, NotifyRest, ScanEnds,
         ScanSkips, TickerFires, Tick, Cancel, vars, WorkerOwns, TypeOK, WorkerRecord
  <2> QED
    BY <2>1, <2>2, <2>3, ResponsibleKept DEF Owns
<1> QED
  BY <1>1, <1>2, RequestClaims, WorkerClaims, RequestAnswered, WorkerAnswered
     DEF Next, ClientStarts, ClientContinues, Worker

\* revokedCount goes up with the tokens that are revoked, one at a time.
LEMMA CountStep ==
  ASSUME TypeInv, [Next]_vars, revokedCount = Cardinality(RevokedTokens)
  PROVE  revokedCount' = Cardinality(RevokedTokens')
<1> USE DEF TypeInv
<1>1. CASE /\ \A x \in Token : tok'[x].revoked = tok[x].revoked
           /\ UNCHANGED revokedCount
  <2>1. RevokedTokens' = RevokedTokens
    BY <1>1 DEF RevokedTokens
  <2> QED
    BY <1>1, <2>1
<1>2. ASSUME NEW t \in Token, NEW by \in {"manual", "auto", "ceiling"}, Ends(t, by)
      PROVE  revokedCount' = Cardinality(RevokedTokens')
  <2>1. MarkRevoked(t, by) /\ ~tok[t].revoked
    BY <1>2 DEF Ends, Live
  <2>2. RevokedTokens' = RevokedTokens \cup {t} /\ t \notin RevokedTokens
    BY <2>1, Marked DEF RevokedTokens
  <2>3. IsFiniteSet(RevokedTokens)
    BY TokensAssumption, FS_Subset DEF RevokedTokens
  <2>4. Cardinality(RevokedTokens \cup {t}) = Cardinality(RevokedTokens) + 1
    BY <2>2, <2>3, FS_AddElement
  <2> QED
    BY <2>1, <2>2, <2>4 DEF MarkRevoked
<1> QED
  BY RevokedFlags, <1>1, <1>2

\* Responsibility for a revocation holds throughout.
LEMMA ResponsibleHolds == Spec => []Responsible
<1>1. Inv /\ Responsible /\ [Next]_vars => Responsible'
  BY ResponsibleStep DEF Inv
<1> QED
  BY <1>1, ResponsibleInit, InvHolds, PTL DEF Spec

\* Whoever revokes a token at the provider is the one it was marked by.
Accountable ==
  /\ \A c \in Client :
       /\ client[c].pc = "revoke" => cause[client[c].token] = "manual"
       /\ client[c].pc = "force" => cause[client[c].token] = "ceiling"
  /\ worker.pc = "revoke" => cause[worker.target] = "auto"

\* Requests come to a revocation by marking the token themselves, ...
LEMMA RevocationFollowsMark ==
  ASSUME TypeInv, [Next]_vars, NEW c \in Client, client'[c].pc \in {"revoke", "force"}
  PROVE  \/ client'[c] = client[c]
         \/ \E t \in Token : /\ client'[c].token = t
                            /\ \/ client'[c].pc = "revoke" /\ MarkRevoked(t, "manual")
                               \/ client'[c].pc = "force" /\ MarkRevoked(t, "ceiling")
<1> USE DEF TypeInv
<1>1. ASSUME NEW d \in Client, NEW pc, NEW t, NEW u, NEW k, Goto(d, pc, t, u, k)
      PROVE  client'[c] = client[c] \/ (client'[c].pc = pc /\ client'[c].token = t)
  BY <1>1 DEF Goto, TypeOK
<1>2. ASSUME NEW d \in Client, NEW t \in Token,
             \/ \E ttl \in GrantTTL : Grant(d, t, ttl)
             \/ ExtendNormal(d, t) \/ ExtendClamped(d, t)
      PROVE  client'[c] = client[c]
  <2>1. \/ Goto(d, "add", t, NoTime, 0) \/ Goto(d, "reissue", t, NoTime, 0)
        \/ Goto(d, "reissueClamped", t, Ceiling(t), 0) \/ UNCHANGED client
    BY <1>2 DEF Grant, ExtendNormal, ExtendClamped
  <2> QED
    BY <1>1, <2>1
<1>3. ASSUME NEW d \in Client, NEW t \in Token, ExtendForcesRevocation(d, t)
      PROVE  \/ client'[c] = client[c]
             \/ client'[c].token = t /\ client'[c].pc = "force" /\ MarkRevoked(t, "ceiling")
  BY <1>1, <1>3 DEF ExtendForcesRevocation
<1>4. ASSUME NEW d \in Client, NEW t \in Token, RevokeNow(d, t)
      PROVE  \/ client'[c] = client[c]
             \/ client'[c].token = t /\ client'[c].pc = "revoke" /\ MarkRevoked(t, "manual")
  BY <1>1, <1>4 DEF RevokeNow
<1>5. ASSUME NEW d \in Client, Return(d) PROVE client'[c] = client[c]
  BY <1>5 DEF Return, Idle, TypeOK
<1>6. ASSUME NEW d \in Client, ClientContinues(d) PROVE client'[c] = client[c]
  <2>1. CASE Reissue(d)
    BY <1>1, <2>1 DEF Reissue
  <2>2. CASE Add(d) \/ ReissueFails(d) \/ SwapSecret(d) \/ ForceRevoke(d)
             \/ ManualRevoke(d)
    BY <1>5, <2>2 DEF Add, ReissueFails, SwapSecret, ForceRevoke, ManualRevoke
  <2> QED
    BY <1>6, <2>1, <2>2 DEF ClientContinues
<1>7. CASE Worker \/ TickerFires \/ Tick \/ Cancel \/ UNCHANGED vars
  BY <1>7 DEF Worker, WorkerWakes, WorkerStops, MarkWarnings, Notify, ScanEnds,
       ScanSkips, ScanClaims, AutoRevoke, TickerFires, Tick, Cancel, vars
<1> QED
  BY <1>2, <1>3, <1>4, <1>6, <1>7 DEF Next, ClientStarts

\* ... and so does the worker.
LEMMA WorkerFollowsMark ==
  ASSUME TypeInv, [Next]_vars, worker'.pc = "revoke"
  PROVE  \/ worker' = worker
         \/ worker'.target \in Token /\ MarkRevoked(worker'.target, "auto")
<1> USE DEF TypeInv
<1>1. CASE ScanClaims
  <2>1. worker'.target = Head(pq) /\ MarkRevoked(Head(pq), "auto")
    BY <1>1 DEF ScanClaims, TypeOK, WorkerRecord
  <2>2. Head(pq) \in Token
    BY <1>1 DEF ScanClaims, TopIsDue, TypeOK
  <2> QED
    BY <2>1, <2>2
<1>2. CASE WorkerWakes \/ WorkerStops \/ ScanEnds
  BY <1>2 DEF WorkerWakes, WorkerStops, ScanEnds, TypeOK, WorkerRecord
<1>3. CASE MarkWarnings \/ \E t \in Token : Notify(t)
  <2>1. \E rest : NotifyRest(rest)
    BY <1>3 DEF MarkWarnings, Notify
  <2> QED
    BY <2>1 DEF NotifyRest, TypeOK, WorkerRecord
<1>4. CASE AutoRevoke
  BY <1>4 DEF AutoRevoke, TypeOK, WorkerRecord
<1>5. CASE \/ ScanSkips \/ TickerFires \/ Tick \/ Cancel \/ UNCHANGED vars
           \/ \E c \in Client : ClientContinues(c)
  BY <1>5 DEF ScanSkips, TickerFires, Tick, Cancel, vars, ClientContinues, Add, Reissue,
       ReissueFails, SwapSecret, ManualRevoke, ForceRevoke
<1>6. CASE \E c \in Client : ClientStarts(c)
  BY <1>6 DEF ClientStarts, Grant, ExtendNormal, ExtendClamped, ExtendForcesRevocation,
       RevokeNow
<1> QED
  BY <1>1, <1>2, <1>3, <1>4, <1>5, <1>6 DEF Next, Worker

\* What a token was marked for stays, so who marked it stays accountable.
LEMMA AccountableStep ==
  ASSUME Inv, Responsible, Accountable, [Next]_vars
  PROVE  Accountable'
<1> USE DEF Inv, TypeInv
<1>1. \A t \in Token : tok[t].revoked => cause'[t] = cause[t]
  BY KnownRecord DEF Registration
<1>2. ASSUME NEW t \in Token, NEW by, MarkRevoked(t, by) PROVE cause'[t] = by
  BY <1>2 DEF MarkRevoked, TypeOK
<1>3. ASSUME NEW c \in Client, client[c].pc \in {"revoke", "force"}
      PROVE  cause'[client[c].token] = cause[client[c].token]
  BY <1>1, <1>3 DEF Responsible, Owns, HoldsToken
<1>4. worker.pc = "revoke" => cause'[worker.target] = cause[worker.target]
  BY <1>1 DEF Responsible, WorkerOwns, HoldsToken
<1>5. ASSUME NEW c \in Client
      PROVE  /\ client'[c].pc = "revoke" => cause'[client'[c].token] = "manual"
             /\ client'[c].pc = "force" => cause'[client'[c].token] = "ceiling"
  BY <1>2, <1>3, RevocationFollowsMark DEF Accountable
<1>6. worker'.pc = "revoke" => cause'[worker'.target] = "auto"
  BY <1>2, <1>4, WorkerFollowsMark DEF Accountable
<1> QED
  BY <1>5, <1>6 DEF Accountable

\* Responsibility and accountability hold throughout.
LEMMA AccountableHolds == Spec => []Accountable
<1>1. Init => Accountable
  BY DEF Init, Accountable, Idle, IdleWorker
<1>2. Inv /\ Responsible /\ Accountable /\ [Next]_vars => Accountable'
  BY AccountableStep
<1> QED
  BY <1>1, <1>2, InvHolds, ResponsibleHolds, PTL DEF Spec

\* RevokeNow, Extend at the ceiling and the worker never revoke the same token
\* twice, however they interleave, and revokedCount is the number of tokens
\* that have ended.
THEOREM RevokedOnceHolds == Spec => []RevokedOnce
<1> DEFINE Counted == revokedCount = Cardinality(RevokedTokens)
<1>1. Init => Counted
  <2> SUFFICES ASSUME Init PROVE Counted
    OBVIOUS
  <2>1. RevokedTokens = {}
    BY DEF Init, RevokedTokens, NoRecord
  <2> QED
    BY <2>1, FS_EmptySet DEF Init
<1>2. Inv /\ Counted /\ [Next]_vars => Counted'
  BY CountStep DEF Inv
<1>3. Responsible /\ Counted => RevokedOnce
  <2> SUFFICES ASSUME Responsible, NEW t \in Token
               PROVE  /\ Cardinality(Revokers(t)) <= 1
                      /\ Revokers(t) # {} => tok[t].revoked /\ answer[t] = "none"
    BY DEF RevokedOnce, RevokedTokens
  <2>1. Revokers(t) # {} => tok[t].revoked /\ answer[t] = "none"
    BY DEF Responsible, Revokers, Owns, WorkerOwns
  <2>2. \A a, b \in Revokers(t) : a = b
    BY DEF Responsible, Revokers, Owns, WorkerOwns
  <2>3. Revokers(t) = {} \/ \E a : Revokers(t) = {a}
    BY <2>2
  <2>4. Cardinality(Revokers(t)) <= 1
    <3>1. CASE Revokers(t) = {}
      BY <3>1, FS_EmptySet
    <3>2. ASSUME NEW a, Revokers(t) = {a}
          PROVE  Cardinality(Revokers(t)) <= 1
      <4>1. Cardinality({a}) = 1
        BY FS_Singleton
      <4> QED
        BY <3>2, <4>1
    <3> QED
      BY <2>3, <3>1, <3>2
  <2> QED
    BY <2>1, <2>4
<1> HIDE DEF Counted
<1> QED
  BY <1>1, <1>2, <1>3, ResponsibleHolds, InvHolds, PTL DEF Spec

-----------------------------------------------------------------------------
(***************************************************************************)
(* Refinement: TokenStore implements TokenLifecycle.  Each critical        *)
(* section of the store is one abstract operation on one token, or none.   *)
(***************************************************************************)

\* What a token on its way to Add looks like: it has been issued in the past for
\* one of the lifetimes and belongs to no session yet.
Pending ==
  /\ now \in Nat \ {0}
  /\ \A t \in Token \ registered : tok[t].originalIssuedAt = NoTime
  /\ \A c \in Client : client[c].pc = "add" =>
       LET t == client[c].token
       IN  /\ tok[t].issuedAt \in 1..now
           /\ \E ttl \in GrantTTL : tok[t].expiresAt = tok[t].issuedAt + ttl

LifeInv == Inv /\ Reasons /\ Pending

\* The clock moves only by itself, one unit at a time.
LEMMA TimeMoves ==
  ASSUME [Next]_vars
  PROVE  UNCHANGED now \/ Tick
<1>1. ASSUME NEW c \in Client, ClientStarts(c) PROVE UNCHANGED now
  BY <1>1 DEF ClientStarts, Grant, ExtendNormal, ExtendClamped, ExtendForcesRevocation,
       RevokeNow
<1>2. ASSUME NEW c \in Client, ClientContinues(c) PROVE UNCHANGED now
  BY <1>2 DEF ClientContinues, Add, Reissue, ReissueFails, SwapSecret, ManualRevoke,
       ForceRevoke
<1>3. CASE Worker
  BY <1>3 DEF Worker, WorkerWakes, WorkerStops, MarkWarnings, Notify, ScanEnds, ScanSkips,
       ScanClaims, AutoRevoke
<1>4. CASE TickerFires \/ Cancel \/ UNCHANGED vars
  BY <1>4 DEF TickerFires, Cancel, vars
<1> QED
  BY <1>1, <1>2, <1>3, <1>4 DEF Next

\* At the start no token is on its way.
LEMMA PendingInit == Init => Pending
BY DEF Init, Pending, Idle, NoRecord, IdleWorker, NoTime

\* Tokens outside the store belong to no session, whatever happens to others.
LEMMA NoSessionYet ==
  ASSUME Inv, Pending, [Next]_vars, NEW t \in Token \ registered'
  PROVE  tok'[t].originalIssuedAt = NoTime
<1> USE DEF Inv, TypeInv
<1>1. registered \subseteq registered'
  BY StepKinds DEF Quiet, Grant, Add, Extends, Ends
<1>2. t \notin registered /\ tok[t].originalIssuedAt = NoTime
  BY <1>1 DEF Pending
<1>3. ASSUME NEW c \in Client, NEW x \in Token, NEW ttl \in GrantTTL, Grant(c, x, ttl)
      PROVE  tok'[t].originalIssuedAt = tok[t].originalIssuedAt
  BY <1>3, GrantWrites
<1>4. ASSUME NEW c \in Client, Add(c) PROVE tok'[t] = tok[t]
  <2>1. client[c].token # t
    BY <1>4 DEF Add
  <2> QED
    BY <1>4, <2>1 DEF Add, TypeOK
<1>5. ASSUME NEW x \in Token, NEW e \in Nat, Extends(x, e) PROVE tok'[t] = tok[t]
  BY <1>2, <1>5 DEF Extends, Live, Bump, TypeOK
<1>6. ASSUME NEW x \in Token, NEW by \in {"manual", "auto", "ceiling"}, Ends(x, by)
      PROVE  tok'[t] = tok[t]
  BY <1>2, <1>6 DEF Ends, Live, MarkRevoked, TypeOK
<1> QED
  BY StepKinds, <1>2, <1>3, <1>4, <1>5, <1>6 DEF Quiet

\* A token stays as it was issued until its request calls Add.
LEMMA PendingStep ==
  ASSUME Inv, Pending, [Next]_vars
  PROVE  Pending'
<1> USE DEF Inv, TypeInv
<1>1. now \in Nat \ {0} /\ now' \in Nat \ {0} /\ now <= now'
  BY TimeMoves DEF Pending, Tick
<1>2. ASSUME NEW c \in Client, client'[c].pc = "add"
      PROVE  LET t == client'[c].token
             IN  /\ tok'[t].issuedAt \in 1..now'
                 /\ \E ttl \in GrantTTL : tok'[t].expiresAt = tok'[t].issuedAt + ttl
  <2> DEFINE t == client'[c].token
  <2>1. CASE client'[c] = client[c]
    <3>1. /\ t \in Token \ registered /\ leases[t] # << >>
      BY <1>2, <2>1 DEF HoldsToken, Registration
    <3>2. tok'[t].expiresAt = tok[t].expiresAt /\ tok'[t].issuedAt = tok[t].issuedAt
      BY <3>1, PendingRecord
    <3>3. /\ tok[t].issuedAt \in 1..now
          /\ \E ttl \in GrantTTL : tok[t].expiresAt = tok[t].issuedAt + ttl
      BY <1>2, <2>1 DEF Pending
    <3>4. /\ tok'[t].issuedAt \in 1..now'
          /\ \E ttl \in GrantTTL : tok'[t].expiresAt = tok'[t].issuedAt + ttl
      <4> HIDE DEF t
      <4> QED
        BY <1>1, <3>2, <3>3
    <3> QED
      BY <3>4
  <2>2. ASSUME NEW x \in Token, NEW ttl \in GrantTTL, Grant(c, x, ttl), t = x
        PROVE  /\ tok'[x].issuedAt \in 1..now'
               /\ tok'[x].expiresAt = tok'[x].issuedAt + ttl
    <3>1. CASE UNCHANGED <<tok, client>>
      BY <1>2, <2>2, <3>1 DEF Grant
    <3>2. CASE tok'[x].issuedAt = now /\ tok'[x].expiresAt = now + ttl
      BY <1>1, <3>2
    <3> QED
      BY <2>2, <3>1, <3>2, GrantWrites
  <2> QED
    BY <1>2, <2>1, <2>2, AddFollowsGrant
<1>3. \A t \in Token \ registered' : tok'[t].originalIssuedAt = NoTime
  BY NoSessionYet
<1> QED
  BY <1>1, <1>2, <1>3 DEF Pending

\* The strengthening of the refinement mapping's invariants is inductive.
LEMMA LifeInvHolds == Spec => []LifeInv
<1>1. Init => Inv /\ Reasons /\ Pending
  BY TypeInit, RegistrationInit, ReasonsInit, PendingInit DEF Inv
<1>2. Inv /\ Reasons /\ Pending /\ [Next]_vars => (Inv /\ Reasons /\ Pending)'
  BY TypeStep, RegistrationStep, ReasonsStep, PendingStep DEF Inv
<1> QED
  BY <1>1, <1>2, PTL DEF Spec, LifeInv

-----------------------------------------------------------------------------
(* The refinement mapping, by name.                                        *)

PhaseOf == [t \in Token |-> Phase(t)]
DeadlineOf == [t \in Token |-> IF t \in registered THEN tok[t].expiresAt ELSE 0]
CeilingOf == [t \in Token |-> IF t \in registered THEN Ceiling(t) ELSE 0]

\* A step that leaves everything the mapping reads alone is a stutter.
LEMMA SameImage ==
  ASSUME UNCHANGED <<registered, revokedCount, cause>>,
         \A t \in Token : /\ tok'[t].expiresAt = tok[t].expiresAt
                          /\ tok'[t].originalIssuedAt = tok[t].originalIssuedAt
                          /\ tok'[t].revoked = tok[t].revoked
  PROVE  /\ PhaseOf' = PhaseOf /\ DeadlineOf' = DeadlineOf /\ CeilingOf' = CeilingOf
         /\ revokedCount' = revokedCount
<1>1. \A t \in Token : Phase(t)' = Phase(t)
  BY DEF Phase
<1>2. \A t \in Token : Ceiling(t)' = Ceiling(t)
  BY DEF Ceiling
<1>3. PhaseOf' = PhaseOf
  BY <1>1 DEF PhaseOf
<1>4. DeadlineOf' = DeadlineOf
  BY DEF DeadlineOf
<1>5. CeilingOf' = CeilingOf
  BY <1>2 DEF CeilingOf
<1> QED
  BY <1>3, <1>4, <1>5

\* Add registers.
LEMMA AddRegisters ==
  ASSUME LifeInv, NEW c \in Client, Add(c), NEW t \in Token, t = client[c].token
  PROVE  Lifecycle!Register(t)
<1> USE DEF LifeInv, Inv, TypeInv
<1>1. /\ t \in Token /\ t \notin registered /\ tok[t].originalIssuedAt = NoTime
      /\ tok[t] \in TokenRecord
  BY DEF Add, HoldsToken, Registration, Pending, TypeOK
<1>2. ~tok[t].revoked
  BY <1>1 DEF Registration
<1>3. PICK ttl \in GrantTTL : tok[t].expiresAt = tok[t].issuedAt + ttl
  BY DEF Add, Pending
<1>4. tok[t].issuedAt \in 1..now
  BY DEF Add, Pending
<1>5. registered' = registered \cup {t} /\ UNCHANGED <<now, revokedCount, cause>>
  BY DEF Add, history
<1>6. /\ tok'[t].expiresAt = tok[t].expiresAt /\ tok'[t].revoked = tok[t].revoked
      /\ tok'[t].originalIssuedAt = tok[t].issuedAt
      /\ \A x \in Token \ {t} : tok'[x] = tok[x]
  <2>1. tok' = [tok EXCEPT ![t] = [tok[t] EXCEPT !.originalIssuedAt = tok[t].issuedAt]]
    BY <1>1 DEF Add, TypeOK
  <2> QED
    BY <1>1, <2>1 DEF TypeOK, TokenRecord
<1>7. /\ Phase(t) = "absent" /\ Phase(t)' = "live"
      /\ \A x \in Token \ {t} : Phase(x)' = Phase(x)
  BY <1>1, <1>2, <1>5, <1>6 DEF Phase
<1>8. PhaseOf' = [PhaseOf EXCEPT ![t] = "live"] /\ PhaseOf[t] = "absent"
  BY <1>1, <1>7 DEF PhaseOf
<1>9. DeadlineOf' = [DeadlineOf EXCEPT ![t] = tok[t].issuedAt + ttl]
  BY <1>1, <1>3, <1>5, <1>6 DEF DeadlineOf
<1>10. CeilingOf' = [CeilingOf EXCEPT ![t] = tok[t].issuedAt + MaxSession]
  <2>1. /\ Ceiling(t)' = tok[t].issuedAt + MaxSession
        /\ \A x \in Token \ {t} : Ceiling(x)' = Ceiling(x)
    BY <1>6 DEF Ceiling
  <2> QED
    BY <1>1, <1>5, <2>1 DEF CeilingOf
<1> QED
  BY <1>4, <1>5, <1>8, <1>9, <1>10
     DEF Lifecycle!Register, PhaseOf, DeadlineOf, CeilingOf

\* Both kinds of extension renew.
LEMMA ExtendsRenews ==
  ASSUME LifeInv, NEW t \in Token, NEW e \in Nat, Extends(t, e)
  PROVE  Lifecycle!Renew(t)
<1> USE DEF LifeInv, Inv, TypeInv
<1>1. /\ Bump(t, e) /\ UNCHANGED <<registered, revokedCount, cause, now>>
      /\ t \in registered /\ ~tok[t].revoked
      /\ e = IF NewExpiry(t) < Ceiling(t) THEN NewExpiry(t) ELSE Ceiling(t)
  BY DEF Extends, Live
<1>2. /\ tok'[t].expiresAt = e /\ tok'[t].revoked = tok[t].revoked
      /\ tok'[t].originalIssuedAt = tok[t].originalIssuedAt
      /\ \A x \in Token \ {t} : tok'[x] = tok[x]
  BY <1>1 DEF Bump, TypeOK, TokenRecord
<1>3. PhaseOf[t] = "live"
  BY <1>1 DEF PhaseOf, Phase
<1>4. PhaseOf' = PhaseOf
  <2>1. \A x \in Token : Phase(x)' = Phase(x)
    BY <1>1, <1>2 DEF Phase
  <2> QED
    BY <2>1 DEF PhaseOf
<1>5. CeilingOf' = CeilingOf
  <2>1. \A x \in Token : Ceiling(x)' = Ceiling(x)
    BY <1>2 DEF Ceiling
  <2> QED
    BY <1>1, <2>1 DEF CeilingOf
<1>6. DeadlineOf' = [DeadlineOf EXCEPT ![t] = e]
  BY <1>1, <1>2 DEF DeadlineOf
<1>7. DeadlineOf[t] + TTL = NewExpiry(t) /\ CeilingOf[t] = Ceiling(t)
  BY <1>1 DEF DeadlineOf, CeilingOf, NewExpiry
<1>8. DeadlineOf' = [DeadlineOf EXCEPT ![t] =
        IF DeadlineOf[t] + TTL < CeilingOf[t] THEN DeadlineOf[t] + TTL ELSE CeilingOf[t]]
  BY <1>1, <1>6, <1>7
<1> QED
  BY <1>1, <1>3, <1>4, <1>5, <1>8 DEF Lifecycle!Renew, PhaseOf, DeadlineOf, CeilingOf

\* Whoever marks a token revoked ends it, for a reason that holds.
LEMMA EndsEnds ==
  ASSUME LifeInv, NEW t \in Token, NEW by \in {"manual", "auto", "ceiling"}, Ends(t, by)
  PROVE  Lifecycle!Expire(t) \/ Lifecycle!HitCeiling(t) \/ Lifecycle!Revoke(t)
<1> USE DEF LifeInv, Inv, TypeInv
<1>1. /\ MarkRevoked(t, by) /\ UNCHANGED <<registered, now>>
      /\ t \in registered /\ ~tok[t].revoked
  BY DEF Ends, Live
<1>2. /\ tok'[t].expiresAt = tok[t].expiresAt /\ tok'[t].revoked
      /\ tok'[t].originalIssuedAt = tok[t].originalIssuedAt
      /\ \A x \in Token \ {t} : tok'[x] = tok[x]
  BY <1>1 DEF MarkRevoked, TypeOK, TokenRecord
<1>3. /\ revokedCount' = revokedCount + 1 /\ cause'[t] = by
      /\ \A x \in Token \ {t} : cause'[x] = cause[x]
  BY <1>1 DEF MarkRevoked, TypeOK
<1>4. PhaseOf[t] = "live"
  BY <1>1 DEF PhaseOf, Phase
<1>5. PhaseOf' = [PhaseOf EXCEPT ![t] = by]
  <2>1. Phase(t)' = by /\ \A x \in Token \ {t} : Phase(x)' = Phase(x)
    BY <1>1, <1>2, <1>3 DEF Phase
  <2> QED
    BY <2>1 DEF PhaseOf
<1>6. DeadlineOf' = DeadlineOf
  BY <1>1, <1>2 DEF DeadlineOf
<1>7. CeilingOf' = CeilingOf
  <2>1. \A x \in Token : Ceiling(x)' = Ceiling(x)
    BY <1>2 DEF Ceiling
  <2> QED
    BY <1>1, <2>1 DEF CeilingOf
<1>8. Lifecycle!End(t, by)
  BY <1>1, <1>3, <1>4, <1>5, <1>6, <1>7
     DEF Lifecycle!End, PhaseOf, DeadlineOf, CeilingOf
<1>9. CASE by = "auto"
  <2>1. tok[t].expiresAt <= worker.tick /\ worker.tick <= now
    BY <1>9 DEF Ends, Reasons
  <2>2. tok[t].expiresAt \in Nat /\ worker.tick \in Nat /\ now \in Nat
    BY DEF TypeOK, TokenRecord, WorkerRecord
  <2>3. DeadlineOf[t] <= now
    BY <1>1, <2>1, <2>2 DEF DeadlineOf
  <2> QED
    BY <1>8, <1>9, <2>3 DEF Lifecycle!Expire, DeadlineOf
<1>10. CASE by = "ceiling"
  <2>1. CeilingOf[t] <= now
    BY <1>1, <1>10 DEF Ends, CeilingOf
  <2> QED
    BY <1>8, <1>10, <2>1 DEF Lifecycle!HitCeiling, CeilingOf
<1>11. CASE by = "manual"
  BY <1>8, <1>11 DEF Lifecycle!Revoke
<1> QED
  BY <1>9, <1>10, <1>11

\* Initial states map to initial states.
LEMMA LifecycleInit == Init => Lifecycle!Init
<1> SUFFICES ASSUME Init PROVE Lifecycle!Init
  OBVIOUS
<1>1. registered = {} /\ now = 1 /\ revokedCount = 0
  BY DEF Init
<1>2. \A t \in Token : Phase(t) = "absent"
  BY <1>1 DEF Phase
<1> QED
  BY <1>1, <1>2 DEF Lifecycle!Init

\* Every step of the store maps to a step of the lifecycle or to a stutter.
LEMMA LifecycleStep ==
  ASSUME LifeInv, [Next]_vars
  PROVE  [Lifecycle!Next]_(Lifecycle!vars)
<1> USE DEF LifeInv, Inv, TypeInv
<1>1. CASE Tick
  <2>1. /\ PhaseOf' = PhaseOf /\ DeadlineOf' = DeadlineOf /\ CeilingOf' = CeilingOf
        /\ revokedCount' = revokedCount
    <3>1. UNCHANGED <<tok, registered, revokedCount, cause>>
      BY <1>1 DEF Tick, storeVars, history
    <3> QED
      BY <3>1, SameImage
  <2>2. Lifecycle!Tick
    BY <1>1, <2>1 DEF Tick, Lifecycle!Tick, PhaseOf, DeadlineOf, CeilingOf
  <2> QED
    BY <2>2 DEF Lifecycle!Next
<1>2. ASSUME UNCHANGED now, Quiet
      PROVE  UNCHANGED Lifecycle!vars
  <2>1. /\ PhaseOf' = PhaseOf /\ DeadlineOf' = DeadlineOf /\ CeilingOf' = CeilingOf
        /\ revokedCount' = revokedCount
    BY <1>2, SameImage DEF Quiet
  <2> QED
    BY <1>2, <2>1 DEF Lifecycle!vars, PhaseOf, DeadlineOf, CeilingOf
<1>3. ASSUME NEW c \in Client, NEW x \in Token, NEW ttl \in GrantTTL, Grant(c, x, ttl)
      PROVE  UNCHANGED Lifecycle!vars
  <2>1. UNCHANGED <<registered, revokedCount, cause, now>>
    BY <1>3 DEF Grant, history
  <2>2. leases[x] = << >> /\ x \notin registered
    BY <1>3 DEF Grant, Registration
  <2>3. \A t \in registered : tok'[t] = tok[t]
    BY <1>3, <2>2, GrantWrites DEF TypeOK
  <2>4. PhaseOf' = PhaseOf
    <3>1. \A t \in Token : Phase(t)' = Phase(t)
      BY <2>1, <2>3 DEF Phase
    <3> QED
      BY <3>1 DEF PhaseOf
  <2>5. DeadlineOf' = DeadlineOf
    BY <2>1, <2>3 DEF DeadlineOf
  <2>6. CeilingOf' = CeilingOf
    <3>1. \A t \in registered : Ceiling(t)' = Ceiling(t)
      BY <2>3 DEF Ceiling
    <3> QED
      BY <2>1, <3>1 DEF CeilingOf
  <2> QED
    BY <2>1, <2>4, <2>5, <2>6 DEF Lifecycle!vars, PhaseOf, DeadlineOf, CeilingOf
<1>4. ASSUME NEW c \in Client, Add(c) PROVE Lifecycle!Next
  <2>1. PICK t \in Token : t = client[c].token
    BY <1>4 DEF Add, HoldsToken
  <2>2. LifeInv
    OBVIOUS
  <2> HIDE DEF LifeInv
  <2>3. Lifecycle!Register(t)
    BY <1>4, <2>1, <2>2, AddRegisters
  <2> QED
    BY <2>3 DEF Lifecycle!Next
<1>5. ASSUME NEW t \in Token, NEW e \in Nat, Extends(t, e) PROVE Lifecycle!Next
  BY <1>5, ExtendsRenews DEF Lifecycle!Next
<1>6. ASSUME NEW t \in Token, NEW by \in {"manual", "auto", "ceiling"}, Ends(t, by)
      PROVE  Lifecycle!Next
  BY <1>6, EndsEnds DEF Lifecycle!Next
<1> HIDE DEF LifeInv, Inv, TypeInv
<1>7. TypeInv
  BY DEF LifeInv, Inv
<1> QED
  BY <1>1, <1>2, <1>3, <1>4, <1>5, <1>6, <1>7, StepKinds, TimeMoves

\* However requests and worker interleave, every token behaves as TokenLifecycle
\* says: registered once, renewed only while live and never past its ceiling,
\* ended once for a true reason.
THEOREM StoreImplementsLifecycle == Spec => ImplementsLifecycle
BY LifecycleInit, LifecycleStep, LifeInvHolds, PTL
   DEF Spec, ImplementsLifecycle, Lifecycle!Spec
=============================================================================
