---------------------------- MODULE WorkerProofs ----------------------------
(***************************************************************************)
(* What the worker finds and what it leaves behind, for every set of       *)
(* tokens and requests and every duration: one warning per granted window, *)
(* every live token in the heap exactly once, complete scans as long as    *)
(* nobody extends, scans that requests cannot keep going, and a bound on   *)
(* the secrets that a successful revocation leaves alive.                  *)
(***************************************************************************)
EXTENDS TokenStoreProofs

-----------------------------------------------------------------------------
(* Warnings: the inductive form says where the warnings of a token can be: *)
(* raised, about to be raised by the worker, or still allowed because the  *)
(* record is not marked.                                                   *)

\* The worker has taken t down and not yet called the notifier for it.
Owed(t) == IF t \in worker.toNotify THEN 1 ELSE 0

\* The next look at t may take it down.
Allowed(t) == IF tok[t].notified THEN 0 ELSE 1

WarnInv ==
  /\ worker.toNotify # {} => worker.pc = "notify"
  /\ \A t \in Token : warned[t] + Owed(t) + Allowed(t) <= tok[t].extensions + 1

\* Nothing that has to do with warnings changes.
NoWarning ==
  /\ UNCHANGED warned
  /\ worker'.toNotify = worker.toNotify
  /\ worker'.pc = "notify" \/ worker.pc # "notify"
  /\ \A t \in Token : /\ tok'[t].notified = tok[t].notified
                      /\ tok'[t].extensions = tok[t].extensions

\* What a step can do to warnings: nothing, an extension, a round of marking, or
\* one call of the notifier.
LEMMA WarningKinds ==
  ASSUME TypeInv, [Next]_vars
  PROVE  \/ NoWarning
         \/ \E t \in Token, e \in Nat : Bump(t, e) /\ UNCHANGED <<warned, worker>>
         \/ MarkWarnings
         \/ \E t \in Token : Notify(t)
<1> USE DEF TypeInv
<1>1. ASSUME NEW c \in Client, NEW t \in Token, NEW ttl \in GrantTTL, Grant(c, t, ttl)
      PROVE  NoWarning
  <2>1. \A x \in Token : /\ tok'[x].notified = tok[x].notified
                        /\ tok'[x].extensions = tok[x].extensions
    BY <1>1, GrantWrites
  <2> QED
    BY <1>1, <2>1 DEF Grant, NoWarning, history
<1>2. ASSUME NEW c \in Client, NEW t \in Token,
             ExtendNormal(c, t) \/ ExtendClamped(c, t)
      PROVE  \E e \in Nat : Bump(t, e) /\ UNCHANGED <<warned, worker>>
  <2>1. NewExpiry(t) \in Nat /\ Ceiling(t) \in Nat
    BY TimesAssumption DEF NewExpiry, Ceiling, TypeOK, TokenRecord
  <2> QED
    BY <1>2, <2>1 DEF ExtendNormal, ExtendClamped, history
<1>3. ASSUME NEW t \in Token, NEW by \in {"manual", "auto", "ceiling"}, MarkRevoked(t, by)
      PROVE  \A x \in Token : /\ tok'[x].notified = tok[x].notified
                              /\ tok'[x].extensions = tok[x].extensions
  BY <1>3 DEF MarkRevoked, TypeOK, TokenRecord
<1>4. ASSUME NEW c \in Client, NEW t \in Token,
             ExtendForcesRevocation(c, t) \/ RevokeNow(c, t)
      PROVE  NoWarning
  BY <1>3, <1>4 DEF ExtendForcesRevocation, RevokeNow, NoWarning
<1>5. ASSUME NEW c \in Client, Add(c) \/ SwapSecret(c) PROVE NoWarning
  <2> DEFINE t == client[c].token
  <2>0. t \in Token /\ tok[t] \in TokenRecord
    BY <1>5 DEF Add, SwapSecret, HoldsToken, TypeOK
  <2>1. \A x \in Token : /\ tok'[x].notified = tok[x].notified
                        /\ tok'[x].extensions = tok[x].extensions
    <3>1. ASSUME NEW n,
                 \/ tok' = [tok EXCEPT ![t] = [tok[t] EXCEPT !.originalIssuedAt = n]]
                 \/ tok' = [tok EXCEPT ![t] = [tok[t] EXCEPT !.secret = n]]
          PROVE  \A x \in Token : /\ tok'[x].notified = tok[x].notified
                                 /\ tok'[x].extensions = tok[x].extensions
      <4> DEFINE r1 == [tok[t] EXCEPT !.originalIssuedAt = n]
                 r2 == [tok[t] EXCEPT !.secret = n]
      <4>1. /\ r1.notified = tok[t].notified /\ r1.extensions = tok[t].extensions
            /\ r2.notified = tok[t].notified /\ r2.extensions = tok[t].extensions
        BY <2>0 DEF TokenRecord
      <4> HIDE DEF r1, r2
      <4>2. tok' = [tok EXCEPT ![t] = r1] \/ tok' = [tok EXCEPT ![t] = r2]
        BY <3>1 DEF r1, r2
      <4> QED
        BY <2>0, <4>1, <4>2 DEF TypeOK
    <3>2. CASE Add(c)
      <4> DEFINE orig == IF tok[t].originalIssuedAt = NoTime
                         THEN tok[t].issuedAt ELSE tok[t].originalIssuedAt
      <4>1. tok' = [tok EXCEPT ![t] = [tok[t] EXCEPT !.originalIssuedAt = orig]]
        BY <2>0, <3>2 DEF Add, TypeOK
      <4> HIDE DEF t, orig
      <4> QED
        BY <3>1, <4>1
    <3>3. CASE SwapSecret(c)
      <4> DEFINE n == client[c].secret
      <4>1. tok' = [tok EXCEPT ![t] = [tok[t] EXCEPT !.secret = n]]
        BY <2>0, <3>3 DEF SwapSecret, TypeOK
      <4> HIDE DEF t, n
      <4> QED
        BY <3>1, <4>1
    <3> QED
      BY <1>5, <3>2, <3>3
  <2> QED
    BY <1>5, <2>1 DEF Add, SwapSecret, NoWarning, history
<1>6. CASE ScanClaims
  <2>1. Head(pq) \in Token
    BY <1>6, HeadTailProperties DEF ScanClaims, TopIsDue, TypeOK
  <2>2. \A x \in Token : /\ tok'[x].notified = tok[x].notified
                        /\ tok'[x].extensions = tok[x].extensions
    BY <1>3, <1>6, <2>1 DEF ScanClaims
  <2>3. worker'.toNotify = worker.toNotify /\ worker.pc = "scan" /\ UNCHANGED warned
    BY <1>6 DEF ScanClaims, TypeOK, WorkerRecord
  <2> QED
    BY <2>2, <2>3 DEF NoWarning
<1>7. CASE WorkerWakes \/ WorkerStops \/ ScanEnds \/ AutoRevoke
  <2>1. UNCHANGED <<tok, warned>>
    BY <1>7 DEF WorkerWakes, WorkerStops, ScanEnds, AutoRevoke, storeVars, history
  <2>2. worker'.toNotify = worker.toNotify /\ worker.pc # "notify"
    BY <1>7 DEF WorkerWakes, WorkerStops, ScanEnds, AutoRevoke, TypeOK, WorkerRecord
  <2> QED
    BY <2>1, <2>2 DEF NoWarning
<1>8. ASSUME \/ \E c \in Client : \/ Reissue(c) \/ ReissueFails(c)
                                  \/ ManualRevoke(c) \/ ForceRevoke(c)
             \/ ScanSkips \/ TickerFires \/ Tick \/ Cancel \/ UNCHANGED vars
      PROVE  NoWarning
  <2>1. UNCHANGED <<tok, warned, worker>>
    BY <1>8 DEF Reissue, ReissueFails, ManualRevoke, ForceRevoke, ScanSkips,
         TickerFires, Tick, Cancel, vars, storeVars, history
  <2> QED
    BY <2>1 DEF NoWarning
<1> QED
  BY <1>1, <1>2, <1>4, <1>5, <1>6, <1>7, <1>8
     DEF Next, ClientStarts, ClientContinues, Worker

\* At the start nobody has been warned and one warning is allowed.
LEMMA WarnInit == Init => WarnInv
BY DEF Init, WarnInv, Owed, Allowed, NoRecord, IdleWorker

\* Marking turns the warning allowed into one owed, the notifier the one owed
\* into one raised; only an extension allows another.
LEMMA WarnStep ==
  ASSUME TypeInv, TypeInv', WarnInv, [Next]_vars
  PROVE  WarnInv'
<1> USE DEF TypeInv
<1>1. \A t \in Token : /\ tok[t].extensions \in Nat /\ warned[t] \in Nat
                      /\ tok'[t].extensions \in Nat
  BY DEF TypeOK, TokenRecord
<1>2. CASE NoWarning
  BY <1>2 DEF NoWarning, WarnInv, Owed, Allowed
<1>3. ASSUME NEW t \in Token, NEW e \in Nat, Bump(t, e), UNCHANGED <<warned, worker>>
      PROVE  WarnInv'
  <2>1. tok'[t].extensions = tok[t].extensions + 1 /\ tok'[t].notified = FALSE
    BY <1>3 DEF Bump, TypeOK, TokenRecord
  <2>2. \A x \in Token \ {t} : tok'[x] = tok[x]
    BY <1>3 DEF Bump, TypeOK
  <2> SUFFICES ASSUME NEW x \in Token
               PROVE  warned'[x] + Owed(x)' + Allowed(x)' <= tok'[x].extensions + 1
    BY <1>3 DEF WarnInv
  <2>3. warned[x] + Owed(x) + Allowed(x) <= tok[x].extensions + 1
    BY DEF WarnInv
  <2>4. warned'[x] = warned[x] /\ Owed(x)' = Owed(x)
    BY <1>3 DEF Owed
  <2>5. Owed(x) \in Nat /\ Allowed(x) \in Nat
    BY DEF Owed, Allowed
  <2>6. CASE x = t
    <3>1. Allowed(x)' = 1
      BY <2>1, <2>6 DEF Allowed
    <3> QED
      BY <1>1, <2>1, <2>3, <2>4, <2>5, <2>6, <3>1
  <2>7. CASE x # t
    BY <2>2, <2>3, <2>4, <2>7 DEF Allowed
  <2> QED
    BY <2>6, <2>7
<1>4. CASE MarkWarnings
  <2> DEFINE due == {t \in registered : NeedsWarning(t)}
  <2>1. worker.toNotify = {} /\ worker'.toNotify = due
    BY <1>4 DEF MarkWarnings, NotifyRest, WarnInv, TypeOK, WorkerRecord
  <2>2. due # {} => worker'.pc = "notify"
    BY <1>4 DEF MarkWarnings, NotifyRest, TypeOK, WorkerRecord
  <2>3. \A x \in Token : /\ tok'[x].extensions = tok[x].extensions
                        /\ tok'[x].notified = (tok[x].notified \/ x \in due)
    <3> HIDE DEF due
    <3>1. tok' = [t \in Token |-> [tok[t] EXCEPT !.notified = @ \/ t \in due]]
      BY <1>4 DEF MarkWarnings, due
    <3>2. \A x \in Token : tok[x] \in TokenRecord
      BY DEF TypeOK
    <3>3. \A x \in Token : tok'[x] = [tok[x] EXCEPT !.notified = @ \/ x \in due]
      BY <3>1
    <3> QED
      BY <3>2, <3>3 DEF TokenRecord
  <2>4. \A x \in due : ~tok[x].notified
    BY DEF NeedsWarning
  <2> HIDE DEF due
  <2> SUFFICES ASSUME NEW x \in Token
               PROVE  warned'[x] + Owed(x)' + Allowed(x)' <= tok'[x].extensions + 1
    BY <2>1, <2>2 DEF WarnInv
  <2>5. warned[x] + Owed(x) + Allowed(x) <= tok[x].extensions + 1
    BY DEF WarnInv
  <2>6. Owed(x) = 0 /\ Owed(x)' + Allowed(x)' = Allowed(x)
    <3>1. CASE x \in due
      <4>1. Owed(x)' = 1 /\ Allowed(x) = 1
        BY <2>1, <2>4, <3>1 DEF Owed, Allowed
      <4>2. tok'[x].notified = TRUE
        BY <2>3, <3>1
      <4>3. Allowed(x)' = 0 /\ Owed(x) = 0
        BY <2>1, <4>2 DEF Allowed, Owed
      <4> QED
        BY <4>1, <4>3
    <3>2. CASE x \notin due
      <4>1. Owed(x)' = 0 /\ Owed(x) = 0
        BY <2>1, <3>2 DEF Owed
      <4>2. Allowed(x)' = Allowed(x)
        <5>1. tok[x].notified \in BOOLEAN
          BY DEF TypeOK, TokenRecord
        <5> QED
          BY <2>3, <3>2, <5>1 DEF Allowed
      <4> QED
        BY <4>1, <4>2 DEF Allowed
    <3> QED
      BY <3>1, <3>2
  <2>7. warned'[x] = warned[x] /\ Owed(x)' \in Nat /\ Allowed(x)' \in Nat
    BY <1>4 DEF MarkWarnings, history, Owed, Allowed
  <2> QED
    BY <1>1, <2>3, <2>5, <2>6, <2>7
<1>5. ASSUME NEW t \in Token, Notify(t) PROVE WarnInv'
  <2>1. /\ worker'.toNotify = worker.toNotify \ {t} /\ t \in worker.toNotify
        /\ worker'.toNotify # {} => worker'.pc = "notify"
    BY <1>5 DEF Notify, NotifyRest, TypeOK, WorkerRecord
  <2>2. UNCHANGED tok /\ \A x \in Token :
          warned'[x] = IF x = t THEN warned[x] + 1 ELSE warned[x]
    BY <1>5 DEF Notify, storeVars, TypeOK
  <2> SUFFICES ASSUME NEW x \in Token
               PROVE  warned'[x] + Owed(x)' + Allowed(x)' <= tok'[x].extensions + 1
    BY <2>1 DEF WarnInv
  <2>3. warned[x] + Owed(x) + Allowed(x) <= tok[x].extensions + 1
    BY DEF WarnInv
  <2>4. Allowed(x)' = Allowed(x) /\ Allowed(x) \in Nat
    BY <2>2 DEF Allowed
  <2>5. CASE x = t
    <3>1. Owed(x) = 1 /\ Owed(x)' = 0
      BY <2>1, <2>5 DEF Owed
    <3> QED
      BY <1>1, <2>2, <2>3, <2>4, <2>5, <3>1
  <2>6. CASE x # t
    <3>1. Owed(x)' = Owed(x)
      BY <2>1, <2>6 DEF Owed
    <3> QED
      BY <2>2, <2>3, <2>4, <2>6, <3>1
  <2> QED
    BY <2>5, <2>6
<1> QED
  BY <1>2, <1>3, <1>4, <1>5, WarningKinds

\* The inductive form says what the property says.
LEMMA WarnInvSays ==
  ASSUME TypeInv, WarnInv
  PROVE  OneWarningPerWindow
<1> SUFFICES ASSUME NEW t \in Token
             PROVE  warned[t] + Cardinality(worker.toNotify \cap {t})
                      <= tok[t].extensions + 1
  BY DEF OneWarningPerWindow
<1>1. Cardinality(worker.toNotify \cap {t}) = Owed(t)
  <2>1. CASE t \in worker.toNotify
    <3>1. worker.toNotify \cap {t} = {t}
      BY <2>1
    <3> QED
      BY <2>1, <3>1, FS_Singleton DEF Owed
  <2>2. CASE t \notin worker.toNotify
    <3>1. worker.toNotify \cap {t} = {}
      BY <2>2
    <3> QED
      BY <2>2, <3>1, FS_EmptySet DEF Owed
  <2> QED
    BY <2>1, <2>2
<1>2. /\ warned[t] \in Nat /\ tok[t].extensions \in Nat
      /\ Owed(t) \in Nat /\ Allowed(t) \in Nat
  BY DEF TypeInv, TypeOK, TokenRecord, Owed, Allowed
<1>3. warned[t] + Owed(t) + Allowed(t) <= tok[t].extensions + 1
  BY DEF WarnInv
<1> QED
  BY <1>1, <1>2, <1>3

\* However extensions reset the mark while the worker is between marking and
\* notifying, a token has at most one warning for its grant and one for each
\* extension, those about to be raised included.
THEOREM OneWarningHolds == Spec => []OneWarningPerWindow
<1>1. Init => TypeInv /\ WarnInv
  BY TypeInit, WarnInit
<1>2. TypeInv /\ WarnInv /\ [Next]_vars => (TypeInv /\ WarnInv)'
  BY TypeStep, WarnStep
<1>3. TypeInv /\ WarnInv => OneWarningPerWindow
  BY WarnInvSays
<1> QED
  BY <1>1, <1>2, <1>3, PTL DEF Spec

-----------------------------------------------------------------------------
(* The queue: every live token is in it.                                   *)

\* The array holds registered tokens, each once, and all that are live.
Scheduled ==
  /\ Distinct(pq) /\ Elements(pq) \subseteq registered
  /\ \A t \in Token : Live(t) => t \in Elements(pq)

\* Only Add puts a token into the map and the heap, only a scan takes one out.
LEMMA QueueKinds ==
  ASSUME TypeInv, [Next]_vars
  PROVE  \/ UNCHANGED <<pq, registered>>
         \/ \E c \in Client : Add(c)
         \/ ScanSkips
         \/ ScanClaims
<1>1. ASSUME NEW c \in Client, ClientStarts(c) PROVE UNCHANGED <<pq, registered>>
  BY <1>1 DEF ClientStarts, Grant, ExtendNormal, ExtendClamped, ExtendForcesRevocation,
       RevokeNow
<1>2. ASSUME NEW c \in Client, ClientContinues(c)
      PROVE  Add(c) \/ UNCHANGED <<pq, registered>>
  BY <1>2 DEF ClientContinues, Reissue, ReissueFails, SwapSecret, ManualRevoke,
       ForceRevoke, storeVars
<1>3. CASE Worker
  BY <1>3 DEF Worker, WorkerWakes, WorkerStops, MarkWarnings, Notify, ScanEnds,
       AutoRevoke, storeVars
<1>4. CASE TickerFires \/ Tick \/ Cancel \/ UNCHANGED vars
  BY <1>4 DEF TickerFires, Tick, Cancel, vars, storeVars
<1> QED
  BY <1>1, <1>2, <1>3, <1>4 DEF Next

\* A revoked token is never live again.
LEMMA FlagsStay ==
  ASSUME TypeInv, [Next]_vars, NEW t \in Token, tok[t].revoked
  PROVE  tok'[t].revoked
<1>1. ASSUME NEW x \in Token, NEW by \in {"manual", "auto", "ceiling"}, Ends(x, by)
      PROVE  tok'[t].revoked
  BY <1>1, Marked DEF Ends
<1> QED
  BY <1>1, RevokedFlags

\* Add puts a token into the array that is not in it.
LEMMA AddPushes ==
  ASSUME Inv, Scheduled, NEW c \in Client, Add(c)
  PROVE  /\ pq' \in Seq(Token) /\ Distinct(pq')
         /\ client[c].token \in Token /\ client[c].token \notin Elements(pq)
         /\ Elements(pq') = Elements(pq) \cup {client[c].token}
         /\ registered' = registered \cup {client[c].token}
         /\ HeapOrdered(Expiry, pq) => HeapOrdered(Expiry, pq')
<1> DEFINE t == client[c].token
<1>1. t \in Token /\ t \notin registered
  BY DEF Add, Inv, TypeInv, HoldsToken, Registration
<1>2. Expiry \in [Token -> Int]
  BY DEF Expiry, Inv, TypeInv, TypeOK, TokenRecord
<1>3. pq \in Seq(Token) /\ Distinct(pq) /\ t \notin Elements(pq)
  BY <1>1 DEF Inv, TypeInv, TypeOK, Scheduled
<1>4. pq' = HeapPush(Expiry, pq, t) /\ registered' = registered \cup {t}
  BY DEF Add
<1> HIDE DEF t
<1>5. /\ pq' \in Seq(Token) /\ Distinct(pq') /\ Elements(pq') = Elements(pq) \cup {t}
      /\ HeapOrdered(Expiry, pq) => HeapOrdered(Expiry, pq')
  BY <1>1, <1>2, <1>3, <1>4, HeapPushCorrect
<1> QED
  BY <1>1, <1>3, <1>4, <1>5 DEF t

\* A scan step takes the top out of the array, and a top that is known is
\* revoked by then.
LEMMA ScanPops ==
  ASSUME Inv, Scheduled, ScanSkips \/ ScanClaims
  PROVE  /\ Head(pq) \in Token /\ pq' \in Seq(Token) /\ Distinct(pq')
         /\ Elements(pq') = Elements(pq) \ {Head(pq)}
         /\ UNCHANGED registered
         /\ Head(pq) \in registered => tok'[Head(pq)].revoked
         /\ HeapOrdered(Expiry, pq) => HeapOrdered(Expiry, pq')
<1>1. Expiry \in [Token -> Int]
  BY DEF Expiry, Inv, TypeInv, TypeOK, TokenRecord
<1>2. pq \in Seq(Token) /\ Distinct(pq) /\ pq # << >> /\ pq' = HeapPop(Expiry, pq)
  BY DEF Inv, TypeInv, TypeOK, Scheduled, ScanSkips, ScanClaims, TopIsDue
<1>3. /\ pq' \in Seq(Token) /\ Distinct(pq') /\ Elements(pq') = Elements(pq) \ {Head(pq)}
      /\ HeapOrdered(Expiry, pq) => HeapOrdered(Expiry, pq')
  BY <1>1, <1>2, HeapPopCorrect
<1>4. Head(pq) \in Token
  BY <1>2, EmptySeq
<1>5. UNCHANGED registered /\ (Head(pq) \in registered => tok'[Head(pq)].revoked)
  <2>1. CASE ScanSkips
    BY <2>1 DEF ScanSkips, Live
  <2>2. CASE ScanClaims
    <3>1. tok'[Head(pq)].revoked /\ UNCHANGED registered
      BY <2>2, <1>4, Marked DEF ScanClaims, Inv
    <3> QED
      BY <3>1
  <2> QED
    BY <2>1, <2>2
<1> QED
  BY <1>3, <1>4, <1>5

\* No step loses a live token, or schedules one twice.
LEMMA ScheduledStep ==
  ASSUME Inv, Scheduled, [Next]_vars
  PROVE  Scheduled'
<1> USE DEF Inv
<1>0. \A t \in Token : Live(t)' /\ t \in registered => Live(t)
  BY FlagsStay DEF Live
<1>1. CASE UNCHANGED <<pq, registered>>
  <2>1. \A t \in Token : Live(t)' => Live(t)
    BY <1>0, <1>1 DEF Live
  <2> QED
    BY <1>1, <2>1 DEF Scheduled, Distinct, Elements
<1>2. ASSUME NEW c \in Client, Add(c) PROVE Scheduled'
  <2>1. \A t \in Token : Live(t)' => Live(t) \/ t = client[c].token
    BY <1>0, <1>2, AddPushes DEF Live
  <2>2. Distinct(pq)' /\ (Elements(pq))' = Elements(pq) \cup {client[c].token}
    BY <1>2, AddPushes DEF Distinct, Elements
  <2>3. registered' = registered \cup {client[c].token}
    BY <1>2, AddPushes
  <2> QED
    BY <2>1, <2>2, <2>3 DEF Scheduled
<1>3. CASE ScanSkips \/ ScanClaims
  <2>1. UNCHANGED registered /\ \A t \in Token : Live(t)' => Live(t) /\ t # Head(pq)
    BY <1>0, <1>3, ScanPops DEF Live
  <2>2. Distinct(pq)' /\ (Elements(pq))' = Elements(pq) \ {Head(pq)}
    BY <1>3, ScanPops DEF Distinct, Elements
  <2> QED
    BY <2>1, <2>2 DEF Scheduled
<1> QED
  BY <1>1, <1>2, <1>3, QueueKinds

\* The array holds every live token, from the first step on.
LEMMA ScheduledHolds == Spec => [](Inv /\ Scheduled)
<1>1. Init => Inv /\ Scheduled
  <2>1. Init => Scheduled
    BY DEF Init, Scheduled, Distinct, Elements, Live
  <2> QED
    BY <2>1, TypeInit, RegistrationInit DEF Inv
<1>2. Inv /\ Scheduled /\ [Next]_vars => (Inv /\ Scheduled)'
  BY TypeStep, RegistrationStep, ScheduledStep DEF Inv
<1> QED
  BY <1>1, <1>2, PTL DEF Spec

\* An array without repetitions that holds t holds it in one place.
LEMMA HeldOnce ==
  ASSUME NEW T, NEW h \in Seq(T), Distinct(h), NEW t \in Elements(h)
  PROVE  Cardinality({i \in DOMAIN h : h[i] = t}) = 1
<1>1. PICK i \in 1..Len(h) : h[i] = t
  BY DEF Elements
<1>2. {j \in DOMAIN h : h[j] = t} = {i}
  BY <1>1 DEF Distinct
<1> QED
  BY <1>2, FS_Singleton

\* The worker can find every live token, once, whatever requests and scans have
\* done to the heap, and however extensions have disordered it.
THEOREM NeverUnscheduledHolds == Spec => []NeverUnscheduled
<1>1. Inv /\ Scheduled => NeverUnscheduled
  BY HeldOnce DEF Inv, TypeInv, TypeOK, Scheduled, NeverUnscheduled
<1> QED
  BY <1>1, ScheduledHolds, PTL

-----------------------------------------------------------------------------
(* The scan.                                                               *)

\* Only an extension disorders the heap.
InOrderUnlessExtended ==
  (\A t \in Token : tok[t].extensions = 0) => HeapOrdered(Expiry, pq)

\* No step takes an extension back.
LEMMA ExtensionsStay ==
  ASSUME TypeInv, [Next]_vars, NEW t \in Token
  PROVE  \/ tok'[t].extensions = tok[t].extensions
         \/ tok'[t].extensions = tok[t].extensions + 1
<1> USE DEF TypeInv
<1>1. ASSUME NEW x \in Token, NEW e \in Nat, Bump(x, e)
      PROVE  \/ tok'[t].extensions = tok[t].extensions
             \/ tok'[t].extensions = tok[t].extensions + 1
  BY <1>1 DEF Bump, TypeOK, TokenRecord
<1>2. CASE MarkWarnings
  <2> DEFINE due == {x \in registered : NeedsWarning(x)}
  <2>1. tok' = [x \in Token |-> [tok[x] EXCEPT !.notified = @ \/ x \in due]]
    BY <1>2 DEF MarkWarnings
  <2> HIDE DEF due
  <2> QED
    BY <2>1 DEF TypeOK, TokenRecord
<1>3. ASSUME NEW x \in Token, Notify(x) PROVE UNCHANGED tok
  BY <1>3 DEF Notify, storeVars
<1> QED
  BY <1>1, <1>2, <1>3, WarningKinds DEF NoWarning

\* Without extensions no key changes while its token is queued.
LEMMA KeysStay ==
  ASSUME Inv, Scheduled, [Next]_vars, \A t \in Token : tok'[t].extensions = 0,
         NEW x \in Elements(pq)
  PROVE  Expiry[x] = (Expiry')[x]
<1>1. x \in Token /\ x \in registered
  BY DEF Scheduled, Inv, TypeInv, TypeOK
<1>2. ASSUME NEW e \in Nat, Extends(x, e) PROVE FALSE
  <2>1. tok'[x].extensions = tok[x].extensions + 1 /\ tok[x].extensions \in Nat
    BY <1>1, <1>2 DEF Extends, Bump, Inv, TypeInv, TypeOK, TokenRecord
  <2> QED
    BY <1>1, <2>1
<1>3. tok'[x].expiresAt = tok[x].expiresAt
  BY <1>1, <1>2, KnownRecord
<1> QED
  BY <1>1, <1>3 DEF Expiry

\* As long as nobody extends, the heap stays in order.
LEMMA InOrderStep ==
  ASSUME Inv, Scheduled, InOrderUnlessExtended, [Next]_vars
  PROVE  InOrderUnlessExtended'
<1> SUFFICES ASSUME \A t \in Token : tok'[t].extensions = 0
             PROVE  HeapOrdered(Expiry', pq')
  BY DEF InOrderUnlessExtended, HeapOrdered, Less
<1> USE DEF Inv
<1>1. \A t \in Token : tok[t].extensions = 0
  <2> SUFFICES ASSUME NEW t \in Token PROVE tok[t].extensions = 0
    OBVIOUS
  <2>1. tok[t].extensions \in Nat /\ tok'[t].extensions = 0
    BY DEF TypeInv, TypeOK, TokenRecord
  <2> QED
    BY <2>1, ExtensionsStay
<1>2. HeapOrdered(Expiry, pq)
  BY <1>1 DEF InOrderUnlessExtended
<1>3. HeapOrdered(Expiry, pq') /\ Elements(pq') \subseteq Elements(pq) \cup registered'
  <2>1. CASE UNCHANGED <<pq, registered>>
    BY <1>2, <2>1
  <2>2. CASE \E c \in Client : Add(c)
    BY <1>2, <2>2, AddPushes
  <2>3. CASE ScanSkips \/ ScanClaims
    BY <1>2, <2>3, ScanPops
  <2> QED
    BY <2>1, <2>2, <2>3, QueueKinds
<1>4. \A x \in Elements(pq') : Expiry[x] = (Expiry')[x]
  <2>1. CASE Elements(pq') \subseteq Elements(pq)
    BY <2>1, KeysStay
  <2>2. CASE \E c \in Client : Add(c)
    <3>1. PICK c \in Client : Add(c)
      BY <2>2
    <3> DEFINE t == client[c].token
    <3>2. Elements(pq') = Elements(pq) \cup {t} /\ t \in Token
      BY <3>1, AddPushes
    <3>3. tok'[t].expiresAt = tok[t].expiresAt
      BY <3>1, <3>2 DEF Add, TypeInv, TypeOK, TokenRecord
    <3> QED
      BY <3>2, <3>3, KeysStay DEF Expiry
  <2> QED
    BY <2>1, <2>2, QueueKinds, ScanPops
<1>5. pq' \in Seq(Token)
  BY TypeStep DEF TypeInv, TypeOK
<1> QED
  BY <1>3, <1>4, <1>5, OrderLooksAtElements

\* As long as no token has been extended, a scan that ends leaves nothing behind
\* that was due at its tick, which is what Run's comment promises (store.go,
\* 302-305); the first extension writes a key in place and ends that.
THEOREM ScanCompleteHolds == Spec => ScanCompleteUnlessExtended
<1> DEFINE I == Inv /\ Scheduled /\ InOrderUnlessExtended
           A == ScanFinishes /\ (\A t \in Token : tok[t].extensions = 0) => NothingDue
<1>1. Init => I
  <2>1. Init => Scheduled /\ InOrderUnlessExtended
    BY DEF Init, Scheduled, Distinct, Elements, Live, InOrderUnlessExtended, HeapOrdered
  <2> QED
    BY <2>1, TypeInit, RegistrationInit DEF Inv
<1>2. I /\ [Next]_vars => I'
  BY TypeStep, RegistrationStep, ScheduledStep, InOrderStep DEF Inv
<1>3. I /\ [Next]_vars => [A]_vars
  <2> SUFFICES ASSUME I, [Next]_vars, ScanFinishes, \A t \in Token : tok[t].extensions = 0,
                      NEW t \in Token, Live(t)
               PROVE  tok[t].expiresAt > worker.tick
    BY DEF NothingDue
  <2>1. ScanEnds
    <3>1. worker.pc = "scan" /\ worker'.pc = "idle" /\ ~UNCHANGED worker
      BY DEF ScanFinishes
    <3>2. ASSUME NEW c \in Client, ClientStarts(c) \/ ClientContinues(c) PROVE UNCHANGED worker
      BY <3>2 DEF ClientStarts, ClientContinues, Grant, ExtendNormal, ExtendClamped,
           ExtendForcesRevocation, RevokeNow, Add, Reissue, ReissueFails, SwapSecret,
           ManualRevoke, ForceRevoke
    <3>3. TickerFires \/ Tick \/ Cancel \/ UNCHANGED vars => UNCHANGED worker
      BY DEF TickerFires, Tick, Cancel, vars
    <3>4. ~ScanClaims
      BY <3>1 DEF ScanClaims, Inv, TypeInv, TypeOK, WorkerRecord
    <3> QED
      BY <3>1, <3>2, <3>3, <3>4 DEF Next, Worker, WorkerWakes, WorkerStops, MarkWarnings,
         Notify, ScanSkips, AutoRevoke
  <2>2. t \in Elements(pq) /\ pq \in Seq(Token) /\ HeapOrdered(Expiry, pq)
    BY DEF Scheduled, InOrderUnlessExtended, Inv, TypeInv, TypeOK
  <2>3. Expiry \in [Token -> Int]
    BY DEF Expiry, Inv, TypeInv, TypeOK, TokenRecord
  <2>4. PICK i \in 1..Len(pq) : pq[i] = t
    BY <2>2 DEF Elements
  <2>5. Expiry[pq[1]] <= Expiry[t]
    BY <2>2, <2>3, <2>4, RootIsEarliest
  <2>6. pq # << >> /\ Head(pq) = pq[1] /\ pq[1] \in Token
    BY <2>2, <2>4
  <2>7. /\ Expiry[t] = tok[t].expiresAt /\ Expiry[pq[1]] = tok[pq[1]].expiresAt
        /\ Expiry[t] \in Int /\ Expiry[pq[1]] \in Int /\ worker.tick \in Int
    BY <2>3, <2>6 DEF Expiry, Inv, TypeInv, TypeOK, WorkerRecord
  <2>8. ~(tok[pq[1]].expiresAt <= worker.tick)
    BY <2>1, <2>6 DEF ScanEnds, TopIsDue
  <2> QED
    BY <2>5, <2>7, <2>8
<1>4. ScanCompleteUnlessExtended <=> [][A]_vars
  BY DEF ScanCompleteUnlessExtended
<1> QED
  BY <1>1, <1>2, <1>3, <1>4, PTL DEF Spec

-----------------------------------------------------------------------------
(* The length of a scan.                                                   *)

\* What a scan on the present tick can still come across: the tokens due at the
\* tick that are queued or that a request is about to queue.
Overdue ==
  {t \in Token :
     /\ tok[t].expiresAt <= worker.tick
     /\ t \in Elements(pq) \/ \E c \in Client : client[c].pc = "add" /\ client[c].token = t}

\* The expiry in a record is never brought forward to a time that has passed.
LEMMA ExpiryMoves ==
  ASSUME TypeInv, [Next]_vars, NEW t \in Token
  PROVE  tok'[t].expiresAt >= tok[t].expiresAt \/ tok'[t].expiresAt > now
<1> USE DEF TypeInv
<1>0. tok \in [Token -> TokenRecord] /\ tok[t].expiresAt \in Nat /\ now \in Nat
  BY DEF TypeOK, TokenRecord
<1>1. ASSUME NEW c \in Client, NEW x \in Token, NEW ttl \in GrantTTL, Grant(c, x, ttl)
      PROVE  tok'[t].expiresAt = tok[t].expiresAt \/ tok'[t].expiresAt > now
  <2>1. now + ttl > now
    BY <1>0, TimesAssumption
  <2> QED
    BY <1>1, <2>1, GrantWrites
<1>2. ASSUME NEW x \in Token, NEW e \in Nat, Bump(x, e), e >= tok[x].expiresAt \/ e > now
      PROVE  tok'[t].expiresAt >= tok[t].expiresAt \/ tok'[t].expiresAt > now
  <2>1. x = t => tok'[t].expiresAt = e
    BY <1>0, <1>2 DEF Bump, TokenRecord
  <2>2. x # t => tok'[t].expiresAt = tok[t].expiresAt
    BY <1>0, <1>2 DEF Bump
  <2> QED
    BY <1>0, <1>2, <2>1, <2>2
<1>3. ASSUME NEW c \in Client, NEW x \in Token, ExtendNormal(c, x) \/ ExtendClamped(c, x)
      PROVE  \E e \in Nat : Bump(x, e) /\ (e >= tok[x].expiresAt \/ e > now)
  <2>0. tok[x].expiresAt \in Nat /\ tok[x].originalIssuedAt \in Nat
    BY <1>0 DEF TokenRecord
  <2>1. /\ NewExpiry(x) \in Nat /\ NewExpiry(x) >= tok[x].expiresAt
        /\ Ceiling(x) \in Nat
    BY <2>0, TimesAssumption DEF NewExpiry, Ceiling
  <2>2. CASE ExtendNormal(c, x)
    BY <2>1, <2>2 DEF ExtendNormal
  <2>3. CASE ExtendClamped(c, x)
    <3>1. Bump(x, Ceiling(x)) /\ Ceiling(x) > now
      BY <1>0, <2>1, <2>3 DEF ExtendClamped
    <3> QED
      BY <2>1, <3>1
  <2> QED
    BY <1>3, <2>2, <2>3
<1>4. ASSUME NEW c \in Client, Add(c) \/ SwapSecret(c)
      PROVE  tok'[t].expiresAt = tok[t].expiresAt
  <2>1. CASE Add(c)
    BY <2>1 DEF Add, TypeOK, TokenRecord
  <2>2. CASE SwapSecret(c)
    BY <2>2 DEF SwapSecret, TypeOK, TokenRecord
  <2> QED
    BY <1>4, <2>1, <2>2
<1>5. MarkWarnings => tok'[t].expiresAt = tok[t].expiresAt
  BY DEF MarkWarnings, TypeOK, TokenRecord
<1>6. ASSUME NEW x \in Token, NEW by, MarkRevoked(x, by)
      PROVE  tok'[t].expiresAt = tok[t].expiresAt
  BY <1>6 DEF MarkRevoked, TypeOK, TokenRecord
<1>7. ScanClaims => MarkRevoked(Head(pq), "auto") /\ Head(pq) \in Token
  BY EmptySeq DEF ScanClaims, TopIsDue, TypeOK
<1>8. ASSUME NEW c \in Client, NEW x \in Token, ExtendForcesRevocation(c, x) \/ RevokeNow(c, x)
      PROVE  \E by : MarkRevoked(x, by)
  BY <1>8 DEF ExtendForcesRevocation, RevokeNow
<1>9. ASSUME \/ \E c \in Client : \/ Reissue(c) \/ ReissueFails(c)
                                  \/ ManualRevoke(c) \/ ForceRevoke(c)
             \/ WorkerWakes \/ WorkerStops \/ (\E x \in Token : Notify(x))
             \/ ScanEnds \/ ScanSkips \/ AutoRevoke
             \/ TickerFires \/ Tick \/ Cancel \/ UNCHANGED vars
      PROVE  UNCHANGED tok
  BY <1>9 DEF Reissue, ReissueFails, ManualRevoke, ForceRevoke, WorkerWakes, WorkerStops,
       Notify, ScanEnds, ScanSkips, AutoRevoke, TickerFires, Tick, Cancel, vars, storeVars
<1>10. ASSUME NEW c \in Client, NEW x \in Token, ExtendNormal(c, x) \/ ExtendClamped(c, x)
       PROVE  tok'[t].expiresAt >= tok[t].expiresAt \/ tok'[t].expiresAt > now
  BY <1>2, <1>3, <1>10
<1>11. tok'[t].expiresAt = tok[t].expiresAt
         => tok'[t].expiresAt >= tok[t].expiresAt \/ tok'[t].expiresAt > now
  BY <1>0
<1> QED
  BY <1>1, <1>4, <1>5, <1>6, <1>7, <1>8, <1>9, <1>10, <1>11
     DEF Next, ClientStarts, ClientContinues, Worker

\* While the worker holds its tick, nothing becomes overdue: a new token is
\* granted past the tick, and an extension moves its token away from it.
LEMMA OverdueShrinks ==
  ASSUME Inv, Scheduled, Reasons, [Next]_vars, worker'.tick = worker.tick
  PROVE  Overdue' \subseteq Overdue
<1> USE DEF Inv, TypeInv
<1> SUFFICES ASSUME NEW t \in Token, t \in Overdue' PROVE t \in Overdue
  BY DEF Overdue
<1>1. worker.tick \in Nat /\ now \in Nat /\ worker.tick <= now
  BY DEF Reasons, TypeOK, WorkerRecord
<1>2. tok'[t].expiresAt <= worker.tick
  BY DEF Overdue
<1>3. tok[t].expiresAt <= worker.tick
  <2>1. tok[t].expiresAt \in Nat /\ tok'[t].expiresAt \in Nat
    BY TypeStep DEF TypeOK, TokenRecord
  <2> QED
    BY <1>1, <1>2, <2>1, ExpiryMoves
<1>4. ASSUME t \in (Elements(pq))'
      PROVE  t \in Elements(pq) \/ \E c \in Client : client[c].pc = "add" /\ client[c].token = t
  <2>1. ASSUME NEW c \in Client, Add(c) PROVE (Elements(pq))' = Elements(pq) \cup {client[c].token}
    BY <2>1, AddPushes DEF Elements
  <2>2. ScanSkips \/ ScanClaims => (Elements(pq))' = Elements(pq) \ {Head(pq)}
    BY ScanPops DEF Elements
  <2>3. UNCHANGED pq => (Elements(pq))' = Elements(pq)
    BY DEF Elements
  <2>4. \A c \in Client : Add(c) => client[c].pc = "add"
    BY DEF Add
  <2> QED
    BY <1>4, <2>1, <2>2, <2>3, <2>4, QueueKinds
<1>5. ASSUME NEW c \in Client, client'[c].pc = "add", client'[c].token = t
      PROVE  client[c].pc = "add" /\ client[c].token = t
  <2> SUFFICES ASSUME client'[c] # client[c] PROVE FALSE
    BY <1>5
  <2>1. PICK ttl \in GrantTTL : Grant(c, t, ttl)
    BY <1>5, AddFollowsGrant
  <2>2. tok'[t].expiresAt = now + ttl
    BY <2>1, GrantWrites
  <2> QED
    BY <1>1, <1>2, <2>2, TimesAssumption
<1> QED
  BY <1>3, <1>4, <1>5 DEF Overdue

\* Each turn of the scan's loop uses up one of them.
LEMMA PopUsesUp ==
  ASSUME Inv, Scheduled, Reasons, [Next]_vars, worker'.tick = worker.tick,
         ScanSkips \/ ScanClaims
  PROVE  Cardinality(Overdue') < Cardinality(Overdue)
<1> DEFINE h == Head(pq)
<1>1. h \in Token /\ pq # << >> /\ pq \in Seq(Token) /\ tok[h].expiresAt <= worker.tick
  BY ScanPops DEF ScanSkips, ScanClaims, TopIsDue, Inv, TypeInv, TypeOK
<1>2. h \in Elements(pq)
  BY <1>1 DEF Elements
<1>3. h \in Overdue
  BY <1>1, <1>2 DEF Overdue
<1>4. h \notin Overdue'
  <2>1. h \notin (Elements(pq))'
    BY ScanPops DEF Elements
  <2>2. UNCHANGED client /\ h \in registered
    BY <1>2 DEF ScanSkips, ScanClaims, Scheduled
  <2>3. \A c \in Client : ~(client'[c].pc = "add" /\ client'[c].token = h)
    BY <2>2 DEF Inv, Registration
  <2> QED
    BY <2>1, <2>3 DEF Overdue
<1> HIDE DEF h
<1>5. IsFiniteSet(Overdue) /\ Overdue' \subseteq Overdue \ {h}
  <2>1. Overdue \subseteq Token
    BY DEF Overdue
  <2> QED
    BY <1>4, <2>1, OverdueShrinks, TokensAssumption, FS_Subset
<1>6. IsFiniteSet(Overdue \ {h}) /\ Cardinality(Overdue \ {h}) = Cardinality(Overdue) - 1
  BY <1>3, <1>5, FS_RemoveElement
<1>7. Cardinality(Overdue') <= Cardinality(Overdue \ {h}) /\ Cardinality(Overdue) \in Nat
  BY <1>5, <1>6, FS_Subset, FS_CardinalityType
<1>8. Cardinality(Overdue') \in Nat
  BY <1>5, <1>6, FS_Subset, FS_CardinalityType
<1> QED
  BY <1>6, <1>7, <1>8

\* However many requests grant, extend and revoke while revokeExpired
\* (store.go, 355-397) is at the provider with the mutex released, they cannot
\* keep its loop going: it turns at most once for each token that was due, queued
\* or on its way into the queue, when the worker took its tick.
THEOREM ScanBounded ==
  Spec => [][worker'.tick = worker.tick =>
               /\ Overdue' \subseteq Overdue
               /\ ScanSkips \/ ScanClaims => Cardinality(Overdue') < Cardinality(Overdue)]_vars
<1> DEFINE A == worker'.tick = worker.tick =>
                  /\ Overdue' \subseteq Overdue
                  /\ ScanSkips \/ ScanClaims => Cardinality(Overdue') < Cardinality(Overdue)
<1>1. Inv /\ Scheduled /\ Reasons /\ [Next]_vars => A
  BY OverdueShrinks, PopUsesUp
<1>2. Inv /\ Reasons /\ [Next]_vars => Reasons'
  BY ReasonsStep
<1> QED
  BY <1>1, <1>2, ReasonsInit, InvHolds, ScheduledHolds, PTL DEF Spec

-----------------------------------------------------------------------------
(* The secrets of a token: how many there are, and which of them is dead.  *)

\* The requests that have still to ask the provider for t's next secret.
Issuing(t) ==
  {c \in Client : client[c].token = t /\ client[c].pc \in {"reissue", "reissueClamped"}}

\* The first secret came with the grant, and every other one, issued or still to
\* be issued, is paid for by an extension the record has counted.
SecretsCounted ==
  \A t \in Token :
    /\ IsFiniteSet(Issuing(t)) /\ (Issuing(t) # {} => t \in registered)
    /\ Len(leases[t]) + Cardinality(Issuing(t)) <= tok[t].extensions + 1

\* A record, and a request about to write one, names a secret that was issued;
\* so the one that a successful revocation named is among them, and dead.
SecretsKnown ==
  \A t \in Token :
    /\ (t \in registered \/ \E c \in Client : client[c].pc = "add" /\ client[c].token = t)
         => tok[t].secret \in DOMAIN leases[t]
    /\ \A c \in Client : client[c].pc = "swap" /\ client[c].token = t
         => client[c].secret \in DOMAIN leases[t]
    /\ answer[t] = "ok" => \E i \in DOMAIN leases[t] : leases[t][i].killed

\* The secret in a record is written by its grant and by the second critical
\* section of an Extend.
LEMMA SecretKinds ==
  ASSUME TypeInv, [Next]_vars, NEW t \in Token
  PROVE  \/ tok'[t].secret = tok[t].secret
         \/ \E c \in Client, ttl \in GrantTTL : Grant(c, t, ttl)
         \/ \E c \in Client : /\ client[c].pc = "swap" /\ client[c].token = t
                              /\ tok'[t].secret = client[c].secret
<1> USE DEF TypeInv
<1>1. ASSUME NEW c \in Client, NEW x \in Token, NEW ttl \in GrantTTL, Grant(c, x, ttl)
      PROVE  x = t \/ tok'[t].secret = tok[t].secret
  <2>1. x = t \/ tok'[t] = tok[t]
    BY <1>1, GrantWrites
  <2> QED
    BY <2>1
<1>2. ASSUME NEW c \in Client, NEW x \in Token, ExtendNormal(c, x) \/ ExtendClamped(c, x)
      PROVE  tok'[t].secret = tok[t].secret
  <2>1. PICK e : Bump(x, e)
    BY <1>2 DEF ExtendNormal, ExtendClamped
  <2> QED
    BY <2>1 DEF Bump, TypeOK, TokenRecord
<1>3. ASSUME NEW x \in Token, NEW by, MarkRevoked(x, by)
      PROVE  tok'[t].secret = tok[t].secret
  BY <1>3 DEF MarkRevoked, TypeOK, TokenRecord
<1>4. ASSUME NEW c \in Client, Add(c) PROVE tok'[t].secret = tok[t].secret
  BY <1>4 DEF Add, TypeOK, TokenRecord
<1>5. ASSUME NEW c \in Client, SwapSecret(c)
      PROVE  \/ tok'[t].secret = tok[t].secret
             \/ /\ client[c].pc = "swap" /\ client[c].token = t
                /\ tok'[t].secret = client[c].secret
  BY <1>5 DEF SwapSecret, TypeOK, TokenRecord
<1>6. MarkWarnings => tok'[t].secret = tok[t].secret
  BY DEF MarkWarnings, TypeOK, TokenRecord
<1>7. ASSUME \/ \E c \in Client : \/ Reissue(c) \/ ReissueFails(c)
                                  \/ ManualRevoke(c) \/ ForceRevoke(c)
             \/ WorkerWakes \/ WorkerStops \/ (\E x \in Token : Notify(x))
             \/ ScanEnds \/ ScanSkips \/ AutoRevoke
             \/ TickerFires \/ Tick \/ Cancel \/ UNCHANGED vars
      PROVE  UNCHANGED tok
  BY <1>7 DEF Reissue, ReissueFails, ManualRevoke, ForceRevoke, WorkerWakes, WorkerStops,
       Notify, ScanEnds, ScanSkips, AutoRevoke, TickerFires, Tick, Cancel, vars, storeVars
<1>8. ScanClaims => MarkRevoked(Head(pq), "auto") /\ Head(pq) \in Token
  BY EmptySeq DEF ScanClaims, TopIsDue, TypeOK
<1>9. ASSUME NEW c \in Client, NEW x \in Token, ExtendForcesRevocation(c, x) \/ RevokeNow(c, x)
      PROVE  \E by : MarkRevoked(x, by)
  BY <1>9 DEF ExtendForcesRevocation, RevokeNow
<1> QED
  BY <1>1, <1>2, <1>3, <1>4, <1>5, <1>6, <1>7, <1>8, <1>9
     DEF Next, ClientStarts, ClientContinues, Worker

\* Success is recorded in the step that kills the secret in the record, by
\* whoever is responsible for the token.
LEMMA AnswerKinds ==
  ASSUME TypeInv, [Next]_vars, NEW t \in Token, answer'[t] = "ok"
  PROVE  \/ answer[t] = "ok"
         \/ /\ leases' = Kill(leases, t, tok[t].secret) /\ UNCHANGED tok
            /\ WorkerOwns(t) \/ \E c \in Client : Owns(c, t)
<1> USE DEF TypeInv
<1>1. ASSUME NEW x \in Token, RevokeSucceeds(x) \/ RevokeLost(x) \/ RevokeFails(x),
             answer[t] # "ok"
      PROVE  x = t /\ leases' = Kill(leases, t, tok[t].secret)
  BY <1>1 DEF RevokeSucceeds, RevokeLost, RevokeFails, TypeOK
<1>2. ASSUME NEW c \in Client, ManualRevoke(c), answer[t] # "ok"
      PROVE  /\ leases' = Kill(leases, t, tok[t].secret) /\ UNCHANGED tok
             /\ Owns(c, t)
  <2>1. client[c].token \in Token
    BY <1>2 DEF ManualRevoke, HoldsToken
  <2>2. /\ UNCHANGED tok /\ client[c].pc = "revoke"
        /\ \/ RevokeSucceeds(client[c].token) \/ RevokeLost(client[c].token)
           \/ RevokeFails(client[c].token)
    BY <1>2 DEF ManualRevoke, storeVars
  <2> QED
    BY <1>1, <1>2, <2>1, <2>2 DEF Owns
<1>3. ASSUME NEW c \in Client, ForceRevoke(c), answer[t] # "ok"
      PROVE  /\ leases' = Kill(leases, t, tok[t].secret) /\ UNCHANGED tok
             /\ Owns(c, t)
  <2>1. client[c].token \in Token
    BY <1>3 DEF ForceRevoke, HoldsToken
  <2>2. /\ UNCHANGED tok /\ client[c].pc = "force"
        /\ \/ RevokeSucceeds(client[c].token)
           \/ answer' = [answer EXCEPT ![client[c].token] = "failed"]
           \/ RevokeFails(client[c].token)
    BY <1>3 DEF ForceRevoke, storeVars
  <2>3. answer' # [answer EXCEPT ![client[c].token] = "failed"]
    BY <1>3, <2>1 DEF TypeOK
  <2> QED
    BY <1>1, <1>3, <2>1, <2>2, <2>3 DEF Owns
<1>4. ASSUME AutoRevoke, answer[t] # "ok"
      PROVE  /\ leases' = Kill(leases, t, tok[t].secret) /\ UNCHANGED tok
             /\ WorkerOwns(t)
  <2>1. worker.target \in Token
    BY <1>4 DEF AutoRevoke, HoldsToken
  <2>2. /\ UNCHANGED tok /\ worker.pc = "revoke"
        /\ \/ RevokeSucceeds(worker.target) \/ RevokeLost(worker.target)
           \/ RevokeFails(worker.target)
    BY <1>4 DEF AutoRevoke, storeVars
  <2> QED
    BY <1>1, <1>4, <2>1, <2>2 DEF WorkerOwns
<1>5. ASSUME NEW c \in Client, ClientStarts(c) PROVE UNCHANGED answer
  BY <1>5 DEF ClientStarts, Grant, ExtendNormal, ExtendClamped, ExtendForcesRevocation,
       RevokeNow, history
<1>6. ASSUME \/ \E c \in Client : \/ Add(c) \/ Reissue(c) \/ ReissueFails(c) \/ SwapSecret(c)
             \/ WorkerWakes \/ WorkerStops \/ MarkWarnings
             \/ (\E x \in Token : Notify(x)) \/ ScanEnds \/ ScanSkips \/ ScanClaims
             \/ TickerFires \/ Tick \/ Cancel \/ UNCHANGED vars
      PROVE  UNCHANGED answer
  BY <1>6 DEF Add, Reissue, ReissueFails, SwapSecret, WorkerWakes, WorkerStops,
       MarkWarnings, Notify, ScanEnds, ScanSkips, ScanClaims, TickerFires, Tick, Cancel,
       vars, history
<1> QED
  BY <1>2, <1>3, <1>4, <1>5, <1>6 DEF Next, ClientContinues, Worker

\* Issuing adds one secret to one token's list; revoking changes no length,
\* revives none, and kills the one it names.
LEMMA LeaseCounts ==
  ASSUME NEW L \in [Token -> Seq(Lease)], NEW t \in Token, NEW x \in Token
  PROVE  /\ \A u \in Nat :
              /\ x # t => Issue(L, x, u)[t] = L[t]
              /\ Len(Issue(L, t, u)[t]) = Len(L[t]) + 1
         /\ \A i \in Nat :
              /\ DOMAIN Kill(L, x, i)[t] = DOMAIN L[t]
              /\ Len(Kill(L, x, i)[t]) = Len(L[t])
              /\ \A j \in DOMAIN L[t] :
                   L[t][j].killed \/ (x = t /\ j = i) => Kill(L, x, i)[t][j].killed
<1>1. ASSUME NEW u \in Nat
      PROVE  /\ x # t => Issue(L, x, u)[t] = L[t]
             /\ Len(Issue(L, t, u)[t]) = Len(L[t]) + 1
  <2> DEFINE l == [until |-> u, killed |-> FALSE]
  <2>1. Issue(L, t, u)[t] = Append(L[t], l) /\ L[t] \in Seq(Lease)
    BY DEF Issue
  <2>2. l \in Lease
    BY DEF Lease
  <2> HIDE DEF l
  <2>3. Len(Issue(L, t, u)[t]) = Len(L[t]) + 1
    BY <2>1, <2>2
  <2> QED
    BY <2>3 DEF Issue
<1>2. ASSUME NEW i \in Nat
      PROVE  /\ DOMAIN Kill(L, x, i)[t] = DOMAIN L[t]
             /\ Len(Kill(L, x, i)[t]) = Len(L[t])
             /\ \A j \in DOMAIN L[t] :
                  L[t][j].killed \/ (x = t /\ j = i) => Kill(L, x, i)[t][j].killed
  <2>1. DOMAIN Kill(L, x, i)[t] = DOMAIN L[t]
    BY DEF Kill
  <2>2. L[t] \in Seq(Lease) /\ Kill(L, x, i)[t] \in Seq(Lease)
    BY KillType
  <2>3. Len(Kill(L, x, i)[t]) = Len(L[t])
    BY <2>1, <2>2
  <2>4. ASSUME NEW j \in DOMAIN L[t], L[t][j].killed \/ (x = t /\ j = i)
        PROVE  Kill(L, x, i)[t][j].killed
    <3>1. L[t][j] \in Lease
      BY <2>2
    <3> QED
      BY <2>4, <3>1 DEF Kill, Lease
  <2> QED
    BY <2>1, <2>3, <2>4
<1> QED
  BY <1>1, <1>2

\* What the provider has of a token only grows, and the dead stay dead.
LEMMA LeaseGrows ==
  ASSUME TypeInv, [Next]_vars, NEW t \in Token, NEW i \in DOMAIN leases[t]
  PROVE  /\ i \in DOMAIN leases'[t]
         /\ leases[t][i].killed => leases'[t][i].killed
<1> USE DEF TypeInv
<1>1. leases \in [Token -> Seq(Lease)] /\ leases[t] \in Seq(Lease)
  BY DEF TypeOK
<1>2. ASSUME NEW x \in Token, NEW u \in Nat
      PROVE  i \in DOMAIN Issue(leases, x, u)[t] /\ Issue(leases, x, u)[t][i] = leases[t][i]
  <2>1. CASE x = t
    <3> DEFINE l == [until |-> u, killed |-> FALSE]
    <3>1. Issue(leases, x, u)[t] = Append(leases[t], l) /\ l \in Lease
      BY <1>1, <2>1 DEF Issue, Lease
    <3> HIDE DEF l
    <3> QED
      BY <1>1, <3>1
  <2>2. CASE x # t
    BY <1>1, <2>2 DEF Issue
  <2> QED
    BY <2>1, <2>2
<1>3. \A x \in Token, k \in Nat :
        /\ i \in DOMAIN Kill(leases, x, k)[t]
        /\ leases[t][i].killed => Kill(leases, x, k)[t][i].killed
  BY <1>1, LeaseCounts
<1>4. (\A ttl \in GrantTTL : LeaseUntil(now, ttl) \in Nat) /\ \A x \in Token : tok[x].secret \in Nat
  BY GrantLeaseType DEF TypeOK, TokenRecord
<1> QED
  BY <1>2, <1>3, <1>4, LeaseKinds

\* The four things a step can mean to the secrets of t: an extension is granted,
\* one of those granted asks the provider, the first secret is handed out, or
\* the count is as before.
Promised(c, t) ==
  /\ Live(t) /\ c \notin Issuing(t) /\ Issuing(t)' = Issuing(t) \cup {c}
  /\ tok'[t].extensions = tok[t].extensions + 1
  /\ UNCHANGED leases

Asked(c, t) ==
  /\ c \in Issuing(t) /\ Issuing(t)' = Issuing(t) \ {c}
  /\ leases'[t] = leases[t] \/ Len(leases'[t]) = Len(leases[t]) + 1

HandedOut(t) ==
  Issuing(t)' = Issuing(t) /\ leases[t] = << >> /\ Len(leases'[t]) = 1

SameCount(t) ==
  Issuing(t)' = Issuing(t) /\ Len(leases'[t]) = Len(leases[t])

\* Extend's first critical section puts its request among those still to ask.
LEMMA ExtendPromises ==
  ASSUME TypeInv, NEW c \in Client, NEW x \in Token, NEW t \in Token,
         ExtendNormal(c, x) \/ ExtendClamped(c, x)
  PROVE  Promised(c, t) \/ SameCount(t)
<1> USE DEF TypeInv
<1>1. /\ client[c].pc = "idle" /\ Live(x) /\ UNCHANGED leases
      /\ \E u : Goto(c, "reissue", x, u, 0) \/ Goto(c, "reissueClamped", x, u, 0)
      /\ \E e : Bump(x, e)
  BY DEF ExtendNormal, ExtendClamped
<1>2. /\ client'[c].token = x /\ client'[c].pc \in {"reissue", "reissueClamped"}
      /\ \A d \in Client \ {c} : client'[d] = client[d]
  BY <1>1 DEF Goto, TypeOK
<1>3. CASE x = t
  <2>1. tok'[t].extensions = tok[t].extensions + 1
    BY <1>1, <1>3 DEF Bump, TypeOK, TokenRecord
  <2>2. c \notin Issuing(t) /\ Issuing(t)' = Issuing(t) \cup {c}
    BY <1>1, <1>2, <1>3 DEF Issuing
  <2> QED
    BY <1>1, <1>3, <2>1, <2>2 DEF Promised
<1>4. CASE x # t
  BY <1>1, <1>2, <1>4 DEF Issuing, SameCount
<1> QED
  BY <1>3, <1>4

\* Whether the provider answers or not, the request that asked asks no more.
LEMMA ReissueAsks ==
  ASSUME TypeInv, NEW c \in Client, NEW t \in Token, Reissue(c) \/ ReissueFails(c)
  PROVE  Asked(c, t) \/ SameCount(t)
<1> USE DEF TypeInv
<1>1. /\ client[c].token \in Token /\ client[c].pc \in {"reissue", "reissueClamped"}
      /\ UNCHANGED leases \/ leases' = Issue(leases, client[c].token, LeaseEnd(c))
      /\ client'[c].pc \in {"swap", "idle"}
      /\ \A d \in Client \ {c} : client'[d] = client[d]
  BY DEF Reissue, ReissueFails, HoldsToken, Goto, Return, Idle, TypeOK
<1>2. LeaseEnd(c) \in Nat /\ leases \in [Token -> Seq(Lease)]
  BY LeaseEndType DEF TypeOK
<1>3. CASE client[c].token = t
  <2>1. c \in Issuing(t) /\ Issuing(t)' = Issuing(t) \ {c}
    BY <1>1, <1>3 DEF Issuing
  <2>2. leases'[t] = leases[t] \/ Len(leases'[t]) = Len(leases[t]) + 1
    BY <1>1, <1>2, <1>3, LeaseCounts
  <2> QED
    BY <2>1, <2>2 DEF Asked
<1>4. CASE client[c].token # t
  <2>1. Issuing(t)' = Issuing(t)
    BY <1>1, <1>4 DEF Issuing
  <2>2. leases'[t] = leases[t]
    BY <1>1, <1>2, <1>4, LeaseCounts
  <2> QED
    BY <2>1, <2>2 DEF SameCount
<1> QED
  BY <1>3, <1>4

\* For one token, every step of the store is of one of these kinds.
LEMMA IssuingKinds ==
  ASSUME TypeInv, [Next]_vars, NEW t \in Token
  PROVE  \/ \E c \in Client : Promised(c, t)
         \/ \E c \in Client : Asked(c, t)
         \/ HandedOut(t)
         \/ SameCount(t)
<1> USE DEF TypeInv
<1>1. ASSUME NEW d \in Client, Return(d) \/ UNCHANGED client,
             client[d].pc \notin {"reissue", "reissueClamped"}
      PROVE  Issuing(t)' = Issuing(t)
  <2>1. CASE Return(d)
    <3>1. client'[d].pc = "idle" /\ \A c \in Client \ {d} : client'[c] = client[c]
      BY <2>1 DEF Return, Idle, TypeOK
    <3> QED
      BY <1>1, <3>1 DEF Issuing
  <2>2. CASE UNCHANGED client
    BY <2>2 DEF Issuing
  <2> QED
    BY <1>1, <2>1, <2>2
<1>2. ASSUME NEW d \in Client, NEW x \in Token, client[d].pc = "idle",
             NEW pc \in {"add", "revoke", "force"}, Goto(d, pc, x, NoTime, 0)
      PROVE  Issuing(t)' = Issuing(t)
  BY <1>2 DEF Goto, Issuing, TypeOK
<1>3. ASSUME NEW c \in Client, NEW x \in Token, NEW ttl \in GrantTTL, Grant(c, x, ttl)
      PROVE  HandedOut(t) \/ SameCount(t)
  <2>1. Issuing(t)' = Issuing(t)
    <3>1. client[c].pc = "idle" /\ (Goto(c, "add", x, NoTime, 0) \/ UNCHANGED client)
      BY <1>3 DEF Grant
    <3>2. UNCHANGED client => Issuing(t)' = Issuing(t)
      BY DEF Issuing
    <3> QED
      BY <1>2, <3>1, <3>2
  <2>2. LeaseUntil(now, ttl) \in Nat /\ leases \in [Token -> Seq(Lease)]
    BY GrantLeaseType DEF TypeOK
  <2>3. leases' = Issue(leases, x, LeaseUntil(now, ttl)) /\ leases[x] = << >>
    BY <1>3 DEF Grant
  <2>4. CASE x = t
    <3>1. Len(leases'[t]) = Len(leases[t]) + 1 /\ leases[t] = << >>
      BY <2>2, <2>3, <2>4, LeaseCounts
    <3> QED
      BY <2>1, <3>1 DEF HandedOut
  <2>5. CASE x # t
    BY <2>1, <2>2, <2>3, <2>5, LeaseCounts DEF SameCount
  <2> QED
    BY <2>4, <2>5
<1>4. ASSUME UNCHANGED leases \/ \E x \in Token : leases' = Kill(leases, x, tok[x].secret)
      PROVE  Len(leases'[t]) = Len(leases[t])
  <2>1. leases \in [Token -> Seq(Lease)] /\ \A x \in Token : tok[x].secret \in Nat
    BY DEF TypeOK, TokenRecord
  <2>2. \A x \in Token : Len(Kill(leases, x, tok[x].secret)[t]) = Len(leases[t])
    BY <2>1, LeaseCounts
  <2> QED
    BY <1>4, <2>2
<1>5. ASSUME NEW c \in Client, ManualRevoke(c) \/ ForceRevoke(c) PROVE SameCount(t)
  <2>1. /\ client[c].token \in Token /\ client[c].pc \in {"revoke", "force"}
        /\ Return(c) \/ UNCHANGED client
        /\ \/ UNCHANGED leases
           \/ leases' = Kill(leases, client[c].token, tok[client[c].token].secret)
    BY <1>5 DEF ManualRevoke, ForceRevoke, HoldsToken, RevokeSucceeds, RevokeLost, RevokeFails
  <2> QED
    BY <1>1, <1>4, <2>1 DEF SameCount
<1>6. ASSUME NEW c \in Client, Add(c) \/ SwapSecret(c) PROVE SameCount(t)
  <2>1. Return(c) /\ client[c].pc \in {"add", "swap"} /\ UNCHANGED leases
    BY <1>6 DEF Add, SwapSecret
  <2> QED
    BY <1>1, <2>1 DEF SameCount
<1>7. ASSUME NEW c \in Client, NEW x \in Token, ExtendForcesRevocation(c, x) \/ RevokeNow(c, x)
      PROVE  SameCount(t)
  <2>1. /\ client[c].pc = "idle" /\ UNCHANGED leases
        /\ Goto(c, "force", x, NoTime, 0) \/ Goto(c, "revoke", x, NoTime, 0)
    BY <1>7 DEF ExtendForcesRevocation, RevokeNow
  <2> QED
    BY <1>2, <2>1 DEF SameCount
<1>8. ASSUME Worker \/ TickerFires \/ Tick \/ Cancel \/ UNCHANGED vars PROVE SameCount(t)
  <2>1. UNCHANGED client
    BY <1>8 DEF Worker, WorkerWakes, WorkerStops, MarkWarnings, Notify, ScanEnds,
         ScanSkips, ScanClaims, AutoRevoke, TickerFires, Tick, Cancel, vars
  <2>2. CASE AutoRevoke
    <3>1. worker.target \in Token
      BY <2>2 DEF AutoRevoke, HoldsToken
    <3>2. \/ UNCHANGED leases
          \/ leases' = Kill(leases, worker.target, tok[worker.target].secret)
      BY <2>2 DEF AutoRevoke, RevokeSucceeds, RevokeLost, RevokeFails
    <3> QED
      BY <1>4, <2>1, <3>1, <3>2 DEF SameCount, Issuing
  <2>3. CASE ~AutoRevoke
    <3>1. UNCHANGED leases
      BY <1>8, <2>3 DEF Worker, WorkerWakes, WorkerStops, MarkWarnings, Notify, ScanEnds,
         ScanSkips, ScanClaims, TickerFires, Tick, Cancel, vars
    <3> QED
      BY <2>1, <3>1 DEF SameCount, Issuing
  <2> QED
    BY <2>2, <2>3
<1> QED
  BY <1>3, <1>5, <1>6, <1>7, <1>8, ExtendPromises, ReissueAsks
     DEF Next, ClientStarts, ClientContinues

\* An extension promises one secret more than before, and asking for it, with
\* whatever answer, uses the promise up.
LEMMA SecretsCountedStep ==
  ASSUME Inv, SecretsCounted, [Next]_vars
  PROVE  SecretsCounted'
<1> USE DEF Inv, TypeInv
<1> SUFFICES ASSUME NEW t \in Token
             PROVE  /\ IsFiniteSet(Issuing(t)') /\ (Issuing(t)' # {} => t \in registered')
                    /\ Len(leases'[t]) + Cardinality(Issuing(t)') <= tok'[t].extensions + 1
  BY DEF SecretsCounted, Issuing
<1> DEFINE n == Cardinality(Issuing(t))
           m == Cardinality(Issuing(t)')
           e == tok[t].extensions
           k == Len(leases[t])
<1>1. /\ IsFiniteSet(Issuing(t)) /\ (Issuing(t) # {} => t \in registered)
      /\ k + n <= e + 1 /\ n \in Nat
  BY FS_CardinalityType DEF SecretsCounted
<1>2. e \in Nat /\ k \in Nat /\ tok'[t].extensions \in Nat /\ (tok'[t].extensions = e \/ tok'[t].extensions = e + 1)
  BY TypeStep, ExtensionsStay DEF TypeOK, TokenRecord
<1>3. t \in registered => t \in registered'
  BY QueueKinds DEF Add, ScanSkips, ScanClaims
<1>4. ASSUME NEW c \in Client, Promised(c, t)
      PROVE  IsFiniteSet(Issuing(t)') /\ m = n + 1 /\ tok'[t].extensions = e + 1 /\ Len(leases'[t]) = k /\ t \in registered
  <2>1. IsFiniteSet(Issuing(t)') /\ m = n + 1
    BY <1>1, <1>4, FS_AddElement DEF Promised
  <2> QED
    BY <1>4, <2>1 DEF Promised, Live
<1>5. ASSUME NEW c \in Client, Asked(c, t)
      PROVE  IsFiniteSet(Issuing(t)') /\ m = n - 1 /\ Len(leases'[t]) \in {k, k + 1} /\ t \in registered
  <2>1. IsFiniteSet(Issuing(t)') /\ m = n - 1
    BY <1>1, <1>5, FS_RemoveElement DEF Asked
  <2> QED
    BY <1>1, <1>5, <2>1 DEF Asked
<1>6. ASSUME HandedOut(t) PROVE Issuing(t)' = {} /\ m = 0 /\ Len(leases'[t]) = 1
  <2>1. Issuing(t)' = {}
    BY <1>1, <1>6 DEF HandedOut, Registration
  <2> QED
    BY <1>6, <2>1, FS_EmptySet DEF HandedOut
<1>7. ASSUME SameCount(t) PROVE Issuing(t)' = Issuing(t) /\ m = n /\ Len(leases'[t]) = k
  BY <1>7 DEF SameCount
<1>8. IsFiniteSet(Issuing(t)') /\ (Issuing(t)' # {} => t \in registered')
  BY <1>1, <1>3, <1>4, <1>5, <1>6, <1>7, IssuingKinds, FS_EmptySet
<1>9. Len(leases'[t]) + m <= tok'[t].extensions + 1
  <2> HIDE DEF n, m, e, k
  <2>1. ASSUME m = n + 1, tok'[t].extensions = e + 1, Len(leases'[t]) = k
        PROVE  Len(leases'[t]) + m <= tok'[t].extensions + 1
    BY <1>1, <1>2, <2>1
  <2>2. ASSUME m = n - 1, Len(leases'[t]) \in {k, k + 1}
        PROVE  Len(leases'[t]) + m <= tok'[t].extensions + 1
    BY <1>1, <1>2, <2>2
  <2>3. ASSUME m = 0, Len(leases'[t]) = 1
        PROVE  Len(leases'[t]) + m <= tok'[t].extensions + 1
    BY <1>2, <2>3
  <2>4. ASSUME m = n, Len(leases'[t]) = k
        PROVE  Len(leases'[t]) + m <= tok'[t].extensions + 1
    BY <1>1, <1>2, <2>4
  <2> QED
    BY <1>4, <1>5, <1>6, <1>7, <2>1, <2>2, <2>3, <2>4, IssuingKinds
<1> QED
  BY <1>8, <1>9

\* Only the provider's answer puts a request before Extend's second critical
\* section, with the secret that was just issued.
LEMMA SwapFollowsReissue ==
  ASSUME TypeInv, [Next]_vars, NEW c \in Client, NEW t \in Token,
         client'[c].pc = "swap", client'[c].token = t
  PROVE  client'[c] = client[c] \/ client'[c].secret \in DOMAIN leases'[t]
<1> USE DEF TypeInv
<1>1. ASSUME NEW d \in Client, Reissue(d)
      PROVE  client'[c] = client[c] \/ client'[c].secret \in DOMAIN leases'[t]
  <2>1. c # d => client'[c] = client[c]
    BY <1>1 DEF Reissue, Goto, TypeOK
  <2>2. CASE c = d
    <3>1. /\ client[c].token = t /\ client'[c].secret = Len(leases[t]) + 1
          /\ leases' = Issue(leases, t, LeaseEnd(c))
      BY <1>1, <2>2 DEF Reissue, Goto, TypeOK
    <3>2. LeaseEnd(c) \in Nat /\ leases \in [Token -> Seq(Lease)]
      BY LeaseEndType DEF TypeOK
    <3>3. Len(Issue(leases, t, LeaseEnd(c))[t]) = Len(leases[t]) + 1
      BY <3>2, LeaseCounts
    <3>4. leases'[t] \in Seq(Lease)
      BY TypeStep DEF TypeOK
    <3>5. Len(leases'[t]) = Len(leases[t]) + 1 /\ Len(leases[t]) \in Nat
      BY <3>1, <3>2, <3>3
    <3>6. DOMAIN leases'[t] = 1..Len(leases'[t])
      BY <3>4
    <3> QED
      BY <3>1, <3>5, <3>6
  <2> QED
    BY <2>1, <2>2
<1>2. ASSUME NEW d \in Client, Return(d) \/ UNCHANGED client
      PROVE  client'[c] = client[c]
  BY <1>2 DEF Return, Idle, TypeOK
<1>3. ASSUME NEW d \in Client, NEW x, NEW u,
             NEW pc \in {"add", "reissue", "reissueClamped", "revoke", "force"},
             Goto(d, pc, x, u, 0)
      PROVE  client'[c] = client[c]
  BY <1>3 DEF Goto, TypeOK
<1>4. ASSUME NEW d \in Client, ClientStarts(d) PROVE client'[c] = client[c]
  BY <1>2, <1>3, <1>4 DEF ClientStarts, Grant, ExtendNormal, ExtendClamped,
       ExtendForcesRevocation, RevokeNow
<1>5. ASSUME NEW d \in Client, ClientContinues(d), ~Reissue(d)
      PROVE  client'[c] = client[c]
  BY <1>2, <1>5 DEF ClientContinues, Add, ReissueFails, SwapSecret, ForceRevoke, ManualRevoke
<1>6. ASSUME Worker \/ TickerFires \/ Tick \/ Cancel \/ UNCHANGED vars PROVE UNCHANGED client
  BY <1>6 DEF Worker, WorkerWakes, WorkerStops, MarkWarnings, Notify, ScanEnds,
       ScanSkips, ScanClaims, AutoRevoke, TickerFires, Tick, Cancel, vars
<1> QED
  BY <1>1, <1>4, <1>5, <1>6 DEF Next

\* Only an issued secret gets into a record or into an extension's hands, and an
\* answer is recorded in the step that kills the one in the record.
LEMMA SecretsKnownStep ==
  ASSUME Inv, Responsible, SecretsKnown, [Next]_vars
  PROVE  SecretsKnown'
<1> USE DEF Inv, TypeInv
<1> SUFFICES ASSUME NEW t \in Token
             PROVE  /\ (t \in registered' \/ \E c \in Client : client'[c].pc = "add"
                                                              /\ client'[c].token = t)
                         => tok'[t].secret \in DOMAIN leases'[t]
                    /\ \A c \in Client : client'[c].pc = "swap" /\ client'[c].token = t
                         => client'[c].secret \in DOMAIN leases'[t]
                    /\ answer'[t] = "ok" => \E i \in DOMAIN leases'[t] : leases'[t][i].killed
  BY DEF SecretsKnown
<1>1. \A c \in Client : client[c].pc = "swap" /\ client[c].token = t
                          => client[c].secret \in DOMAIN leases[t]
  BY DEF SecretsKnown
<1>2. ASSUME t \in registered \/ \E c \in Client : client[c].pc = "add" /\ client[c].token = t
      PROVE  tok'[t].secret \in DOMAIN leases'[t]
  <2>1. tok[t].secret \in DOMAIN leases[t]
    BY <1>2 DEF SecretsKnown
  <2>2. \A c \in Client, ttl \in GrantTTL : ~Grant(c, t, ttl)
    BY <1>2 DEF Grant, Registration
  <2> QED
    BY <1>1, <2>1, <2>2, SecretKinds, LeaseGrows
<1>3. t \in registered' => t \in registered \/ \E c \in Client : client[c].pc = "add" /\ client[c].token = t
  BY QueueKinds DEF Add, ScanSkips, ScanClaims
<1>4. ASSUME NEW c \in Client, client'[c].pc = "add", client'[c].token = t,
             client'[c] # client[c]
      PROVE  tok'[t].secret \in DOMAIN leases'[t]
  <2>1. PICK ttl \in GrantTTL : Grant(c, t, ttl)
    BY <1>4, AddFollowsGrant
  <2>2. tok'[t].secret = 1
    BY <1>4, <2>1, GrantWrites
  <2>3. /\ leases[t] = << >> /\ LeaseUntil(now, ttl) \in Nat
        /\ leases' = Issue(leases, t, LeaseUntil(now, ttl))
    BY <2>1, GrantLeaseType DEF Grant
  <2>4. leases \in [Token -> Seq(Lease)] /\ leases'[t] \in Seq(Lease)
    BY TypeStep DEF TypeOK
  <2>5. \A u \in Nat : Len(Issue(leases, t, u)[t]) = Len(leases[t]) + 1
    BY <2>4, LeaseCounts
  <2>6. Len(leases'[t]) = 1
    BY <2>3, <2>5
  <2>7. DOMAIN leases'[t] = 1..1
    BY <2>4, <2>6
  <2> QED
    BY <2>2, <2>7
<1>5. ASSUME NEW c \in Client, client'[c].pc = "swap", client'[c].token = t
      PROVE  client'[c].secret \in DOMAIN leases'[t]
  BY <1>1, <1>5, SwapFollowsReissue, LeaseGrows
<1>6. ASSUME answer'[t] = "ok" PROVE \E i \in DOMAIN leases'[t] : leases'[t][i].killed
  <2>1. CASE answer[t] = "ok"
    <3>1. PICK i \in DOMAIN leases[t] : leases[t][i].killed
      BY <2>1 DEF SecretsKnown
    <3> QED
      BY <3>1, LeaseGrows
  <2>2. CASE answer[t] # "ok"
    <3>1. leases' = Kill(leases, t, tok[t].secret) /\ tok[t].revoked
      BY <1>6, <2>2, AnswerKinds DEF Responsible
    <3>2. tok[t].secret \in DOMAIN leases[t] /\ tok[t].secret \in Nat
      BY <3>1 DEF SecretsKnown, Registration, TypeOK, TokenRecord
    <3>3. leases \in [Token -> Seq(Lease)]
      BY DEF TypeOK
    <3>4. /\ tok[t].secret \in DOMAIN Kill(leases, t, tok[t].secret)[t]
          /\ Kill(leases, t, tok[t].secret)[t][tok[t].secret].killed
      BY <3>2, <3>3, LeaseCounts
    <3> QED
      BY <3>1, <3>4
  <2> QED
    BY <2>1, <2>2
<1> QED
  BY <1>2, <1>3, <1>4, <1>5, <1>6

\* One secret of a list is dead, so the living are fewer than the list is long.
LEMMA FewerLiving ==
  ASSUME NEW s \in Seq(Lease), NEW k \in DOMAIN s, s[k].killed,
         NEW S \in SUBSET {i \in DOMAIN s : ~s[i].killed}
  PROVE  Cardinality(S) + 1 <= Len(s) /\ Cardinality(S) \in Nat
<1>1. DOMAIN s = 1..Len(s) /\ Len(s) \in Nat
  OBVIOUS
<1>2. IsFiniteSet(1..Len(s)) /\ Cardinality(1..Len(s)) = Len(s)
  <2>1. 1 <= Len(s)
    BY <1>1
  <2> QED
    BY <1>1, <2>1, FS_Interval
<1>3. S \cup {k} \subseteq 1..Len(s) /\ k \notin S
  BY <1>1
<1>4. IsFiniteSet(S) /\ Cardinality(S) \in Nat
  BY <1>2, <1>3, FS_Subset, FS_CardinalityType
<1>5. Cardinality(S \cup {k}) = Cardinality(S) + 1
  BY <1>3, <1>4, FS_AddElement
<1>6. Cardinality(S \cup {k}) <= Cardinality(1..Len(s))
  BY <1>2, <1>3, FS_Subset
<1> QED
  BY <1>2, <1>4, <1>5, <1>6

\* A confirmed revocation killed the secret that was in the record.  Others may
\* have survived it, an extension's in flight or one that was swapped out, but
\* never more than the token was extended times; a token that never was leaves
\* nothing that the provider would accept.
THEOREM SurvivorsHolds == Spec => []SurvivorsBounded
<1> DEFINE I == Inv /\ Responsible /\ SecretsCounted /\ SecretsKnown
<1>1. Init => I
  <2>1. Init => SecretsCounted
    <3> SUFFICES ASSUME Init PROVE SecretsCounted
      OBVIOUS
    <3>1. \A t \in Token : Issuing(t) = {} /\ leases[t] = << >> /\ tok[t].extensions = 0
      BY DEF Init, Issuing, Idle, NoRecord
    <3>2. IsFiniteSet({}) /\ Cardinality({}) = 0
      BY FS_EmptySet
    <3>3. Len(<< >>) + 0 <= 0 + 1
      OBVIOUS
    <3> QED
      BY <3>1, <3>2, <3>3 DEF SecretsCounted
  <2>2. Init => SecretsKnown
    BY DEF Init, SecretsKnown, Idle
  <2> QED
    BY <2>1, <2>2, TypeInit, RegistrationInit, ResponsibleInit DEF Inv
<1>2. I /\ [Next]_vars => I'
  BY TypeStep, RegistrationStep, ResponsibleStep, SecretsCountedStep, SecretsKnownStep DEF Inv
<1>3. I => SurvivorsBounded
  <2> SUFFICES ASSUME I, NEW t \in Token, answer[t] = "ok"
               PROVE  Cardinality({i \in DOMAIN leases[t] : Accepts(leases, now, t, i)})
                        <= tok[t].extensions
    BY DEF SurvivorsBounded
  <2> DEFINE S == {i \in DOMAIN leases[t] : Accepts(leases, now, t, i)}
  <2>1. leases[t] \in Seq(Lease) /\ tok[t].extensions \in Nat
    BY DEF Inv, TypeInv, TypeOK, TokenRecord
  <2>2. PICK k \in DOMAIN leases[t] : leases[t][k].killed
    BY DEF SecretsKnown
  <2>3. S \in SUBSET {i \in DOMAIN leases[t] : ~leases[t][i].killed}
    BY DEF Accepts
  <2> HIDE DEF S
  <2>4. Cardinality(S) + 1 <= Len(leases[t]) /\ Cardinality(S) \in Nat
    BY <2>1, <2>2, <2>3, FewerLiving
  <2>5. /\ Len(leases[t]) + Cardinality(Issuing(t)) <= tok[t].extensions + 1
        /\ Cardinality(Issuing(t)) \in Nat /\ Len(leases[t]) \in Nat
    BY <2>1, FS_CardinalityType DEF SecretsCounted
  <2>6. Cardinality(S) <= tok[t].extensions
    BY <2>1, <2>4, <2>5
  <2> QED
    BY <2>6 DEF S
<1> QED
  BY <1>1, <1>2, <1>3, PTL DEF Spec
=============================================================================
