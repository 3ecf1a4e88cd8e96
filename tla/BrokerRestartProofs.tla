------------------------ MODULE BrokerRestartProofs ------------------------
(***************************************************************************)
(* What survives crashes, restarts and graceful shutdowns, for every set   *)
(* of tokens and requests, every duration and any number of restarts.  The *)
(* store's own invariants are reused: most steps of the broker are steps   *)
(* of TokenStore or leave the store alone, and what is left is the end of  *)
(* the process and the three steps of recovery.                            *)
(***************************************************************************)
EXTENDS BrokerRestart, WorkerProofs

\* What the process holds in memory, whether it has recovered it or granted it.
MemoryInv ==
  /\ Inv /\ Scheduled
  /\ revokedCount = Cardinality(RevokedTokens)

\* What is on disk was in memory once, and the provider knows all of it.
DiskInv ==
  /\ file \in File /\ tmp \in File /\ file.whole
  /\ shutdown = "rename" => tmp.whole
  /\ registered \subseteq added /\ added \subseteq Token
  /\ file.ids \cup tmp.ids \subseteq added
  /\ \A t \in added : leases[t] # << >>
  /\ \A c \in Client : client[c].pc = "add" => client[c].token \notin added

\* What the process is doing.
ProcessInv ==
  /\ proc \in {"down", "boot", "up"}
  /\ boot \in [at : Nat, live : SUBSET Token, missed : SUBSET Token,
               target : Token \cup {NoToken}]
  /\ shutdown \in {"waiting", "persist", "write", "rename", "exit"}
  /\ crashes \in 0..MaxCrashes /\ shutdowns \in 0..MaxShutdowns
  /\ proc # "boot" => boot = NotBooting
  /\ proc = "down" => registered = {}
  /\ proc # "up" => shutdown = "waiting" /\ \A c \in Client : client[c].pc = "idle"

\* A record of the file that recovery is done with, or is revoking.
Recovered(t) ==
  /\ t \in registered
  /\ tok[t].originalIssuedAt = file.record[t].originalIssuedAt
  /\ tok[t].expiresAt = file.record[t].expiresAt
  /\ tok[t].revoked <=> Missed(t, boot.at)
  /\ tok[t].revoked => answer[t] # "none" \/ boot.target = t

\* Recovery has each active record still before it, on the right side, or done.
RecoveryInv ==
  proc = "boot" =>
    /\ registered \subseteq LoadActive
    /\ boot.live \cup boot.missed \subseteq LoadActive \ registered
    /\ \A t \in boot.live : ~Missed(t, boot.at)
    /\ \A t \in boot.missed : Missed(t, boot.at)
    /\ \A t \in LoadActive \ (boot.live \cup boot.missed) : Recovered(t)

BrokerInv == MemoryInv /\ DiskInv /\ ProcessInv /\ RecoveryInv

\* The broker starts with an empty disk and nothing in memory.
LEMMA BrokerInvInit == BrokerInit => BrokerInv
<1> SUFFICES ASSUME BrokerInit PROVE BrokerInv
  OBVIOUS
<1>1. Init
  BY DEF BrokerInit
<1>2. MemoryInv
  <2>1. RevokedTokens = {}
    BY <1>1 DEF Init, RevokedTokens, NoRecord
  <2>2. Scheduled
    BY <1>1 DEF Init, Scheduled, Distinct, Elements, Live
  <2> QED
    BY <1>1, <2>1, <2>2, FS_EmptySet, TypeInit, RegistrationInit DEF Init, MemoryInv, Inv
<1>3. DiskInv
  <2>1. [t \in Token |-> NoRecord] \in [Token -> TokenRecord]
    BY DEF NoRecord, TokenRecord, NoTime
  <2>2. EmptyFile \in File /\ EmptyFile.whole /\ EmptyFile.ids = {}
    BY <2>1 DEF EmptyFile, File
  <2> QED
    BY <1>1, <2>2 DEF BrokerInit, Init, DiskInv
<1>4. ProcessInv
  BY <1>1, RestartsAssumption DEF BrokerInit, Init, ProcessInv, NotBooting, NoTime, Idle
<1>5. RecoveryInv
  BY DEF BrokerInit, RecoveryInv
<1> QED
  BY <1>2, <1>3, <1>4, <1>5 DEF BrokerInv

-----------------------------------------------------------------------------
(* The kinds of step.                                                      *)

\* A step of the store, or of time, with the rest of the process as it is.
StoreKind ==
  /\ [Next]_vars
  /\ proc = "up" \/ Tick \/ UNCHANGED vars
  /\ added' = added \cup registered'
  /\ UNCHANGED processVars

\* A step of shutdown or of recovery that leaves the store as it is.
ProcessKind ==
  \/ Signal \/ StartWrite \/ FinishWrite \/ Rename \/ SaveFails
  \/ Start \/ BootEnds

\* Whatever the broker does, the store takes a step of its own, or the process
\* ends, or recovery hands a record to the store or revokes one.
LEMMA BrokerKinds ==
  ASSUME DiskInv, ProcessInv, [BrokerNext]_brokerVars
  PROVE  \/ StoreKind
         \/ ProcessKind
         \/ ProcessEnds /\ crashes' \in 0..MaxCrashes /\ UNCHANGED shutdowns
         \/ \E t \in Token : Readd(t) \/ MarkMissed(t)
         \/ RevokeMissed
<1>1. ASSUME NEW c \in Client, Request(c) \/ Handler(c) PROVE StoreKind
  BY <1>1 DEF Request, Handler, StoreStep, StoreKind, Next
<1>2. WorkerStep \/ TickerStep => StoreKind
  BY DEF WorkerStep, TickerStep, StoreStep, StoreKind, Next
<1>3. Clock => StoreKind
  BY DEF Clock, StoreKind, DiskInv, Tick, storeVars, Next
<1>4. UNCHANGED brokerVars => StoreKind
  BY DEF brokerVars, StoreKind, DiskInv, vars, storeVars
<1>5. Exit => ProcessEnds /\ crashes' \in 0..MaxCrashes /\ UNCHANGED shutdowns
  BY DEF Exit, counters, ProcessInv
<1>6. Crash => ProcessEnds /\ crashes' \in 0..MaxCrashes /\ UNCHANGED shutdowns
  BY RestartsAssumption DEF Crash, ProcessInv
<1> QED
  BY <1>1, <1>2, <1>3, <1>4, <1>5, <1>6 DEF BrokerNext, ShutdownStep, BootStep, ProcessKind

-----------------------------------------------------------------------------
(* Memory.                                                                 *)

\* A step of the store keeps what the store promises.
LEMMA StoreKeepsMemory ==
  ASSUME MemoryInv, [Next]_vars
  PROVE  MemoryInv'
BY TypeStep, RegistrationStep, ScheduledStep, CountStep DEF MemoryInv, Inv

\* A process that has ended has an empty memory.
LEMMA EndClearsMemory ==
  ASSUME MemoryInv, ProcessEnds
  PROVE  MemoryInv'
<1> USE DEF MemoryInv, Inv, TypeInv
<1>1. TypeOK'
  <2>1. tok' \in [Token -> TokenRecord]
    BY DEF ProcessEnds, NoRecord, TokenRecord, NoTime
  <2>2. client' \in [Client -> ClientRecord] /\ worker' \in WorkerRecord
    BY DEF ProcessEnds, Idle, IdleWorker, ClientRecord, WorkerRecord, NoTime
  <2>3. pq' \in Seq(Token)
    BY EmptySeq DEF ProcessEnds
  <2> QED
    BY <2>1, <2>2, <2>3 DEF ProcessEnds, TypeOK, NoTime
<1>2. HoldsToken' /\ Registration' /\ Scheduled'
  BY DEF ProcessEnds, HoldsToken, Registration, Scheduled, Distinct, Elements, Live, Idle,
     IdleWorker, NoRecord
<1>3. (RevokedTokens)' = {}
  BY DEF ProcessEnds, RevokedTokens, NoRecord
<1> QED
  BY <1>1, <1>2, <1>3, FS_EmptySet DEF ProcessEnds

\* Recovery hands the store a record it does not have yet.
LEMMA HandedOver ==
  ASSUME BrokerInv, NEW t \in Token, Readd(t) \/ MarkMissed(t)
  PROVE  /\ t \notin registered /\ ~tok[t].revoked
         /\ t \in LoadActive /\ ~file.record[t].revoked /\ t \in added
         /\ file.record[t] \in TokenRecord
         /\ leases[t] # << >> /\ \A c \in Client : client[c].pc = "idle"
         /\ registered' = registered \cup {t}
         /\ UNCHANGED <<leases, client, worker, now, file>>
<1>1. t \in LoadActive /\ t \notin registered
  BY DEF BrokerInv, RecoveryInv, Readd, MarkMissed
<1>2. t \in file.ids /\ ~file.record[t].revoked /\ t \in added
  BY <1>1 DEF LoadActive, BrokerInv, DiskInv
<1>3. ~tok[t].revoked
  BY <1>1 DEF BrokerInv, MemoryInv, Inv, Registration
<1>4. file.record[t] \in TokenRecord /\ leases[t] # << >>
  BY <1>2 DEF BrokerInv, DiskInv, File
<1>5. \A c \in Client : client[c].pc = "idle"
  BY DEF BrokerInv, ProcessInv, Readd, MarkMissed
<1> QED
  BY <1>1, <1>2, <1>3, <1>4, <1>5 DEF Readd, MarkMissed, disk

\* Readding a record keeps memory in shape.
LEMMA ReaddKeepsMemory ==
  ASSUME BrokerInv, NEW t \in Token, Readd(t)
  PROVE  MemoryInv'
<1> USE DEF BrokerInv, MemoryInv, Inv, TypeInv
<1>0. /\ t \notin registered /\ ~tok[t].revoked /\ ~file.record[t].revoked
      /\ file.record[t] \in TokenRecord
      /\ leases[t] # << >> /\ \A c \in Client : client[c].pc = "idle"
      /\ registered' = registered \cup {t}
      /\ UNCHANGED <<leases, client, worker, now>>
  BY HandedOver
<1>1. /\ tok' \in [Token -> TokenRecord] /\ tok'[t] = file.record[t]
      /\ \A x \in Token \ {t} : tok'[x] = tok[x]
  BY <1>0 DEF Readd, TypeOK
<1> DEFINE key == [Expiry EXCEPT ![t] = file.record[t].expiresAt]
<1>2. key \in [Token -> Int]
  BY <1>0 DEF Expiry, TypeOK, TokenRecord
<1>3. pq \in Seq(Token) /\ Distinct(pq) /\ t \notin Elements(pq) /\ pq' = HeapPush(key, pq, t)
  BY <1>0 DEF Scheduled, TypeOK, Readd
<1> HIDE DEF key
<1>4. pq' \in Seq(Token) /\ Distinct(pq') /\ Elements(pq') = Elements(pq) \cup {t}
  BY <1>2, <1>3, HeapPushCorrect
<1>5. TypeOK' /\ HoldsToken'
  BY <1>0, <1>1, <1>4 DEF Readd, TypeOK, HoldsToken, history
<1>6. Registration'
  BY <1>0, <1>1 DEF Readd, Registration, history
<1>7. Scheduled'
  <2>1. Distinct(pq)' /\ (Elements(pq))' = Elements(pq) \cup {t}
    BY <1>4 DEF Distinct, Elements
  <2>2. \A x \in Token : Live(x)' => Live(x) \/ x = t
    BY <1>0, <1>1 DEF Live
  <2> QED
    BY <1>0, <2>1, <2>2 DEF Scheduled
<1>8. (RevokedTokens)' = RevokedTokens /\ UNCHANGED revokedCount
  BY <1>0, <1>1 DEF RevokedTokens, Readd
<1> QED
  BY <1>5, <1>6, <1>7, <1>8

\* Marking a record that was missed keeps memory in shape, and counts it.
LEMMA MarkMissedKeepsMemory ==
  ASSUME BrokerInv, NEW t \in Token, MarkMissed(t)
  PROVE  MemoryInv'
<1> USE DEF BrokerInv, MemoryInv, Inv, TypeInv
<1>0. /\ t \notin registered /\ ~tok[t].revoked
      /\ file.record[t] \in TokenRecord
      /\ leases[t] # << >> /\ \A c \in Client : client[c].pc = "idle"
      /\ registered' = registered \cup {t}
      /\ UNCHANGED <<leases, client, worker, now>>
  BY HandedOver
<1> DEFINE r == [file.record[t] EXCEPT !.revoked = TRUE]
<1>1. r \in TokenRecord /\ r.revoked
  BY <1>0 DEF TokenRecord
<1>2. tok' = [tok EXCEPT ![t] = r]
  BY DEF MarkMissed
<1> HIDE DEF r
<1>3. /\ tok' \in [Token -> TokenRecord] /\ tok'[t].revoked
      /\ \A x \in Token \ {t} : tok'[x] = tok[x]
  BY <1>1, <1>2 DEF TypeOK
<1>4. TypeOK' /\ HoldsToken'
  BY <1>0, <1>3 DEF MarkMissed, TypeOK, HoldsToken
<1>5. Registration'
  BY <1>0, <1>3 DEF MarkMissed, Registration, TypeOK
<1>6. Scheduled'
  <2>1. UNCHANGED pq /\ \A x \in Token : Live(x)' => Live(x)
    BY <1>0, <1>3 DEF Live, MarkMissed
  <2>2. Distinct(pq)' /\ (Elements(pq))' = Elements(pq)
    BY <2>1 DEF Scheduled, Distinct, Elements
  <2> QED
    BY <1>0, <2>1, <2>2 DEF Scheduled
<1>7. revokedCount' = Cardinality((RevokedTokens)')
  <2>1. (RevokedTokens)' = RevokedTokens \cup {t} /\ t \notin RevokedTokens
    BY <1>0, <1>3 DEF RevokedTokens
  <2>2. IsFiniteSet(RevokedTokens)
    BY TokensAssumption, FS_Subset DEF RevokedTokens
  <2>3. Cardinality(RevokedTokens \cup {t}) = Cardinality(RevokedTokens) + 1
    BY <2>1, <2>2, FS_AddElement
  <2> QED
    BY <2>1, <2>3 DEF MarkMissed
<1> QED
  BY <1>4, <1>5, <1>6, <1>7

\* Revoking a record that was missed touches the provider only.
LEMMA RevokeMissedKeepsMemory ==
  ASSUME BrokerInv, RevokeMissed
  PROVE  MemoryInv' /\ \A x \in Token : leases[x] # << >> => leases'[x] # << >>
<1> USE DEF BrokerInv, MemoryInv, Inv, TypeInv
<1> DEFINE t == boot.target
<1>1. t \in Token /\ UNCHANGED <<now, storeVars, client, worker, tickBuf, cancelled, cause, warned>>
  BY DEF RevokeMissed, ProcessInv
<1>2. /\ leases' \in [Token -> Seq(Lease)]
      /\ answer' \in [Token -> {"none", "ok", "failed"}]
  BY <1>1, RevokeType DEF RevokeMissed
<1>3. UNCHANGED leases \/ leases' = Kill(leases, t, tok[t].secret)
  BY DEF RevokeMissed, RevokeSucceeds, RevokeLost, RevokeFails
<1>4. leases \in [Token -> Seq(Lease)] /\ tok[t].secret \in Nat
  BY <1>1 DEF TypeOK, TokenRecord
<1> HIDE DEF t
<1>5. ASSUME NEW x \in Token, leases[x] # << >>
      PROVE  leases'[x] # << >>
  <2>1. CASE leases' = Kill(leases, t, tok[t].secret)
    <3>1. Len(leases'[x]) = Len(leases[x])
      BY <1>1, <1>4, <2>1, LeaseCounts
    <3>2. leases[x] \in Seq(Lease) /\ leases'[x] \in Seq(Lease)
      BY <1>2, <1>4
    <3> QED
      BY <1>5, <3>1, <3>2, EmptySeq
  <2> QED
    BY <1>3, <1>5, <2>1
<1>6. TypeOK' /\ HoldsToken'
  BY <1>1, <1>2 DEF TypeOK, HoldsToken, storeVars
<1>7. Registration'
  BY <1>1, <1>5 DEF Registration, TypeOK, HoldsToken, storeVars
<1>8. Scheduled' /\ revokedCount' = Cardinality((RevokedTokens)')
  BY <1>1 DEF Scheduled, Distinct, Elements, Live, RevokedTokens, storeVars
<1> QED
  BY <1>5, <1>6, <1>7, <1>8

\* Whatever the process does, memory stays in shape.
LEMMA MemoryStep ==
  ASSUME BrokerInv, [BrokerNext]_brokerVars
  PROVE  MemoryInv'
<1>1. StoreKind \/ ProcessKind => [Next]_vars
  BY DEF StoreKind, ProcessKind, Next, Signal, StartWrite, FinishWrite, Rename, SaveFails,
     ShutdownGoto, Start, BootEnds
<1> QED
  BY <1>1, BrokerKinds, StoreKeepsMemory, EndClearsMemory, ReaddKeepsMemory,
     MarkMissedKeepsMemory, RevokeMissedKeepsMemory DEF BrokerInv

-----------------------------------------------------------------------------
(* Disk, process and recovery.                                             *)

\* What ToRecord makes of the tokens in the map is a well-formed file.
LEMMA SnapshotType ==
  ASSUME TypeInv, NEW whole \in BOOLEAN
  PROVE  /\ Snapshot(whole) \in File /\ Snapshot(whole).ids = registered
         /\ Snapshot(whole).whole = whole
         /\ \A t \in registered :
              /\ Snapshot(whole).record[t].expiresAt = tok[t].expiresAt
              /\ Snapshot(whole).record[t].originalIssuedAt = tok[t].originalIssuedAt
              /\ Snapshot(whole).record[t].revoked = tok[t].revoked
<1> USE DEF TypeInv, TypeOK
<1> DEFINE rec == [t \in Token |-> IF t \in registered
                                   THEN [tok[t] EXCEPT !.notified = FALSE] ELSE NoRecord]
<1>1. ASSUME NEW t \in Token
      PROVE  /\ rec[t] \in TokenRecord
             /\ t \in registered => /\ rec[t].expiresAt = tok[t].expiresAt
                                    /\ rec[t].originalIssuedAt = tok[t].originalIssuedAt
                                    /\ rec[t].revoked = tok[t].revoked
  <2>1. tok[t] \in TokenRecord
    OBVIOUS
  <2>2. [tok[t] EXCEPT !.notified = FALSE] \in TokenRecord
    BY <2>1, RecordUpdate
  <2>3. NoRecord \in TokenRecord
    BY DEF NoRecord, TokenRecord, NoTime
  <2> QED
    BY <2>1, <2>2, <2>3 DEF TokenRecord
<1>2. rec \in [Token -> TokenRecord]
  BY <1>1
<1>3. Snapshot(whole) = [whole |-> whole, ids |-> registered, record |-> rec]
  BY DEF Snapshot
<1> HIDE DEF rec
<1> QED
  BY <1>1, <1>2, <1>3 DEF File

\* No token that is on its way to Add has been added before, whatever this or an
\* earlier process has granted.
LEMMA AddsAreNew ==
  ASSUME BrokerInv, StoreKind, MemoryInv', NEW c \in Client, client'[c].pc = "add"
  PROVE  client'[c].token \notin added'
<1>1. added' = added \cup registered' /\ [Next]_vars /\ Inv
  BY DEF StoreKind, BrokerInv, MemoryInv
<1>2. client'[c].token \notin registered'
  BY DEF MemoryInv, Inv, Registration
<1>3. CASE client'[c] = client[c]
  BY <1>1, <1>2, <1>3 DEF BrokerInv, DiskInv
<1>4. CASE client'[c] # client[c]
  <2>1. PICK t \in Token, ttl \in GrantTTL : Grant(c, t, ttl) /\ client'[c].token = t
    BY <1>1, <1>4, AddFollowsGrant DEF Inv
  <2>2. t \notin added
    BY <2>1 DEF Grant, BrokerInv, DiskInv
  <2> QED
    BY <1>1, <1>2, <2>1, <2>2
<1> QED
  BY <1>3, <1>4

\* No step leaves a torn file behind, or puts on file what the provider or the
\* store has never heard of.
LEMMA DiskStep ==
  ASSUME BrokerInv, MemoryInv', [BrokerNext]_brokerVars
  PROVE  DiskInv'
<1> USE DEF BrokerInv, DiskInv
<1>0. TypeInv /\ registered' \subseteq Token
  BY DEF MemoryInv, Inv, TypeInv, TypeOK
<1>1. CASE StoreKind
  <2>1. /\ added' = added \cup registered' /\ UNCHANGED <<file, tmp, shutdown>>
        /\ [Next]_vars
    BY <1>1 DEF StoreKind, processVars, disk
  <2>2. \A t \in added' : leases'[t] # << >>
    BY <1>0, <2>1, LeasesStay DEF MemoryInv, Inv, Registration
  <2>3. \A c \in Client : client'[c].pc = "add" => client'[c].token \notin added'
    BY <1>1, AddsAreNew
  <2> QED
    BY <1>0, <2>1, <2>2, <2>3
<1>2. CASE ProcessKind
  <2>1. UNCHANGED <<registered, leases, client, added>>
    BY <1>2 DEF ProcessKind, Signal, Cancel, StartWrite, FinishWrite, Rename, SaveFails,
       ShutdownGoto, Start, BootEnds, vars, storeVars
  <2>2. EmptyFile \in File /\ EmptyFile.ids = {}
    <3>1. [t \in Token |-> NoRecord] \in [Token -> TokenRecord]
      BY DEF NoRecord, TokenRecord, NoTime
    <3> QED
      BY <3>1 DEF EmptyFile, File
  <2>3. [tmp EXCEPT !.whole = TRUE] \in File /\ [tmp EXCEPT !.whole = TRUE].ids = tmp.ids
    BY DEF File
  <2>4. /\ file' \in File /\ tmp' \in File /\ file'.whole
        /\ shutdown' = "rename" => tmp'.whole
        /\ file'.ids \cup tmp'.ids \subseteq added
    <3>1. CASE StartWrite
      BY <1>0, <3>1, SnapshotType DEF StartWrite, ShutdownGoto
    <3>2. CASE FinishWrite
      BY <2>3, <3>2 DEF FinishWrite, ShutdownGoto, File
    <3>3. CASE Rename
      BY <2>2, <3>3 DEF Rename, ShutdownGoto
    <3>4. CASE Signal \/ SaveFails \/ Start \/ BootEnds
      BY <3>4 DEF Signal, SaveFails, ShutdownGoto, Start, BootEnds, disk
    <3> QED
      BY <1>2, <3>1, <3>2, <3>3, <3>4 DEF ProcessKind
  <2> QED
    BY <2>1, <2>4
<1>3. CASE ProcessEnds
  BY <1>3 DEF ProcessEnds, disk, Idle
<1>4. ASSUME NEW t \in Token, Readd(t) \/ MarkMissed(t) PROVE DiskInv'
  <2>1. /\ registered' = registered \cup {t} /\ t \in added
        /\ UNCHANGED <<leases, client>>
    BY <1>4, HandedOver
  <2>2. UNCHANGED <<file, tmp, shutdown>> /\ (added' = added \/ added' = added \cup {t})
    BY <1>4 DEF Readd, MarkMissed, disk
  <2> QED
    BY <2>1, <2>2
<1>5. CASE RevokeMissed
  <2>1. UNCHANGED <<registered, file, tmp, shutdown, client, added>>
    BY <1>5 DEF RevokeMissed, disk, storeVars
  <2> QED
    BY <1>5, <2>1, RevokeMissedKeepsMemory
<1> QED
  BY <1>1, <1>2, <1>3, <1>4, <1>5, BrokerKinds

\* The process goes through its phases in order.
LEMMA ProcessStep ==
  ASSUME BrokerInv, [BrokerNext]_brokerVars
  PROVE  ProcessInv'
<1> USE DEF BrokerInv, ProcessInv
<1>0. LoadActive \subseteq Token /\ now \in Nat
  BY DEF DiskInv, File, LoadActive, MemoryInv, Inv, TypeInv, TypeOK
<1>1. CASE StoreKind
  BY <1>1 DEF StoreKind, processVars, counters, Tick, vars, storeVars
<1>2. CASE ProcessKind
  <2>1. CASE Signal
    BY <2>1, RestartsAssumption DEF Signal
  <2>2. CASE StartWrite \/ FinishWrite \/ Rename \/ SaveFails
    BY <2>2 DEF StartWrite, FinishWrite, Rename, SaveFails, ShutdownGoto, counters
  <2>3. CASE Start
    BY <1>0, <2>3 DEF Start, vars, storeVars, counters
  <2>4. CASE BootEnds
    BY <2>4 DEF BootEnds, NotBooting, NoTime, vars, storeVars, counters
  <2> QED
    BY <1>2, <2>1, <2>2, <2>3, <2>4 DEF ProcessKind
<1>3. CASE ProcessEnds /\ crashes' \in 0..MaxCrashes /\ UNCHANGED shutdowns
  BY <1>3 DEF ProcessEnds, NotBooting, NoTime, Idle
<1>4. ASSUME NEW t \in Token, Readd(t) PROVE ProcessInv'
  BY <1>4 DEF Readd, counters
<1>5. ASSUME NEW t \in Token, MarkMissed(t) PROVE ProcessInv'
  BY <1>5 DEF MarkMissed, counters
<1>6. CASE RevokeMissed
  BY <1>6 DEF RevokeMissed, counters, storeVars
<1> QED
  BY <1>1, <1>2, <1>3, <1>4, <1>5, <1>6, BrokerKinds

\* Recovery takes up each active record once, on the side it belongs to.
LEMMA RecoveryStep ==
  ASSUME BrokerInv, [BrokerNext]_brokerVars
  PROVE  RecoveryInv'
<1> USE DEF BrokerInv
<1>0. LoadActive \subseteq Token
  BY DEF DiskInv, File, LoadActive
<1>1. CASE StoreKind
  <2>1. UNCHANGED <<proc, boot, file>>
    BY <1>1 DEF StoreKind, processVars, disk
  <2>2. proc = "boot" => UNCHANGED <<registered, tok, answer>>
    BY <1>1 DEF StoreKind, Tick, vars, storeVars, history
  <2> QED
    BY <2>1, <2>2 DEF RecoveryInv, LoadActive, Missed, Recovered
<1>2. CASE Start
  <2>1. registered' = {} /\ UNCHANGED file
    BY <1>2 DEF Start, ProcessInv, vars, storeVars, disk
  <2>2. /\ boot'.at = now
        /\ boot'.live = {t \in LoadActive : ~Missed(t, now)}
        /\ boot'.missed = {t \in LoadActive : Missed(t, now)}
    BY <1>2 DEF Start, StillValid, Missed
  <2> QED
    BY <2>1, <2>2 DEF RecoveryInv, LoadActive, Missed
<1>3. CASE BootEnds \/ ProcessEnds
  BY <1>3 DEF BootEnds, ProcessEnds, RecoveryInv
<1>4. CASE Signal \/ StartWrite \/ FinishWrite \/ Rename \/ SaveFails
  BY <1>4 DEF Signal, StartWrite, FinishWrite, Rename, SaveFails, ShutdownGoto, RecoveryInv
<1>5. ASSUME NEW t \in Token, Readd(t) PROVE RecoveryInv'
  <2>1. /\ t \notin registered /\ t \in LoadActive /\ ~file.record[t].revoked
        /\ registered' = registered \cup {t} /\ UNCHANGED file
    BY <1>5, HandedOver
  <2>2. /\ proc = "boot" /\ t \in boot.live /\ UNCHANGED answer
        /\ boot' = [boot EXCEPT !.live = @ \ {t}]
    BY <1>5 DEF Readd, history
  <2>3. /\ boot'.live = boot.live \ {t} /\ boot'.missed = boot.missed
        /\ boot'.at = boot.at /\ boot'.target = boot.target
    BY <2>2 DEF ProcessInv
  <2>4. tok'[t] = file.record[t] /\ \A x \in Token \ {t} : tok'[x] = tok[x]
    BY <1>5 DEF Readd, MemoryInv, Inv, TypeInv, TypeOK
  <2>5. (Recovered(t))'
    BY <2>1, <2>2, <2>3, <2>4 DEF Recovered, RecoveryInv, Missed
  <2>6. ASSUME NEW x \in Token \ {t}, Recovered(x) PROVE (Recovered(x))'
    BY <2>1, <2>2, <2>3, <2>4, <2>6 DEF Recovered, Missed
  <2> QED
    BY <1>0, <2>1, <2>2, <2>3, <2>5, <2>6 DEF RecoveryInv, LoadActive, Missed
<1>6. ASSUME NEW t \in Token, MarkMissed(t) PROVE RecoveryInv'
  <2>1. /\ t \notin registered /\ t \in LoadActive
        /\ registered' = registered \cup {t} /\ UNCHANGED file
        /\ file.record[t] \in TokenRecord
    BY <1>6, HandedOver
  <2>2. /\ proc = "boot" /\ t \in boot.missed /\ UNCHANGED answer /\ boot.target = NoToken
        /\ boot' = [boot EXCEPT !.missed = @ \ {t}, !.target = t]
    BY <1>6 DEF MarkMissed
  <2>3. /\ boot'.live = boot.live /\ boot'.missed = boot.missed \ {t}
        /\ boot'.at = boot.at /\ boot'.target = t
    BY <2>2 DEF ProcessInv
  <2>4. /\ tok'[t] = [file.record[t] EXCEPT !.revoked = TRUE]
        /\ \A x \in Token \ {t} : tok'[x] = tok[x]
    BY <1>6 DEF MarkMissed, MemoryInv, Inv, TypeInv, TypeOK
  <2>5. /\ tok'[t].revoked /\ tok'[t].expiresAt = file.record[t].expiresAt
        /\ tok'[t].originalIssuedAt = file.record[t].originalIssuedAt
    BY <2>1, <2>4 DEF TokenRecord
  <2>6. (Recovered(t))'
    BY <2>1, <2>2, <2>3, <2>5 DEF Recovered, RecoveryInv, Missed
  <2>7. ASSUME NEW x \in Token \ {t}, Recovered(x) PROVE (Recovered(x))'
    BY <2>1, <2>2, <2>3, <2>4, <2>7, TokensAssumption DEF Recovered, Missed
  <2> QED
    BY <1>0, <2>1, <2>2, <2>3, <2>6, <2>7 DEF RecoveryInv, LoadActive, Missed
<1>7. CASE RevokeMissed
  <2>1. /\ UNCHANGED <<registered, tok, file, proc>> /\ proc = "boot" /\ boot.target \in Token
    BY <1>7 DEF RevokeMissed, storeVars, disk, ProcessInv
  <2>2. /\ boot'.live = boot.live /\ boot'.missed = boot.missed /\ boot'.at = boot.at
        /\ \A x \in Token : answer[x] # "none" => answer'[x] # "none"
        /\ boot'.target = boot.target \/ answer'[boot.target] # "none"
    BY <1>7, <2>1 DEF RevokeMissed, RevokeSucceeds, RevokeLost, RevokeFails, ProcessInv,
       MemoryInv, Inv, TypeInv, TypeOK
  <2>3. ASSUME NEW x \in Token, Recovered(x) PROVE (Recovered(x))'
    BY <2>1, <2>2, <2>3 DEF Recovered, Missed
  <2> QED
    BY <1>0, <2>1, <2>2, <2>3 DEF RecoveryInv, LoadActive, Missed
<1> QED
  BY <1>1, <1>2, <1>3, <1>4, <1>5, <1>6, <1>7, BrokerKinds DEF ProcessKind

\* Memory, disk, process and recovery fit together, however often the process
\* dies and wherever.
LEMMA BrokerInvHolds == BrokerSpec => []BrokerInv
<1>1. BrokerInv /\ [BrokerNext]_brokerVars => BrokerInv'
  BY MemoryStep, DiskStep, ProcessStep, RecoveryStep DEF BrokerInv
<1> QED
  BY <1>1, BrokerInvInit, PTL DEF BrokerSpec

-----------------------------------------------------------------------------
(* What follows at once.                                                   *)

\* The process, its memory and its files keep their types, and revokedCount
\* counts the tokens revoked in memory, also those that recovery revoked.
THEOREM BrokerTypeHolds == BrokerSpec => []BrokerTypeOK
<1>1. BrokerInv => BrokerTypeOK
  BY DEF BrokerInv, MemoryInv, DiskInv, ProcessInv, BrokerTypeOK, RevokedTokens
<1> QED
  BY <1>1, BrokerInvHolds, PTL

\* SaveAll is atomic: in whichever step of a save the process dies, the state
\* file can be read.
THEOREM FileAlwaysWholeHolds == BrokerSpec => []FileAlwaysWhole
<1>1. BrokerInv => FileAlwaysWhole
  BY DEF BrokerInv, DiskInv, FileAlwaysWhole
<1> QED
  BY <1>1, BrokerInvHolds, PTL

\* Recovery puts every live record into the heap, and nothing that happens
\* before or after a restart takes it out or puts it in twice.
THEOREM RecoveredAreScheduled == BrokerSpec => []NeverUnscheduled
<1>1. BrokerInv => NeverUnscheduled
  BY HeldOnce DEF BrokerInv, MemoryInv, Inv, TypeInv, TypeOK, Scheduled, NeverUnscheduled
<1> QED
  BY <1>1, BrokerInvHolds, PTL

\* When the worker starts, every active record of the file is in the map: revoked
\* and tried at the provider if it had expired, live if not.
THEOREM RecoverySplitsHolds == BrokerSpec => RecoverySplits
<1> DEFINE A == proc = "boot" /\ proc' = "up" =>
                  \A t \in LoadActive :
                    /\ t \in registered
                    /\ tok[t].revoked <=> tok[t].expiresAt < boot.at
                    /\ tok[t].revoked => answer[t] # "none"
<1>1. BrokerInv /\ [BrokerNext]_brokerVars => [A]_brokerVars
  <2> SUFFICES ASSUME BrokerInv, [BrokerNext]_brokerVars, proc = "boot", proc' = "up",
                      NEW t \in LoadActive
               PROVE  /\ t \in registered
                      /\ tok[t].revoked <=> tok[t].expiresAt < boot.at
                      /\ tok[t].revoked => answer[t] # "none"
    OBVIOUS
  <2>1. BootEnds
    BY BrokerKinds DEF BrokerInv, StoreKind, processVars, ProcessKind, Signal, StartWrite,
       FinishWrite, Rename, SaveFails, ShutdownGoto, Start, ProcessEnds, Readd, MarkMissed,
       RevokeMissed
  <2>2. boot.live = {} /\ boot.missed = {} /\ boot.target = NoToken
    BY <2>1 DEF BootEnds
  <2>3. Recovered(t) /\ t \in Token
    BY <2>2 DEF BrokerInv, RecoveryInv, LoadActive, DiskInv, File
  <2> QED
    BY <2>2, <2>3, TokensAssumption DEF Recovered, Missed
<1>2. RecoverySplits <=> [][A]_brokerVars
  BY DEF RecoverySplits
<1> QED
  BY <1>1, <1>2, BrokerInvHolds, PTL DEF BrokerSpec

-----------------------------------------------------------------------------
(* Memory is never behind the file.                                        *)

\* Memory knows what the file f says, or better: the session starts when f says
\* it does and ends no sooner, and what is revoked in f stays revoked.
Covers(f) ==
  \A t \in f.ids :
    /\ ~f.record[t].revoked => t \in registered
    /\ t \in registered =>
         /\ tok[t].originalIssuedAt = f.record[t].originalIssuedAt
         /\ tok[t].expiresAt >= f.record[t].expiresAt
         /\ f.record[t].revoked => tok[t].revoked

\* No record of the file f is past its ceiling.
WithinCeiling(f) ==
  \A t \in f.ids : f.record[t].expiresAt <= f.record[t].originalIssuedAt + MaxSession

\* StoreNotBehindFile made inductive: it also holds of the save under way, and
\* no session, on file or in memory, is past its ceiling, so that an extension
\* never moves an expiry back.
CoverInv ==
  /\ Sessions
  /\ WithinCeiling(file)
  /\ proc = "up" => Covers(file)
  /\ shutdown \in {"write", "rename"} => Covers(tmp) /\ WithinCeiling(tmp)

\* A step of the store keeps up with a file that it has kept up with.
LEMMA StoreKeepsUp ==
  ASSUME BrokerInv, Sessions, StoreKind, NEW f \in File, f.ids \subseteq added, Covers(f)
  PROVE  Covers(f)'
<1>0. Inv /\ [Next]_vars
  BY DEF BrokerInv, MemoryInv, StoreKind
<1>1. registered \subseteq registered'
  BY <1>0, QueueKinds DEF Inv, Add, ScanSkips, ScanClaims
<1> SUFFICES ASSUME NEW t \in f.ids
             PROVE  /\ ~f.record[t].revoked => t \in registered'
                    /\ t \in registered' =>
                         /\ tok'[t].originalIssuedAt = f.record[t].originalIssuedAt
                         /\ tok'[t].expiresAt >= f.record[t].expiresAt
                         /\ f.record[t].revoked => tok'[t].revoked
  BY DEF Covers
<1>2. ~f.record[t].revoked => t \in registered'
  BY <1>1 DEF Covers
<1>3. t \in registered' => t \in registered
  <2>1. \A c \in Client : client[c].pc = "add" => client[c].token # t
    BY DEF BrokerInv, DiskInv
  <2> QED
    BY <1>0, <2>1, QueueKinds DEF Inv, Add, ScanSkips, ScanClaims
<1>4. ASSUME t \in registered
      PROVE  /\ tok'[t].originalIssuedAt = f.record[t].originalIssuedAt
             /\ tok'[t].expiresAt >= f.record[t].expiresAt
             /\ f.record[t].revoked => tok'[t].revoked
  <2>1. /\ tok[t].originalIssuedAt = f.record[t].originalIssuedAt
        /\ tok[t].expiresAt >= f.record[t].expiresAt
        /\ f.record[t].revoked => tok[t].revoked
    BY <1>4 DEF Covers
  <2>2. /\ t \in Token /\ tok[t].expiresAt \in Nat /\ f.record[t].expiresAt \in Nat
        /\ Ceiling(t) \in Nat /\ TTL \in Nat /\ tok[t].expiresAt <= Ceiling(t)
    <3>1. t \in Token /\ tok[t] \in TokenRecord /\ f.record[t] \in TokenRecord
      BY <1>0, <1>4 DEF Inv, TypeInv, TypeOK, File
    <3> QED
      BY <1>4, <3>1, TimesAssumption DEF TokenRecord, Ceiling, Sessions, SessionCeiling
  <2>3. ASSUME NEW e \in Nat, Extends(t, e) PROVE tok'[t].expiresAt >= tok[t].expiresAt
    <3>1. tok'[t].expiresAt = e
      BY <1>0, <2>2, <2>3 DEF Extends, Bump, Inv, TypeInv, TypeOK, TokenRecord
    <3>2. e = IF tok[t].expiresAt + TTL < Ceiling(t) THEN tok[t].expiresAt + TTL ELSE Ceiling(t)
      BY <2>3 DEF Extends, NewExpiry
    <3> QED
      BY <2>2, <3>1, <3>2
  <2>4. tok'[t].expiresAt >= tok[t].expiresAt /\ tok'[t].expiresAt \in Nat
    <3>1. TypeOK'
      BY <1>0, TypeStep DEF Inv, TypeInv
    <3>2. tok'[t].expiresAt \in Nat
      BY <2>2, <3>1 DEF TypeOK, TokenRecord
    <3> QED
      BY <1>0, <1>4, <2>2, <2>3, <3>2, KnownRecord
  <2> QED
    BY <1>0, <1>4, <2>1, <2>2, <2>4, KnownRecord
<1> QED
  BY <1>2, <1>3, <1>4

\* Nor does a step of the process or of recovery take a token past its ceiling.
LEMMA SessionsKept ==
  ASSUME \A ttl \in GrantTTL : ttl <= MaxSession,
         BrokerInv, CoverInv, [BrokerNext]_brokerVars
  PROVE  Sessions'
<1> USE DEF CoverInv
<1>1. CASE StoreKind \/ ProcessKind
  <2>1. [Next]_vars
    BY <1>1 DEF StoreKind, ProcessKind, Next, Signal, StartWrite, FinishWrite, Rename,
       SaveFails, ShutdownGoto, Start, BootEnds
  <2> QED
    BY <2>1, SessionsStep DEF BrokerInv, MemoryInv
<1>2. CASE ProcessEnds
  BY <1>2 DEF ProcessEnds, Sessions, SessionCeiling, NoRecord, Idle
<1>3. ASSUME NEW t \in Token, Readd(t) \/ MarkMissed(t) PROVE Sessions'
  <2>1. /\ registered' = registered \cup {t} /\ UNCHANGED client
        /\ \A c \in Client : client[c].pc = "idle"
        /\ t \in LoadActive /\ file.record[t] \in TokenRecord
    BY <1>3, HandedOver
  <2>2. \A x \in Token \ {t} : tok'[x] = tok[x]
    BY <1>3 DEF Readd, MarkMissed, BrokerInv, MemoryInv, Inv, TypeInv, TypeOK
  <2>3. /\ tok'[t].expiresAt = file.record[t].expiresAt
        /\ tok'[t].originalIssuedAt = file.record[t].originalIssuedAt
    <3>1. tok'[t] = file.record[t] \/ tok'[t] = [file.record[t] EXCEPT !.revoked = TRUE]
      BY <1>3 DEF Readd, MarkMissed, BrokerInv, MemoryInv, Inv, TypeInv, TypeOK
    <3> QED
      BY <2>1, <3>1 DEF TokenRecord
  <2>4. file.record[t].expiresAt <= file.record[t].originalIssuedAt + MaxSession
    BY <2>1 DEF WithinCeiling, LoadActive
  <2>5. registered \subseteq Token
    BY DEF BrokerInv, MemoryInv, Inv, TypeInv, TypeOK
  <2> QED
    BY <2>1, <2>2, <2>3, <2>4, <2>5 DEF Sessions, SessionCeiling, Ceiling
<1>4. CASE RevokeMissed
  BY <1>4 DEF RevokeMissed, Sessions, SessionCeiling, Ceiling, storeVars
<1> QED
  BY <1>1, <1>2, <1>3, <1>4, BrokerKinds DEF BrokerInv

\* No step of a save, a crash or a recovery puts memory behind the file.
LEMMA CoverStep ==
  ASSUME \A ttl \in GrantTTL : ttl <= MaxSession,
         BrokerInv, CoverInv, [BrokerNext]_brokerVars
  PROVE  CoverInv'
<1> USE DEF CoverInv
<1>0. Sessions'
  BY SessionsKept
<1>1. CASE StoreKind
  <2>1. UNCHANGED <<proc, shutdown, file, tmp>>
    BY <1>1 DEF StoreKind, processVars, disk
  <2>2. /\ file \in File /\ file.ids \subseteq added
        /\ tmp \in File /\ tmp.ids \subseteq added
    BY DEF BrokerInv, DiskInv
  <2>3. Covers(file) => (Covers(file))'
    <3>1. ASSUME NEW f \in File, f = file, Covers(f) PROVE Covers(f)'
      BY <1>1, <2>2, <3>1, StoreKeepsUp
    <3> QED
      BY <2>1, <2>2, <3>1 DEF Covers
  <2>4. Covers(tmp) => (Covers(tmp))'
    <3>1. ASSUME NEW f \in File, f = tmp, Covers(f) PROVE Covers(f)'
      BY <1>1, <2>2, <3>1, StoreKeepsUp
    <3> QED
      BY <2>1, <2>2, <3>1 DEF Covers
  <2> QED
    BY <1>0, <2>1, <2>3, <2>4 DEF WithinCeiling
<1>2. CASE StartWrite
  <2>1. /\ proc = "up" /\ proc' = "up" /\ shutdown' = "write" /\ file' = file
        /\ tmp' = Snapshot(FALSE) /\ UNCHANGED <<tok, registered>>
    BY <1>2 DEF StartWrite, ShutdownGoto, vars, storeVars
  <2>2. /\ tmp'.ids = registered
        /\ \A t \in registered : /\ tmp'.record[t].expiresAt = tok[t].expiresAt
                                 /\ tmp'.record[t].originalIssuedAt = tok[t].originalIssuedAt
                                 /\ tmp'.record[t].revoked = tok[t].revoked
    BY <2>1, SnapshotType DEF BrokerInv, MemoryInv, Inv
  <2>3. \A t \in registered : /\ tok[t].expiresAt \in Nat
                              /\ tok[t].expiresAt <= tok[t].originalIssuedAt + MaxSession
    BY DEF BrokerInv, MemoryInv, Inv, TypeInv, TypeOK, TokenRecord, Sessions,
       SessionCeiling, Ceiling
  <2>4. (WithinCeiling(tmp))'
    BY <2>2, <2>3 DEF WithinCeiling
  <2>5. (Covers(tmp))'
    <3> SUFFICES ASSUME NEW t \in registered
                 PROVE  /\ t \in registered' /\ tok'[t] = tok[t]
                        /\ tok[t].expiresAt >= tok[t].expiresAt
      BY <2>2 DEF Covers
    <3> QED
      BY <2>1, <2>3
  <2> QED
    BY <1>0, <2>1, <2>4, <2>5 DEF Covers, WithinCeiling
<1>3. CASE FinishWrite
  <2>1. /\ proc = "up" /\ shutdown = "write" /\ shutdown' = "rename" /\ file' = file
        /\ tmp' = [tmp EXCEPT !.whole = TRUE] /\ UNCHANGED <<tok, registered>>
    BY <1>3 DEF FinishWrite, ShutdownGoto, vars, storeVars
  <2>2. tmp'.ids = tmp.ids /\ tmp'.record = tmp.record
    BY <2>1 DEF BrokerInv, DiskInv, File
  <2> QED
    BY <1>0, <2>1, <2>2 DEF Covers, WithinCeiling
<1>4. CASE Rename
  BY <1>0, <1>4 DEF Rename, ShutdownGoto, vars, storeVars, Covers, WithinCeiling
<1>5. CASE SaveFails \/ Signal
  BY <1>0, <1>5 DEF SaveFails, Signal, Cancel, ShutdownGoto, vars, storeVars, disk, Covers,
     WithinCeiling
<1>6. CASE Start \/ ProcessEnds
  BY <1>0, <1>6 DEF Start, ProcessEnds, BrokerInv, ProcessInv, disk, WithinCeiling
<1>7. CASE BootEnds
  <2>1. /\ proc = "boot" /\ shutdown' = "waiting" /\ UNCHANGED <<tok, registered, file>>
        /\ boot.live = {} /\ boot.missed = {}
    BY <1>7 DEF BootEnds, BrokerInv, ProcessInv, vars, storeVars, disk
  <2>2. /\ registered \subseteq LoadActive /\ file.whole /\ file \in File
        /\ \A t \in LoadActive : Recovered(t)
    BY <2>1 DEF BrokerInv, RecoveryInv, DiskInv
  <2>3. Covers(file)
    <3> SUFFICES ASSUME NEW t \in file.ids
                 PROVE  /\ ~file.record[t].revoked => t \in registered
                        /\ t \in registered =>
                             /\ tok[t].originalIssuedAt = file.record[t].originalIssuedAt
                             /\ tok[t].expiresAt >= file.record[t].expiresAt
                             /\ file.record[t].revoked => tok[t].revoked
      BY DEF Covers
    <3>1. t \in Token /\ file.record[t].expiresAt \in Nat
      BY <2>2 DEF File, TokenRecord
    <3>2. ~file.record[t].revoked <=> t \in LoadActive
      BY <2>2 DEF LoadActive
    <3> QED
      BY <2>2, <3>1, <3>2 DEF Recovered
  <2> QED
    BY <1>0, <2>1, <2>3 DEF Covers, WithinCeiling
<1>8. ASSUME NEW t \in Token, Readd(t) \/ MarkMissed(t) PROVE CoverInv'
  <2>1. proc' = "boot" /\ shutdown' = "waiting" /\ UNCHANGED file
    BY <1>8 DEF Readd, MarkMissed, BrokerInv, ProcessInv, disk
  <2> QED
    BY <1>0, <2>1 DEF WithinCeiling
<1>9. CASE RevokeMissed
  <2>1. proc' = "boot" /\ shutdown' = "waiting" /\ UNCHANGED file
    BY <1>9 DEF RevokeMissed, BrokerInv, ProcessInv, disk
  <2> QED
    BY <1>0, <2>1 DEF WithinCeiling
<1> QED
  BY <1>1, <1>2, <1>3, <1>4, <1>5, <1>6, <1>7, <1>8, <1>9, BrokerKinds
     DEF BrokerInv, ProcessKind

\* A broker that is up knows at least what its state file knows, also while it
\* is writing the next one, if no handler issues a token for longer than a
\* session may last (otherwise an extension moves an expiry back).
THEOREM StoreNotBehindFileHolds ==
  ASSUME \A ttl \in GrantTTL : ttl <= MaxSession
  PROVE  BrokerSpec => []StoreNotBehindFile
<1>1. BrokerInit => CoverInv
  <2>1. BrokerInit => Sessions
    BY SessionsInit DEF BrokerInit
  <2> QED
    BY <2>1 DEF BrokerInit, CoverInv, WithinCeiling, EmptyFile
<1>2. BrokerInv /\ CoverInv /\ [BrokerNext]_brokerVars => CoverInv'
  BY CoverStep
<1>3. CoverInv => StoreNotBehindFile
  BY DEF CoverInv, Covers, StoreNotBehindFile
<1> QED
  BY <1>1, <1>2, <1>3, BrokerInvHolds, PTL DEF BrokerSpec

\* However often the process dies, a recovered session ends where it would have
\* ended: no extension in any life of the broker moves an expiry past the start
\* on record plus maxSession.
THEOREM CeilingSurvivesRestarts ==
  ASSUME \A ttl \in GrantTTL : ttl <= MaxSession
  PROVE  BrokerSpec => []SessionCeiling
<1>1. BrokerInit => CoverInv
  <2>1. BrokerInit => Sessions
    BY SessionsInit DEF BrokerInit
  <2> QED
    BY <2>1 DEF BrokerInit, CoverInv, WithinCeiling, EmptyFile
<1>2. BrokerInv /\ CoverInv /\ [BrokerNext]_brokerVars => CoverInv'
  BY CoverStep
<1>3. CoverInv => SessionCeiling
  BY DEF CoverInv, Sessions
<1> QED
  BY <1>1, <1>2, <1>3, BrokerInvHolds, PTL DEF BrokerSpec

-----------------------------------------------------------------------------
(* Reasons, in every life of the process.                                  *)

\* A new process starts without ticks and reasons, and recovery has a reason of
\* its own.
LEMMA ReasonsKept ==
  ASSUME BrokerInv, Reasons, [BrokerNext]_brokerVars
  PROVE  Reasons'
<1>0. Inv
  BY DEF BrokerInv, MemoryInv
<1>1. CASE StoreKind \/ ProcessKind
  <2>1. [Next]_vars
    BY <1>1 DEF StoreKind, ProcessKind, Next, Signal, StartWrite, FinishWrite, Rename,
       SaveFails, ShutdownGoto, Start, BootEnds
  <2> QED
    BY <1>0, <2>1, ReasonsStep
<1>2. CASE ProcessEnds
  <2>1. now \in Nat
    BY <1>0 DEF Inv, TypeInv, TypeOK
  <2> QED
    BY <1>2, <2>1 DEF ProcessEnds, Reasons, EndedForCause, IdleWorker, NoTime
<1>3. ASSUME NEW t \in Token, Readd(t) \/ MarkMissed(t) PROVE Reasons'
  <2>1. ~tok[t].revoked /\ UNCHANGED <<worker, now, tickBuf>>
    BY <1>3, HandedOver DEF BrokerInv, Readd, MarkMissed
  <2>2. cause[t] = "none"
    BY <1>0, <2>1 DEF Inv, Registration
  <2>3. cause'[t] \in {"none", "recovery"}
        /\ \A x \in Token \ {t} : cause'[x] = cause[x] /\ tok'[x] = tok[x]
    BY <1>0, <1>3, <2>2 DEF Readd, MarkMissed, history, Inv, TypeInv, TypeOK
  <2> QED
    BY <2>1, <2>3 DEF Reasons, EndedForCause, Ceiling
<1>4. CASE RevokeMissed
  BY <1>4 DEF RevokeMissed, Reasons, EndedForCause, Ceiling, storeVars
<1> QED
  BY <1>1, <1>2, <1>3, <1>4, BrokerKinds DEF BrokerInv

\* Also with tokens recovered from disk, the worker collects none before its
\* expiry and Extend force-revokes none before its ceiling.
THEOREM RecoveredEndForCause == BrokerSpec => []EndedForCause
<1>1. BrokerInit => Reasons
  BY ReasonsInit DEF BrokerInit
<1>2. BrokerInv /\ Reasons /\ [BrokerNext]_brokerVars => Reasons'
  BY ReasonsKept
<1>3. Reasons => EndedForCause
  BY DEF Reasons
<1> QED
  BY <1>1, <1>2, <1>3, BrokerInvHolds, PTL DEF BrokerSpec

-----------------------------------------------------------------------------
(* A revocation on disk is final.                                          *)

Saving == shutdown \in {"write", "rename"}

\* What is revoked in the file under way is revoked in memory.
SavedAsRevoked ==
  Saving => \A t \in tmp.ids : tmp.record[t].revoked => tok[t].revoked

\* The token t has been added, and neither memory nor disk has it live.
Buried(t) ==
  /\ t \in added /\ ~Live(t)
  /\ t \in file.ids => file.record[t].revoked
  /\ Saving /\ t \in tmp.ids => tmp.record[t].revoked

\* Whatever the file has as revoked is buried.
FileBuries == \A t \in Token : RevokedOnFile(t) => Buried(t)

\* A step of the store does not bring a token back that has been added before.
LEMMA StoreKeepsBuried ==
  ASSUME BrokerInv, StoreKind, NEW t \in added, ~Live(t)
  PROVE  ~Live(t)'
<1>0. Inv /\ [Next]_vars
  BY DEF BrokerInv, MemoryInv, StoreKind
<1>1. \A c \in Client : client[c].pc = "add" => client[c].token # t
  BY DEF BrokerInv, DiskInv
<1>2. t \in registered' => t \in registered
  BY <1>0, <1>1, QueueKinds DEF Inv, Add, ScanSkips, ScanClaims
<1>3. t \in registered /\ tok[t].revoked => tok'[t].revoked
  BY <1>0, KnownRecord
<1> QED
  BY <1>2, <1>3 DEF Live

\* What the save under way has as revoked stays revoked in memory until the
\* process ends.
LEMMA SavedStep ==
  ASSUME BrokerInv, SavedAsRevoked, [BrokerNext]_brokerVars
  PROVE  SavedAsRevoked'
<1> USE DEF SavedAsRevoked, Saving
<1>0. Inv
  BY DEF BrokerInv, MemoryInv
<1>1. CASE StoreKind
  <2>1. [Next]_vars /\ UNCHANGED <<shutdown, tmp>> /\ tmp.ids \subseteq Token
    BY <1>1 DEF StoreKind, processVars, disk, BrokerInv, DiskInv, File
  <2>2. \A t \in Token : tok[t].revoked => tok'[t].revoked
    BY <1>0, <2>1, KnownRecord DEF Inv, Registration
  <2> QED
    BY <2>1, <2>2
<1>2. CASE StartWrite
  <2>1. tmp' = Snapshot(FALSE) /\ UNCHANGED tok
    BY <1>2 DEF StartWrite, ShutdownGoto, vars, storeVars
  <2> QED
    BY <1>0, <2>1, SnapshotType DEF Inv
<1>3. CASE FinishWrite
  <2>1. /\ Saving /\ UNCHANGED tok
        /\ tmp'.ids = tmp.ids /\ tmp'.record = tmp.record
    BY <1>3 DEF FinishWrite, ShutdownGoto, vars, storeVars, BrokerInv, DiskInv, File
  <2> QED
    BY <2>1
<1>4. CASE Rename \/ SaveFails \/ ProcessEnds
  BY <1>4 DEF Rename, SaveFails, ProcessEnds, ShutdownGoto
<1>5. CASE Signal
  BY <1>5 DEF Signal
<1>6. CASE proc # "up" /\ UNCHANGED shutdown
  BY <1>6 DEF BrokerInv, ProcessInv
<1>7. Start \/ BootEnds \/ RevokeMissed \/ (\E t \in Token : Readd(t) \/ MarkMissed(t))
        => proc # "up" /\ UNCHANGED shutdown
  BY DEF Start, BootEnds, RevokeMissed, Readd, MarkMissed
<1> QED
  BY <1>1, <1>2, <1>3, <1>4, <1>5, <1>6, <1>7, BrokerKinds DEF BrokerInv, ProcessKind

\* No step brings a buried token back.
LEMMA BuriedStep ==
  ASSUME BrokerInv, [BrokerNext]_brokerVars, NEW t \in Token, Buried(t)
  PROVE  Buried(t)'
<1> USE DEF Buried, Saving
<1>0. Inv /\ registered \subseteq Token
  BY DEF BrokerInv, MemoryInv, Inv, TypeInv, TypeOK
<1>1. CASE StoreKind
  <2>1. UNCHANGED <<shutdown, file, tmp>> /\ t \in added'
    BY <1>1 DEF StoreKind, processVars, disk
  <2>2. ~Live(t)'
    BY <1>1, StoreKeepsBuried
  <2> QED
    BY <2>1, <2>2
<1>2. CASE ProcessKind
  <2>1. UNCHANGED <<added, tok, registered>>
    BY <1>2 DEF ProcessKind, Signal, Cancel, StartWrite, FinishWrite, Rename, SaveFails,
       ShutdownGoto, Start, BootEnds, vars, storeVars
  <2>2. ~Live(t)' /\ t \in added'
    BY <2>1 DEF Live
  <2>3. CASE StartWrite
    <3>1. file' = file /\ tmp' = Snapshot(FALSE)
      BY <2>3 DEF StartWrite
    <3>2. t \in tmp'.ids => t \in registered /\ tmp'.record[t].revoked = tok[t].revoked
      BY <1>0, <3>1, SnapshotType DEF Inv
    <3> QED
      BY <2>2, <3>1, <3>2 DEF Live
  <2>4. CASE FinishWrite
    <3>1. /\ Saving /\ file' = file
          /\ tmp'.ids = tmp.ids /\ tmp'.record = tmp.record
      BY <2>4 DEF FinishWrite, BrokerInv, DiskInv, File
    <3> QED
      BY <2>2, <3>1
  <2>5. CASE Rename
    BY <2>2, <2>5 DEF Rename, ShutdownGoto
  <2>6. CASE SaveFails \/ Signal
    BY <2>2, <2>6 DEF SaveFails, Signal, ShutdownGoto, disk
  <2>7. CASE Start \/ BootEnds
    BY <2>2, <2>7 DEF Start, BootEnds, disk
  <2> QED
    BY <1>2, <2>3, <2>4, <2>5, <2>6, <2>7 DEF ProcessKind
<1>3. CASE ProcessEnds
  BY <1>3 DEF ProcessEnds, disk, Live
<1>4. ASSUME NEW x \in Token, Readd(x) \/ MarkMissed(x) PROVE Buried(t)'
  <2>1. x \in LoadActive /\ ~file.record[x].revoked /\ registered' = registered \cup {x}
    BY <1>4, HandedOver
  <2>2. x # t
    BY <2>1 DEF LoadActive
  <2>3. UNCHANGED <<file, tmp, shutdown>> /\ t \in added'
    BY <1>4 DEF Readd, MarkMissed, disk
  <2>4. tok'[t] = tok[t]
    BY <1>0, <1>4, <2>2 DEF Readd, MarkMissed, Inv, TypeInv, TypeOK
  <2> QED
    BY <2>1, <2>2, <2>3, <2>4 DEF Live
<1>5. CASE RevokeMissed
  BY <1>5 DEF RevokeMissed, disk, storeVars, Live
<1> QED
  BY <1>1, <1>2, <1>3, <1>4, <1>5, BrokerKinds DEF BrokerInv

\* The file changes only when a save takes its place.
LEMMA FileChanges ==
  ASSUME BrokerInv, [BrokerNext]_brokerVars
  PROVE  UNCHANGED file \/ Rename
<1>1. StoreKind \/ ProcessEnds \/ RevokeMissed => UNCHANGED file
  BY DEF StoreKind, processVars, ProcessEnds, RevokeMissed, disk
<1>2. ProcessKind => UNCHANGED file \/ Rename
  BY DEF ProcessKind, Signal, StartWrite, FinishWrite, SaveFails, Start, BootEnds, disk
<1>3. (\E t \in Token : Readd(t) \/ MarkMissed(t)) => UNCHANGED file
  BY DEF Readd, MarkMissed, disk
<1> QED
  BY <1>1, <1>2, <1>3, BrokerKinds DEF BrokerInv

\* A file that takes the place of another buries what it has as revoked.
LEMMA FileBuriesStep ==
  ASSUME BrokerInv, SavedAsRevoked, FileBuries, [BrokerNext]_brokerVars
  PROVE  FileBuries'
<1> SUFFICES ASSUME NEW t \in Token, RevokedOnFile(t)' PROVE Buried(t)'
  BY DEF FileBuries
<1>1. CASE UNCHANGED file
  <2>1. Buried(t)
    BY <1>1 DEF FileBuries, RevokedOnFile
  <2> QED
    BY <2>1, BuriedStep
<1>2. CASE Rename
  <2>1. /\ Saving /\ file' = tmp /\ shutdown' = "exit"
        /\ UNCHANGED <<added, tok, registered>>
    BY <1>2 DEF Rename, ShutdownGoto, Saving, vars, storeVars
  <2>2. t \in tmp.ids /\ tmp.record[t].revoked
    BY <2>1 DEF RevokedOnFile
  <2>3. t \in added /\ tok[t].revoked
    BY <2>1, <2>2 DEF BrokerInv, DiskInv, SavedAsRevoked
  <2> QED
    BY <2>1, <2>2, <2>3 DEF Buried, Live, Saving
<1> QED
  BY <1>1, <1>2, FileChanges

\* A revocation that has reached the disk is final, for any number of crashes,
\* restarts, recoveries and later saves, whichever of them fail.
THEOREM RevokedOnFileHolds == BrokerSpec => RevokedOnFileIsFinal
<1>1. BrokerInit => SavedAsRevoked /\ FileBuries
  BY DEF BrokerInit, SavedAsRevoked, Saving, FileBuries, RevokedOnFile, EmptyFile
<1>2. BrokerInv /\ SavedAsRevoked /\ FileBuries /\ [BrokerNext]_brokerVars
        => (SavedAsRevoked /\ FileBuries)'
  BY SavedStep, FileBuriesStep
<1>3. BrokerSpec => [](BrokerInv /\ FileBuries)
  BY <1>1, <1>2, BrokerInvHolds, PTL DEF BrokerSpec
<1>4. ASSUME NEW t \in Token
      PROVE  BrokerSpec => [](RevokedOnFile(t) => []~Live(t))
  <2>1. BrokerInv /\ [BrokerNext]_brokerVars /\ Buried(t) => Buried(t)'
    BY BuriedStep
  <2>2. FileBuries /\ RevokedOnFile(t) => Buried(t)
    BY DEF FileBuries
  <2>3. Buried(t) => ~Live(t)
    BY DEF Buried
  <2> QED
    BY <1>3, <2>1, <2>2, <2>3, PTL DEF BrokerSpec
<1> QED
  BY <1>4 DEF RevokedOnFileIsFinal

-----------------------------------------------------------------------------
(* Within one life of the process.                                         *)

\* Memory forgets; while the process lives it does not: from its start to its end
\* a revoked token keeps its revocation, its expiry and the reason, also while
\* RecoverMissedExpirations (reliability.go, 42-108) is filling the map.
THEOREM RevokedIsFinalWhileUp ==
  BrokerSpec =>
    [][proc' # "down" =>
         \A t \in Token : tok[t].revoked => /\ tok'[t].revoked
                                            /\ tok'[t].expiresAt = tok[t].expiresAt
                                            /\ cause'[t] = cause[t]]_brokerVars
<1> DEFINE Final == proc' # "down" =>
              \A t \in Token : tok[t].revoked => /\ tok'[t].revoked
                                                 /\ tok'[t].expiresAt = tok[t].expiresAt
                                                 /\ cause'[t] = cause[t]
<1>1. BrokerInv /\ [BrokerNext]_brokerVars => [Final]_brokerVars
  <2> SUFFICES ASSUME BrokerInv, [BrokerNext]_brokerVars, proc' # "down",
                      NEW t \in Token, tok[t].revoked
               PROVE  /\ tok'[t].revoked
                      /\ tok'[t].expiresAt = tok[t].expiresAt
                      /\ cause'[t] = cause[t]
    OBVIOUS
  <2>0. Inv /\ t \in registered /\ ~Live(t)
    BY DEF BrokerInv, MemoryInv, Inv, Registration, Live
  <2>1. CASE [Next]_vars
    BY <2>0, <2>1, KnownRecord DEF Extends
  <2>2. StoreKind \/ ProcessKind => [Next]_vars
    BY DEF StoreKind, ProcessKind, Next, Signal, StartWrite, FinishWrite, Rename, SaveFails,
       ShutdownGoto, Start, BootEnds
  <2>3. ~ProcessEnds
    BY DEF ProcessEnds
  <2>4. ASSUME NEW x \in Token, Readd(x) \/ MarkMissed(x)
        PROVE  tok'[t] = tok[t] /\ cause'[t] = cause[t]
    <3>1. x # t
      BY <2>0, <2>4, HandedOver
    <3>2. tok \in [Token -> TokenRecord] /\ DOMAIN cause = Token
      BY <2>0 DEF Inv, TypeInv, TypeOK
    <3>3. \/ tok' = [tok EXCEPT ![x] = file.record[x]]
          \/ tok' = [tok EXCEPT ![x] = [file.record[x] EXCEPT !.revoked = TRUE]]
      BY <2>4 DEF Readd, MarkMissed
    <3>4. UNCHANGED cause \/ cause' = [cause EXCEPT ![x] = "recovery"]
      BY <2>4 DEF Readd, MarkMissed, history
    <3> QED
      BY <3>1, <3>2, <3>3, <3>4
  <2>5. RevokeMissed => UNCHANGED <<tok, cause>>
    BY DEF RevokeMissed, storeVars
  <2> QED
    BY <2>1, <2>2, <2>3, <2>4, <2>5, BrokerKinds DEF BrokerInv
<1> HIDE DEF Final
<1>2. BrokerSpec => [][Final]_brokerVars
  BY <1>1, BrokerInvHolds, PTL DEF BrokerSpec
<1> QED
  BY <1>2 DEF Final

\* Warnings before the process is up: none given, none owed.
QuietBeforeUp ==
  proc # "up" => worker.toNotify = {} /\ \A t \in Token : warned[t] = 0

\* A life of the process starts with no warning given, whatever it recovers.
LEMMA WarningsStep ==
  ASSUME BrokerInv, BrokerInv', WarnInv, QuietBeforeUp, [BrokerNext]_brokerVars
  PROVE  WarnInv' /\ QuietBeforeUp'
<1>0. TypeInv /\ TypeInv'
  BY DEF BrokerInv, MemoryInv, Inv
<1>1. CASE StoreKind
  <2>1. WarnInv'
    BY <1>0, <1>1, WarnStep DEF StoreKind
  <2>2. CASE proc = "up"
    BY <1>1, <2>1, <2>2 DEF StoreKind, processVars, QuietBeforeUp
  <2>3. CASE proc # "up"
    <3>1. UNCHANGED <<worker, warned, proc>>
      BY <1>1, <2>3 DEF StoreKind, processVars, Tick, vars, history
    <3> QED
      BY <2>1, <3>1 DEF QuietBeforeUp
  <2> QED
    BY <2>2, <2>3
<1>2. CASE ProcessKind
  <2>1. [Next]_vars /\ UNCHANGED <<worker, warned>>
    BY <1>2 DEF ProcessKind, Next, Signal, Cancel, StartWrite, FinishWrite, Rename, SaveFails,
       ShutdownGoto, Start, BootEnds, vars, history
  <2>2. WarnInv'
    BY <1>0, <2>1, WarnStep
  <2>3. proc' # "up" => proc # "up"
    BY <1>2 DEF ProcessKind, Signal, StartWrite, FinishWrite, Rename, SaveFails,
       ShutdownGoto, Start, BootEnds
  <2> QED
    BY <2>1, <2>2, <2>3 DEF QuietBeforeUp
<1>3. CASE ProcessEnds
  <2>1. /\ worker' = IdleWorker /\ warned' = [t \in Token |-> 0]
        /\ tok' = [t \in Token |-> NoRecord]
    BY <1>3 DEF ProcessEnds
  <2> QED
    BY <2>1 DEF WarnInv, QuietBeforeUp, Owed, Allowed, IdleWorker, NoRecord
<1>4. ASSUME \/ \E t \in Token : Readd(t) \/ MarkMissed(t)
             \/ RevokeMissed
      PROVE  WarnInv' /\ QuietBeforeUp'
  <2>1. proc = "boot" /\ UNCHANGED <<worker, warned, proc>>
    BY <1>4 DEF Readd, MarkMissed, RevokeMissed, history
  <2>2. worker'.toNotify = {} /\ \A t \in Token : warned'[t] = 0
    BY <2>1 DEF QuietBeforeUp
  <2>3. \A t \in Token : tok'[t].extensions \in Nat
    BY <1>0 DEF TypeInv, TypeOK, TokenRecord
  <2>4. ASSUME NEW t \in Token
        PROVE  warned'[t] + Owed(t)' + Allowed(t)' <= tok'[t].extensions + 1
    <3>1. warned'[t] = 0 /\ Owed(t)' = 0 /\ Allowed(t)' \in {0, 1}
      BY <2>2 DEF Owed, Allowed
    <3> QED
      BY <2>3, <3>1
  <2> QED
    BY <2>1, <2>2, <2>4 DEF WarnInv, QuietBeforeUp
<1> QED
  BY <1>1, <1>2, <1>3, <1>4, BrokerKinds DEF BrokerInv

\* The record on disk does not say that a warning was given (ToRecord has no
\* field for NotifiedExpiry), so a restart may warn again; from start to end of one
\* process there is one warning at most for each granted window, those recovered
\* from the file included.
THEOREM OneWarningWhileUp == BrokerSpec => []OneWarningPerWindow
<1>1. BrokerInit => WarnInv /\ QuietBeforeUp
  BY WarnInit DEF BrokerInit, Init, QuietBeforeUp, IdleWorker
<1>2. BrokerInv /\ BrokerInv' /\ WarnInv /\ QuietBeforeUp /\ [BrokerNext]_brokerVars
        => WarnInv' /\ QuietBeforeUp'
  BY WarningsStep
<1>3. BrokerInv /\ WarnInv => OneWarningPerWindow
  BY WarnInvSays DEF BrokerInv, MemoryInv, Inv
<1> QED
  BY <1>1, <1>2, <1>3, BrokerInvHolds, PTL DEF BrokerSpec

-----------------------------------------------------------------------------
(* Recovery runs out.                                                      *)

\* The steps recovery has left: one for a record to re-add, two for one that was
\* missed, of which the second is its revocation.
RecoveryLeft ==
  Cardinality(boot.live) + 2 * Cardinality(boot.missed)
    + (IF boot.target = NoToken THEN 0 ELSE 1)

\* Its sets are sets of tokens, so the steps left are a number.
LEMMA RecoveryCounted ==
  ASSUME ProcessInv
  PROVE  /\ IsFiniteSet(boot.live) /\ IsFiniteSet(boot.missed)
         /\ Cardinality(boot.live) \in Nat /\ Cardinality(boot.missed) \in Nat
         /\ RecoveryLeft \in Nat
<1>1. boot.live \in SUBSET Token /\ boot.missed \in SUBSET Token
  BY DEF ProcessInv
<1>2. IsFiniteSet(boot.live) /\ IsFiniteSet(boot.missed)
  BY <1>1, TokensAssumption, FS_Subset
<1>3. Cardinality(boot.live) \in Nat /\ Cardinality(boot.missed) \in Nat
  BY <1>2, FS_CardinalityType
<1> QED
  BY <1>2, <1>3 DEF RecoveryLeft

\* A step of recovery that does anything to its work list shortens it.
LEMMA RecoveryShrinks ==
  ASSUME BrokerInv, BrokerInv', [BrokerNext]_brokerVars, proc = "boot", proc' = "boot"
  PROVE  \/ RecoveryLeft' < RecoveryLeft
         \/ UNCHANGED <<boot, storeVars>>
<1> DEFINE l == Cardinality(boot.live)
           m == Cardinality(boot.missed)
<1>0. /\ IsFiniteSet(boot.live) /\ IsFiniteSet(boot.missed) /\ l \in Nat /\ m \in Nat
      /\ boot \in [at : Nat, live : SUBSET Token, missed : SUBSET Token,
                   target : Token \cup {NoToken}]
  BY RecoveryCounted DEF BrokerInv, ProcessInv
<1>1. ASSUME NEW t \in Token, Readd(t) PROVE RecoveryLeft' < RecoveryLeft
  <2>1. /\ boot'.live = boot.live \ {t} /\ boot'.missed = boot.missed
        /\ boot'.target = boot.target /\ t \in boot.live
    BY <1>0, <1>1 DEF Readd
  <2>2. Cardinality(boot.live \ {t}) = l - 1
    BY <1>0, <2>1, FS_RemoveElement
  <2> QED
    BY <1>0, <2>1, <2>2 DEF RecoveryLeft
<1>2. ASSUME NEW t \in Token, MarkMissed(t) PROVE RecoveryLeft' < RecoveryLeft
  <2>1. /\ boot'.live = boot.live /\ boot'.missed = boot.missed \ {t}
        /\ boot.target = NoToken /\ t \in boot.missed
    BY <1>0, <1>2 DEF MarkMissed
  <2>2. Cardinality(boot.missed \ {t}) = m - 1
    BY <1>0, <2>1, FS_RemoveElement
  <2> QED
    BY <1>0, <2>1, <2>2 DEF RecoveryLeft
<1>3. CASE RevokeMissed
  <2>1. UNCHANGED storeVars /\ (UNCHANGED boot \/ boot' = [boot EXCEPT !.target = NoToken])
    BY <1>3 DEF RevokeMissed
  <2>2. boot.target # NoToken
    BY <1>3 DEF RevokeMissed
  <2>3. CASE boot' = [boot EXCEPT !.target = NoToken]
    <3>1. boot'.live = boot.live /\ boot'.missed = boot.missed /\ boot'.target = NoToken
      BY <1>0, <2>3
    <3> QED
      BY <1>0, <2>2, <3>1 DEF RecoveryLeft
  <2> QED
    BY <2>1, <2>3
<1>4. CASE StoreKind
  BY <1>4 DEF StoreKind, Tick, processVars, vars
<1>5. ~ProcessKind /\ ~ProcessEnds
  BY DEF ProcessKind, Signal, StartWrite, FinishWrite, Rename, SaveFails, Start, BootEnds,
     ProcessEnds
<1> QED
  BY <1>1, <1>2, <1>3, <1>4, <1>5, BrokerKinds DEF BrokerInv

\* RecoverMissedExpirations (reliability.go, 42-108) comes to its end, however many
\* tokens are on file: each step it makes leaves it fewer to make, and nothing else
\* in the broker adds to them; the exception is a provider that revokes a secret
\* and answers an error, which the retry loop bounds (LoopTerminates).
THEOREM RecoveryTerminates ==
  BrokerSpec =>
    /\ [](RecoveryLeft \in Nat)
    /\ [][proc = "boot" /\ proc' = "boot" =>
            RecoveryLeft' < RecoveryLeft \/ UNCHANGED <<boot, storeVars>>]_brokerVars
<1> DEFINE Shrinks == proc = "boot" /\ proc' = "boot" =>
                        RecoveryLeft' < RecoveryLeft \/ UNCHANGED <<boot, storeVars>>
<1>1. BrokerInv => RecoveryLeft \in Nat
  BY RecoveryCounted DEF BrokerInv
<1>2. BrokerInv /\ BrokerInv' /\ [BrokerNext]_brokerVars => [Shrinks]_brokerVars
  BY RecoveryShrinks
<1> HIDE DEF Shrinks
<1>3. BrokerSpec => [][Shrinks]_brokerVars
  BY <1>2, BrokerInvHolds, PTL DEF BrokerSpec
<1>4. BrokerSpec => [](RecoveryLeft \in Nat)
  BY <1>1, BrokerInvHolds, PTL DEF BrokerSpec
<1> QED
  BY <1>3, <1>4 DEF Shrinks
=============================================================================
