--------------------------- MODULE BrokerRestart ---------------------------
(***************************************************************************)
(* The broker process around the store: start and recovery, the state      *)
(* file, graceful shutdown, and crashes (main.go, store/reliability.go,    *)
(* persistence/persistence.go).                                            *)
(*                                                                         *)
(*   down --Start--> boot --BootEnds--> up --Signal, ..., Exit--> down     *)
(*                                                                         *)
(* Memory (every variable of TokenStore but the clock, the provider and    *)
(* the history) is lost when the process ends; the state file and the      *)
(* provider's leases survive.  While the process is up the store steps as  *)
(* TokenStore says, also while main's signal goroutine is shutting it      *)
(* down.  Recovery runs in main before the worker and the HTTP server.     *)
(***************************************************************************)
EXTENDS TokenStore

CONSTANTS
  MaxCrashes,     \* bound: how often the process is killed
  MaxShutdowns,   \* bound: how often it is asked to stop
  DiskMayFail     \* whether a save may fail

ASSUME RestartsAssumption ==
  MaxCrashes \in Nat /\ MaxShutdowns \in Nat /\ DiskMayFail \in BOOLEAN

VARIABLES
  proc,           \* "down", "boot" (main up to go Run), "up"
  boot,           \* RecoverMissedExpirations: what it still has to do
  shutdown,       \* where main's signal goroutine is
  file,           \* the state file
  tmp,            \* the file SaveAll writes first
  crashes, shutdowns,  \* counters, for the bounds
  added           \* history: tokens ever passed to Store.Add

disk        == <<file, tmp>>
counters    == <<crashes, shutdowns>>
processVars == <<proc, boot, shutdown, disk, counters>>
brokerVars  == <<vars, processVars, added>>

\* The records of "ids"; whole is FALSE while only a part has been written.
File == [whole : BOOLEAN, ids : SUBSET Token, record : [Token -> TokenRecord]]

\* No file yet: LoadAll returns no records, and no error.
EmptyFile ==
  [whole |-> TRUE, ids |-> {}, record |-> [t \in Token |-> NoRecord]]

NotBooting == [at |-> NoTime, live |-> {}, missed |-> {}, target |-> NoToken]

BrokerTypeOK ==
  /\ proc \in {"down", "boot", "up"}
  /\ boot \in [at : Nat, live : SUBSET Token, missed : SUBSET Token,
               target : Token \cup {NoToken}]
  /\ shutdown \in {"waiting", "persist", "write", "rename", "exit"}
  /\ file \in File /\ tmp \in File
  /\ crashes \in 0..MaxCrashes /\ shutdowns \in 0..MaxShutdowns
  /\ registered \subseteq added /\ added \subseteq Token
  /\ revokedCount = Cardinality({t \in Token : tok[t].revoked})

BrokerInit ==
  /\ Init
  /\ proc = "down" /\ boot = NotBooting /\ shutdown = "waiting"
  /\ file = EmptyFile /\ tmp = EmptyFile
  /\ crashes = 0 /\ shutdowns = 0
  /\ added = {}

-----------------------------------------------------------------------------
(* The process is up: the store steps.                                     *)

StoreStep(A) ==
  /\ proc = "up" /\ A
  /\ added' = added \cup registered'
  /\ UNCHANGED processVars

Request(c)   == StoreStep(ClientStarts(c))
Handler(c)   == StoreStep(ClientContinues(c))
WorkerStep   == StoreStep(Worker)
TickerStep   == StoreStep(TickerFires)

\* Time passes whether the process runs or not.
Clock == Tick /\ UNCHANGED <<processVars, added>>

-----------------------------------------------------------------------------
(* Shutdown: on a signal main cancels the worker's context, writes the     *)
(* state and stops the server.  Requests and worker go on meanwhile.       *)

Signal ==
  /\ proc = "up" /\ shutdown = "waiting" /\ shutdowns < MaxShutdowns
  /\ Cancel
  /\ shutdown' = "persist"
  /\ shutdowns' = shutdowns + 1
  /\ UNCHANGED <<proc, boot, disk, crashes, added>>

\* What PersistAll reads under the lock: every token in the map.  ToRecord has
\* no field for NotifiedExpiry.
Snapshot(whole) ==
  [whole |-> whole, ids |-> registered,
   record |-> [t \in Token |->
                 IF t \in registered THEN [tok[t] EXCEPT !.notified = FALSE]
                 ELSE NoRecord]]

ShutdownGoto(pc) ==
  /\ shutdown' = pc
  /\ UNCHANGED <<vars, proc, boot, counters, added>>

\* Seeded fault: the state file itself is written, not a temporary one.
WriteInPlace ==
  /\ proc = "up" /\ shutdown = "persist"
  /\ file' = Snapshot(FALSE) /\ tmp' = Snapshot(FALSE)
  /\ ShutdownGoto("write")

\* SaveAll opens (and truncates) the temporary file.
StartWrite ==
  /\ proc = "up" /\ shutdown = "persist"
  /\ tmp' = Snapshot(FALSE)
  /\ ShutdownGoto("write")
  /\ UNCHANGED file

FinishWrite ==
  /\ proc = "up" /\ shutdown = "write"
  /\ tmp' = [tmp EXCEPT !.whole = TRUE]
  /\ ShutdownGoto("rename")
  /\ UNCHANGED file

Rename ==
  /\ proc = "up" /\ shutdown = "rename"
  /\ file' = tmp /\ tmp' = EmptyFile
  /\ ShutdownGoto("exit")

\* An error of WriteFile or Rename: main drops it and goes on to the exit.
SaveFails ==
  /\ proc = "up" /\ shutdown \in {"write", "rename"} /\ DiskMayFail
  /\ ShutdownGoto("exit")
  /\ UNCHANGED disk

\* The process ends, and with it its memory and its goroutines.
ProcessEnds ==
  /\ proc' = "down" /\ boot' = NotBooting /\ shutdown' = "waiting"
  /\ tok' = [t \in Token |-> NoRecord] /\ registered' = {} /\ pq' = << >>
  /\ revokedCount' = 0
  /\ client' = [c \in Client |-> Idle] /\ worker' = IdleWorker
  /\ tickBuf' = NoTime /\ cancelled' = FALSE
  /\ cause' = [t \in Token |-> "none"] /\ warned' = [t \in Token |-> 0]
  /\ UNCHANGED <<now, leases, answer, disk, added>>

\* httpSrv.Shutdown makes ListenAndServe return, and main returns with it: no
\* request and no revocation under way is waited for.
Exit ==
  /\ proc = "up" /\ shutdown = "exit"
  /\ ProcessEnds
  /\ UNCHANGED counters

\* Killed, out of power, or log.Fatalf.
Crash ==
  /\ proc # "down" /\ crashes < MaxCrashes
  /\ ProcessEnds
  /\ crashes' = crashes + 1
  /\ UNCHANGED shutdowns

-----------------------------------------------------------------------------
(* Start: SetPersistence calls RecoverMissedExpirations, with no worker and *)
(* no request beside it.                                                   *)

\* LoadActive; a file that cannot be parsed ends the recovery with an error
\* that main only logs.
LoadActive ==
  IF file.whole THEN {t \in file.ids : ~file.record[t].revoked} ELSE {}

\* Seeded fault: strict on both sides.
StrictlyValid(t, at) == at < file.record[t].expiresAt

\* Before(now) is false at the very moment of expiry: still valid.
StillValid(t, at) == ~(file.record[t].expiresAt < at)

\* Seeded fault: a token that expires just now is on both sides.
MissedInclusive(t, at) == file.record[t].expiresAt <= at

\* r.ExpiresAt.Before(now)
Missed(t, at) == file.record[t].expiresAt < at

Start ==
  /\ proc = "down"
  /\ proc' = "boot"
  /\ boot' = [at |-> now, target |-> NoToken,
              live   |-> {t \in LoadActive : StillValid(t, now)},
              missed |-> {t \in LoadActive : Missed(t, now)}]
  /\ UNCHANGED <<vars, shutdown, disk, counters, added>>

\* Seeded fault: a recovered token goes into the map but not into the heap.
ReaddToMap(t) ==
  /\ proc = "boot" /\ t \in boot.live
  /\ boot' = [boot EXCEPT !.live = @ \ {t}]
  /\ tok' = [tok EXCEPT ![t] = file.record[t]]
  /\ registered' = registered \cup {t}
  /\ added' = added \cup {t}
  /\ UNCHANGED <<now, pq, revokedCount, leases, client, worker, tickBuf,
                 cancelled, history, proc, shutdown, disk, counters>>

\* Seeded fault: every record on file is taken for an active one, and ToToken
\* has no field for Revoked.
ReaddUnfiltered(t) ==
  /\ proc = "boot" /\ t \in file.ids \ registered
  /\ boot' = [boot EXCEPT !.live = @ \ {t}]
  /\ tok' = [tok EXCEPT ![t] = [file.record[t] EXCEPT !.revoked = FALSE]]
  /\ registered' = registered \cup {t}
  /\ pq' = HeapPush([Expiry EXCEPT ![t] = file.record[t].expiresAt], pq, t)
  /\ added' = added \cup {t}
  /\ UNCHANGED <<now, revokedCount, leases, client, worker, tickBuf, cancelled,
                 history, proc, shutdown, disk, counters>>

\* ToToken and Store.Add.  The store is empty at boot and every record on file
\* has been through Add, so neither Add's default nor the check for a token
\* that is there already applies.
Readd(t) ==
  /\ proc = "boot" /\ t \in boot.live
  /\ boot' = [boot EXCEPT !.live = @ \ {t}]
  /\ tok' = [tok EXCEPT ![t] = file.record[t]]
  /\ registered' = registered \cup {t}
  /\ pq' = HeapPush([Expiry EXCEPT ![t] = file.record[t].expiresAt], pq, t)
  /\ added' = added \cup {t}
  /\ UNCHANGED <<now, revokedCount, leases, client, worker, tickBuf, cancelled,
                 history, proc, shutdown, disk, counters>>

\* Seeded fault: the recovered revocation is not counted.
MarkMissedUncounted(t) ==
  /\ proc = "boot" /\ boot.live = {} /\ boot.target = NoToken /\ t \in boot.missed
  /\ boot' = [boot EXCEPT !.missed = @ \ {t}, !.target = t]
  /\ tok' = [tok EXCEPT ![t] = [file.record[t] EXCEPT !.revoked = TRUE]]
  /\ registered' = registered \cup {t}
  /\ cause' = [cause EXCEPT ![t] = "recovery"]
  /\ UNCHANGED <<now, pq, revokedCount, leases, client, worker, tickBuf,
                 cancelled, answer, warned, proc, shutdown, disk, counters, added>>

\* A token that expired while the broker was down enters the map revoked, and
\* not the heap.
MarkMissed(t) ==
  /\ proc = "boot" /\ boot.live = {} /\ boot.target = NoToken /\ t \in boot.missed
  /\ boot' = [boot EXCEPT !.missed = @ \ {t}, !.target = t]
  /\ tok' = [tok EXCEPT ![t] = [file.record[t] EXCEPT !.revoked = TRUE]]
  /\ registered' = registered \cup {t}
  /\ revokedCount' = revokedCount + 1
  /\ cause' = [cause EXCEPT ![t] = "recovery"]
  /\ UNCHANGED <<now, pq, leases, client, worker, tickBuf, cancelled, answer,
                 warned, proc, shutdown, disk, counters, added>>

\* revoker.Revoke with context.Background(): nothing cancels it.
RevokeMissed ==
  LET t == boot.target
      next == boot' = [boot EXCEPT !.target = NoToken]
  IN  /\ proc = "boot" /\ t # NoToken
      /\ \/ RevokeSucceeds(t) /\ next
         \/ RevokeLost(t)     /\ UNCHANGED boot
         \/ RevokeFails(t)    /\ next
      /\ UNCHANGED <<now, storeVars, client, worker, tickBuf, cancelled, cause,
                     warned, proc, shutdown, disk, counters, added>>

BootEnds ==
  /\ proc = "boot"
  /\ boot.live = {} /\ boot.missed = {} /\ boot.target = NoToken
  /\ proc' = "up" /\ boot' = NotBooting
  /\ UNCHANGED <<vars, shutdown, disk, counters, added>>

-----------------------------------------------------------------------------
ShutdownStep == StartWrite \/ FinishWrite \/ Rename \/ SaveFails \/ Exit

BootStep ==
  \/ Start \/ RevokeMissed \/ BootEnds
  \/ \E t \in Token : Readd(t) \/ MarkMissed(t)

BrokerNext ==
  \/ \E c \in Client : Request(c) \/ Handler(c)
  \/ WorkerStep \/ TickerStep \/ Clock
  \/ Signal \/ ShutdownStep \/ Crash \/ BootStep

BrokerSpec == BrokerInit /\ [][BrokerNext]_brokerVars

\* As in TokenStore, and the broker is started again whenever it is down.
BrokerFairness ==
  /\ WF_brokerVars(Clock) /\ WF_brokerVars(TickerStep) /\ WF_brokerVars(WorkerStep)
  /\ \A c \in Client : WF_brokerVars(Handler(c))
  /\ WF_brokerVars(ShutdownStep) /\ WF_brokerVars(BootStep)

FairBrokerSpec == BrokerSpec /\ BrokerFairness

-----------------------------------------------------------------------------
(* Properties.                                                             *)

\* persistence.go, 57: "SaveAll atomically writes all records to disk": the
\* state file can be read whenever the process may start, whatever step of a
\* save it died in.  (SaveAll does not sync: that a rename comes to the disk after
\* the data it names is taken from the file system.)
FileAlwaysWhole == file.whole

\* A broker that is up knows everything its state file knows: each record is
\* in the map with the same start of session and no lesser expiry, and one
\* that is live in the map is not revoked on file.  A save under way must not
\* put a state on disk that memory has never been in.
StoreNotBehindFile ==
  proc = "up" =>
    \A t \in file.ids :
      /\ ~file.record[t].revoked => t \in registered
      /\ t \in registered =>
           /\ tok[t].originalIssuedAt = file.record[t].originalIssuedAt
           /\ tok[t].expiresAt >= file.record[t].expiresAt
           /\ file.record[t].revoked => tok[t].revoked

\* Recovery leaves no active record out and takes none twice: when the worker
\* starts, a token that had expired is revoked and its revocation was tried,
\* and any other is live.
RecoverySplits ==
  [][proc = "boot" /\ proc' = "up" =>
       \A t \in LoadActive :
         /\ t \in registered
         /\ tok[t].revoked <=> tok[t].expiresAt < boot.at
         /\ tok[t].revoked => answer[t] # "none"]_brokerVars

RevokedOnFile(t) == t \in file.ids /\ file.record[t].revoked

\* A revocation that has reached the disk is final: whatever crashes, failed
\* saves and recoveries follow, and although a later file no longer lists the
\* token, it is never live again.
RevokedOnFileIsFinal ==
  \A t \in Token : [](RevokedOnFile(t) => []~Live(t))

\* persistence.go, 1-2: "durable session lifecycle storage so the broker
\* survives restarts without orphaning tokens": after a restart the broker
\* knows every token it ever granted, or the provider has revoked it.
NoOrphans ==
  proc = "up" => \A t \in added : t \in registered \/ answer[t] = "ok"

\* Under FairBrokerSpec: a token that is active on file is revoked in the end,
\* whatever crashes and shutdowns come first.
RecordedEventuallyEnds ==
  \A t \in Token : t \in LoadActive ~> t \in registered /\ tok[t].revoked
=============================================================================
