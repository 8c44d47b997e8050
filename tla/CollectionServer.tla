-------------------------- MODULE CollectionServer --------------------------
(***************************************************************************)
(* The handlers of the HTTP server (server/server.go, server/registry.go)   *)
(* that use a collection's database file, running concurrently.             *)
(*                                                                          *)
(* Every request runs one handler, a sequence of steps given by a table:    *)
(* take the locks, use the file, give the locks back.  Any step may fail or *)
(* panic, and then the deferred calls of the handler run.                   *)
(*                                                                          *)
(* The file itself is SQLite's (external): committed changes go to a        *)
(* write-ahead log beside the database, which is named after it; the last   *)
(* connection of a writer moves them into the database and removes the log, *)
(* and while other connections are open it may leave them there.            *)
(***************************************************************************)
EXTENDS Integers

CONSTANTS
  Requests,      \* the goroutines that serve requests
  Names, Paths,  \* collection names and database files
  PathOf,        \* the registry: name -> path
  Multi,         \* TRUE: a registry is configured
  Kinds,         \* the kinds of request that arrive
  MaxWrites,     \* bound: transactions committed
  MaxDownloads,  \* bound: files replaced
  Nobody

AllKinds == {"read", "write", "delta", "upload", "download"}
Syncs == {"delta", "upload", "download"}

ASSUME RegistryAssumption == PathOf \in [Names -> Paths] /\ Multi \in BOOLEAN
ASSUME KindsAssumption == Kinds \subseteq AllKinds
ASSUME BoundsAssumption == MaxWrites \in Nat /\ MaxDownloads \in Nat
ASSUME NobodyAssumption == Nobody \notin Requests

VARIABLES
  kind, name,    \* what each request asks for, of which collection
  pc,            \* the next step of each request's handler
  collLock,      \* the owner of each collection's mutex (or of syncMu)
  writeMu,       \* the owner of the server's writeMu
  file,          \* how often the file at each path has been replaced
  conn,          \* which of these files each request has open, or Closed
  stored,        \* changes in the database at each path
  log,           \* the log at each path: of which file, and up to which change
  sent,          \* the changes in the copy each upload has taken
  writes         \* transactions committed so far

reqVars == <<kind, name>>
lockVars == <<collLock, writeMu>>
fileVars == <<file, stored, log>>
vars == <<reqVars, pc, lockVars, fileVars, conn, sent, writes>>

Closed == -1
SyncMu == "syncMu"
Locks == IF Multi THEN Names ELSE {SyncMu}

\* lockForCollection picks the mutex.
LockOf(n) == IF Multi THEN n ELSE SyncMu

Path(r) == PathOf[name[r]]

\* The last change committed to the file at path p.
Committed(p) == IF log[p].file = file[p] /\ log[p].upto > stored[p]
                  THEN log[p].upto ELSE stored[p]

-----------------------------------------------------------------------------
(* The handlers: for each step, the next one                                *)

ReadHandler == [open |-> "query", query |-> "close", close |-> "idle"]

WriteHandler ==
  [wlock |-> "open", open |-> "commit", commit |-> "close",
   close |-> "wunlock", wunlock |-> "idle"]

\* Its counts of the cards, before and after, are left out: connections that
\* only read, at times when the handler keeps every writer out.
DeltaHandler ==
  [clock |-> "wlock", wlock |-> "auth", auth |-> "open", open |-> "commit",
   commit |-> "close", close |-> "wunlock", wunlock |-> "cunlock", cunlock |-> "idle"]

UploadHandler ==
  [clock |-> "wlock", wlock |-> "auth", auth |-> "send", send |-> "sent",
   sent |-> "wunlock", wunlock |-> "cunlock", cunlock |-> "idle"]

DownloadHandler ==
  [clock |-> "wlock", wlock |-> "auth", auth |-> "replace", replace |-> "open",
   open |-> "query", query |-> "close",
   close |-> "wunlock", wunlock |-> "cunlock", cunlock |-> "idle"]

Handler == [read |-> ReadHandler, write |-> WriteHandler, delta |-> DeltaHandler,
            upload |-> UploadHandler, download |-> DownloadHandler]

First(k) == IF k = "read" THEN "open" ELSE IF k = "write" THEN "wlock" ELSE "clock"

Advance(r) == pc' = [pc EXCEPT ![r] = Handler[kind[r]][pc[r]]]

Steps == (UNION {DOMAIN Handler[k] : k \in AllKinds}) \cup {"idle"}

TypeOK ==
  /\ kind \in [Requests -> Kinds] /\ name \in [Requests -> Names]
  /\ pc \in [Requests -> Steps]
  /\ \A r \in Requests : pc[r] \in DOMAIN Handler[kind[r]] \cup {"idle"}
  /\ collLock \in [Locks -> Requests \cup {Nobody}]
  /\ writeMu \in Requests \cup {Nobody}
  /\ file \in [Paths -> Nat] /\ stored \in [Paths -> Nat]
  /\ log \in [Paths -> [file : Nat, upto : Nat]]
  /\ conn \in [Requests -> Nat \cup {Closed}]
  /\ sent \in [Requests -> Nat] /\ writes \in Nat

-----------------------------------------------------------------------------
(* Steps                                                                    *)

\* A request is routed to its handler; the registry resolves its collection.
Arrive(r) ==
  /\ pc[r] = "idle"
  /\ \E k \in Kinds, n \in Names :
       /\ kind' = [kind EXCEPT ![r] = k]
       /\ name' = [name EXCEPT ![r] = n]
       /\ pc' = [pc EXCEPT ![r] = First(k)]
  /\ UNCHANGED <<lockVars, fileVars, conn, sent, writes>>

LockColl(r) ==
  /\ pc[r] = "clock"
  /\ collLock[LockOf(name[r])] = Nobody
  /\ collLock' = [collLock EXCEPT ![LockOf(name[r])] = r]
  /\ Advance(r)
  /\ UNCHANGED <<reqVars, writeMu, fileVars, conn, sent, writes>>

\* Mutants: a handler forgets writeMu.
LocksUnlessUpload(k) == k \notin {"read", "upload"}
LocksUnlessWrite(k) == k \notin {"read", "write"}

LocksWriteMu(k) == k # "read"

LockWrite(r) ==
  /\ pc[r] = "wlock"
  /\ IF LocksWriteMu(kind[r])
       THEN writeMu = Nobody /\ writeMu' = r
       ELSE UNCHANGED writeMu
  /\ Advance(r)
  /\ UNCHANGED <<reqVars, collLock, fileVars, conn, sent, writes>>

\* The sync handlers log in before they use the file.
Authenticate(r) ==
  /\ pc[r] = "auth"
  /\ Advance(r)
  /\ UNCHANGED <<reqVars, lockVars, fileVars, conn, sent, writes>>

OpenFile(r) ==
  /\ pc[r] = "open"
  /\ conn' = [conn EXCEPT ![r] = file[Path(r)]]
  /\ Advance(r)
  /\ UNCHANGED <<reqVars, lockVars, fileVars, sent, writes>>

Query(r) ==
  /\ pc[r] = "query"
  /\ Advance(r)
  /\ UNCHANGED <<reqVars, lockVars, fileVars, conn, sent, writes>>

\* A transaction commits; a delta sync may have more of them.
Commit(r) ==
  /\ pc[r] = "commit"
  /\ writes < MaxWrites
  /\ writes' = writes + 1
  /\ log' = [log EXCEPT ![Path(r)] = [file |-> conn[r], upto |-> writes + 1]]
  /\ Advance(r) \/ (kind[r] = "delta" /\ UNCHANGED pc)
  /\ UNCHANGED <<reqVars, lockVars, file, stored, conn, sent>>

\* Nothing to change: the deck exists, or the sync has nothing to apply.
NoCommit(r) ==
  /\ pc[r] = "commit"
  /\ Advance(r)
  /\ UNCHANGED <<reqVars, lockVars, fileVars, conn, sent, writes>>

NoLog == [file |-> 0, upto |-> 0]

Checkpoint(p) ==
  /\ stored' = [stored EXCEPT ![p] = Committed(p)]
  /\ log' = [log EXCEPT ![p] = NoLog]

\* Another request has the same file open.
Shared(r) ==
  \E q \in Requests \ {r} : conn[q] = conn[r] /\ Path(q) = Path(r)

CloseFile(r) ==
  /\ pc[r] = "close"
  /\ conn' = [conn EXCEPT ![r] = Closed]
  /\ \/ /\ kind[r] \in {"write", "delta"} /\ conn[r] = file[Path(r)]
        /\ Checkpoint(Path(r))
     \/ /\ \/ kind[r] \notin {"write", "delta"} \/ conn[r] # file[Path(r)]
           \/ Shared(r)
        /\ UNCHANGED <<stored, log>>
  /\ Advance(r)
  /\ UNCHANGED <<reqVars, lockVars, file, sent, writes>>

\* FullUpload reads the database file; "sent" is the end of the reading.
SendFile(r) ==
  /\ pc[r] = "send"
  /\ sent' = [sent EXCEPT ![r] = stored[Path(r)]]
  /\ Advance(r)
  /\ UNCHANGED <<reqVars, lockVars, fileVars, conn, writes>>

FileSent(r) ==
  /\ pc[r] = "sent"
  /\ sent' = [sent EXCEPT ![r] = 0]
  /\ Advance(r)
  /\ UNCHANGED <<reqVars, lockVars, fileVars, conn, writes>>

\* FullDownload moves a new database to the path; the log there stays.
ReplaceFile(r) ==
  /\ pc[r] = "replace"
  /\ file[Path(r)] < MaxDownloads
  /\ file' = [file EXCEPT ![Path(r)] = @ + 1]
  /\ stored' = [stored EXCEPT ![Path(r)] = 0]
  /\ Advance(r)
  /\ UNCHANGED <<reqVars, lockVars, log, conn, sent, writes>>

\* Mutant: an early return jumps over the deferred Unlock.
LeakingRelease(r) == IF conn[r] # Closed THEN "close" ELSE "idle"

\* Mutant: the deferred calls of a synchronisation, in every handler.
SyncRelease(r) ==
  IF conn[r] # Closed THEN "close" ELSE IF kind[r] = "read" THEN "idle" ELSE "cunlock"

\* The first deferred call of the handler of r.
ReleaseStep(r) ==
  IF conn[r] # Closed THEN "close" ELSE IF kind[r] = "read" THEN "idle" ELSE "wunlock"

\* A step fails, the client goes away or the handler panics.
Fail(r) ==
  /\ pc[r] \in {"auth", "open", "query", "commit", "send", "replace"}
  /\ pc' = [pc EXCEPT ![r] = ReleaseStep(r)]
  /\ UNCHANGED <<reqVars, lockVars, fileVars, conn, sent, writes>>

UnlockWrite(r) ==
  /\ pc[r] = "wunlock"
  /\ writeMu' = IF LocksWriteMu(kind[r]) THEN Nobody ELSE writeMu
  /\ Advance(r)
  /\ UNCHANGED <<reqVars, collLock, fileVars, conn, sent, writes>>

UnlockColl(r) ==
  /\ pc[r] = "cunlock"
  /\ collLock' = [collLock EXCEPT ![LockOf(name[r])] = Nobody]
  /\ Advance(r)
  /\ UNCHANGED <<reqVars, writeMu, fileVars, conn, sent, writes>>

-----------------------------------------------------------------------------
Init ==
  /\ kind \in [Requests -> Kinds] /\ name \in [Requests -> Names]
  /\ pc = [r \in Requests |-> "idle"]
  /\ collLock = [l \in Locks |-> Nobody] /\ writeMu = Nobody
  /\ file = [p \in Paths |-> 0] /\ stored = [p \in Paths |-> 0]
  /\ log = [p \in Paths |-> NoLog]
  /\ conn = [r \in Requests |-> Closed]
  /\ sent = [r \in Requests |-> 0] /\ writes = 0

\* What the goroutine of a request does by itself, apart from waiting for locks.
Run(r) ==
  \/ Authenticate(r) \/ OpenFile(r) \/ Query(r) \/ Commit(r) \/ NoCommit(r)
  \/ CloseFile(r) \/ SendFile(r) \/ FileSent(r) \/ ReplaceFile(r) \/ Fail(r)
  \/ UnlockWrite(r) \/ UnlockColl(r)

Next == \E r \in Requests : Arrive(r) \/ LockColl(r) \/ LockWrite(r) \/ Run(r)

Spec == Init /\ [][Next]_vars

\* Every step of a handler returns (calls to the sync server have timeouts),
\* and a sync.Mutex hands over to a goroutine that has waited long enough.
FairSpec ==
  /\ Spec
  /\ \A r \in Requests : WF_vars(Run(r)) /\ SF_vars(LockColl(r)) /\ SF_vars(LockWrite(r))

-----------------------------------------------------------------------------
(* Properties                                                               *)

\* The steps in which a handler that changes, replaces or sends the file uses it.
Locked == {"auth", "open", "query", "commit", "close", "send", "sent", "replace", "wunlock"}

Using(r) == kind[r] # "read" /\ pc[r] \in Locked

User(p) == IF \E r \in Requests : Using(r) /\ Path(r) = p
             THEN CHOOSE r \in Requests : Using(r) /\ Path(r) = p
             ELSE Nobody

FA == INSTANCE FileAccess WITH user <- [p \in Paths |-> User(p)]

(***************************************************************************)
(* The handlers use each file one at a time, also when two names of the     *)
(* registry lead to the same file.                                          *)
(***************************************************************************)
FileExclusive == FA!Spec

(***************************************************************************)
(* A full upload sends every change that was committed (handleSyncUpload).  *)
(***************************************************************************)
UploadComplete ==
  \A r \in Requests : pc[r] = "sent" => sent[r] = Committed(Path(r))

(***************************************************************************)
(* A log next to a database is that database's own: FullDownload replaces   *)
(* a file only when its log is gone.                                        *)
(***************************************************************************)
LogBelongs == \A p \in Paths : log[p].upto > 0 => log[p].file = file[p]

(***************************************************************************)
(* Every request gets its answer: no deadlock between the two locks, none   *)
(* leaked by an early return, nobody starved.                               *)
(***************************************************************************)
Answered == \A r \in Requests : pc[r] # "idle" ~> pc[r] = "idle"
=============================================================================
