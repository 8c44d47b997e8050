----------------------- MODULE CollectionServerProofs -----------------------
(***************************************************************************)
(* Proofs about CollectionServer: whatever the number of requests, names    *)
(* and files, the handlers use each file one at a time (Refinement), give   *)
(* back every lock (LocksGivenBack), and never wait for each other in a     *)
(* circle (NoDeadlock).                                                     *)
(*                                                                          *)
(* Without readers it follows that there is a log beside a database only    *)
(* while a handler writes to it (LogInv); so a file that is replaced or     *)
(* sent has none, and everything committed is in it.                        *)
(***************************************************************************)
EXTENDS CollectionServer, TLAPS

\* writeMu belongs to the request that uses a file.
OwnerInv == \A r \in Requests : Using(r) <=> writeMu = r

PcInv ==
  /\ kind \in [Requests -> AllKinds] /\ name \in [Requests -> Names]
  /\ pc \in [Requests -> Steps]
  /\ \A r \in Requests : pc[r] \in DOMAIN Handler[kind[r]] \cup {"idle"}
  /\ writeMu \in Requests \cup {Nobody}

\* A file is open only in the steps that use the connection.
ConnInv ==
  /\ conn \in [Requests -> Nat \cup {Closed}]
  /\ file \in [Paths -> Nat]
  /\ \A r \in Requests : conn[r] # Closed => pc[r] \in {"query", "commit", "close"}

Inv == PcInv /\ OwnerInv /\ ConnInv

-----------------------------------------------------------------------------
\* What the tables of the handlers say about the locks: a handler enters the
\* locked steps from "wlock" and leaves them from "wunlock".
LEMMA HandlerSteps ==
  ASSUME NEW k \in AllKinds, NEW s \in DOMAIN Handler[k]
  PROVE  /\ Handler[k][s] \in DOMAIN Handler[k] \cup {"idle"}
         /\ k # "read" /\ s \in Locked \ {"wunlock"} => Handler[k][s] \in Locked
         /\ s = "wlock" => k # "read" /\ Handler[k][s] \in Locked
         /\ s \in {"clock", "wunlock", "cunlock"} => Handler[k][s] \notin Locked
         /\ s = "wunlock" => k # "read"
         /\ s = "open" => Handler[k][s] \in {"query", "commit"}
         /\ s \in {"query", "commit"} => Handler[k][s] = "close"
<1>1. CASE k = "read"
  BY <1>1 DEF Handler, ReadHandler, Locked
<1>2. CASE k = "write"
  BY <1>2 DEF Handler, WriteHandler, Locked
<1>3. CASE k = "delta"
  BY <1>3 DEF Handler, DeltaHandler, Locked
<1>4. CASE k = "upload"
  BY <1>4 DEF Handler, UploadHandler, Locked
<1>5. CASE k = "download"
  BY <1>5 DEF Handler, DownloadHandler, Locked
<1>6. QED
  BY <1>1, <1>2, <1>3, <1>4, <1>5 DEF AllKinds

LEMMA FirstSteps ==
  ASSUME NEW k \in AllKinds
  PROVE  First(k) \in DOMAIN Handler[k] /\ (k # "read" => First(k) \notin Locked)
BY DEF AllKinds, First, Handler, ReadHandler, WriteHandler, DeltaHandler, UploadHandler,
       DownloadHandler, Locked

\* The deferred calls of a handler start at a step of its table.
LEMMA ReleaseSteps ==
  ASSUME NEW r \in Requests, NEW k \in AllKinds, kind[r] = k, NEW s \in DOMAIN Handler[k],
         s \in {"auth", "open", "query", "commit", "send", "replace"},
         conn[r] # Closed => s \in {"query", "commit"}
  PROVE  /\ ReleaseStep(r) \in DOMAIN Handler[k] \cup {"idle"}
         /\ k # "read" => ReleaseStep(r) \in Locked
BY DEF AllKinds, ReleaseStep, Handler, ReadHandler, WriteHandler, DeltaHandler,
       UploadHandler, DownloadHandler, Locked

\* A request that takes a step of its table and keeps the locks as they are.
LEMMA QuietStep ==
  ASSUME Inv, NEW r \in Requests, NEW s \in Steps, pc' = [pc EXCEPT ![r] = s],
         s \in DOMAIN Handler[kind[r]] \cup {"idle"},
         kind[r] # "read" => (pc[r] \in Locked <=> s \in Locked),
         UNCHANGED <<reqVars, writeMu>>,
         conn' \in [Requests -> Nat \cup {Closed}], file' \in [Paths -> Nat],
         \A q \in Requests \ {r} : conn'[q] = conn[q],
         conn'[r] # Closed => s \in {"query", "commit", "close"}
  PROVE  Inv'
<1> USE DEF Inv, PcInv, OwnerInv, ConnInv, Using, reqVars
<1>1. PcInv'
  OBVIOUS
<1>2. OwnerInv'
  OBVIOUS
<1>3. ConnInv'
  OBVIOUS
<1>4. QED
  BY <1>1, <1>2, <1>3

\* The user of a file is the owner of writeMu, when it is about this file.
LEMMA UserIsOwner ==
  ASSUME Inv, NEW p \in Paths
  PROVE  User(p) = IF writeMu \in Requests /\ Path(writeMu) = p THEN writeMu ELSE Nobody
<1>1. \A r \in Requests : Using(r) /\ Path(r) = p <=> r = writeMu /\ Path(r) = p
  BY DEF Inv, OwnerInv
<1>2. CASE writeMu \in Requests /\ Path(writeMu) = p
  <2>1. (CHOOSE r \in Requests : Using(r) /\ Path(r) = p) = writeMu
    BY <1>1, <1>2
  <2>2. QED
    BY <1>1, <1>2, <2>1 DEF User
<1>3. CASE ~(writeMu \in Requests /\ Path(writeMu) = p)
  BY <1>1, <1>3 DEF User
<1>4. QED
  BY <1>2, <1>3

\* The same in the next state.
LEMMA NextUserIsOwner ==
  ASSUME Inv', NEW p \in Paths
  PROVE  User(p)' = IF writeMu' \in Requests /\ Path(writeMu)' = p THEN writeMu' ELSE Nobody
<1>1. \A r \in Requests : Using(r)' /\ Path(r)' = p <=> r = writeMu' /\ Path(r)' = p
  BY DEF Inv, OwnerInv
<1>2. CASE writeMu' \in Requests /\ Path(writeMu)' = p
  <2>1. (CHOOSE r \in Requests : Using(r)' /\ Path(r)' = p) = writeMu'
    BY <1>1, <1>2
  <2>2. QED
    BY <1>1, <1>2, <2>1 DEF User
<1>3. CASE ~(writeMu' \in Requests /\ Path(writeMu)' = p)
  BY <1>1, <1>3 DEF User
<1>4. QED
  BY <1>2, <1>3

\* Steps that leave writeMu alone preserve the invariant.
LEMMA RunStep ==
  ASSUME Inv, NEW r \in Requests, Run(r), ~UnlockWrite(r)
  PROVE  Inv' /\ UNCHANGED <<reqVars, writeMu>>
<1>1. kind[r] \in AllKinds /\ pc[r] \in DOMAIN Handler[kind[r]] \cup {"idle"}
  BY DEF Inv, PcInv
<1>2. ASSUME pc[r] \in DOMAIN Handler[kind[r]], Advance(r),
             kind[r] # "read" => pc[r] \in (Locked \ {"wunlock"}) \cup {"clock", "cunlock"},
             UNCHANGED <<reqVars, writeMu>>, file' \in [Paths -> Nat],
             conn' \in [Requests -> Nat \cup {Closed}],
             \A q \in Requests \ {r} : conn'[q] = conn[q],
             conn'[r] # Closed => Handler[kind[r]][pc[r]] \in {"query", "commit", "close"}
      PROVE  Inv' /\ UNCHANGED <<reqVars, writeMu>>
  <2>1. Handler[kind[r]][pc[r]] \in Steps
    BY <1>1, <1>2, HandlerSteps DEF Steps
  <2>2. kind[r] # "read" => (pc[r] \in Locked <=> Handler[kind[r]][pc[r]] \in Locked)
    BY <1>1, <1>2, HandlerSteps DEF Locked
  <2> DEFINE s == Handler[kind[r]][pc[r]]
  <2>3. s \in DOMAIN Handler[kind[r]] \cup {"idle"}
    BY <1>1, <1>2, HandlerSteps
  <2>4. pc' = [pc EXCEPT ![r] = s]
    BY <1>2 DEF Advance
  <2> HIDE DEF s
  <2>5. s \in Steps /\ (kind[r] # "read" => (pc[r] \in Locked <=> s \in Locked))
    BY <2>1, <2>2 DEF s
  <2>6. conn'[r] # Closed => s \in {"query", "commit", "close"}
    BY <1>2 DEF s
  <2>7. QED
    BY <1>2, <2>3, <2>4, <2>5, <2>6, QuietStep
<1>3. /\ conn \in [Requests -> Nat \cup {Closed}] /\ file \in [Paths -> Nat]
      /\ Path(r) \in Paths
      /\ conn[r] # Closed => pc[r] \in {"query", "commit", "close"}
  BY RegistryAssumption DEF Inv, PcInv, ConnInv, Path
<1>4. pc[r] # "idle" => pc[r] \in DOMAIN Handler[kind[r]]
  BY <1>1
<1> USE DEF fileVars, lockVars, reqVars
<1>5. CASE Authenticate(r)
  BY <1>2, <1>3, <1>4, <1>5 DEF Authenticate, Locked
<1>6. CASE OpenFile(r)
  <2>1. Handler[kind[r]][pc[r]] \in {"query", "commit"}
    BY <1>1, <1>4, <1>6, HandlerSteps DEF OpenFile
  <2>2. conn' = [conn EXCEPT ![r] = file[Path(r)]] /\ file' = file
    BY <1>6 DEF OpenFile
  <2>3. conn' \in [Requests -> Nat \cup {Closed}]
    BY <1>3, <2>2
  <2>4. QED
    BY <1>2, <1>3, <1>4, <1>6, <2>1, <2>2, <2>3 DEF OpenFile, Locked
<1>7. CASE Query(r) \/ NoCommit(r)
  <2>1. pc[r] \in {"query", "commit"} /\ Handler[kind[r]][pc[r]] = "close"
    BY <1>1, <1>4, <1>7, HandlerSteps DEF Query, NoCommit
  <2>2. QED
    BY <1>2, <1>3, <1>4, <1>7, <2>1 DEF Query, NoCommit, Locked
<1>8. CASE Commit(r)
  <2>1. pc[r] = "commit" /\ Handler[kind[r]][pc[r]] = "close"
    BY <1>1, <1>4, <1>8, HandlerSteps DEF Commit
  <2>2. CASE Advance(r)
    BY <1>2, <1>3, <1>4, <1>8, <2>1, <2>2 DEF Commit, Locked
  <2>3. CASE UNCHANGED pc
    <3>1. pc' = [pc EXCEPT ![r] = "commit"] /\ "commit" \in Steps
      BY <2>1, <2>3, <1>1, <1>4 DEF Inv, PcInv
    <3>2. QED
      BY <1>1, <1>3, <1>8, <2>1, <3>1, QuietStep DEF Commit
  <2>4. QED
    BY <1>8, <2>2, <2>3 DEF Commit
<1>9. CASE CloseFile(r)
  BY <1>2, <1>3, <1>4, <1>9 DEF CloseFile, Locked, Closed
<1>10. CASE SendFile(r) \/ FileSent(r)
  BY <1>2, <1>3, <1>4, <1>10 DEF SendFile, FileSent, Locked
<1>11. CASE ReplaceFile(r)
  <2>1. file' = [file EXCEPT ![Path(r)] = @ + 1] /\ conn' = conn
    BY <1>11 DEF ReplaceFile
  <2>2. file' \in [Paths -> Nat]
    BY <1>3, <2>1
  <2>3. QED
    BY <1>2, <1>3, <1>4, <1>11, <2>1, <2>2 DEF ReplaceFile, Locked
<1>12. CASE Fail(r)
  <2>1. pc[r] \in {"auth", "open", "query", "commit", "send", "replace"}
    BY <1>12 DEF Fail
  <2>2. conn[r] # Closed => pc[r] \in {"query", "commit"}
    BY <1>3, <2>1
  <2>3. /\ ReleaseStep(r) \in DOMAIN Handler[kind[r]] \cup {"idle"}
        /\ kind[r] # "read" => ReleaseStep(r) \in Locked
    BY <1>1, <1>4, <2>1, <2>2, ReleaseSteps
  <2>4. ReleaseStep(r) \in Steps
    BY <1>1, <2>3 DEF Steps
  <2>5. conn[r] # Closed => ReleaseStep(r) = "close"
    BY DEF ReleaseStep
  <2>6. pc' = [pc EXCEPT ![r] = ReleaseStep(r)] /\ UNCHANGED <<reqVars, writeMu, file, conn>>
    BY <1>12 DEF Fail
  <2>7. pc[r] \in Locked
    BY <2>1 DEF Locked
  <2> HIDE DEF reqVars
  <2>8. QED
    BY <1>1, <1>3, <2>3, <2>4, <2>5, <2>6, <2>7, QuietStep DEF reqVars
<1>13. CASE UnlockColl(r)
  BY <1>2, <1>3, <1>4, <1>13 DEF UnlockColl, Locked
<1>14. QED
  BY <1>5, <1>6, <1>7, <1>8, <1>9, <1>10, <1>11, <1>12, <1>13 DEF Run

\* Arriving and taking the collection's mutex do not touch writeMu either.
LEMMA WaitStep ==
  ASSUME Inv, NEW r \in Requests, Arrive(r) \/ LockColl(r)
  PROVE  /\ Inv' /\ writeMu' = writeMu
         /\ writeMu \in Requests => Path(writeMu)' = Path(writeMu)
<1>1. CASE Arrive(r)
  <2>1. PICK k \in Kinds, n \in Names :
          /\ kind' = [kind EXCEPT ![r] = k] /\ name' = [name EXCEPT ![r] = n]
          /\ pc' = [pc EXCEPT ![r] = First(k)]
    BY <1>1 DEF Arrive
  <2>2. k \in AllKinds /\ First(k) \in DOMAIN Handler[k]
        /\ (k # "read" => First(k) \notin Locked)
    BY KindsAssumption, FirstSteps
  <2>3. First(k) \in Steps
    BY <2>2 DEF Steps
  <2>4. pc[r] = "idle" /\ UNCHANGED <<collLock, writeMu, file, stored, log, conn>>
    BY <1>1 DEF Arrive, lockVars, fileVars
  <2>5. ~Using(r) /\ writeMu # r /\ conn[r] = Closed
    BY <2>4 DEF Inv, OwnerInv, ConnInv, Using, Locked
  <2>6. PcInv'
    BY <2>1, <2>2, <2>3, <2>4 DEF Inv, PcInv
  <2>7. OwnerInv'
    BY <2>1, <2>2, <2>4, <2>5 DEF Inv, PcInv, OwnerInv, Using
  <2>8. ConnInv'
    BY <2>1, <2>4, <2>5 DEF Inv, PcInv, ConnInv
  <2>9. QED
    BY <2>1, <2>4, <2>5, <2>6, <2>7, <2>8 DEF Inv, PcInv, Path
<1>2. CASE LockColl(r)
  <2>1. /\ pc[r] = "clock" /\ pc' = [pc EXCEPT ![r] = Handler[kind[r]][pc[r]]]
        /\ UNCHANGED <<kind, name, writeMu, file, conn>>
    BY <1>2 DEF LockColl, Advance, reqVars, fileVars
  <2>2. kind[r] \in AllKinds /\ pc[r] \in DOMAIN Handler[kind[r]]
    BY <2>1 DEF Inv, PcInv
  <2> DEFINE s == Handler[kind[r]][pc[r]]
  <2>3. s \in DOMAIN Handler[kind[r]] \cup {"idle"} /\ s \notin Locked
    BY <2>1, <2>2, HandlerSteps
  <2>4. s \in Steps
    BY <2>2, <2>3 DEF Steps
  <2>5. conn[r] = Closed /\ pc[r] \notin Locked
    BY <2>1 DEF Inv, ConnInv, Locked
  <2> HIDE DEF s
  <2>6. pc' = [pc EXCEPT ![r] = s]
    BY <2>1 DEF s
  <2>7. conn' \in [Requests -> Nat \cup {Closed}] /\ file' \in [Paths -> Nat]
    BY <2>1 DEF Inv, ConnInv
  <2>8. Inv'
    BY <2>1, <2>3, <2>4, <2>5, <2>6, <2>7, QuietStep DEF reqVars
  <2>9. QED
    BY <2>1, <2>8 DEF Path
<1>3. QED
  BY <1>1, <1>2

\* Taking and releasing writeMu.
LEMMA LockStep ==
  ASSUME Inv, NEW r \in Requests, LockWrite(r)
  PROVE  /\ Inv' /\ UNCHANGED <<kind, name>>
         /\ writeMu = Nobody /\ writeMu' = r
<1>1. kind[r] \in AllKinds /\ pc[r] = "wlock" /\ pc[r] \in DOMAIN Handler[kind[r]]
  BY DEF Inv, PcInv, LockWrite
<1> DEFINE s == Handler[kind[r]][pc[r]]
<1>2. kind[r] # "read" /\ s \in Locked /\ s \in DOMAIN Handler[kind[r]] \cup {"idle"}
  BY <1>1, HandlerSteps
<1>3. s \in Steps
  BY <1>1, <1>2 DEF Steps
<1>4. /\ pc' = [pc EXCEPT ![r] = s] /\ UNCHANGED <<kind, name, file, conn>>
      /\ writeMu = Nobody /\ writeMu' = r
  BY <1>2 DEF LockWrite, LocksWriteMu, Advance, reqVars, fileVars
<1> HIDE DEF s
<1>5. PcInv'
  BY <1>2, <1>3, <1>4 DEF Inv, PcInv
<1>6. OwnerInv'
  BY <1>2, <1>4, NobodyAssumption DEF Inv, PcInv, OwnerInv, Using
<1>7. ConnInv'
  <2>1. conn[r] = Closed
    BY <1>1 DEF Inv, ConnInv
  <2>2. QED
    BY <1>4, <2>1 DEF Inv, PcInv, ConnInv
<1>8. QED
  BY <1>4, <1>5, <1>6, <1>7 DEF Inv

LEMMA UnlockStep ==
  ASSUME Inv, NEW r \in Requests, UnlockWrite(r)
  PROVE  /\ Inv' /\ UNCHANGED <<kind, name>>
         /\ writeMu = r /\ writeMu' = Nobody
<1>1. kind[r] \in AllKinds /\ pc[r] = "wunlock" /\ pc[r] \in DOMAIN Handler[kind[r]]
  BY DEF Inv, PcInv, UnlockWrite
<1> DEFINE s == Handler[kind[r]][pc[r]]
<1>2. kind[r] # "read" /\ s \notin Locked /\ s \in DOMAIN Handler[kind[r]] \cup {"idle"}
  BY <1>1, HandlerSteps
<1>3. s \in Steps
  BY <1>1, <1>2 DEF Steps
<1>4. /\ pc' = [pc EXCEPT ![r] = s] /\ UNCHANGED <<kind, name, file, conn>>
      /\ writeMu' = Nobody
  BY <1>2 DEF UnlockWrite, LocksWriteMu, Advance, reqVars, fileVars
<1>5. writeMu = r
  BY <1>1, <1>2 DEF Inv, OwnerInv, Using, Locked
<1> HIDE DEF s
<1>6. PcInv'
  BY <1>2, <1>3, <1>4 DEF Inv, PcInv
<1>7. OwnerInv'
  BY <1>2, <1>4, <1>5, NobodyAssumption DEF Inv, PcInv, OwnerInv, Using
<1>8. ConnInv'
  <2>1. conn[r] = Closed
    BY <1>1 DEF Inv, ConnInv
  <2>2. QED
    BY <1>4, <2>1 DEF Inv, PcInv, ConnInv
<1>9. QED
  BY <1>4, <1>5, <1>6, <1>7, <1>8 DEF Inv

-----------------------------------------------------------------------------
(* The refinement                                                           *)

\* A step that changes neither writeMu nor its owner's file changes no user.
LEMMA SameUser ==
  ASSUME Inv, Inv', writeMu' = writeMu,
         writeMu \in Requests => Path(writeMu)' = Path(writeMu)
  PROVE  UNCHANGED [p \in Paths |-> User(p)]
<1>1. ASSUME NEW p \in Paths PROVE User(p)' = User(p)
  <2>1. User(p) = IF writeMu \in Requests /\ Path(writeMu) = p THEN writeMu ELSE Nobody
    BY UserIsOwner
  <2>2. User(p)' = IF writeMu' \in Requests /\ Path(writeMu)' = p THEN writeMu' ELSE Nobody
    BY NextUserIsOwner
  <2>3. QED
    BY <2>1, <2>2
<1>2. QED
  BY <1>1

LEMMA InitRefines == Init => Inv /\ FA!Init
<1> SUFFICES ASSUME Init PROVE Inv /\ FA!Init
  OBVIOUS
<1>1. PcInv
  BY KindsAssumption DEF Init, PcInv, Steps, AllKinds
<1>2. \A r \in Requests : ~Using(r)
  BY DEF Init, Using, Locked
<1>3. OwnerInv
  BY <1>2, NobodyAssumption DEF Init, OwnerInv
<1>4. ConnInv
  BY DEF Init, ConnInv
<1>5. \A p \in Paths : User(p) = Nobody
  BY <1>2 DEF User
<1>6. QED
  BY <1>1, <1>3, <1>4, <1>5 DEF Inv, FA!Init

LEMMA NextRefines ==
  ASSUME Inv, Next
  PROVE  Inv' /\ (FA!Next \/ UNCHANGED [p \in Paths |-> User(p)])
<1>1. PICK r \in Requests : Arrive(r) \/ LockColl(r) \/ LockWrite(r) \/ Run(r)
  BY DEF Next
<1>2. Path(r) \in Paths
  BY RegistryAssumption DEF Inv, PcInv, Path
<1>3. CASE Arrive(r) \/ LockColl(r)
  BY <1>3, WaitStep, SameUser
<1>4. CASE LockWrite(r)
  <2>1. /\ Inv' /\ UNCHANGED <<kind, name>> /\ writeMu = Nobody /\ writeMu' = r
    BY <1>4, LockStep
  <2>2. \A p \in Paths : User(p) = Nobody
    BY <2>1, UserIsOwner, NobodyAssumption
  <2>3. \A p \in Paths : User(p)' = IF p = Path(r) THEN r ELSE Nobody
    BY <2>1, NextUserIsOwner DEF Path
  <2>4. FA!Acquire(r, Path(r))
    BY <1>2, <2>2, <2>3 DEF FA!Acquire
  <2>5. QED
    BY <1>2, <2>1, <2>4 DEF FA!Next
<1>5. CASE UnlockWrite(r)
  <2>1. /\ Inv' /\ UNCHANGED <<kind, name>> /\ writeMu = r /\ writeMu' = Nobody
    BY <1>5, UnlockStep
  <2>2. \A p \in Paths : User(p) = IF p = Path(r) THEN r ELSE Nobody
    BY <2>1, UserIsOwner
  <2>3. \A p \in Paths : User(p)' = Nobody
    BY <2>1, NextUserIsOwner, NobodyAssumption
  <2>4. FA!Release(r, Path(r))
    BY <1>2, <2>2, <2>3 DEF FA!Release
  <2>5. QED
    BY <1>2, <2>1, <2>4 DEF FA!Next
<1>6. CASE Run(r) /\ ~UnlockWrite(r)
  <2>1. Inv' /\ UNCHANGED <<kind, name, writeMu>>
    BY <1>6, RunStep DEF reqVars
  <2>2. QED
    BY <2>1, SameUser DEF Path
<1>7. QED
  BY <1>1, <1>3, <1>4, <1>5, <1>6

LEMMA StutterRefines ==
  ASSUME Inv, UNCHANGED vars
  PROVE  Inv' /\ UNCHANGED [p \in Paths |-> User(p)]
<1>1. UNCHANGED <<kind, name, pc, collLock, writeMu, file, stored, log, conn>>
  BY DEF vars, reqVars, lockVars, fileVars
<1>2. PcInv' /\ ConnInv'
  BY <1>1 DEF Inv, PcInv, ConnInv
<1>3. OwnerInv'
  BY <1>1 DEF Inv, OwnerInv, Using
<1>4. Inv'
  BY <1>2, <1>3 DEF Inv
<1>5. QED
  BY <1>1, <1>4, SameUser DEF Path

\* The handlers implement FileAccess: for any number of requests, collections
\* and files, each file is used by one handler at a time (withMode and the
\* sync handlers of server/server.go).
THEOREM Refinement == Spec => FileExclusive
<1>1. Inv /\ [Next]_vars => Inv' /\ [FA!Next]_([p \in Paths |-> User(p)])
  BY NextRefines, StutterRefines
<1>2. QED
  BY <1>1, InitRefines, PTL DEF Spec, FileExclusive, FA!Spec

-----------------------------------------------------------------------------
(* Types, and the log                                                       *)

\* A handler that queries, commits or closes has the file open.
Opened == \A r \in Requests : pc[r] \in {"query", "commit", "close"} => conn[r] \in Nat

TypeInv == Inv /\ TypeOK /\ Opened

LEMMA CommittedType ==
  ASSUME TypeOK, NEW p \in Paths
  PROVE  Committed(p) \in Nat /\ (log[p].upto = 0 => Committed(p) = stored[p])
BY DEF TypeOK, Committed

\* Which handlers have the steps that change the file.
LEMMA StepsOfKinds ==
  ASSUME NEW k \in AllKinds, NEW s \in DOMAIN Handler[k]
  PROVE  /\ s = "commit" => k \in {"write", "delta"} /\ Handler[k][s] = "close"
         /\ s = "replace" => k = "download" /\ Handler[k][s] = "open"
         /\ s \in {"send", "sent"} => k = "upload"
         /\ s = "send" => Handler[k][s] = "sent"
         /\ s \in {"query", "close"} => k # "upload"
         /\ k \in {"read", "upload", "download"} => Handler[k][s] # "commit"
         /\ Handler[k][s] = "sent" => s = "send"
         /\ Handler[k][s] \in {"query", "commit"} => s = "open"
         /\ Handler[k][s] = "close" => s \in {"query", "commit"}
<1>1. CASE k = "read"
  BY <1>1 DEF Handler, ReadHandler
<1>2. CASE k = "write"
  BY <1>2 DEF Handler, WriteHandler
<1>3. CASE k = "delta"
  BY <1>3 DEF Handler, DeltaHandler
<1>4. CASE k = "upload"
  BY <1>4 DEF Handler, UploadHandler
<1>5. CASE k = "download"
  BY <1>5 DEF Handler, DownloadHandler
<1> QED
  BY <1>1, <1>2, <1>3, <1>4, <1>5 DEF AllKinds

LEMMA OpenedKept ==
  ASSUME TypeInv, Inv', NEW r \in Requests, Arrive(r) \/ LockColl(r) \/ LockWrite(r) \/ Run(r)
  PROVE  Opened'
<1>1. kind[r] \in AllKinds /\ pc[r] \in DOMAIN Handler[kind[r]] \cup {"idle"} /\ Path(r) \in Paths
  BY RegistryAssumption DEF TypeInv, Inv, PcInv, Path
<1> DEFINE s == pc[r]
           next == Handler[kind[r]][s]
<1>2. /\ s # "idle" /\ next \in {"query", "commit"} => s = "open"
      /\ s # "idle" /\ next = "close" => s \in {"query", "commit"}
      /\ s \in {"query", "commit"} => next = "close"
  BY <1>1, StepsOfKinds, HandlerSteps
<1>3. pc \in [Requests -> Steps] /\ conn \in [Requests -> Nat \cup {Closed}] /\ file \in [Paths -> Nat]
  BY DEF TypeInv, TypeOK
<1> HIDE DEF next
<1>4. ASSUME pc' = [pc EXCEPT ![r] = next], s # "idle", s # "open", s # "close", conn' = conn
      PROVE  Opened'
  BY <1>2, <1>3, <1>4 DEF TypeInv, Opened
<1>5. CASE Arrive(r)
  <2>1. PICK k \in Kinds : pc' = [pc EXCEPT ![r] = First(k)] /\ conn' = conn
    BY <1>5 DEF Arrive
  <2>2. First(k) \notin {"query", "commit", "close"}
    BY DEF First
  <2> QED
    BY <1>3, <2>1, <2>2 DEF TypeInv, Opened
<1>6. CASE OpenFile(r)
  <2>1. conn' = [conn EXCEPT ![r] = file[Path(r)]] /\ \A q \in Requests \ {r} : pc'[q] = pc[q]
    BY <1>3, <1>6 DEF OpenFile, Advance
  <2>2. conn'[r] \in Nat
    BY <1>1, <1>3, <2>1
  <2> QED
    BY <1>3, <2>1, <2>2 DEF TypeInv, Opened
<1>7. CASE CloseFile(r)
  <2>1. /\ pc' = [pc EXCEPT ![r] = next] /\ s = "close" /\ conn' = [conn EXCEPT ![r] = Closed]
    BY <1>7 DEF CloseFile, Advance, next
  <2>2. next \notin {"query", "commit", "close"}
    BY <1>2, <2>1
  <2> QED
    BY <1>3, <2>1, <2>2 DEF TypeInv, Opened
<1>8. CASE Fail(r)
  <2>1. pc' = [pc EXCEPT ![r] = ReleaseStep(r)] /\ conn' = conn
    BY <1>8 DEF Fail
  <2>2. ReleaseStep(r) \in {"query", "commit", "close"} => conn[r] \in Nat
    BY <1>3 DEF ReleaseStep
  <2> QED
    BY <1>3, <2>1, <2>2 DEF TypeInv, Opened
<1>9. CASE Commit(r)
  <2>1. conn' = conn /\ (pc' = [pc EXCEPT ![r] = next] \/ pc' = pc) /\ s = "commit"
    BY <1>9 DEF Commit, Advance, next
  <2> QED
    BY <1>4, <2>1 DEF TypeInv, Opened
<1>10. CASE \/ LockColl(r) \/ LockWrite(r) \/ Authenticate(r) \/ Query(r) \/ NoCommit(r) \/ SendFile(r)
            \/ FileSent(r) \/ ReplaceFile(r) \/ UnlockWrite(r) \/ UnlockColl(r)
  BY <1>4, <1>10 DEF LockColl, LockWrite, Authenticate, Query, NoCommit, SendFile, FileSent,
     ReplaceFile, UnlockWrite, UnlockColl, Advance, next
<1> QED
  BY <1>5, <1>6, <1>7, <1>8, <1>9, <1>10 DEF Run

LEMMA TypesKept ==
  ASSUME TypeInv, Inv', NEW r \in Requests, Arrive(r) \/ LockColl(r) \/ LockWrite(r) \/ Run(r)
  PROVE  TypeOK'
<1>1. Path(r) \in Paths /\ name[r] \in Names
  BY RegistryAssumption DEF TypeInv, Inv, PcInv, Path
<1>2. /\ collLock \in [Locks -> Requests \cup {Nobody}] /\ stored \in [Paths -> Nat]
      /\ log \in [Paths -> [file : Nat, upto : Nat]] /\ sent \in [Requests -> Nat] /\ writes \in Nat
      /\ kind \in [Requests -> Kinds] /\ file \in [Paths -> Nat]
  BY DEF TypeInv, TypeOK
<1>3. kind' \in [Requests -> Kinds]
  BY <1>2 DEF Arrive, LockColl, LockWrite, Run, Authenticate, OpenFile, Query, Commit, NoCommit,
     CloseFile, SendFile, FileSent, ReplaceFile, Fail, UnlockWrite, UnlockColl, reqVars
<1>4. collLock' \in [Locks -> Requests \cup {Nobody}]
  <2>1. LockOf(name[r]) \in Locks
    BY <1>1 DEF LockOf, Locks
  <2> QED
    BY <1>2, <2>1 DEF Arrive, LockColl, LockWrite, Run, Authenticate, OpenFile, Query, Commit, NoCommit,
       CloseFile, SendFile, FileSent, ReplaceFile, Fail, UnlockWrite, UnlockColl, lockVars
<1>5. writes' \in Nat
  BY <1>2 DEF Arrive, LockColl, LockWrite, Run, Authenticate, OpenFile, Query, Commit, NoCommit,
     CloseFile, SendFile, FileSent, ReplaceFile, Fail, UnlockWrite, UnlockColl
<1>6. stored' \in [Paths -> Nat] /\ log' \in [Paths -> [file : Nat, upto : Nat]]
  <2>1. CASE Commit(r)
    <3>1. conn[r] \in Nat /\ stored' = stored
      BY <2>1 DEF Commit, TypeInv, Opened
    <3>2. log' = [log EXCEPT ![Path(r)] = [file |-> conn[r], upto |-> writes + 1]]
      BY <2>1 DEF Commit
    <3> QED
      BY <1>1, <1>2, <3>1, <3>2
  <2>2. CASE CloseFile(r)
    <3>1. Committed(Path(r)) \in Nat
      BY <1>1, CommittedType DEF TypeInv
    <3>2. NoLog \in [file : Nat, upto : Nat]
      BY DEF NoLog
    <3> QED
      BY <1>1, <1>2, <2>2, <3>1, <3>2 DEF CloseFile, Checkpoint
  <2>3. CASE ReplaceFile(r)
    BY <1>1, <1>2, <2>3 DEF ReplaceFile
  <2>4. CASE UNCHANGED <<stored, log>>
    BY <1>2, <2>4
  <2> QED
    BY <2>1, <2>2, <2>3, <2>4
       DEF Arrive, LockColl, LockWrite, Run, Authenticate, OpenFile, Query, NoCommit, SendFile,
           FileSent, Fail, UnlockWrite, UnlockColl, fileVars
<1>7. sent' \in [Requests -> Nat]
  BY <1>1, <1>2 DEF Arrive, LockColl, LockWrite, Run, Authenticate, OpenFile, Query, Commit, NoCommit,
     CloseFile, SendFile, FileSent, ReplaceFile, Fail, UnlockWrite, UnlockColl
<1> QED
  BY <1>3, <1>4, <1>5, <1>6, <1>7 DEF Inv, PcInv, ConnInv, TypeOK

LEMMA TypeInvKept == TypeInv /\ [Next]_vars => TypeInv'
<1>1. ASSUME TypeInv, Next
      PROVE  TypeInv'
  <2>1. Inv'
    BY <1>1, NextRefines DEF TypeInv
  <2> QED
    BY <1>1, <2>1, OpenedKept, TypesKept DEF TypeInv, Next
<1>2. ASSUME TypeInv, UNCHANGED vars
      PROVE  TypeInv'
  <2>1. UNCHANGED <<kind, name, pc, collLock, writeMu, file, stored, log, conn, sent, writes>>
    BY <1>2 DEF vars, reqVars, lockVars, fileVars
  <2>2. Inv'
    BY <1>2, StutterRefines DEF TypeInv
  <2>3. TypeOK' /\ Opened'
    BY <1>2, <2>1 DEF TypeInv, TypeOK, Opened
  <2> QED
    BY <2>2, <2>3 DEF TypeInv
<1> QED
  BY <1>1, <1>2

LEMMA TypeInvInit == Init => TypeInv
<1> SUFFICES ASSUME Init PROVE TypeInv
  OBVIOUS
<1>1. Inv
  BY InitRefines
<1>2. NoLog \in [file : Nat, upto : Nat]
  BY DEF NoLog
<1>3. TypeOK
  BY <1>1, <1>2 DEF Init, TypeOK, Inv, PcInv, ConnInv
<1>4. Opened
  BY DEF Init, Opened
<1> QED
  BY <1>1, <1>3, <1>4 DEF TypeInv

(***************************************************************************)
(* The locks, files and logs keep their types with any number of requests.  *)
(***************************************************************************)
THEOREM TypeCorrect == Spec => []TypeOK
<1>1. TypeInv => TypeOK
  BY DEF TypeInv
<1> QED
  BY <1>1, TypeInvInit, TypeInvKept, PTL DEF Spec

\* The request r that owns writeMu writes to the log of its own file.
Writes(r, p) ==
  /\ r \in Requests /\ Path(r) = p /\ pc[r] \in {"commit", "close"}
  /\ kind[r] \in {"write", "delta"} /\ log[p].file = file[p]

(* There is a log only while a handler writes; whoever has a file open has  *)
(* the one that is at the path, and nobody else has it; what an upload has  *)
(* read is all there is.                                                    *)
LogInv ==
  /\ \A r \in Requests : kind[r] # "read"
  /\ \A p \in Paths : log[p].upto > 0 => Writes(writeMu, p)
  /\ \A r \in Requests : conn[r] # Closed => conn[r] = file[Path(r)]
  /\ \A r \in Requests : pc[r] = "sent" => sent[r] = stored[Path(r)]

\* Only the owner of writeMu uses a file.
LEMMA OnlyOwner ==
  ASSUME Inv, LogInv, NEW r \in Requests, pc[r] \in Locked
  PROVE  writeMu = r
BY DEF Inv, OwnerInv, LogInv, Using

LEMMA OpenIsOwner ==
  ASSUME Inv, LogInv, NEW r \in Requests, conn[r] # Closed
  PROVE  writeMu = r
<1>1. pc[r] \in Locked
  BY DEF Inv, ConnInv, Locked
<1> QED
  BY <1>1, OnlyOwner

\* At the steps at which no handler writes there is no log.
LEMMA NoLogThere ==
  ASSUME TypeInv, LogInv, NEW r \in Requests, pc[r] \in Locked,
         pc[r] \notin {"commit", "close"} \/ kind[r] \notin {"write", "delta"}
  PROVE  \A p \in Paths : log[p].upto = 0 /\ Committed(p) = stored[p]
<1>1. writeMu = r
  BY OnlyOwner DEF TypeInv
<1>2. \A p \in Paths : log[p].upto \in Nat
  BY DEF TypeInv, TypeOK
<1>3. \A p \in Paths : log[p].upto = 0
  BY <1>1, <1>2 DEF LogInv, Writes
<1> QED
  BY <1>3, CommittedType DEF TypeInv

\* A step that leaves the files and the logs alone, and the owner where it writes.
LEMMA LogSame ==
  ASSUME TypeInv, LogInv, NEW r \in Requests, NEW s, pc' = [pc EXCEPT ![r] = s],
         UNCHANGED <<file, stored, log, conn, sent>>, s # "sent",
         UNCHANGED <<kind, name>> \/ conn[r] = Closed,
         \A q \in Requests \ {r} : kind'[q] = kind[q] /\ name'[q] = name[q],
         kind'[r] # "read",
         writeMu' = writeMu \/ \A p \in Paths : log[p].upto = 0,
         \A p \in Paths : log[p].upto > 0 /\ writeMu = r =>
           s \in {"commit", "close"} /\ UNCHANGED <<kind, name>>
  PROVE  LogInv'
<1>1. pc \in [Requests -> Steps] /\ \A p \in Paths : log[p].upto \in Nat
  BY DEF TypeInv, TypeOK
<1>2. \A q \in Requests : kind'[q] # "read"
  BY DEF LogInv
<1>3. ASSUME NEW p \in Paths, log'[p].upto > 0
      PROVE  Writes(writeMu, p)'
  <2>1. writeMu' = writeMu /\ Writes(writeMu, p)
    BY <1>1, <1>3 DEF LogInv
  <2> QED
    BY <1>1, <1>3, <2>1 DEF Writes, Path
<1>4. ASSUME NEW q \in Requests, conn'[q] # Closed
      PROVE  conn'[q] = file'[Path(q)']
  BY <1>4 DEF LogInv, Path
<1>5. ASSUME NEW q \in Requests, pc'[q] = "sent"
      PROVE  sent'[q] = stored'[Path(q)']
  BY <1>1, <1>5 DEF LogInv, Path
<1> QED
  BY <1>2, <1>3, <1>4, <1>5 DEF LogInv

LEMMA LogKept ==
  ASSUME "read" \notin Kinds, TypeInv, LogInv, NEW r \in Requests,
         Arrive(r) \/ LockColl(r) \/ LockWrite(r) \/ Run(r)
  PROVE  LogInv'
<1> DEFINE s == pc[r]
           next == Handler[kind[r]][s]
<1>1. /\ kind[r] \in AllKinds /\ s \in DOMAIN Handler[kind[r]] \cup {"idle"} /\ Path(r) \in Paths
      /\ kind[r] # "read"
  BY RegistryAssumption DEF TypeInv, Inv, PcInv, Path, LogInv
<1>2. /\ s # "idle" /\ next = "sent" => s = "send"
      /\ s = "commit" => next = "close" /\ kind[r] \in {"write", "delta"}
      /\ s = "send" => next = "sent"
      /\ s \in {"query", "commit"} => next = "close"
  BY <1>1, StepsOfKinds, HandlerSteps
<1>3. /\ pc \in [Requests -> Steps] /\ conn \in [Requests -> Nat \cup {Closed}]
      /\ file \in [Paths -> Nat] /\ stored \in [Paths -> Nat] /\ sent \in [Requests -> Nat]
      /\ log \in [Paths -> [file : Nat, upto : Nat]] /\ writes \in Nat
      /\ kind \in [Requests -> Kinds] /\ name \in [Requests -> Names]
  BY DEF TypeInv, TypeOK
<1>4. conn[r] # Closed => s \in {"query", "commit", "close"}
  BY DEF TypeInv, Inv, ConnInv
<1>5. writeMu = r <=> s \in Locked
  BY <1>1 DEF TypeInv, Inv, OwnerInv, Using
<1>6. \A q \in Requests : pc[q] \in Locked => writeMu = q
  BY OnlyOwner DEF TypeInv
<1>7. s \in Locked /\ s \notin {"commit", "close"} =>
        \A p \in Paths : log[p].upto = 0 /\ Committed(p) = stored[p]
  BY NoLogThere
<1>8. \A p \in Paths : log[p].upto > 0 => Writes(writeMu, p)
  BY DEF LogInv
<1> HIDE DEF next
<1>9. CASE Arrive(r)
  <2>1. PICK k \in Kinds, n \in Names :
          /\ kind' = [kind EXCEPT ![r] = k] /\ name' = [name EXCEPT ![r] = n]
          /\ pc' = [pc EXCEPT ![r] = First(k)]
          /\ s = "idle" /\ UNCHANGED <<writeMu, file, stored, log, conn, sent>>
    BY <1>9 DEF Arrive, lockVars, fileVars
  <2>2. First(k) # "sent" /\ kind'[r] # "read" /\ conn[r] = Closed /\ writeMu # r
    BY <1>3, <1>4, <1>5, <2>1 DEF First, Locked
  <2>3. \A q \in Requests \ {r} : kind'[q] = kind[q] /\ name'[q] = name[q]
    BY <1>3, <2>1
  <2> QED
    BY <2>1, <2>2, <2>3, LogSame
<1>10. CASE LockColl(r) \/ UnlockColl(r)
  <2>1. /\ pc' = [pc EXCEPT ![r] = next] /\ s \in {"clock", "cunlock"}
        /\ UNCHANGED <<kind, name, writeMu, file, stored, log, conn, sent>>
    BY <1>10 DEF LockColl, UnlockColl, Advance, reqVars, fileVars, next
  <2>2. next # "sent" /\ writeMu # r
    BY <1>2, <1>5, <2>1 DEF Locked
  <2> QED
    BY <1>1, <2>1, <2>2, LogSame
<1>11. CASE LockWrite(r) \/ UnlockWrite(r) \/ Authenticate(r) \/ Query(r)
  <2>1. /\ pc' = [pc EXCEPT ![r] = next] /\ s \in {"wlock", "wunlock", "auth", "query"}
        /\ UNCHANGED <<kind, name, file, stored, log, conn, sent>>
    BY <1>11 DEF LockWrite, UnlockWrite, Authenticate, Query, Advance, reqVars, fileVars, next
  <2>2. next # "sent"
    BY <1>2, <2>1
  <2>3. \A p \in Paths : log[p].upto = 0
    <3>1. CASE s = "wlock"
      <4>1. writeMu = Nobody
        BY <1>1, <1>11, <3>1
           DEF LockWrite, LocksWriteMu, UnlockWrite, Authenticate, Query
      <4> QED
        BY <1>3, <1>8, <4>1, NobodyAssumption DEF Writes
    <3>2. CASE s # "wlock"
      BY <1>7, <2>1, <3>2 DEF Locked
    <3> QED
      BY <3>1, <3>2
  <2>4. \A p \in Paths : ~(log[p].upto > 0)
    BY <2>3
  <2> QED
    BY <1>1, <2>1, <2>2, <2>3, <2>4, LogSame
<1>12. CASE NoCommit(r)
  <2>1. /\ pc' = [pc EXCEPT ![r] = "close"]
        /\ UNCHANGED <<kind, name, writeMu, file, stored, log, conn, sent>>
    BY <1>2, <1>12 DEF NoCommit, Advance, reqVars, lockVars, fileVars, next
  <2> QED
    BY <1>1, <2>1, LogSame
<1>13. CASE Fail(r)
  <2>1. /\ pc' = [pc EXCEPT ![r] = ReleaseStep(r)]
        /\ s \in {"auth", "open", "query", "commit", "send", "replace"}
        /\ UNCHANGED <<kind, name, writeMu, file, stored, log, conn, sent>>
    BY <1>13 DEF Fail, reqVars, lockVars, fileVars
  <2>2. ReleaseStep(r) # "sent"
    BY DEF ReleaseStep
  <2>3. \A p \in Paths : log[p].upto > 0 /\ writeMu = r => ReleaseStep(r) \in {"commit", "close"}
    <3> SUFFICES ASSUME NEW p \in Paths, log[p].upto > 0, writeMu = r
                 PROVE  ReleaseStep(r) \in {"commit", "close"}
      OBVIOUS
    <3>1. s = "commit"
      BY <1>8, <2>1 DEF Writes
    <3>2. conn[r] # Closed
      BY <3>1 DEF TypeInv, Opened, Closed
    <3> QED
      BY <3>2 DEF ReleaseStep
  <2> QED
    BY <1>1, <2>1, <2>2, <2>3, LogSame
<1>14. CASE OpenFile(r)
  <2>1. /\ s = "open" /\ pc' = [pc EXCEPT ![r] = next] /\ conn' = [conn EXCEPT ![r] = file[Path(r)]]
        /\ UNCHANGED <<kind, name, file, stored, log, sent>>
    BY <1>14 DEF OpenFile, Advance, reqVars, fileVars, next
  <2>2. next # "sent" /\ \A p \in Paths : log[p].upto = 0
    BY <1>2, <1>7, <2>1 DEF Locked
  <2>3. \A p \in Paths : ~(log'[p].upto > 0)
    BY <2>1, <2>2
  <2>4. \A q \in Requests : kind'[q] # "read"
    BY <2>1 DEF LogInv
  <2>5. \A q \in Requests : conn'[q] # Closed => conn'[q] = file'[Path(q)']
    BY <1>3, <2>1 DEF LogInv, Path
  <2>6. \A q \in Requests : pc'[q] = "sent" => sent'[q] = stored'[Path(q)']
    BY <1>3, <2>1, <2>2 DEF LogInv, Path
  <2> QED
    BY <2>3, <2>4, <2>5, <2>6 DEF LogInv
<1>15. CASE Commit(r)
  <2>1. /\ s = "commit" /\ (pc' = [pc EXCEPT ![r] = next] \/ pc' = pc)
        /\ log' = [log EXCEPT ![Path(r)] = [file |-> conn[r], upto |-> writes + 1]]
        /\ UNCHANGED <<kind, name, writeMu, file, stored, conn, sent>>
    BY <1>15 DEF Commit, Advance, reqVars, lockVars, fileVars, next
  <2>2. /\ writeMu = r /\ conn[r] # Closed /\ kind[r] \in {"write", "delta"}
        /\ conn[r] = file[Path(r)] /\ next = "close"
    BY <1>2, <1>5, <2>1 DEF Locked, TypeInv, Opened, Closed, LogInv
  <2>3. pc'[r] \in {"commit", "close"}
    BY <1>3, <2>1, <2>2
  <2>4. \A q \in Requests : kind'[q] # "read"
    BY <2>1 DEF LogInv
  <2>5. \A q \in Requests : conn'[q] # Closed => conn'[q] = file'[Path(q)']
    BY <2>1 DEF LogInv, Path
  <2>6. \A q \in Requests : pc'[q] = "sent" => sent'[q] = stored'[Path(q)']
    BY <1>3, <2>1, <2>3 DEF LogInv, Path
  <2>7. ASSUME NEW p \in Paths, log'[p].upto > 0
        PROVE  Writes(writeMu, p)'
    <3>1. Path(r) = p
      <4>1. CASE Path(r) # p
        <5>1. log'[p] = log[p]
          BY <1>3, <2>1, <4>1
        <5> QED
          BY <1>8, <2>2, <2>7, <5>1 DEF Writes
      <4> QED
        BY <4>1
    <3>2. log'[p].file = file[p]
      BY <1>1, <1>3, <2>1, <2>2, <3>1
    <3> QED
      BY <2>1, <2>2, <2>3, <3>1, <3>2 DEF Writes, Path
  <2> QED
    BY <2>4, <2>5, <2>6, <2>7 DEF LogInv
<1>16. CASE CloseFile(r)
  <2>1. /\ s = "close" /\ pc' = [pc EXCEPT ![r] = next] /\ conn' = [conn EXCEPT ![r] = Closed]
        /\ UNCHANGED <<kind, name, writeMu, file, sent>> /\ writeMu = r /\ next # "sent"
    BY <1>2, <1>5, <1>16 DEF CloseFile, Advance, reqVars, lockVars, Locked, next
  <2>2. \A q \in Requests : kind'[q] # "read"
    BY <2>1 DEF LogInv
  <2>3. \A q \in Requests : conn'[q] # Closed => conn'[q] = file'[Path(q)']
    BY <1>3, <2>1 DEF LogInv, Path
  <2>4. \A q \in Requests : pc'[q] # "sent"
    BY <1>3, <1>6, <2>1 DEF Locked
  <2>5. conn[r] # Closed /\ conn[r] = file[Path(r)] /\ ~Shared(r)
    <3>1. conn[r] # Closed
      BY <2>1 DEF TypeInv, Opened, Closed
    <3>2. \A q \in Requests \ {r} : conn[q] = Closed
      BY <2>1, OpenIsOwner DEF TypeInv
    <3> QED
      BY <3>1, <3>2 DEF Shared, LogInv
  <2>6. \A p \in Paths : ~(log'[p].upto > 0)
    <3>1. CASE kind[r] \in {"write", "delta"}
      <4>1. log' = [log EXCEPT ![Path(r)] = NoLog]
        BY <1>16, <2>5, <3>1 DEF CloseFile, Checkpoint
      <4> SUFFICES ASSUME NEW p \in Paths PROVE ~(log'[p].upto > 0)
        OBVIOUS
      <4>2. CASE p = Path(r)
        BY <1>3, <4>1, <4>2 DEF NoLog
      <4>3. CASE p # Path(r)
        BY <1>3, <1>8, <2>1, <4>1, <4>3 DEF Writes
      <4> QED
        BY <4>2, <4>3
    <3>2. CASE kind[r] \notin {"write", "delta"}
      <4>1. log' = log /\ \A p \in Paths : log[p].upto = 0
        BY <1>16, <2>1, <3>2, NoLogThere DEF CloseFile, Locked
      <4> QED
        BY <4>1
    <3> QED
      BY <3>1, <3>2
  <2> QED
    BY <2>2, <2>3, <2>4, <2>6 DEF LogInv
<1>17. CASE SendFile(r) \/ FileSent(r)
  <2>1. /\ s \in {"send", "sent"} /\ pc' = [pc EXCEPT ![r] = next]
        /\ UNCHANGED <<kind, name, writeMu, file, stored, log, conn>>
        /\ \A q \in Requests \ {r} : sent'[q] = sent[q]
        /\ s = "send" => sent'[r] = stored[Path(r)]
    BY <1>3, <1>17 DEF SendFile, FileSent, Advance, reqVars, lockVars, fileVars, next
  <2>2. \A p \in Paths : log[p].upto = 0
    BY <1>7, <2>1 DEF Locked
  <2>3. \A p \in Paths : ~(log'[p].upto > 0)
    BY <2>1, <2>2
  <2>4. \A q \in Requests : kind'[q] # "read" /\ (conn'[q] # Closed => conn'[q] = file'[Path(q)'])
    BY <2>1 DEF LogInv, Path
  <2>5. s = "sent" => next # "sent"
    BY <1>2
  <2>6. \A q \in Requests : pc'[q] = "sent" => sent'[q] = stored'[Path(q)']
    BY <1>3, <2>1, <2>5 DEF LogInv, Path
  <2> QED
    BY <2>3, <2>4, <2>6 DEF LogInv
<1>18. CASE ReplaceFile(r)
  <2>1. /\ s = "replace" /\ pc' = [pc EXCEPT ![r] = next]
        /\ UNCHANGED <<kind, name, writeMu, log, conn, sent>> /\ writeMu = r /\ next # "sent"
        /\ \A q \in Requests : Path(q)' = Path(q)
    BY <1>2, <1>5, <1>18 DEF ReplaceFile, Advance, reqVars, lockVars, Locked, Path, next
  <2>2. \A p \in Paths : ~(log'[p].upto > 0)
    BY <1>7, <2>1 DEF Locked
  <2>3. \A q \in Requests : conn[q] = Closed
    BY <1>4, <2>1, OpenIsOwner DEF TypeInv
  <2>4. \A q \in Requests : pc'[q] # "sent"
    BY <1>3, <1>6, <2>1 DEF Locked
  <2> QED
    BY <2>1, <2>2, <2>3, <2>4 DEF LogInv
<1> QED
  BY <1>9, <1>10, <1>11, <1>12, <1>13, <1>14, <1>15, <1>16, <1>17, <1>18 DEF Run

LEMMA LogInductive ==
  ASSUME "read" \notin Kinds
  PROVE  TypeInv /\ LogInv /\ [Next]_vars => LogInv'
<1> SUFFICES ASSUME TypeInv, LogInv, [Next]_vars PROVE LogInv'
  OBVIOUS
<1>1. CASE Next
  BY <1>1, LogKept DEF Next
<1>2. CASE UNCHANGED vars
  <2>1. UNCHANGED <<kind, name, pc, collLock, writeMu, file, stored, log, conn, sent, writes>>
    BY <1>2 DEF vars, reqVars, lockVars, fileVars
  <2> QED
    BY <2>1 DEF LogInv, Writes, Path
<1> QED
  BY <1>1, <1>2

LEMMA LogAlways ==
  ASSUME "read" \notin Kinds
  PROVE  Spec => [](TypeInv /\ LogInv)
<1>1. Init => LogInv
  <2> SUFFICES ASSUME Init PROVE LogInv
    OBVIOUS
  <2>1. \A r \in Requests : kind[r] \in Kinds /\ pc[r] = "idle" /\ conn[r] = Closed
    BY DEF Init
  <2>2. \A p \in Paths : ~(log[p].upto > 0)
    BY DEF Init, NoLog
  <2> QED
    BY <2>1, <2>2 DEF LogInv
<1> QED
  BY <1>1, TypeInvInit, TypeInvKept, LogInductive, PTL DEF Spec

(***************************************************************************)
(* Without readers, for which it is false, a log beside a database is this  *)
(* database's: a handler that replaces a file finds none there, as each     *)
(* writer that closed before it has moved its log into the database.        *)
(***************************************************************************)
THEOREM LogIsOwn ==
  ASSUME "read" \notin Kinds
  PROVE  Spec => []LogBelongs
<1>1. TypeInv /\ LogInv => LogBelongs
  BY DEF LogInv, Writes, LogBelongs
<1> QED
  BY <1>1, LogAlways, PTL

(***************************************************************************)
(* Without readers a full upload sends every committed change, with any     *)
(* number of requests, names and files.                                     *)
(***************************************************************************)
THEOREM UploadsAll ==
  ASSUME "read" \notin Kinds
  PROVE  Spec => []UploadComplete
<1>1. TypeInv /\ LogInv => UploadComplete
  <2> SUFFICES ASSUME TypeInv, LogInv, NEW r \in Requests, pc[r] = "sent"
               PROVE  sent[r] = Committed(Path(r))
    BY DEF UploadComplete
  <2>1. Path(r) \in Paths
    BY RegistryAssumption DEF TypeInv, Inv, PcInv, Path
  <2>2. Committed(Path(r)) = stored[Path(r)]
    BY <2>1, NoLogThere DEF Locked
  <2> QED
    BY <2>2 DEF LogInv
<1> QED
  BY <1>1, LogAlways, PTL

-----------------------------------------------------------------------------
(* The locks                                                                *)

\* The mutex of a collection belongs to the synchronisation that is past it.
Holds(r) == kind[r] \in Syncs /\ pc[r] \notin {"clock", "idle"}

LockInv ==
  /\ collLock \in [Locks -> Requests \cup {Nobody}]
  /\ \A r \in Requests, l \in Locks : collLock[l] = r <=> Holds(r) /\ LockOf(name[r]) = l

\* Where the tables of the handlers take and release it.
LEMMA SyncSteps ==
  ASSUME NEW k \in AllKinds, NEW s \in DOMAIN Handler[k]
  PROVE  /\ s \in {"clock", "cunlock"} => k \in Syncs
         /\ s = "clock" => Handler[k][s] = "wlock"
         /\ s = "cunlock" => Handler[k][s] = "idle"
         /\ k \in Syncs /\ s # "cunlock" => Handler[k][s] \notin {"clock", "idle"}
         /\ s = "wlock" => k # "read"
         /\ k \in Syncs => First(k) = "clock"
<1> USE DEF First, Syncs
<1>1. CASE k = "read"
  BY <1>1 DEF Handler, ReadHandler
<1>2. CASE k = "write"
  BY <1>2 DEF Handler, WriteHandler
<1>3. CASE k = "delta"
  BY <1>3 DEF Handler, DeltaHandler
<1>4. CASE k = "upload"
  BY <1>4 DEF Handler, UploadHandler
<1>5. CASE k = "download"
  BY <1>5 DEF Handler, DownloadHandler
<1> QED
  BY <1>1, <1>2, <1>3, <1>4, <1>5 DEF AllKinds

LEMMA LockNames ==
  ASSUME PcInv, NEW r \in Requests
  PROVE  LockOf(name[r]) \in Locks
BY DEF PcInv, LockOf, Locks

\* A step that keeps the mutexes, and who is entitled to them.
LEMMA LocksKept ==
  ASSUME PcInv, LockInv, NEW r \in Requests, NEW s, pc' = [pc EXCEPT ![r] = s],
         UNCHANGED <<kind, name, collLock>>,
         kind[r] \in Syncs => (pc[r] \in {"clock", "idle"} <=> s \in {"clock", "idle"})
  PROVE  LockInv'
<1>1. \A q \in Requests : Holds(q)' <=> Holds(q)
  BY DEF PcInv, Holds
<1>2. \A q \in Requests : LockOf(name[q])' = LockOf(name[q])
  BY DEF LockOf
<1>3. Locks' = Locks
  BY DEF Locks
<1> QED
  BY <1>1, <1>2, <1>3 DEF LockInv

LEMMA LockInvInit == Init => LockInv
  BY NobodyAssumption DEF Init, LockInv, Holds

LEMMA LockInvKept ==
  ASSUME Inv, LockInv, NEW r \in Requests,
         Arrive(r) \/ LockColl(r) \/ LockWrite(r) \/ Run(r)
  PROVE  LockInv'
<1>1. /\ PcInv /\ kind[r] \in AllKinds /\ pc[r] \in DOMAIN Handler[kind[r]] \cup {"idle"}
      /\ LockOf(name[r]) \in Locks
      /\ pc \in [Requests -> Steps] /\ kind \in [Requests -> AllKinds] /\ name \in [Requests -> Names]
  BY LockNames DEF Inv, PcInv
<1> DEFINE s == Handler[kind[r]][pc[r]]
<1>2. ASSUME pc[r] \notin {"idle", "clock", "cunlock"}, Advance(r), UNCHANGED <<kind, name, collLock>>
      PROVE  LockInv'
  <2>1. kind[r] \in Syncs => s \notin {"clock", "idle"}
    BY <1>1, <1>2, SyncSteps
  <2>2. pc' = [pc EXCEPT ![r] = s]
    BY <1>2 DEF Advance
  <2> HIDE DEF s
  <2> QED
    BY <1>1, <1>2, <2>1, <2>2, LocksKept
<1>3. CASE Arrive(r)
  <2>1. PICK k \in Kinds, n \in Names :
          /\ kind' = [kind EXCEPT ![r] = k] /\ name' = [name EXCEPT ![r] = n]
          /\ pc' = [pc EXCEPT ![r] = First(k)]
    BY <1>3 DEF Arrive
  <2>2. pc[r] = "idle" /\ collLock' = collLock
    BY <1>3 DEF Arrive, lockVars
  <2>3. k \in AllKinds /\ First(k) \in DOMAIN Handler[k] /\ (k \in Syncs => First(k) = "clock")
    BY KindsAssumption, FirstSteps, SyncSteps
  <2>4. ~Holds(r) /\ ~Holds(r)'
    BY <1>1, <2>1, <2>2, <2>3 DEF Holds
  <2>5. \A q \in Requests \ {r} : (Holds(q)' <=> Holds(q)) /\ name'[q] = name[q]
    BY <1>1, <2>1 DEF Holds
  <2>6. Locks' = Locks /\ \A q \in Requests \ {r} : LockOf(name[q])' = LockOf(name[q])
    BY <2>5 DEF Locks, LockOf
  <2> QED
    BY <2>2, <2>4, <2>5, <2>6 DEF LockInv
<1>4. CASE LockColl(r)
  <2>1. /\ pc[r] = "clock" /\ collLock[LockOf(name[r])] = Nobody
        /\ collLock' = [collLock EXCEPT ![LockOf(name[r])] = r]
        /\ UNCHANGED <<kind, name>>
    BY <1>4 DEF LockColl, reqVars
  <2>2. kind[r] \in Syncs /\ s = "wlock"
    BY <1>1, <2>1, SyncSteps
  <2>3. pc' = [pc EXCEPT ![r] = "wlock"]
    BY <1>4, <2>2 DEF LockColl, Advance
  <2>4. ~Holds(r) /\ Holds(r)' /\ \A q \in Requests \ {r} : Holds(q)' <=> Holds(q)
    BY <1>1, <2>1, <2>2, <2>3 DEF Holds
  <2>5. Locks' = Locks /\ \A q \in Requests : LockOf(name[q])' = LockOf(name[q])
    BY <2>1 DEF Locks, LockOf
  <2>6. \A l \in Locks : collLock'[l] = IF l = LockOf(name[r]) THEN r ELSE collLock[l]
    BY <2>1 DEF LockInv
  <2>7. collLock' \in [Locks -> Requests \cup {Nobody}]
    BY <2>1 DEF LockInv
  <2>8. ASSUME NEW q \in Requests, NEW l \in Locks
        PROVE  collLock'[l] = q <=> Holds(q)' /\ LockOf(name[q]) = l
    <3>1. collLock[l] = q <=> Holds(q) /\ LockOf(name[q]) = l
      BY DEF LockInv
    <3> QED
      BY <2>1, <2>4, <2>6, <3>1, NobodyAssumption
  <2> QED
    BY <2>5, <2>7, <2>8 DEF LockInv
<1>5. CASE LockWrite(r)
  <2>1. pc[r] = "wlock" /\ Advance(r) /\ UNCHANGED <<kind, name, collLock>>
    BY <1>5 DEF LockWrite, reqVars
  <2> QED
    BY <1>2, <2>1
<1>6. CASE \/ Authenticate(r) \/ OpenFile(r) \/ Query(r) \/ NoCommit(r)
           \/ CloseFile(r) \/ SendFile(r) \/ FileSent(r) \/ ReplaceFile(r) \/ UnlockWrite(r)
  <2>1. /\ pc[r] \in {"auth", "open", "query", "commit", "close", "send", "sent", "replace", "wunlock"}
        /\ Advance(r) /\ UNCHANGED <<kind, name, collLock>>
    BY <1>6 DEF Authenticate, OpenFile, Query, NoCommit, CloseFile, SendFile, FileSent,
                ReplaceFile, UnlockWrite, reqVars, lockVars
  <2> QED
    BY <1>2, <2>1
<1>7. CASE Commit(r)
  <2>1. pc[r] = "commit" /\ UNCHANGED <<kind, name, collLock>> /\ (Advance(r) \/ UNCHANGED pc)
    BY <1>7 DEF Commit, reqVars, lockVars
  <2>2. CASE UNCHANGED pc
    <3>1. pc' = [pc EXCEPT ![r] = "commit"]
      BY <1>1, <2>1, <2>2
    <3> QED
      BY <1>1, <2>1, <3>1, LocksKept
  <2> QED
    BY <1>2, <2>1, <2>2
<1>8. CASE Fail(r)
  <2>1. /\ pc[r] \in {"auth", "open", "query", "commit", "send", "replace"}
        /\ pc' = [pc EXCEPT ![r] = ReleaseStep(r)] /\ UNCHANGED <<kind, name, collLock>>
    BY <1>8 DEF Fail, reqVars, lockVars
  <2>2. kind[r] \in Syncs => ReleaseStep(r) \in {"close", "wunlock"}
    BY DEF ReleaseStep, Syncs
  <2> QED
    BY <1>1, <2>1, <2>2, LocksKept
<1>9. CASE UnlockColl(r)
  <2>1. /\ pc[r] = "cunlock" /\ collLock' = [collLock EXCEPT ![LockOf(name[r])] = Nobody]
        /\ UNCHANGED <<kind, name>>
    BY <1>9 DEF UnlockColl, reqVars
  <2>2. kind[r] \in Syncs /\ s = "idle"
    BY <1>1, <2>1, SyncSteps
  <2>3. pc' = [pc EXCEPT ![r] = "idle"]
    BY <1>9, <2>2 DEF UnlockColl, Advance
  <2>4. Holds(r) /\ ~Holds(r)' /\ \A q \in Requests \ {r} : Holds(q)' <=> Holds(q)
    BY <1>1, <2>1, <2>2, <2>3 DEF Holds
  <2>5. Locks' = Locks /\ \A q \in Requests : LockOf(name[q])' = LockOf(name[q])
    BY <2>1 DEF Locks, LockOf
  <2>6. \A l \in Locks : collLock'[l] = IF l = LockOf(name[r]) THEN Nobody ELSE collLock[l]
    BY <2>1 DEF LockInv
  <2>7. collLock' \in [Locks -> Requests \cup {Nobody}]
    BY <2>1 DEF LockInv
  <2>8. ASSUME NEW q \in Requests, NEW l \in Locks
        PROVE  collLock'[l] = q <=> Holds(q)' /\ LockOf(name[q]) = l
    <3>1. collLock[l] = q <=> Holds(q) /\ LockOf(name[q]) = l
      BY DEF LockInv
    <3>2. collLock[LockOf(name[r])] = r
      BY <1>1, <2>4 DEF LockInv
    <3> QED
      BY <2>1, <2>4, <2>6, <3>1, <3>2, NobodyAssumption
  <2> QED
    BY <2>5, <2>7, <2>8 DEF LockInv
<1> QED
  BY <1>3, <1>4, <1>5, <1>6, <1>7, <1>8, <1>9 DEF Run

LEMMA LockInvAlways == Spec => [](Inv /\ LockInv)
<1>1. Init => Inv /\ LockInv
  BY InitRefines, LockInvInit
<1>2. ASSUME Inv, LockInv, [Next]_vars
      PROVE  Inv' /\ LockInv'
  <2>1. CASE Next
    BY <1>2, <2>1, NextRefines, LockInvKept DEF Next
  <2>2. CASE UNCHANGED vars
    <3>1. UNCHANGED <<kind, name, pc, collLock>>
      BY <2>2 DEF vars, reqVars, lockVars
    <3>2. LockInv'
      BY <1>2, <3>1 DEF LockInv, Holds, LockOf, Locks
    <3> QED
      BY <1>2, <2>2, <3>2, StutterRefines
  <2> QED
    BY <1>2, <2>1, <2>2
<1> QED
  BY <1>1, <1>2, PTL DEF Spec

(***************************************************************************)
(* No lock is leaked: a request that has been answered, by whichever early  *)
(* return, error or panic, owns none (the deferred Unlocks of withMode and  *)
(* of the sync handlers).                                                   *)
(***************************************************************************)
NoneLeaked ==
  \A r \in Requests : pc[r] = "idle" => writeMu # r /\ \A l \in Locks : collLock[l] # r

THEOREM LocksGivenBack == Spec => []NoneLeaked
<1>1. Inv /\ LockInv => NoneLeaked
  BY DEF Inv, OwnerInv, Using, Locked, LockInv, Holds, NoneLeaked
<1> QED
  BY <1>1, LockInvAlways, PTL

(***************************************************************************)
(* The two locks are taken in one order: whoever waits for a collection's   *)
(* mutex or for writeMu, waits for a request that is being served and goes  *)
(* on, or for one that waits, for writeMu, for such a request.  What a      *)
(* goroutine does next is then never up to the one that waits for it.       *)
(***************************************************************************)
Owner(r) ==
  IF pc[r] = "clock" THEN collLock[LockOf(name[r])]
  ELSE IF pc[r] = "wlock" THEN writeMu ELSE Nobody

Waits(r) == r \in Requests /\ Owner(r) # Nobody
GoesOn(r) == r \in Requests /\ pc[r] # "idle" /\ ~Waits(r)

NoCircularWait ==
  \A r \in Requests : Waits(r) =>
    LET q == Owner(r)
    IN GoesOn(q) \/ (Waits(q) /\ pc[q] = "wlock" /\ GoesOn(Owner(q)))

THEOREM NoDeadlock == Spec => []NoCircularWait
<1>1. ASSUME Inv, LockInv PROVE NoCircularWait
  <2>1. ASSUME writeMu # Nobody PROVE GoesOn(writeMu)
    <3>1. writeMu \in Requests /\ Using(writeMu)
      BY <1>1, <2>1 DEF Inv, PcInv, OwnerInv
    <3>2. pc[writeMu] \notin {"idle", "clock", "wlock"}
      BY <3>1 DEF Using, Locked
    <3> QED
      BY <3>1, <3>2 DEF GoesOn, Waits, Owner
  <2>2. ASSUME NEW r \in Requests, Waits(r), pc[r] = "clock"
        PROVE  /\ Owner(r) \in Requests /\ pc[Owner(r)] \notin {"idle", "clock"}
    <3>1. LockOf(name[r]) \in Locks /\ Owner(r) = collLock[LockOf(name[r])]
      BY <1>1, <2>2, LockNames DEF Inv, Owner
    <3>2. Owner(r) \in Requests
      BY <1>1, <2>2, <3>1 DEF LockInv, Waits
    <3>3. Holds(Owner(r))
      BY <1>1, <3>1, <3>2 DEF LockInv
    <3> QED
      BY <3>2, <3>3 DEF Holds
  <2>3. ASSUME NEW q \in Requests, pc[q] \notin {"idle", "clock"}
        PROVE  GoesOn(q) \/ (Waits(q) /\ pc[q] = "wlock" /\ GoesOn(Owner(q)))
    BY <2>1, <2>3 DEF GoesOn, Waits, Owner
  <2>4. ASSUME NEW r \in Requests, Waits(r), pc[r] # "clock"
        PROVE  GoesOn(Owner(r))
    BY <2>1, <2>4 DEF Waits, Owner
  <2> QED
    BY <2>2, <2>3, <2>4 DEF NoCircularWait
<1> QED
  BY <1>1, LockInvAlways, PTL

=============================================================================
