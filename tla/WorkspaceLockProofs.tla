------------------------ MODULE WorkspaceLockProofs ------------------------
(***************************************************************************)
(* Theorems about WorkspaceLock: at most one authority passes its check,   *)
(* whatever an outside actor does to the store's files, and clients that   *)
(* keep to a protocol implement StoreLock.                                 *)
(***************************************************************************)
EXTENDS WorkspaceLock, TLAPS

(* A client past opening holds a file open; one past tryLock holds the     *)
(* operating system's lock on that very file.                              *)
HandleLaw ==
    \A c \in Clients :
        /\ pc[c] \in Opened => file[c] \in Inodes
        /\ pc[c] \in Locking => locked[file[c]] = c

LockInv == TypeOK /\ HandleLaw

LEMMA LockInit == Init => LockInv
  BY ClientAssumption, MaxTamperAssumption
     DEF Init, LockInv, TypeOK, HandleLaw, PathNames, MarkerNames, Opened, Locking

(* Giving the handle up frees only the client's own lock.                  *)
LEMMA DropKeepsLock ==
  ASSUME LockInv, NEW c \in Clients, Drop(c)
  PROVE  LockInv'
<1>1. TypeOK'
  BY DEF LockInv, TypeOK, Drop, outsideVars
<1>2. HandleLaw'
  <2> SUFFICES ASSUME NEW d \in Clients
               PROVE  /\ (pc[d] \in Opened => file[d] \in Inodes)'
                      /\ (pc[d] \in Locking => locked[file[d]] = d)'
      BY DEF HandleLaw
  <2>1. CASE d = c
    BY <2>1 DEF LockInv, TypeOK, Drop, Opened, Locking
  <2>2. CASE d # c
    <3>1. pc'[d] = pc[d] /\ file'[d] = file[d]
      BY <2>2 DEF LockInv, TypeOK, Drop
    <3>2. pc[d] \in Locking => file[d] \in Inodes /\ locked[file[d]] = d
      BY DEF LockInv, HandleLaw, Opened
    <3>3. pc[d] \in Locking => locked'[file[d]] = d
      BY <2>2, <3>2 DEF Drop
    <3> QED BY <3>1, <3>3 DEF LockInv, HandleLaw
  <2> QED BY <2>1, <2>2
<1> QED BY <1>1, <1>2 DEF LockInv

LEMMA StepKeepsLock ==
  ASSUME LockInv, NEW c \in Clients, Step(c)
  PROVE  LockInv'
<1> USE DEF LockInv, TypeOK, HandleLaw, Goes, outsideVars, Acquiring, Opened, Locking,
            PathNames, MarkerNames
<1>1. CASE ReadMarker(c) BY <1>1 DEF ReadMarker
<1>2. CASE Observe(c) BY <1>2 DEF Observe
<1>3. CASE Create(c)
  <2>1. CASE path = Absent
    <3>1. PICK i \in Inodes : path' = i /\ file' = [file EXCEPT ![c] = i]
      BY <1>3, <2>1 DEF Create
    <3> QED BY <1>3, <2>1, <3>1 DEF Create
  <2>2. CASE path # Absent BY <1>3, <2>2 DEF Create
  <2> QED BY <2>1, <2>2
<1>4. CASE Exists(c) BY <1>4 DEF Exists
<1>5. CASE Open(c) BY <1>5 DEF Open
<1>6. CASE TryLock(c)
  <2>1. TypeOK' BY <1>6 DEF TryLock
  <2>2. ASSUME NEW d \in Clients
        PROVE  /\ (pc[d] \in Opened => file[d] \in Inodes)'
               /\ (pc[d] \in Locking => locked[file[d]] = d)'
    <3>1. CASE d = c BY <1>6, <3>1 DEF TryLock
    <3>2. CASE d # c BY <1>6, <3>2, ClientAssumption DEF TryLock
    <3> QED BY <3>1, <3>2
  <2> QED BY <2>1, <2>2
<1>7. CASE Verify(c) BY <1>7 DEF Verify
<1>8. CASE Publish(c) BY <1>8 DEF Publish
<1>9. CASE Rename(c) BY <1>9 DEF Rename
<1>10. CASE Reread(c) BY <1>10 DEF Reread
<1>11. CASE Activate(c) BY <1>11 DEF Activate
<1> QED BY <1>1, <1>2, <1>3, <1>4, <1>5, <1>6, <1>7, <1>8, <1>9, <1>10, <1>11 DEF Step

LEMMA NextKeepsLock ==
  ASSUME LockInv, [Next \/ Tamper]_vars
  PROVE  LockInv'
<1> USE DEF LockInv, TypeOK, HandleLaw
<1>1. ASSUME NEW c \in Clients, ClientStep(c) PROVE LockInv'
  <2>1. CASE Begin(c)
    BY <2>1 DEF Begin, Goes, outsideVars, Acquiring, Opened, Locking
  <2>2. CASE Step(c) BY <2>2, StepKeepsLock
  <2>3. CASE Expire(c) BY <2>3 DEF Expire, outsideVars
  <2>4. CASE GiveUp(c) BY <2>4, DropKeepsLock DEF GiveUp
  <2>5. CASE Write(c) BY <2>5 DEF Write, clientVars, outsideVars
  <2>6. CASE Revoke(c) BY <2>6 DEF Revoke, Goes, outsideVars, Opened, Locking
  <2>7. CASE Release(c) BY <2>7, DropKeepsLock DEF Release
  <2> QED BY <1>1, <2>1, <2>2, <2>3, <2>4, <2>5, <2>6, <2>7 DEF ClientStep
<1>2. ASSUME NEW l \in LegacyClients, LegacyStep(l) PROVE LockInv'
  BY <1>2 DEF LegacyStep, LegacyTake, LegacyWrite, LegacyRelease, LegacyDies,
              clientVars, outsideVars, PathNames
<1>3. CASE Tamper
  <2>1. tampers' \in 0..MaxTamper
    BY <1>3, MaxTamperAssumption DEF Tamper
  <2>2. path' \in PathNames /\ aside' \in PathNames
    BY <1>3 DEF Tamper, Swap, Plant, Remark, MoveRoot, PathNames
  <2>3. marker' \in MarkerNames
    BY <1>3 DEF Tamper, Swap, Plant, Remark, MoveRoot
  <2>4. root' \in BOOLEAN
    BY <1>3, Zenon DEF Tamper, Swap, Plant, Remark, MoveRoot
  <2>5. UNCHANGED <<locked, pc, file, seen, due, legacy, store>>
    BY <1>3 DEF Tamper, clientVars
  <2> QED BY <2>1, <2>2, <2>3, <2>4, <2>5
<1>4. CASE UNCHANGED vars BY <1>4 DEF vars
<1> HIDE DEF LockInv
<1> QED BY <1>1, <1>2, <1>3, <1>4 DEF Next

(* The inductive invariant: a client past the operating system's lock      *)
(* holds that lock on the very file it has open, whatever happens to the   *)
(* paths.                                                                  *)
THEOREM LockInvariance == TamperedSpec => []LockInv
  BY LockInit, NextKeepsLock, PTL DEF TamperedSpec

LEMMA LockInvOneWriter == LockInv => OneWriter
  BY DEF LockInv, HandleLaw, OneWriter, CanWrite, Verified, Opened, Locking

(* Two clients never hold an authority that passes its check at the same   *)
(* moment, whatever happens to the lock file, the marker or the store.     *)
THEOREM WriteExclusion == TamperedSpec => []OneWriter
  BY LockInvariance, LockInvOneWriter, PTL
-----------------------------------------------------------------------------
(* Without an outside actor.                                               *)

(* The directory and the file exclude each other, and an open lock file is *)
(* the one the path names.                                                 *)
PathLaw ==
    /\ legacy # NoClient => path = Directory
    /\ \A c \in Clients : pc[c] \in Opened => path = file[c]
    /\ MarkerMeansNative

CoopInv == LockInv /\ PathLaw

LEMMA CoopInit == Init => CoopInv
  BY LockInit, MarkerAssumption
     DEF Init, CoopInv, PathLaw, MarkerMeansNative, Opened, Locking

LEMMA DropKeepsPath ==
  ASSUME CoopInv, NEW c \in Clients, Drop(c)
  PROVE  PathLaw'
  BY DEF CoopInv, LockInv, TypeOK, PathLaw, MarkerMeansNative, Drop, Opened, Locking

LEMMA StepKeepsPath ==
  ASSUME CoopInv, NEW c \in Clients, Step(c)
  PROVE  PathLaw'
<1> USE PathAssumption, MarkerAssumption
    DEF CoopInv, LockInv, TypeOK, HandleLaw, PathLaw, MarkerMeansNative, Goes,
        Opened, Locking
<1>1. CASE ReadMarker(c) BY <1>1 DEF ReadMarker
<1>2. CASE Observe(c) BY <1>2 DEF Observe
<1>3. CASE Create(c)
  <2>1. CASE path = Absent
    <3>1. PICK i \in Inodes : path' = i /\ file' = [file EXCEPT ![c] = i]
      BY <1>3, <2>1 DEF Create
    <3>2. legacy = NoClient
      BY <2>1
    <3>3. \A d \in Clients : pc[d] \notin Opened
      BY <2>1
    <3> QED BY <1>3, <2>1, <3>1, <3>2, <3>3 DEF Create
  <2>2. CASE path # Absent BY <1>3, <2>2 DEF Create
  <2> QED BY <2>1, <2>2
<1>4. CASE Exists(c) BY <1>4 DEF Exists
<1>5. CASE Open(c) BY <1>5 DEF Open
<1>6. CASE TryLock(c) BY <1>6 DEF TryLock
<1>7. CASE Verify(c) BY <1>7 DEF Verify
<1>8. CASE Publish(c) BY <1>8 DEF Publish
<1>9. CASE Rename(c) BY <1>9 DEF Rename
<1>10. CASE Reread(c) BY <1>10 DEF Reread
<1>11. CASE Activate(c) BY <1>11 DEF Activate
<1> QED BY <1>1, <1>2, <1>3, <1>4, <1>5, <1>6, <1>7, <1>8, <1>9, <1>10, <1>11 DEF Step

LEMMA NextKeepsCoop ==
  ASSUME CoopInv, [Next]_vars
  PROVE  CoopInv'
<1>1. LockInv'
  BY NextKeepsLock DEF CoopInv
<1>2. ASSUME NEW c \in Clients, ClientStep(c) PROVE PathLaw'
  <2>1. CASE Begin(c)
    BY <2>1 DEF Begin, Goes, CoopInv, LockInv, TypeOK, PathLaw, MarkerMeansNative,
                Opened, Locking
  <2>2. CASE Step(c) BY <2>2, StepKeepsPath
  <2>3. CASE Expire(c)
    BY <2>3 DEF Expire, CoopInv, PathLaw, MarkerMeansNative
  <2>4. CASE GiveUp(c) BY <2>4, DropKeepsPath DEF GiveUp
  <2>5. CASE Write(c)
    BY <2>5 DEF Write, clientVars, CoopInv, PathLaw, MarkerMeansNative
  <2>6. CASE Revoke(c)
    BY <2>6 DEF Revoke, Goes, CoopInv, LockInv, TypeOK, PathLaw, MarkerMeansNative,
                Opened, Locking
  <2>7. CASE Release(c) BY <2>7, DropKeepsPath DEF Release
  <2> QED BY <1>2, <2>1, <2>2, <2>3, <2>4, <2>5, <2>6, <2>7 DEF ClientStep
<1>3. ASSUME NEW l \in LegacyClients, LegacyStep(l) PROVE PathLaw'
  <2> USE PathAssumption
          DEF CoopInv, LockInv, TypeOK, HandleLaw, PathLaw, MarkerMeansNative, clientVars
  <2>1. CASE LegacyTake(l) BY <2>1 DEF LegacyTake
  <2>2. CASE LegacyWrite(l) BY <2>2 DEF LegacyWrite
  <2>3. CASE LegacyRelease(l) BY <2>3 DEF LegacyRelease
  <2>4. CASE LegacyDies(l) BY <2>4 DEF LegacyDies
  <2> QED BY <1>3, <2>1, <2>2, <2>3, <2>4 DEF LegacyStep
<1>4. CASE UNCHANGED vars
  BY <1>1, <1>4 DEF vars, CoopInv, PathLaw, MarkerMeansNative, Opened, Locking
<1> QED BY <1>1, <1>2, <1>3, <1>4 DEF Next, CoopInv

(* Its strengthening among clients that keep to a protocol: the living     *)
(* owner of a directory has the path, and so has every open lock file.     *)
THEOREM CoopInvariance == Spec => []CoopInv
  BY CoopInit, NextKeepsCoop, PTL DEF Spec

(* Among clients that keep to a protocol the native marker is found only   *)
(* beside the lock file it announces, wherever its publisher stopped.      *)
THEOREM MarkerSafety == Spec => []MarkerMeansNative
<1>1. CoopInv => MarkerMeansNative
  BY DEF CoopInv, PathLaw
<1> QED BY <1>1, CoopInvariance, PTL

(* No step of a client of either protocol takes a lock file away.          *)
THEOREM LockFilePersists == Spec => LockFileStays
<1>1. ASSUME CoopInv, [Next]_vars, path \in Inodes PROVE path' = path
  <2> USE <1>1, PathAssumption
  <2>1. ASSUME NEW c \in Clients, ClientStep(c) PROVE path' = path
    BY <2>1 DEF ClientStep, Begin, Step, ReadMarker, Observe, Create, Exists, Open,
                TryLock, Verify, Publish, Rename, Reread, Activate, Expire, GiveUp,
                Drop, Write, Revoke, Release
  <2>2. ASSUME NEW l \in LegacyClients, LegacyStep(l) PROVE path' = path
    BY <2>2 DEF LegacyStep, LegacyTake, LegacyWrite, LegacyRelease, LegacyDies
  <2> QED BY <2>1, <2>2 DEF Next, vars
<1> QED BY <1>1, CoopInvariance, PTL DEF Spec, LockFileStays
-----------------------------------------------------------------------------
(* Refinement.                                                             *)

LEMMA NobodyElse ==
  ASSUME CoopInv, NEW c \in Clients, pc[c] \in Locking
  PROVE  legacy = NoClient /\ \A d \in Clients : pc[d] = "active" => d = c
<1>1. path = file[c] /\ path \in Inodes /\ locked[path] = c
  BY DEF CoopInv, LockInv, HandleLaw, PathLaw, Opened, Locking
<1>2. legacy = NoClient
  BY <1>1, PathAssumption DEF CoopInv, PathLaw
<1>3. \A d \in Clients : pc[d] = "active" => d = c
  BY <1>1 DEF CoopInv, LockInv, HandleLaw, PathLaw, Opened, Locking
<1> QED BY <1>2, <1>3

LEMMA NobodyBehindDirectory ==
  ASSUME CoopInv, path \notin Inodes
  PROVE  \A c \in Clients : pc[c] # "active"
  BY DEF CoopInv, LockInv, HandleLaw, PathLaw, Opened, Locking

LEMMA ActiveOwns ==
  ASSUME CoopInv, NEW c \in Clients, pc[c] = "active"
  PROVE  Owner = c
<1>1. legacy = NoClient /\ \A d \in Clients : pc[d] = "active" => d = c
  BY NobodyElse DEF Locking
<1>2. Holders = {c}
  BY <1>1 DEF Holders
<1> QED BY <1>1, <1>2 DEF Owner

LEMMA NobodyOwns ==
  ASSUME legacy = NoClient, \A c \in Clients : pc[c] # "active"
  PROVE  Owner = NoClient
  BY DEF Owner, Holders

LEMMA OwnerFollows ==
  ASSUME pc' = pc, legacy' = legacy
  PROVE  Owner' = Owner
  BY DEF Owner, Holders

(* A client that is not active before or after a step leaves the owner.    *)
LEMMA OwnerKept ==
  ASSUME TypeOK, NEW c \in Clients, NEW to, pc[c] # "active", to # "active",
         pc' = [pc EXCEPT ![c] = to], legacy' = legacy
  PROVE  Owner' = Owner
<1>1. \A d \in Clients : (pc'[d] = "active") <=> (pc[d] = "active")
  BY DEF TypeOK
<1>2. Holders' = Holders
  BY <1>1 DEF Holders
<1> QED BY <1>2 DEF Owner

(* The step that activates a client is the abstract Take.                  *)
LEMMA ActivateTakes ==
  ASSUME CoopInv, NEW c \in Clients, Activate(c)
  PROVE  Owner = NoClient /\ Owner' = c /\ store' = store
<1> USE DEF Goes
<1>1. pc[c] = "final" /\ pc \in [Clients -> Acquiring \cup {"idle", "active", "revoked"}]
  BY DEF Activate, CoopInv, LockInv, TypeOK
<1>2. legacy = NoClient /\ \A d \in Clients : pc[d] = "active" => d = c
  BY <1>1, NobodyElse DEF Locking
<1>3. Owner = NoClient
  BY <1>1, <1>2, NobodyOwns
<1>4. \A d \in Clients : (pc'[d] = "active") <=> d = c
  BY <1>1, <1>2 DEF Activate
<1>5. Holders' = {c}
  BY <1>4 DEF Holders
<1>6. legacy' = NoClient /\ store' = store
  BY <1>2 DEF Activate
<1> QED BY <1>3, <1>5, <1>6 DEF Owner

(* The end of an active client, or a failed check of its authority, is the *)
(* abstract Drop.                                                          *)
LEMMA LeavingDrops ==
  ASSUME CoopInv, NEW c \in Clients, NEW to, pc[c] = "active", to # "active",
         pc' = [pc EXCEPT ![c] = to], legacy' = legacy
  PROVE  Owner = c /\ Owner' = NoClient
<1>1. Owner = c
  BY ActiveOwns
<1>2. legacy = NoClient /\ \A d \in Clients : pc[d] = "active" => d = c
  BY NobodyElse DEF Locking
<1>3. \A d \in Clients : pc'[d] # "active"
  BY <1>2 DEF CoopInv, LockInv, TypeOK
<1>4. Holders' = {}
  BY <1>3 DEF Holders
<1> QED BY <1>1, <1>2, <1>4 DEF Owner

LEMMA ClientStepRefines ==
  ASSUME CoopInv, NEW c \in Clients, ClientStep(c)
  PROVE  [Lock!Next]_(Lock!vars)
<1> USE DEF Goes
<1>1. TypeOK
  BY DEF CoopInv, LockInv
<1>2. ASSUME Owner' = Owner, store' = store PROVE [Lock!Next]_(Lock!vars)
  BY <1>2 DEF Lock!vars
<1>3. ASSUME NEW to, pc[c] = "active", to # "active", pc' = [pc EXCEPT ![c] = to],
             legacy' = legacy, store' = store
      PROVE  [Lock!Next]_(Lock!vars)
  BY <1>3, LeavingDrops DEF Lock!Next, Lock!Drop
<1>4. CASE Begin(c)
  BY <1>1, <1>2, <1>4, OwnerKept DEF Begin
<1>5. CASE Step(c)
  <2>1. CASE Activate(c)
    BY <2>1, ActivateTakes DEF Lock!Next, Lock!Take
  <2>2. CASE ~ Activate(c)
    <3>1. PICK to \in Acquiring :
             pc[c] # "active" /\ pc' = [pc EXCEPT ![c] = to] /\ legacy' = legacy
      BY <1>5, <2>2 DEF Step, ReadMarker, Observe, Create, Exists, Open, TryLock,
                        Verify, Publish, Rename, Reread, Acquiring
    <3>2. store' = store
      BY <1>5, <2>2 DEF Step, ReadMarker, Observe, Create, Exists, Open, TryLock,
                        Verify, Publish, Rename, Reread
    <3>3. Owner' = Owner
      BY <1>1, <3>1, OwnerKept DEF Acquiring
    <3> QED BY <1>2, <3>2, <3>3
  <2> QED BY <2>1, <2>2
<1>6. CASE Expire(c)
  BY <1>2, <1>6, OwnerFollows DEF Expire
<1>7. CASE GiveUp(c)
  BY <1>1, <1>2, <1>7, OwnerKept DEF GiveUp, Drop, Acquiring
<1>8. CASE Write(c)
  <2>1. Owner = c /\ Owner' = Owner /\ store' = c
    BY <1>8, ActiveOwns, OwnerFollows DEF Write, clientVars
  <2> QED BY <2>1 DEF Lock!Next, Lock!Write
<1>9. CASE Revoke(c)
  BY <1>3, <1>9 DEF Revoke
<1>10. CASE Release(c)
  <2>1. CASE pc[c] = "active"
    BY <1>3, <1>10, <2>1 DEF Release, Drop
  <2>2. CASE pc[c] = "revoked"
    BY <1>1, <1>2, <1>10, <2>2, OwnerKept DEF Release, Drop
  <2> QED BY <1>10, <2>1, <2>2 DEF Release
<1> QED BY <1>4, <1>5, <1>6, <1>7, <1>8, <1>9, <1>10 DEF ClientStep

LEMMA LegacyStepRefines ==
  ASSUME CoopInv, NEW l \in LegacyClients, LegacyStep(l)
  PROVE  [Lock!Next]_(Lock!vars)
<1>1. l # NoClient
  BY ClientAssumption
<1>2. CASE LegacyTake(l)
  <2>1. \A c \in Clients : pc[c] # "active"
    BY <1>2, PathAssumption, NobodyBehindDirectory DEF LegacyTake
  <2>2. legacy = NoClient
    BY <1>2, PathAssumption DEF LegacyTake, CoopInv, PathLaw
  <2>3. Owner = NoClient
    BY <2>1, <2>2, NobodyOwns
  <2>4. Owner' = l /\ store' = store
    BY <1>1, <1>2 DEF LegacyTake, Owner
  <2> QED BY <2>3, <2>4 DEF Lock!Next, Lock!Take
<1>3. CASE LegacyWrite(l)
  <2>1. Owner = l /\ Owner' = Owner /\ store' = l
    BY <1>1, <1>3, OwnerFollows DEF LegacyWrite, Owner, clientVars
  <2> QED BY <2>1 DEF Lock!Next, Lock!Write
<1>4. ASSUME legacy = l, legacy' = NoClient, pc' = pc, store' = store
      PROVE  [Lock!Next]_(Lock!vars)
  <2>1. path \notin Inodes
    BY <1>1, <1>4, PathAssumption DEF CoopInv, PathLaw
  <2>2. \A c \in Clients : pc[c] # "active"
    BY <2>1, NobodyBehindDirectory
  <2>3. Holders' = {}
    BY <1>4, <2>2 DEF Holders
  <2>4. Owner = l /\ Owner' = NoClient
    BY <1>1, <1>4, <2>3 DEF Owner
  <2> QED BY <1>4, <2>4 DEF Lock!Next, Lock!Drop
<1>5. CASE LegacyRelease(l)
  BY <1>4, <1>5 DEF LegacyRelease, clientVars
<1>6. CASE LegacyDies(l)
  BY <1>4, <1>6 DEF LegacyDies, clientVars
<1> QED BY <1>2, <1>3, <1>5, <1>6 DEF LegacyStep

(* The native file lock and the directory lock, with every crash and every *)
(* order of their steps, together implement one lock with one owner.       *)
THEOREM LockImplementsStoreLock == Spec => ImplementsStoreLock
<1>1. Init => Lock!Init
  <2> SUFFICES ASSUME Init PROVE Lock!Init
    OBVIOUS
  <2>1. Owner = NoClient
    BY NobodyOwns DEF Init
  <2> QED BY <2>1 DEF Init, Lock!Init
<1>2. ASSUME CoopInv, [Next]_vars PROVE [Lock!Next]_(Lock!vars)
  <2>1. ASSUME UNCHANGED vars PROVE [Lock!Next]_(Lock!vars)
    BY <2>1, OwnerFollows DEF vars, Lock!vars
  <2> QED BY <1>2, <2>1, ClientStepRefines, LegacyStepRefines DEF Next
<1> QED BY <1>1, <1>2, CoopInvariance, PTL DEF Spec, ImplementsStoreLock, Lock!Spec
=============================================================================
