--------------------------- MODULE WorkspaceLock ---------------------------
(***************************************************************************)
(* The lock of one workspace store: the fixed path workspace.lock, its     *)
(* protocol marker, and the clients that compete for it                    *)
(* (src/src/infrastructure/workspace-lock.ts and lock-protocol.ts).        *)
(*                                                                         *)
(* A native client opens one persistent regular file and takes the         *)
(* operating system's exclusive lock on it; a client of release 0.2.4 or   *)
(* earlier occupies the same path with a directory.  Every step below is   *)
(* the code between two points where another process can interleave.  A    *)
(* process that dies loses its handle and with it the lock, so a crash is  *)
(* the same step as giving up or releasing.                                *)
(***************************************************************************)
EXTENDS Naturals

CONSTANTS
    Clients,      \* native clients
    LegacyClients,\* clients of the directory protocol
    NoClient,
    Inodes,       \* identities of lock files
    NoInode,
    Absent, Directory, Other,   \* what else the path may name
    Markers,      \* identities of a valid native-file-v1 marker
    NoMarker, Unsupported,
    MaxTamper     \* bound on the steps of an outside actor

ASSUME ClientAssumption ==
    /\ Clients \cap LegacyClients = {}
    /\ NoClient \notin Clients \cup LegacyClients
ASSUME PathAssumption ==
    /\ {NoInode, Absent, Directory, Other} \cap Inodes = {}
    /\ Absent # Directory /\ Absent # Other /\ Directory # Other
ASSUME MarkerAssumption ==
    /\ {NoMarker, Unsupported} \cap Markers = {}
    /\ NoMarker # Unsupported
ASSUME MaxTamperAssumption == MaxTamper \in Nat

VARIABLES
    root,     \* the store's directory chain is the one the clients bound
    path,     \* what workspace.lock names
    marker,   \* lock-protocol.json
    locked,   \* holder of the operating system's lock on each file
    pc,       \* where each native client stands
    file,     \* the lock file each client has open
    seen,     \* the marker each client goes by
    due,      \* attempts whose deadline has passed, or that were aborted
    legacy,   \* the living owner of the legacy directory
    store,    \* the last client that wrote to the store
    aside,    \* what an outside actor has moved away from the path
    tampers   \* steps the outside actor has taken

clientVars == <<pc, file, seen, due>>
outsideVars == <<root, aside, tampers>>
vars == <<root, path, marker, locked, pc, file, seen, due, legacy, store, aside, tampers>>

Acquiring == {"marker", "observe", "create", "exists", "open", "lock", "verify",
              "publish", "rename", "reread", "final"}
Locking == {"verify", "publish", "rename", "reread", "final", "active", "revoked"}
Opened == {"lock"} \cup Locking

PathNames == Inodes \cup {Absent, Directory, Other}
MarkerNames == Markers \cup {NoMarker, Unsupported}

TypeOK ==
    /\ root \in BOOLEAN
    /\ path \in PathNames
    /\ marker \in MarkerNames
    /\ locked \in [Inodes -> Clients \cup {NoClient}]
    /\ pc \in [Clients -> Acquiring \cup {"idle", "active", "revoked"}]
    /\ file \in [Clients -> Inodes \cup {NoInode}]
    /\ seen \in [Clients -> Markers \cup {NoMarker}]
    /\ due \in SUBSET Clients
    /\ legacy \in LegacyClients \cup {NoClient}
    /\ store \in Clients \cup LegacyClients \cup {NoClient}
    /\ aside \in PathNames
    /\ tampers \in 0..MaxTamper

Init ==
    /\ root = TRUE
    /\ path \in {Absent, Directory}     \* a new store, or one an old client left
    /\ marker = NoMarker
    /\ locked = [i \in Inodes |-> NoClient]
    /\ pc = [c \in Clients |-> "idle"]
    /\ file = [c \in Clients |-> NoInode]
    /\ seen = [c \in Clients |-> NoMarker]
    /\ due = {}
    /\ legacy = NoClient
    /\ store = NoClient
    /\ aside = Absent
    /\ tampers = 0
-----------------------------------------------------------------------------
(* State formulae.                                                         *)

(* An inode is not reused while somebody holds it open or a name keeps it. *)
Fresh(i) == i # path /\ i # aside /\ \A c \in Clients : file[c] # i

VerifiedByHandle(c) == root /\ marker = seen[c]

(* verifyNativeLockState.  The client's handle cannot stop naming its own  *)
(* file; the path and the marker can.                                      *)
Verified(c) == root /\ path = file[c] /\ marker = seen[c]

CanWrite(c) == pc[c] = "active" /\ Verified(c)

AttemptsWithoutDeadline(c) == root

(* assertLockAttempt.                                                      *)
Attempts(c) == root /\ c \notin due

Goes(c, from, to) == pc[c] = from /\ pc' = [pc EXCEPT ![c] = to]
-----------------------------------------------------------------------------
(* acquireWorkspaceLock.  A step that is not possible (an unsupported      *)
(* marker, a path of the wrong shape, a moved store) throws: GiveUp.       *)

Begin(c) ==
    /\ root
    /\ Goes(c, "idle", "marker")
    /\ UNCHANGED <<path, marker, locked, file, seen, due, legacy, store, outsideVars>>

MarkerFirst(c) ==
    /\ Attempts(c)
    /\ seen' = [seen EXCEPT ![c] = marker]
    /\ \/ marker = NoMarker /\ Goes(c, "marker", "publish")
       \/ marker \in Markers /\ Goes(c, "marker", "open")
    /\ UNCHANGED <<path, marker, locked, file, due, legacy, store, outsideVars>>

ReadMarker(c) ==
    /\ Attempts(c)
    /\ seen' = [seen EXCEPT ![c] = marker]
    /\ \/ marker = NoMarker /\ Goes(c, "marker", "observe")
       \/ marker \in Markers /\ Goes(c, "marker", "open")
    /\ UNCHANGED <<path, marker, locked, file, due, legacy, store, outsideVars>>

(* An occupied legacy directory is waited for, from the marker on.         *)
Observe(c) ==
    /\ \/ path = Directory /\ Goes(c, "observe", "marker")
       \/ path \in Inodes \cup {Absent} /\ Goes(c, "observe", "create")
    /\ UNCHANGED <<path, marker, locked, file, seen, due, legacy, store, outsideVars>>

CreateOverDirectory(c) ==
    /\ Attempts(c)
    /\ \/ /\ path \in {Absent, Directory}
          /\ \E i \in Inodes :
                /\ Fresh(i)
                /\ path' = i
                /\ file' = [file EXCEPT ![c] = i]
          /\ Goes(c, "create", "lock")
       \/ /\ path \notin {Absent, Directory}
          /\ Goes(c, "create", "exists")
          /\ UNCHANGED <<path, file>>
    /\ UNCHANGED <<marker, locked, seen, due, legacy, store, outsideVars>>

(* Exclusive creation: O_CREAT with O_EXCL.                                *)
Create(c) ==
    /\ Attempts(c)
    /\ \/ /\ path = Absent
          /\ \E i \in Inodes :
                /\ Fresh(i)
                /\ path' = i
                /\ file' = [file EXCEPT ![c] = i]
          /\ Goes(c, "create", "lock")
       \/ /\ path # Absent
          /\ Goes(c, "create", "exists")
          /\ UNCHANGED <<path, file>>
    /\ UNCHANGED <<marker, locked, seen, due, legacy, store, outsideVars>>

(* EEXIST: the path is observed again before anything is done about it.    *)
Exists(c) ==
    /\ \/ path \in Inodes /\ Goes(c, "exists", "open")
       \/ path = Directory /\ Goes(c, "exists", "marker")
       \/ path = Absent /\ Goes(c, "exists", "create")
    /\ UNCHANGED <<path, marker, locked, file, seen, due, legacy, store, outsideVars>>

(* openNativeLockFile never creates.                                       *)
Open(c) ==
    /\ path \in Inodes
    /\ file' = [file EXCEPT ![c] = path]
    /\ Goes(c, "open", "lock")
    /\ UNCHANGED <<path, marker, locked, seen, due, legacy, store, outsideVars>>

TryLock(c) ==
    /\ Attempts(c)
    /\ pc[c] = "lock"
    /\ locked[file[c]] = NoClient
    /\ locked' = [locked EXCEPT ![file[c]] = c]
    /\ Goes(c, "lock", "verify")
    /\ UNCHANGED <<path, marker, file, seen, due, legacy, store, outsideVars>>

(* The path must still name the file that is now locked.                   *)
Verify(c) ==
    /\ Attempts(c)
    /\ path = file[c]
    /\ \/ seen[c] = NoMarker /\ Goes(c, "verify", "publish")
       \/ seen[c] # NoMarker /\ Goes(c, "verify", "final")
    /\ UNCHANGED <<path, marker, locked, file, seen, due, legacy, store, outsideVars>>

(* publishLockProtocolMarker: an existing valid marker is taken as it is,  *)
(* otherwise a temporary file is renamed over the marker's name and read   *)
(* back.                                                                   *)
Publish(c) ==
    /\ \/ marker = NoMarker /\ Goes(c, "publish", "rename") /\ UNCHANGED seen
       \/ /\ marker \in Markers
          /\ Goes(c, "publish", "final")
          /\ seen' = [seen EXCEPT ![c] = marker]
    /\ UNCHANGED <<path, marker, locked, file, due, legacy, store, outsideVars>>

Rename(c) ==
    /\ marker' \in Markers
    /\ Goes(c, "rename", "reread")
    /\ UNCHANGED <<path, locked, file, seen, due, legacy, store, outsideVars>>

Reread(c) ==
    /\ marker \in Markers
    /\ Goes(c, "reread", "final")
    /\ seen' = [seen EXCEPT ![c] = marker]
    /\ UNCHANGED <<path, marker, locked, file, due, legacy, store, outsideVars>>

Activate(c) ==
    /\ Verified(c)
    /\ Attempts(c)
    /\ Goes(c, "final", "active")
    /\ UNCHANGED <<path, marker, locked, file, seen, due, legacy, store, outsideVars>>

(* The handle is closed, whether or not it was locked.                     *)
Drop(c) ==
    /\ pc' = [pc EXCEPT ![c] = "idle"]
    /\ file' = [file EXCEPT ![c] = NoInode]
    /\ seen' = [seen EXCEPT ![c] = NoMarker]
    /\ due' = due \ {c}
    /\ locked' = [i \in Inodes |-> IF locked[i] = c THEN NoClient ELSE locked[i]]
    /\ UNCHANGED <<path, marker, legacy, store, outsideVars>>

(* Deadline, abort, refusal, failed call or the end of the process.        *)
GiveUp(c) == pc[c] \in Acquiring /\ Drop(c)

(* Time passes for an attempt.                                             *)
Expire(c) ==
    /\ pc[c] \in Acquiring
    /\ c \notin due
    /\ due' = due \cup {c}
    /\ UNCHANGED <<path, marker, locked, pc, file, seen, legacy, store, outsideVars>>

(* Where the loops poll, they assert the attempt first.                    *)
Refuse(c) ==
    /\ pc[c] \in {"marker", "create", "lock", "verify", "final"}
    /\ ~ Attempts(c)
    /\ Drop(c)

Step(c) ==
    \/ ReadMarker(c) \/ Observe(c) \/ Create(c) \/ Exists(c) \/ Open(c)
    \/ TryLock(c) \/ Verify(c) \/ Publish(c) \/ Rename(c) \/ Reread(c)
    \/ Activate(c)
-----------------------------------------------------------------------------
(* The write authority.                                                    *)

(* assertWorkspaceWriteAuthority and the durable call it guards, which the *)
(* code never separates by an await.                                       *)
Write(c) ==
    /\ pc[c] = "active"
    /\ Verified(c)
    /\ store' = c
    /\ UNCHANGED <<path, marker, locked, clientVars, legacy, outsideVars>>

(* The first failed assertion revokes the authority for good.              *)
Revoke(c) ==
    /\ ~ Verified(c)
    /\ Goes(c, "active", "revoked")
    /\ UNCHANGED <<path, marker, locked, file, seen, due, legacy, store, outsideVars>>

Release(c) == pc[c] \in {"active", "revoked"} /\ Drop(c)
-----------------------------------------------------------------------------
(* Clients of the directory protocol.  One that dies leaves its directory. *)

LegacyTake(l) ==
    /\ path = Absent
    /\ path' = Directory
    /\ legacy' = l
    /\ UNCHANGED <<marker, locked, clientVars, store, outsideVars>>

LegacyWrite(l) ==
    /\ legacy = l
    /\ store' = l
    /\ UNCHANGED <<path, marker, locked, clientVars, legacy, outsideVars>>

LegacyRelease(l) ==
    /\ legacy = l
    /\ path = Directory
    /\ path' = Absent
    /\ legacy' = NoClient
    /\ UNCHANGED <<marker, locked, clientVars, store, outsideVars>>

LegacyDies(l) ==
    /\ legacy = l
    /\ legacy' = NoClient
    /\ UNCHANGED <<path, marker, locked, clientVars, store, outsideVars>>

LegacyStep(l) == LegacyTake(l) \/ LegacyWrite(l) \/ LegacyRelease(l) \/ LegacyDies(l)
-----------------------------------------------------------------------------
(* An outside actor: it moves what the path names away and back, puts      *)
(* something else there, replaces or removes the marker, or moves the      *)
(* whole store.                                                            *)

Swap == path' = aside /\ aside' = path /\ UNCHANGED <<marker, root>>

Plant ==
    /\ path = Absent
    /\ path' \in {i \in Inodes : Fresh(i)} \cup {Directory, Other}
    /\ UNCHANGED <<marker, aside, root>>

Remark == marker' \in MarkerNames /\ UNCHANGED <<path, aside, root>>

MoveRoot == root' = ~ root /\ UNCHANGED <<path, marker, aside>>

Tamper ==
    /\ tampers < MaxTamper
    /\ tampers' = tampers + 1
    /\ Swap \/ Plant \/ Remark \/ MoveRoot
    /\ UNCHANGED <<locked, clientVars, legacy, store>>
-----------------------------------------------------------------------------
ClientStep(c) ==
    Begin(c) \/ Step(c) \/ Expire(c) \/ GiveUp(c) \/ Write(c) \/ Revoke(c) \/ Release(c)

Next ==
    \/ \E c \in Clients : ClientStep(c)
    \/ \E l \in LegacyClients : LegacyStep(l)

(* Every user of the store keeps to a protocol.                            *)
Spec == Init /\ [][Next]_vars

(* Somebody else also changes the store's files.                           *)
TamperedSpec == Init /\ [][Next \/ Tamper]_vars

(* A step that is possible is taken, and the clock runs.                   *)
Fairness ==
    \A c \in Clients :
        WF_vars(Step(c)) /\ WF_vars(Expire(c)) /\ WF_vars(Refuse(c))

FairSpec == Spec /\ Fairness
-----------------------------------------------------------------------------
(* Properties.                                                             *)

(* However the files are moved, replaced and put back, at every moment at  *)
(* most one client's authority would pass its check.                       *)
OneWriter ==
    \A c, d \in Clients : CanWrite(c) /\ CanWrite(d) => c = d

(* The marker is a promise that the switch has happened: once it is there  *)
(* the path is the lock file, wherever its publisher died.                 *)
MarkerMeansNative == marker \in Markers => path \in Inodes

(* Nobody who keeps to the protocols removes or replaces a lock file.      *)
LockFileStays == [][(path \in Inodes) => path' = path]_vars

(* Every attempt ends, in the lock or without it.                          *)
AttemptsSettle ==
    \A c \in Clients : pc[c] \in Acquiring ~> pc[c] \notin Acquiring

(* Who owns the store, for the abstract lock.                              *)
Holders == {c \in Clients : pc[c] = "active"}

Owner ==
    IF legacy # NoClient THEN legacy
    ELSE IF Holders # {} THEN CHOOSE c \in Holders : TRUE
    ELSE NoClient

Lock == INSTANCE StoreLock WITH
            Users <- Clients \cup LegacyClients, NoUser <- NoClient,
            owner <- Owner, store <- store

(* Clients of both protocols together are one lock with one owner, through *)
(* the switch from the directory to the file.                              *)
ImplementsStoreLock == Lock!Spec
=============================================================================
