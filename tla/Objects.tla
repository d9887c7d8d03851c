------------------------------- MODULE Objects -------------------------------
(***************************************************************************)
(* The life of an object (a volume or a snapshot): its record in the       *)
(* appliance db, its bytes in the store, and the LIO backstore that serves *)
(* them.  Source: appliance/objects.go, the commit machinery of            *)
(* appliance/appliance.go, appliance/backup.go and storage/store.go.       *)
(*                                                                         *)
(* One mutex (Coordinator.mu) serialises the handlers, so at most one      *)
(* operation is in flight.  What makes the component hard is what can fall *)
(* between the steps of that one operation: a write that fails before or   *)
(* after the rename, a reconcile that stops half way, a crash of the       *)
(* daemon, a power loss, an operator who restores an older db.             *)
(*                                                                         *)
(* Abstractions.  A name stands for the pair kind/name.  An object counts  *)
(* as connected when at least one host is connected to it; hosts, LUNs and *)
(* the shape of the kernel tree are the subject of module Exports.  Of the *)
(* (ten) backups only the newest is kept.  The saved reservation record a  *)
(* Delete discards is left to the reservation model.                       *)
(*                                                                         *)
(* A power loss can undo what was not synced: the rename of the db, and    *)
(* the length a truncate gave a file.  That it can also undo a change of   *)
(* objects/ itself is left out: a create whose directory is not synced     *)
(* writes no record, and a directory set aside or removed has none, so     *)
(* what comes back is one more directory that the next start sets aside.   *)
(***************************************************************************)
EXTENDS Naturals

CONSTANTS
  Object,    \* the UUIDs newIdentity can mint; each is minted at most once
  Name,      \* kind/name pairs
  NoName,    \* the name of an absent record
  NoUUID,    \* the object of no operation
  MaxSize,   \* bound: sizes are 1..MaxSize size granules
  LinkCanFail, \* whether linking the backup may fail
  SyncCanFail  \* whether syncing the new length of a file may fail

ASSUME ObjectsAssumption ==
  /\ MaxSize \in Nat \ {0}
  /\ LinkCanFail \in BOOLEAN
  /\ SyncCanFail \in BOOLEAN
  /\ NoUUID \notin Object
  /\ NoName \notin Name

VARIABLES
  mem,       \* Coordinator.st: the db in the daemon's memory
  disk,      \* appliance.json as the file system shows it now
  durable,   \* appliance.json as a power loss is sure to leave it
  backup,    \* the newest appliance.json.bak.*
  loc,       \* where an object's directory is: nowhere, objects/, set aside
  size,      \* the length of its backing file
  synced,    \* the length a power loss is sure to leave it
  unproven,  \* history: the longest length taken for granted with no sync
  served,    \* the size of its backstore in the kernel, 0 when there is none
  degraded,  \* Coordinator.lastReconcileErr # nil
  pc,        \* the next step of the operation in flight
  op,        \* that operation: its kind, its object and the db it wants
  minted,    \* history: the UUIDs handed out so far
  acked,     \* history: the capacity last committed durably, 0 once deleted
  rolledBack \* history: an operator lost or restored the db

docs == <<mem, disk, durable, backup>>
store == <<loc, size, synced, unproven>>
kernel == <<served, degraded>>
history == <<minted, acked, rolledBack>>
vars == <<docs, store, kernel, pc, op, history>>

Size == 1..MaxSize
State == {"none", "ready", "missing"}
ObjRecord == [name: Name \cup {NoName}, cap: 0..MaxSize, state: State]
NoRecord == [name |-> NoName, cap |-> 0, state |-> "none"]

\* The db document.  An absent file is the document that is not present.
Doc == [present: BOOLEAN, obj: [Object -> ObjRecord], conn: SUBSET Object]
NoDb == [present |-> FALSE, obj |-> [o \in Object |-> NoRecord], conn |-> {}]
EmptyDb == [NoDb EXCEPT !.present = TRUE]

\* The documents a mutation makes of d: one record replaced, or the set of
\* connected objects.
PutRecord(d, o, r) == [d EXCEPT !.obj[o] = r]
SetConn(d, c) == [d EXCEPT !.conn = c]

Kind == {"none", "create", "rename", "delete", "resize", "connect", "disconnect"}
NoOp == [kind |-> "none", obj |-> NoUUID, next |-> EmptyDb]
Op == [kind: Kind, obj: Object \cup {NoUUID}, next: Doc]
PC == {"down", "replay", "idle", "heal", "grow", "persist", "undo", "unlink",
       "reconcile"}

Recorded(d, o) == d.obj[o].state # "none"
Ready(d, o) == d.obj[o].state = "ready"

\* Mutant of NameTaken: the name of an object whose bytes are missing is free.
NameTakenByReady(d, n) == \E o \in Object : Ready(d, o) /\ d.obj[o].name = n

\* objectByName: is this name already taken?
NameTaken(d, n) == \E o \in Object : Recorded(d, o) /\ d.obj[o].name = n

\* What a start demands of the document it loads.
ValidateLoaded(d) ==
  /\ \A o, p \in Object : /\ Recorded(d, o)
                          /\ Recorded(d, p)
                          /\ d.obj[o].name = d.obj[p].name
                          => o = p
  /\ \A o \in d.conn : Recorded(d, o)

TypeOK ==
  /\ mem \in Doc /\ disk \in Doc /\ durable \in Doc /\ backup \in Doc
  /\ loc \in [Object -> {"none", "objects", "aside"}]
  /\ size \in [Object -> 0..MaxSize]
  /\ synced \in [Object -> 0..MaxSize]
  /\ \A o \in Object : synced[o] <= size[o]
  /\ unproven \in [Object -> 0..MaxSize]
  /\ served \in [Object -> 0..MaxSize]
  /\ degraded \in BOOLEAN
  /\ pc \in PC
  /\ op \in Op
  /\ minted \subseteq Object
  /\ acked \in [Object -> 0..MaxSize]
  /\ rolledBack \in BOOLEAN

Init ==
  /\ mem = EmptyDb /\ disk = NoDb /\ durable = NoDb /\ backup = NoDb
  /\ loc = [o \in Object |-> "none"]
  /\ size = [o \in Object |-> 0]
  /\ synced = [o \in Object |-> 0]
  /\ unproven = [o \in Object |-> 0]
  /\ served = [o \in Object |-> 0]
  /\ degraded = FALSE
  /\ pc = "down" /\ op = NoOp
  /\ minted = {} /\ acked = [o \in Object |-> 0] /\ rolledBack = FALSE

(***************************************************************************)
(* Reconcile: the kernel is driven to what the db in memory asks for.      *)
(***************************************************************************)

\* desiredLIO: a backstore for every connected object that is ready.
Desired(d, o) == IF o \in d.conn /\ Ready(d, o) THEN d.obj[o].cap ELSE 0

\* A live backstore can grow but not shrink.
CanServe(o) == Desired(mem, o) = 0 \/ served[o] <= Desired(mem, o)

ReconcileOK ==
  /\ \A o \in Object : CanServe(o)
  /\ served' = [o \in Object |-> Desired(mem, o)]
  /\ degraded' = FALSE

\* Sync and ApplyDelta stop at the first error and undo nothing: some of the
\* objects have been brought to their new state and the others have not.
ReconcileFailed ==
  /\ \E done \in SUBSET Object :
       /\ \A o \in done : CanServe(o)
       /\ served' = [o \in Object |->
                       IF o \in done THEN Desired(mem, o) ELSE served[o]]
  /\ degraded' = TRUE

(***************************************************************************)
(* The beginning and the end of an operation.                              *)
(***************************************************************************)

\* The step that follows the heal gate.
AfterHeal(kind) == IF kind = "resize" THEN "grow" ELSE "persist"

\* Mutant of GateStep: no operation waits for the heal.
GateStepOpen(kind) == AfterHeal(kind)

\* healIfDegraded: the step an operation that needs a converged kernel
\* begins with.
GateStep(kind) == IF degraded THEN "heal" ELSE AfterHeal(kind)

Return == pc' = "idle" /\ op' = NoOp

\* healIfDegraded, when the last reconcile failed.
Heal ==
  /\ pc = "heal"
  /\ \/ ReconcileOK /\ pc' = AfterHeal(op.kind) /\ UNCHANGED op
     \/ ReconcileFailed /\ Return
  /\ UNCHANGED <<docs, store, history>>

\* The reconcile an operation ends with.
Reconcile ==
  /\ pc = "reconcile"
  /\ ReconcileOK \/ ReconcileFailed
  /\ Return
  /\ UNCHANGED <<docs, store, history>>

(***************************************************************************)
(* persist: link a backup of the file that is there, write and sync a      *)
(* temporary file, rename it into place, sync the directory.               *)
(***************************************************************************)

\* linkBackup: best effort, so a link that fails is not an error.
LinkBackup ==
  backup' \in {IF disk.present THEN disk ELSE backup}
                \cup (IF LinkCanFail THEN {backup} ELSE {})

\* Mutant of DropBytes: every error of persist takes the bytes away.
DropBytesAlways(outcome) == TRUE

\* dropBytes: does a record write that did not succeed leave the bytes of a
\* create orphaned?  Not when the record is on disk after all.
DropBytes(outcome) == outcome # "notDurable"

\* Mutant of AfterPersist: commit returns at once when the sync failed.
AfterPersistEarlyReturn(kind, outcome) ==
  CASE kind \in {"connect", "disconnect", "resize"} /\ outcome = "ok" -> "reconcile"
    [] kind = "delete" /\ outcome = "ok" -> "unlink"
    [] kind = "create" /\ outcome # "ok" /\ DropBytes(outcome) -> "undo"
    [] OTHER -> "idle"

\* The step after persist.  commit reconciles whether or not the directory
\* sync worked; the callers of persistOnly go on only when it did.
AfterPersist(kind, outcome) ==
  CASE kind \in {"connect", "disconnect"} /\ outcome # "failed" -> "reconcile"
    [] kind = "resize" /\ outcome = "ok" -> "reconcile"
    [] kind = "delete" /\ outcome = "ok" -> "unlink"
    [] kind = "create" /\ outcome # "ok" /\ DropBytes(outcome) -> "undo"
    [] OTHER -> "idle"

Finish(step) ==
  /\ pc' = step
  /\ op' = IF step = "idle" THEN NoOp ELSE op

PersistOK ==
  /\ pc = "persist"
  /\ LinkBackup
  /\ mem' = op.next /\ disk' = op.next /\ durable' = op.next
  /\ acked' = IF op.kind \in {"create", "resize", "delete"}
              THEN [acked EXCEPT ![op.obj] = op.next.obj[op.obj].cap]
              ELSE acked
  /\ Finish(AfterPersist(op.kind, "ok"))
  /\ UNCHANGED <<store, kernel, minted, rolledBack>>

\* Mutant of PersistNotDurable: the error of the directory sync is dropped.
PersistSyncIgnored ==
  /\ pc = "persist"
  /\ LinkBackup
  /\ mem' = op.next /\ disk' = op.next
  /\ acked' = IF op.kind \in {"create", "resize", "delete"}
              THEN [acked EXCEPT ![op.obj] = op.next.obj[op.obj].cap]
              ELSE acked
  /\ Finish(AfterPersist(op.kind, "ok"))
  /\ UNCHANGED <<durable, store, kernel, minted, rolledBack>>

\* Another mutant of it: memory is rolled back while the file is renamed.
PersistNotDurableUndone ==
  /\ pc = "persist"
  /\ LinkBackup
  /\ disk' = op.next
  /\ acked' = IF op.kind = "delete" THEN [acked EXCEPT ![op.obj] = 0] ELSE acked
  /\ Finish(AfterPersist(op.kind, "notDurable"))
  /\ UNCHANGED <<mem, durable, store, kernel, minted, rolledBack>>

\* errPersistedNotDurable: the rename happened, the sync of the directory did
\* not.  Memory follows the disk, the caller is told of an error.
PersistNotDurable ==
  /\ pc = "persist"
  /\ LinkBackup
  /\ mem' = op.next /\ disk' = op.next
  /\ acked' = IF op.kind = "delete" THEN [acked EXCEPT ![op.obj] = 0] ELSE acked
  /\ Finish(AfterPersist(op.kind, "notDurable"))
  /\ UNCHANGED <<durable, store, kernel, minted, rolledBack>>

\* Any failure before the rename: restoreState puts the old db back in memory.
PersistFailed ==
  /\ pc = "persist"
  /\ LinkBackup
  /\ Finish(AfterPersist(op.kind, "failed"))
  /\ UNCHANGED <<mem, disk, durable, store, kernel, history>>

(***************************************************************************)
(* Create: bytes first, record second.                                     *)
(***************************************************************************)

\* The bytes staged, synced and renamed into objects/, the record about to be
\* written.  One that fails earlier and leaves nothing behind is no step.
BeginCreate(o, n, cap, len) ==
  /\ pc = "idle"
  /\ o \notin minted
  /\ ~NameTaken(mem, n)
  /\ minted' = minted \cup {o}
  /\ loc' = [loc EXCEPT ![o] = "objects"]
  /\ size' = [size EXCEPT ![o] = len]
  /\ \/ /\ synced' = [synced EXCEPT ![o] = len]
        /\ unproven' = [unproven EXCEPT ![o] = IF len < cap THEN cap ELSE 0]
        /\ pc' = "persist"
        /\ op' = [kind |-> "create", obj |-> o,
                  next |-> PutRecord(mem, o, [name |-> n, cap |-> cap,
                                              state |-> "ready"])]
     \* renamed, then the directory sync or the grow of a copy failed: bytes
     \* that no record will name
     \/ synced' = [synced EXCEPT ![o] = 0] /\ UNCHANGED <<unproven, pc, op>>
  /\ UNCHANGED <<docs, kernel, acked, rolledBack>>

Create(o, n, s) == BeginCreate(o, n, s, s)

\* A copy of src, grown when s is more than the capacity of src.  FICLONE
\* copies the file as it is, longer than the record says or shorter; the grow
\* that follows refuses to shorten it.
Clone(o, n, s, src) ==
  /\ Ready(mem, src)
  /\ s >= mem.obj[src].cap
  /\ loc[src] = "objects"
  /\ s = mem.obj[src].cap \/ s >= size[src]
  /\ BeginCreate(o, n, s, IF s > mem.obj[src].cap THEN s ELSE size[src])

\* store.Delete: the directory in objects/ goes, or an error leaves it.
DropDirectory(o) ==
  \/ /\ loc[o] = "objects"
     /\ loc' = [loc EXCEPT ![o] = "none"]
     /\ size' = [size EXCEPT ![o] = 0]
     /\ synced' = [synced EXCEPT ![o] = 0]
     /\ unproven' = [unproven EXCEPT ![o] = 0]
  \/ UNCHANGED store

\* The record could not be written: the bytes go, best effort.
UndoCreate ==
  /\ pc = "undo"
  /\ DropDirectory(op.obj)
  /\ Return
  /\ UNCHANGED <<docs, kernel, history>>

(***************************************************************************)
(* Rename, Delete and Resize.                                              *)
(***************************************************************************)

Rename(o, n) ==
  /\ pc = "idle"
  /\ Recorded(mem, o)
  /\ ~NameTaken(mem, n)
  /\ pc' = "persist"
  /\ op' = [kind |-> "rename", obj |-> o,
            next |-> PutRecord(mem, o, [mem.obj[o] EXCEPT !.name = n])]
  /\ UNCHANGED <<docs, store, kernel, history>>

\* Record first, bytes second; refused while connected.
Delete(o) ==
  /\ pc = "idle"
  /\ Recorded(mem, o)
  /\ o \notin mem.conn
  /\ pc' = GateStep("delete")
  /\ op' = [kind |-> "delete", obj |-> o, next |-> PutRecord(mem, o, NoRecord)]
  /\ UNCHANGED <<docs, store, kernel, history>>

\* store.Delete, after the record is durably gone.
Unlink ==
  /\ pc = "unlink"
  /\ DropDirectory(op.obj)
  /\ Return
  /\ UNCHANGED <<docs, kernel, history>>

Resize(o, s) ==
  /\ pc = "idle"
  /\ Recorded(mem, o)
  /\ s > mem.obj[o].cap
  /\ pc' = GateStep("resize")
  /\ op' = [kind |-> "resize", obj |-> o,
            next |-> PutRecord(mem, o, [mem.obj[o] EXCEPT !.cap = s])]
  /\ UNCHANGED <<docs, store, kernel, history>>

\* Mutant of Grow: the file is truncated and never synced.
GrowUnsynced ==
  /\ pc = "grow"
  /\ LET s == op.next.obj[op.obj].cap IN
     \/ /\ loc[op.obj] = "objects"
        /\ s >= size[op.obj]
        /\ size' = [size EXCEPT ![op.obj] = s]
        /\ pc' = "persist"
        /\ UNCHANGED op
     \/ Return /\ UNCHANGED size
  /\ UNCHANGED <<docs, loc, synced, unproven, kernel, history>>

\* store.Resize: the file first.  Fails when there is no file, when it is
\* longer, and when its new length cannot be synced: then the file is longer
\* and may be shorter again after a power loss.  A file that already has the
\* length is left alone: the sync that failed is not made up for.
Grow ==
  /\ pc = "grow"
  /\ LET o == op.obj
         s == op.next.obj[o].cap
     IN \/ /\ loc[o] = "objects" /\ s = size[o]
           /\ unproven' = [unproven EXCEPT ![o] = IF synced[o] < s /\ @ < s THEN s ELSE @]
           /\ pc' = "persist"
           /\ UNCHANGED <<op, size, synced>>
        \/ /\ loc[o] = "objects" /\ s > size[o]
           /\ size' = [size EXCEPT ![o] = s]
           /\ \/ synced' = [synced EXCEPT ![o] = s] /\ pc' = "persist" /\ UNCHANGED op
              \/ SyncCanFail /\ Return /\ UNCHANGED synced
           /\ UNCHANGED unproven
        \/ Return /\ UNCHANGED <<size, synced, unproven>>
  /\ UNCHANGED <<docs, loc, kernel, history>>

(***************************************************************************)
(* Connect the first host, disconnect the last: commit.                    *)
(***************************************************************************)

Connect(o) ==
  /\ pc = "idle"
  /\ Ready(mem, o)
  /\ o \notin mem.conn
  /\ pc' = GateStep("connect")
  /\ op' = [kind |-> "connect", obj |-> o,
            next |-> SetConn(mem, mem.conn \cup {o})]
  /\ UNCHANGED <<docs, store, kernel, history>>

Disconnect(o) ==
  /\ pc = "idle"
  /\ o \in mem.conn
  /\ pc' = GateStep("disconnect")
  /\ op' = [kind |-> "disconnect", obj |-> o,
            next |-> SetConn(mem, mem.conn \ {o})]
  /\ UNCHANGED <<docs, store, kernel, history>>

(***************************************************************************)
(* Start: load, adoptStorage, the first persist, startup replay.           *)
(***************************************************************************)

\* Mutant of MarkMissing: a state the rest of the code does not know.
MarkLost(d) ==
  [d EXCEPT !.obj = [o \in Object |->
     IF Recorded(d, o) /\ loc[o] # "objects" THEN [d.obj[o] EXCEPT !.state = "lost"]
                                             ELSE d.obj[o]]]

\* A record whose bytes are gone is marked, never removed.
MarkMissing(d) ==
  [d EXCEPT !.obj = [o \in Object |->
     IF Recorded(d, o) /\ loc[o] # "objects" THEN [d.obj[o] EXCEPT !.state = "missing"]
                                             ELSE d.obj[o]]]

\* Mutant of QuarantineUnrecorded: a directory with no record is removed.
RemoveUnrecorded(d) ==
  [o \in Object |-> IF loc[o] = "objects" /\ ~Recorded(d, o) THEN "none" ELSE loc[o]]

\* A directory with no record is set aside, never removed.
QuarantineUnrecorded(d) ==
  [o \in Object |-> IF loc[o] = "objects" /\ ~Recorded(d, o) THEN "aside" ELSE loc[o]]

\* Records lost, data present: refuse rather than set aside live data.
RefuseStart(d) == ~d.present /\ \E o \in Object : loc[o] = "objects"

Open ==
  /\ pc = "down"
  /\ disk.present
  /\ ValidateLoaded(disk)
  /\ loc' = QuarantineUnrecorded(disk)
  /\ mem' = MarkMissing(disk)
  /\ pc' = "replay"
  /\ UNCHANGED <<disk, durable, backup, size, synced, unproven, kernel, op, history>>

\* No db and no object: adoptIdentity writes the first document.
OpenFirst ==
  /\ pc = "down"
  /\ ~disk.present
  /\ ~RefuseStart(disk)
  /\ mem' = EmptyDb
  /\ disk' = EmptyDb
  /\ \/ durable' = EmptyDb /\ pc' = "replay"
     \/ UNCHANGED <<durable, pc>>    \* not durable: Open returns the error
  /\ UNCHANGED <<backup, store, kernel, op, history>>

\* Open fails when the replay fails; systemd starts it again.
Replay ==
  /\ pc = "replay"
  /\ \/ ReconcileOK /\ pc' = "idle" /\ UNCHANGED mem
     \/ ReconcileFailed /\ pc' = "down" /\ mem' = EmptyDb
  /\ UNCHANGED <<disk, durable, backup, store, op, history>>

(***************************************************************************)
(* The environment.                                                        *)
(***************************************************************************)

\* The daemon dies; configfs, and with it the kernel's tree, survives.
Crash ==
  /\ pc # "down"
  /\ pc' = "down" /\ op' = NoOp /\ mem' = EmptyDb /\ degraded' = FALSE
  /\ UNCHANGED <<disk, durable, backup, store, served, history>>

\* The host dies: the kernel's tree is gone, a rename that was never synced
\* may be gone too, and so may any length a file has beyond what was synced.
PowerLoss ==
  /\ \E d \in {disk, durable} : disk' = d /\ durable' = d
  /\ pc' = "down" /\ op' = NoOp /\ mem' = EmptyDb
  /\ degraded' = FALSE /\ served' = [o \in Object |-> 0]
  /\ \E len \in [Object -> 0..MaxSize] :
       /\ \A o \in Object : len[o] \in synced[o]..size[o]
       /\ size' = len /\ synced' = len
  /\ UNCHANGED <<backup, loc, unproven, history>>

LoseDb ==
  /\ pc = "down"
  /\ disk' = NoDb /\ durable' = NoDb
  /\ rolledBack' = TRUE
  /\ UNCHANGED <<mem, backup, store, kernel, pc, op, minted, acked>>

RestoreBackup ==
  /\ pc = "down"
  /\ backup.present
  /\ disk' = backup /\ durable' = backup
  /\ rolledBack' = TRUE
  /\ UNCHANGED <<mem, backup, store, kernel, pc, op, minted, acked>>

Next ==
  \/ \E o \in Object, n \in Name, s \in Size : Create(o, n, s)
  \/ \E o, src \in Object, n \in Name, s \in Size : Clone(o, n, s, src)
  \/ \E o \in Object, n \in Name : Rename(o, n)
  \/ \E o \in Object, s \in Size : Resize(o, s)
  \/ \E o \in Object : Delete(o) \/ Connect(o) \/ Disconnect(o)
  \/ Heal \/ Grow \/ PersistOK \/ PersistNotDurable \/ PersistFailed
  \/ UndoCreate \/ Unlink \/ Reconcile
  \/ Open \/ OpenFirst \/ Replay
  \/ Crash \/ PowerLoss \/ LoseDb \/ RestoreBackup

Spec == Init /\ [][Next]_vars

(***************************************************************************)
(* Properties.                                                             *)
(***************************************************************************)

\* The file of o has n granules that no power loss takes: n is a length that
\* was synced.  The one exception is a length that store.Resize found the file
\* to have already, which is no evidence of a sync.
Backed(o, n) == synced[o] >= n \/ unproven[o] >= n

\* The bytes of an object whose create or grow was committed durably, and
\* whose deletion was never committed, exist somewhere at that length: in
\* objects/ or set aside.  No crash, failed write, power loss, lost or
\* restored db takes data away (Create, Delete, adoptStorage, Quarantine),
\* nor does a grow count on a length it did not sync (store.Resize), unless
\* an earlier one left the file at exactly that length.
OwedDataKept ==
  \A o \in Object : acked[o] > 0 => loc[o] # "none" /\ Backed(o, acked[o])

\* While nobody replaced the db, what was reported durable is still recorded
\* in the document a power loss leaves (persist, errPersistedNotDurable).
AckedIsDurable ==
  ~rolledBack => \A o \in Object : acked[o] > 0 =>
                   Recorded(durable, o) /\ durable.obj[o].cap >= acked[o]

\* Record and bytes agree in the running daemon: an object it calls ready has
\* a backing file at least as long as its capacity, even over a restored db
\* (bytes before record in Create and Resize, the reverse in Delete), and as
\* sure to stay that long as Backed says (adoptStorage looks for the file
\* only, not at its length).
ReadyHasBytes ==
  \A o \in Object : Ready(mem, o) => loc[o] = "objects" /\ Backed(o, mem.obj[o].cap)

\* The kernel never serves a file that was deleted, nor past its end
\* (healIfDegraded before Delete and Resize), with the same exception.
ServedHasBytes ==
  \A o \in Object : served[o] > 0 => loc[o] # "none" /\ Backed(o, served[o])

\* Every document that can ever be the one a start loads is one that it
\* accepts: no accepted request leaves a db that fails validateLoaded.
EveryDbLoads ==
  \A d \in {disk, durable, backup} : d.present => ValidateLoaded(d)

\* Between operations, a daemon that does not report itself degraded serves
\* exactly the objects that the db in memory says are exported, none of them
\* larger than recorded (commit, healIfDegraded, reconcile).
HealthyServesExports ==
  pc = "idle" /\ ~degraded =>
    \A o \in Object : /\ served[o] > 0 <=> Desired(mem, o) > 0
                      /\ served[o] <= Desired(mem, o)

\* What healIfDegraded's comment says: with no reconcile error outstanding
\* "the kernel actually matches the durable db".  False: a Resize whose
\* record is written but not proven durable returns without reconciling.
HealthyMatchesDb ==
  pc = "idle" /\ ~degraded => \A o \in Object : served[o] = Desired(mem, o)
=============================================================================
