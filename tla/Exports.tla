------------------------------- MODULE Exports -------------------------------
(***************************************************************************)
(* Who may reach which object: hosts, their initiator names (IQNs), the    *)
(* connections, the export indices, and the kernel tree enforcing them.    *)
(* Source: appliance/hosts.go, appliance/translate.go, and the reconciler  *)
(* in lio/ (Sync, Diff, ApplyDelta and what they call).                    *)
(*                                                                         *)
(* The kernel tree has four layers, each holding configfs references on    *)
(* the one below: mapped LUN -> TPG LUN -> backstore, and ACL directories  *)
(* around the mapped LUNs.  A reconcile changes them one configfs call at  *)
(* a time, may stop after any of them, and undoes nothing.                 *)
(*                                                                         *)
(* Abstractions.  The db here is the document memory and file share: a     *)
(* write that fails before the rename leaves both as they were and is no   *)
(* step.  Every object exists and is ready (module Objects), portals,      *)
(* attributes and sizes do not appear, host names are left out.  Within    *)
(* one layer the order of the calls is free (the code ranges over maps).   *)
(***************************************************************************)
EXTENDS Naturals, FiniteSets, Sequences

CONSTANTS
  Object, Host, IQN,
  Lun,        \* the LUN numbers callers ask for
  MaxIdx,     \* bound: export indices are 0..MaxIdx
  NoObj, NoHost,
  NoIdx,      \* no export index; also a mapped LUN whose symlink is not there
  NoTree,     \* no belief about the kernel: Coordinator.applied = nil
  MaxBackups, \* dbBackupsKept: how many older dbs an operator can put back
  Repertoire  \* bound: what the callers of one behaviour use, IQNs and LUNs

ASSUME ExportsAssumption ==
  /\ IsFiniteSet(Object)
  /\ MaxIdx \in Nat /\ Cardinality(Object) <= MaxIdx + 1
  /\ NoObj \notin Object /\ NoHost \notin Host /\ NoIdx \notin Nat
  /\ MaxBackups \in Nat
  /\ Repertoire \subseteq (SUBSET IQN) \X (SUBSET Lun)

VARIABLES
  db,        \* Coordinator.st
  backups,   \* appliance.json.bak.*, newest first
  bs,        \* live backstores: <<index, object>>
  tpg,       \* is the target portal group there?
  lun,       \* live TPG LUNs: <<index, object, or NoObj while not linked>>
  acl,       \* live ACLs: IQNs
  ml,        \* live mapped LUNs: <<IQN, LUN, index, or NoIdx while not linked>>
  applied,   \* Coordinator.applied
  degraded,  \* Coordinator.lastReconcileErr # nil
  pc,        \* down, replay (of a start), idle, reconcile
  granted,   \* history: grants of the dbs in force since the last success
  wiped,     \* history: the tree was lost under the running daemon
  restored,  \* history: the db was put back and no reconcile has succeeded since
  ask        \* the inputs of this behaviour's callers

tree == <<bs, tpg, lun, acl, ml>>
docs == <<db, backups>>
vars == <<docs, tree, applied, degraded, pc, granted, wiped, restored, ask>>

Idx == 0..MaxIdx
Conn == [obj: Object, host: Host, lun: Lun]
Db == [hosts: SUBSET Host, bind: [IQN -> Host \cup {NoHost}],
       conn: SUBSET Conn, exp: [Object -> Idx \cup {NoIdx}]]
Tree == [lun: SUBSET (Idx \X Object), acl: SUBSET IQN, ml: SUBSET (IQN \X Lun \X Idx)]

TypeOK ==
  /\ db \in Db
  /\ backups \in Seq(Db) /\ Len(backups) <= MaxBackups
  /\ bs \subseteq Idx \X Object
  /\ tpg \in BOOLEAN
  /\ lun \subseteq Idx \X (Object \cup {NoObj})
  /\ acl \subseteq IQN
  /\ ml \subseteq IQN \X Lun \X (Idx \cup {NoIdx})
  /\ applied \in Tree \cup {NoTree}
  /\ degraded \in BOOLEAN
  /\ pc \in {"down", "replay", "idle", "reconcile"}
  /\ granted \subseteq IQN \X Lun \X Object
  /\ wiped \in BOOLEAN /\ restored \in BOOLEAN
  /\ ask \in Repertoire

EmptyDb == [hosts |-> {}, bind |-> [q \in IQN |-> NoHost], conn |-> {},
            exp |-> [o \in Object |-> NoIdx]]
NoKernel == bs' = {} /\ tpg' = FALSE /\ lun' = {} /\ acl' = {} /\ ml' = {}

Init ==
  /\ db = EmptyDb /\ backups = <<>>
  /\ bs = {} /\ tpg = FALSE /\ lun = {} /\ acl = {} /\ ml = {}
  /\ applied = NoTree /\ degraded = FALSE /\ pc = "down"
  /\ granted = {} /\ wiped = FALSE /\ restored = FALSE
  /\ ask \in Repertoire

(***************************************************************************)
(* desiredLIO, and what it grants.                                         *)
(***************************************************************************)

Exported(d) == {c.obj : c \in d.conn}

\* Mutant of exportIndex: indices are never handed out again.
exportIndexNext(d, o) ==
  IF d.exp[o] # NoIdx THEN d.exp[o]
  ELSE LET used == {d.exp[p] : p \in {r \in Object : d.exp[r] # NoIdx}} IN
       IF used = {} THEN 0 ELSE 1 + CHOOSE i \in used : \A j \in used : j <= i

\* The lowest index no object holds, for an object that holds none.
exportIndex(d, o) ==
  IF d.exp[o] # NoIdx THEN d.exp[o]
  ELSE CHOOSE i \in Idx : /\ \A p \in Object : d.exp[p] # i
                          /\ \A j \in Idx : j < i => \E p \in Object : d.exp[p] = j

\* A backstore and a TPG LUN for each exported object, an ACL for each bound
\* IQN, a mapped LUN for each connection of the host that owns the IQN.
desiredLIO(d) ==
  [lun |-> {<<d.exp[o], o>> : o \in Exported(d)},
   acl |-> {q \in IQN : d.bind[q] # NoHost},
   ml  |-> {m \in IQN \X Lun \X Idx :
              \E c \in d.conn : /\ d.bind[m[1]] = c.host
                                /\ m[2] = c.lun /\ m[3] = d.exp[c.obj]}]

\* Which object an IQN may see at which LUN.
Grants(d) ==
  {g \in IQN \X Lun \X Object :
     \E c \in d.conn : d.bind[g[1]] = c.host /\ g[2] = c.lun /\ g[3] = c.obj}

\* Which object an IQN does see at which LUN.
Access ==
  {g \in IQN \X Lun \X Object :
     \E i \in Idx : <<g[1], g[2], i>> \in ml /\ <<i, g[3]>> \in lun}

(***************************************************************************)
(* reconcile.  Want is what it drives the tree to; the delta is against    *)
(* the cached view.  Neither changes while it runs.                        *)
(***************************************************************************)

Want == desiredLIO(db)

\* movedIdentity: Diff refuses a delta that changes an object's index.
SameIdentity(prev, next) ==
  \A x \in prev.lun, y \in next.lun : x[2] = y[2] => x[1] = y[1]

\* ApplyDelta rather than Sync.
Incremental == applied # NoTree /\ SameIdentity(applied, Want)

\* What is to be ensured: everything, or what the cached view lacks.
AddLun == IF Incremental THEN Want.lun \ applied.lun ELSE Want.lun
AddAcl == IF Incremental THEN Want.acl \ applied.acl ELSE Want.acl
AddMl == IF Incremental THEN Want.ml \ applied.ml ELSE Want.ml

\* What is to be removed, of what is there: whatever is not wanted, or what
\* the cached view has and Want has not.  LUNs and mapped LUNs go by index.
\* An ACL that goes takes its mapped LUNs with it, the unknown ones too.
DropAcl == IF Incremental THEN acl \cap (applied.acl \ Want.acl) ELSE acl \ Want.acl
DropMl ==
  {m \in ml : /\ \A w \in Want.ml : <<w[1], w[2]>> # <<m[1], m[2]>>
              /\ \/ ~Incremental
                 \/ m[1] \in DropAcl
                 \/ \E w \in applied.ml : <<w[1], w[2]>> = <<m[1], m[2]>>}
DropLun ==
  {x \in lun : /\ \A w \in Want.lun : w[1] # x[1]
               /\ Incremental => \E w \in applied.lun : w[1] = x[1]}

DropBs == IF Incremental THEN bs \cap (applied.lun \ Want.lun) ELSE bs \ Want.lun

\* The phases, in order: each begins when the ones before it are through.
Reconciling == pc \in {"reconcile", "replay"}
BackstoresDone == Reconciling /\ AddLun \subseteq bs
LunsDone == BackstoresDone /\ tpg /\ AddLun \subseteq lun
AddsDone == LunsDone /\ AddAcl \subseteq acl /\ AddMl \subseteq ml
AclsPrunedLast == AddsDone   \* mutant of AclsPruned: LUNs go before mapped LUNs
AclsPruned == AddsDone /\ DropMl = {} /\ DropAcl = {}
LunsPruned == AclsPruned /\ DropLun = {}

EnsureBackstore(x) ==
  /\ Reconciling
  /\ x \in AddLun \ bs
  /\ bs' = bs \cup {x}
  /\ UNCHANGED <<docs, tpg, lun, acl, ml, applied, degraded, pc, granted, wiped, restored, ask>>

EnsureTPG ==
  /\ BackstoresDone
  /\ ~tpg
  /\ tpg' = TRUE
  /\ UNCHANGED <<docs, bs, lun, acl, ml, applied, degraded, pc, granted, wiped, restored, ask>>

\* mkdir, or unlink in place what the index is wired to; then link.
EnsureLUN(x) ==
  /\ BackstoresDone /\ tpg
  /\ x \in AddLun \ lun
  /\ LET cur == {y \in lun : y[1] = x[1]} IN
     lun' = (lun \ cur) \cup (IF cur = {<<x[1], NoObj>>} THEN {x} ELSE {<<x[1], NoObj>>})
  /\ UNCHANGED <<docs, bs, tpg, acl, ml, applied, degraded, pc, granted, wiped, restored, ask>>

EnsureACL(q) ==
  /\ LunsDone
  /\ q \in AddAcl \ acl
  /\ acl' = acl \cup {q}
  /\ UNCHANGED <<docs, bs, tpg, lun, ml, applied, degraded, pc, granted, wiped, restored, ask>>

EnsureMappedLUN(m) ==
  /\ LunsDone
  /\ m[1] \in acl
  /\ m \in AddMl \ ml
  /\ \E y \in lun : y[1] = m[3]
  /\ LET cur == {n \in ml : n[1] = m[1] /\ n[2] = m[2]}
         bare == <<m[1], m[2], NoIdx>> IN
     ml' = (ml \ cur) \cup (IF cur = {bare} THEN {m} ELSE {bare})
  /\ UNCHANGED <<docs, bs, tpg, lun, acl, applied, degraded, pc, granted, wiped, restored, ask>>

\* unlink, then rmdir.
RemoveMappedLUN(m) ==
  /\ AddsDone
  /\ m \in DropMl
  /\ ml' = (ml \ {m}) \cup (IF m[3] = NoIdx THEN {} ELSE {<<m[1], m[2], NoIdx>>})
  /\ UNCHANGED <<docs, bs, tpg, lun, acl, applied, degraded, pc, granted, wiped, restored, ask>>

RemoveACL(q) ==
  /\ AddsDone
  /\ q \in DropAcl
  /\ \A m \in ml : m[1] # q
  /\ acl' = acl \ {q}
  /\ UNCHANGED <<docs, bs, tpg, lun, ml, applied, degraded, pc, granted, wiped, restored, ask>>

LunInUse(i) == \E m \in ml : m[3] = i

\* unlink, then rmdir, which the kernel refuses while a mapped LUN points here.
RemoveLUN(x) ==
  /\ AclsPruned
  /\ x \in DropLun
  /\ x[2] = NoObj => ~LunInUse(x[1])
  /\ lun' = (lun \ {x}) \cup (IF x[2] = NoObj THEN {} ELSE {<<x[1], NoObj>>})
  /\ UNCHANGED <<docs, bs, tpg, acl, ml, applied, degraded, pc, granted, wiped, restored, ask>>

\* rmdir, which the kernel refuses while a LUN is linked to it.
RemoveBackstore(x) ==
  /\ LunsPruned
  /\ x \in DropBs \ lun
  /\ bs' = bs \ {x}
  /\ UNCHANGED <<docs, tpg, lun, acl, ml, applied, degraded, pc, granted, wiped, restored, ask>>

\* Success: the cached view and the health verdict are refreshed.
ReconcileOK ==
  /\ LunsPruned /\ DropBs = {}
  /\ applied' = Want /\ degraded' = FALSE /\ pc' = "idle"
  /\ granted' = Grants(db) /\ wiped' = FALSE /\ restored' = FALSE
  /\ UNCHANGED <<docs, tree, ask>>

\* Any call may fail.  A start that fails ends the daemon.
ReconcileFailed ==
  /\ Reconciling
  /\ applied' = NoTree
  /\ IF pc = "replay" THEN pc' = "down" /\ degraded' = FALSE
                      ELSE pc' = "idle" /\ degraded' = TRUE
  /\ UNCHANGED <<docs, tree, granted, wiped, restored, ask>>

(***************************************************************************)
(* The operations.                                                         *)
(***************************************************************************)

\* Mutant of checkScope: a delta without additions is not checked.
checkScopeSkipped == applied' = applied

\* checkScope: ErrStaleScope drops the cached view when the TPG is gone.
checkScope == applied' = IF tpg THEN applied ELSE NoTree

\* persist links the file it is about to replace; pruneBackups drops the oldest.
linkBackup ==
  backups' = SubSeq(<<db>> \o backups, 1,
                    IF Len(backups) < MaxBackups THEN Len(backups) + 1 ELSE MaxBackups)

\* Mutant of commit: no heal gate.
commitUngated(d) ==
  /\ pc = "idle"
  /\ db' = d
  /\ linkBackup
  /\ granted' = granted \cup Grants(d)
  /\ checkScope
  /\ pc' = "reconcile"
  /\ UNCHANGED <<tree, degraded, wiped, restored, ask>>

\* commit, after the checks of its caller: persisted, then reconciled.
commit(d) ==
  /\ pc = "idle" /\ ~degraded
  /\ db' = d
  /\ linkBackup
  /\ granted' = granted \cup Grants(d)
  /\ checkScope
  /\ pc' = "reconcile"
  /\ UNCHANGED <<tree, degraded, wiped, restored, ask>>

\* healIfDegraded: no mutation goes ahead before this reconcile succeeds.
Heal ==
  /\ pc = "idle" /\ degraded
  /\ pc' = "reconcile"
  /\ UNCHANGED <<docs, tree, applied, degraded, granted, wiped, restored, ask>>

\* checkIQNs: no IQN of another host.
checkIQNs(h, qs) == \A q \in qs : db.bind[q] \in {h, NoHost}

Bound(h, qs) ==
  [q \in IQN |-> IF q \in qs THEN h ELSE IF db.bind[q] = h THEN NoHost ELSE db.bind[q]]

CreateHost(h, qs) ==
  /\ h \notin db.hosts
  /\ checkIQNs(h, qs)
  /\ commit([db EXCEPT !.hosts = @ \cup {h}, !.bind = Bound(h, qs)])

SetBindings(h, qs) ==
  /\ h \in db.hosts
  /\ checkIQNs(h, qs)
  /\ commit([db EXCEPT !.bind = Bound(h, qs)])

DeleteHost(h) ==
  /\ h \in db.hosts
  /\ \A c \in db.conn : c.host # h
  /\ commit([db EXCEPT !.hosts = @ \ {h}, !.bind = Bound(h, {})])

Connect(o, h, l) ==
  /\ h \in db.hosts
  /\ \A c \in db.conn : c.host = h => c.obj # o /\ c.lun # l
  /\ commit([db EXCEPT !.conn = @ \cup {[obj |-> o, host |-> h, lun |-> l]},
                       !.exp[o] = exportIndex(db, o)])

pruneExports(d) ==
  [d EXCEPT !.exp = [o \in Object |-> IF o \in Exported(d) THEN d.exp[o] ELSE NoIdx]]

Disconnect(o, h) ==
  /\ \E c \in db.conn : c.obj = o /\ c.host = h
  /\ commit(pruneExports([db EXCEPT !.conn = {c \in @ : ~(c.obj = o /\ c.host = h)}]))

(***************************************************************************)
(* Start, and the environment.                                             *)
(***************************************************************************)

Open ==
  /\ pc = "down"
  /\ pc' = "replay"
  /\ UNCHANGED <<docs, tree, applied, degraded, granted, wiped, restored, ask>>

\* The daemon dies; the kernel's tree stays as it is.
Crash ==
  /\ pc # "down"
  /\ pc' = "down" /\ applied' = NoTree /\ degraded' = FALSE
  /\ UNCHANGED <<docs, tree, granted, wiped, restored, ask>>

PowerLoss ==
  /\ NoKernel
  /\ pc' = "down" /\ applied' = NoTree /\ degraded' = FALSE
  /\ UNCHANGED <<docs, granted, wiped, restored, ask>>

\* The kernel modules are reloaded under the running daemon.
LoseTree ==
  /\ pc = "idle" /\ tpg
  /\ NoKernel
  /\ wiped' = TRUE
  /\ UNCHANGED <<docs, applied, degraded, pc, granted, restored, ask>>

\* An operator puts a backup in place of the db of a stopped daemon.
RestoreBackup ==
  /\ pc = "down"
  /\ \E k \in 1..Len(backups) :
       db' = backups[k] /\ granted' = granted \cup Grants(backups[k])
  /\ restored' = TRUE
  /\ UNCHANGED <<backups, tree, applied, degraded, pc, wiped, ask>>

Next ==
  \/ \E h \in Host, qs \in SUBSET ask[1] : CreateHost(h, qs) \/ SetBindings(h, qs)
  \/ \E h \in Host : DeleteHost(h)
  \/ \E o \in Object, h \in Host, l \in ask[2] : Connect(o, h, l)
  \/ \E o \in Object, h \in Host : Disconnect(o, h)
  \/ Heal
  \/ \E x \in Want.lun : EnsureBackstore(x) \/ EnsureLUN(x)
  \/ EnsureTPG
  \/ \E q \in IQN : EnsureACL(q) \/ RemoveACL(q)
  \/ \E m \in Want.ml : EnsureMappedLUN(m)
  \/ \E m \in ml : RemoveMappedLUN(m)
  \/ \E x \in lun : RemoveLUN(x)
  \/ \E x \in bs : RemoveBackstore(x)
  \/ ReconcileOK \/ ReconcileFailed
  \/ Open \/ Crash \/ PowerLoss \/ LoseTree \/ RestoreBackup

Spec == Init /\ [][Next]_vars

(***************************************************************************)
(* Properties.                                                             *)
(***************************************************************************)

\* At every instant, also half way through a reconcile and in the tree a
\* failed one leaves, an initiator sees at a LUN only an object that the db
\* grants it there, or granted it there since the last successful reconcile
\* (the heal gate in commit, the order of the layers, exportIndex).  The
\* first reconcile over a db the operator put back is the exception, see
\* NoSwapUnderInitiator.
GrantedOnly == ~restored => Access \subseteq granted

\* A reconcile that reported success, by delta or in full, left the kernel
\* exactly as the db asks: nothing missing, nothing left behind, although a
\* delta never looks at the tree (Diff, ApplyDelta, checkScope, applied).
Converged ==
  pc = "idle" /\ ~degraded /\ ~wiped =>
    /\ bs = Want.lun /\ lun = Want.lun
    /\ acl = Want.acl /\ ml = Want.ml

\* No removal meets an object that is still referenced, whatever tree it
\* starts from, so none fails EBUSY on every retry (prune, applyRemovals).
NeverBusy ==
  /\ AclsPruned => \A x \in DropLun : ~LunInUse(x[1])
  /\ LunsPruned => DropBs \cap lun = {}

\* "a mapped LUN's backstore is never changed in place" (ensureLUN): while a
\* mapped LUN points at a TPG LUN, no step unlinks that LUN's backstore.  The
\* first reconcile over a db the operator put back is the exception: there the
\* kernel's index can belong to another object.
NoSwapUnderInitiator ==
  [][restored \/
     \A x \in lun : /\ x[2] # NoObj
                    /\ \E m \in ml : m[3] = x[1] /\ m \in ml'
                    => x \in lun']_vars
=============================================================================
