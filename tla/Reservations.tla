---------------------------- MODULE Reservations ----------------------------
(***************************************************************************)
(* SCSI-3 persistent reservations: what initiators do to them, how a start *)
(* restores them, and how an operator drops one (ClearReservation).        *)
(* Source: appliance/clearpr.go, appliance/aptpl.go, the parts of          *)
(* lio/backstore.go, lio/prstate.go and appliance/translate.go they use.   *)
(*                                                                         *)
(* The kernel keeps registrations and holder with the backstore, and       *)
(* rewrites a file, db_root/pr/aptpl_<wwn>, on every PR OUT; it never      *)
(* reads that file.  ensureBackstore gives its records back to the kernel, *)
(* one write each, before it enables a new backstore, and the kernel binds *)
(* each one when the mapped LUN of its initiator appears.  Initiators act  *)
(* at any time, between any two configfs calls of the daemon.              *)
(*                                                                         *)
(* Abstractions.  A host is one initiator.  LUN numbers and the TPG LUN    *)
(* layer are the subject of module Exports.  Every PR OUT asks for APTPL,  *)
(* no type is an ALL REGISTRANTS one, keys and session ids are left out.   *)
(* A record that binds when the device has a holder adds a registration.   *)
(***************************************************************************)
EXTENDS Naturals

CONSTANTS
  Object, Host, NoObj, NoHost,
  UnlinkDurable  \* does an unlink that nobody synced survive a power loss?

ASSUME ReservationsAssumption ==
  /\ NoObj \notin Object /\ NoHost \notin Host /\ UnlinkDurable \in BOOLEAN
  /\ "unreadable" \notin Host \cup {NoHost}

VARIABLES
  objs,       \* the objects with a record in the db
  conn,       \* the hosts each object is connected to in the db
  dev,        \* kernel: enabled backstores
  ml,         \* kernel: the hosts with a mapped LUN for the object
  up,         \* kernel: is the target portal group enabled?
  reg,        \* kernel: registered hosts
  holder,     \* kernel: who holds the reservation
  loaded,     \* kernel: records given back and not yet bound
  file,       \* the saved record
  stable,     \* the saved record a power loss may bring back
  prClearing, \* Coordinator.prClearing
  withheld,   \* Coordinator.withheld and its published copy
  clearing,   \* Coordinator.clearing, which /health shows
  degraded,   \* Coordinator.lastReconcileErr # nil
  pc,         \* the next step of the operation in flight
  seen,       \* the registrations PRState has read
  fence,      \* history: the holder the initiators left, nobody having dropped it
  cleared,    \* history: the record was proven gone, no PR OUT since
  report      \* history: what the last ClearReservation answered

db == <<objs, conn>>
pr == <<reg, holder, loaded>>
tree == <<dev, ml, up, pr>>
files == <<file, stable>>
daemon == <<prClearing, withheld, clearing, degraded>>
history == <<fence, cleared, report>>
vars == <<db, tree, files, daemon, pc, seen, history>>

\* torn: the kernel's truncating rewrite was cut short by a power loss.
File == [state: {"none", "ok", "torn"}, reg: SUBSET Host, holder: Host \cup {NoHost}]
NoFile == [state |-> "none", reg |-> {}, holder |-> NoHost]
Torn == [NoFile EXCEPT !.state = "torn"]

\* Which reconcile is running: a commit's or a heal's, that of a start, and
\* the three of ClearReservation.
Reconciles == {"reconcile", "replay", "prune", "recover", "rebuild"}
PC == Reconciles \cup {"down", "idle", "discard", "verify", "verdict", "readHolder",
                       "readVerdict", "rebuildFailed", "readFailed"}
Report == {"none", "cleared", "fence_dropped", "still_held", "clear_unverified",
           "fence_unknown", "reconcile_failed"}

\* Also the shape the kernel imposes: a registration needs its mapped LUN, a
\* mapped LUN its backstore.  That the daemon never tears one down from under
\* the other is the order of applyRemovals.
TypeOK ==
  /\ objs \subseteq Object /\ conn \in [Object -> SUBSET Host]
  /\ dev \subseteq Object /\ ml \in [Object -> SUBSET Host] /\ up \in BOOLEAN
  /\ reg \in [Object -> SUBSET Host] /\ holder \in [Object -> Host \cup {NoHost}]
  /\ loaded \in [Object -> File] /\ file \in [Object -> File] /\ stable \in [Object -> File]
  /\ prClearing \in Object \cup {NoObj} /\ clearing \in Object \cup {NoObj}
  /\ withheld \subseteq Object /\ degraded \in BOOLEAN
  /\ pc \in PC /\ seen \subseteq Host
  /\ fence \in [Object -> Host \cup {NoHost}] /\ cleared \subseteq Object
  /\ report \in Report
  /\ \A o \in Object : /\ holder[o] \in reg[o] \cup {NoHost}
                       /\ reg[o] \subseteq ml[o]
                       /\ ml[o] # {} => o \in dev

Init ==
  /\ objs \in (SUBSET Object) \ {{}} /\ conn = [o \in Object |-> {}]
  /\ dev = {} /\ ml = [o \in Object |-> {}] /\ up = FALSE
  /\ reg = [o \in Object |-> {}] /\ holder = [o \in Object |-> NoHost]
  /\ loaded = [o \in Object |-> NoFile]
  /\ file = [o \in Object |-> NoFile] /\ stable = file
  /\ prClearing = NoObj /\ withheld = {} /\ clearing = NoObj /\ degraded = FALSE
  /\ pc = "down" /\ seen = {}
  /\ fence = [o \in Object |-> NoHost] /\ cleared = {} /\ report = "none"

\* Mutant of Want: only the object being cleared is withheld.
WantWithheldToo(o) == IF o \in objs /\ o # prClearing THEN conn[o] ELSE {}

\* desiredLIO: the object being cleared, and those a failed clear left
\* withheld, are taken out.
Want(o) == IF o \in objs /\ o # prClearing /\ o \notin withheld THEN conn[o] ELSE {}

(***************************************************************************)
(* Initiators and the kernel (external).                                   *)
(***************************************************************************)

\* What one PR OUT of h makes of registrations and holder: REGISTER, RESERVE,
\* RELEASE, PREEMPT.
PROutcomes(o, h) ==
  {<<reg[o] \cup {h}, holder[o]>>}
    \cup (IF h \in reg[o] /\ holder[o] = NoHost THEN {<<reg[o], h>>} ELSE {})
    \cup (IF h \in reg[o] /\ holder[o] = h THEN {<<reg[o], NoHost>>} ELSE {})
    \cup (IF h \in reg[o] THEN {<<reg[o] \ {v}, IF holder[o] = v THEN h ELSE holder[o]>>
                                  : v \in reg[o] \ {h}}
                          ELSE {})

CanReach(o, h) == up /\ h \in ml[o]

\* A holder that is being detached, or whose reservation is being cleared, is
\* owed no fence.
PROut(o, h) ==
  /\ CanReach(o, h)
  /\ \E r \in PROutcomes(o, h) :
       /\ reg' = [reg EXCEPT ![o] = r[1]]
       /\ holder' = [holder EXCEPT ![o] = r[2]]
       /\ fence' = [fence EXCEPT ![o] = IF r[2] \in Want(o) THEN r[2] ELSE NoHost]
       /\ LET f == [state |-> "ok", reg |-> r[1], holder |-> r[2]] IN
          file' = [file EXCEPT ![o] = f] /\ stable' = [stable EXCEPT ![o] = f]
  /\ cleared' = cleared \ {o}
  /\ UNCHANGED <<db, dev, ml, up, loaded, daemon, pc, seen, report>>

\* Binding a record: its initiator registers, and reserves if it was the holder.
Bind(o, h) ==
  LET b == h \in loaded[o].reg IN
  /\ reg' = [reg EXCEPT ![o] = IF b THEN @ \cup {h} ELSE @]
  /\ holder' = [holder EXCEPT ![o] = IF b /\ loaded[o].holder = h /\ @ = NoHost
                                     THEN h ELSE @]
  /\ loaded' = [loaded EXCEPT ![o].reg = @ \ {h}]

\* A host that loses its mapped LUN loses its registration and reservation.
Unbind(o, h) ==
  /\ reg' = [reg EXCEPT ![o] = @ \ {h}]
  /\ holder' = [holder EXCEPT ![o] = IF @ = h THEN NoHost ELSE @]
  /\ UNCHANGED loaded

(***************************************************************************)
(* reconcile: backstores, mapped LUNs, enable; then mapped LUNs and        *)
(* backstores that are not wanted.                                         *)
(***************************************************************************)

WantDev == {o \in Object : Want(o) # {}}
Reconciling == pc \in Reconciles
DevsDone == Reconciling /\ WantDev \subseteq dev
AddsDone == DevsDone /\ up /\ \A o \in Object : Want(o) \subseteq ml[o]
PrunedFirst == AddsDone   \* mutant of Pruned: backstores go before mapped LUNs
Pruned == AddsDone /\ \A o \in Object : ml[o] = Want(o)

\* Mutant of Readable: a zero-length file means that nothing was reserved.
ReadableAlways(f) == TRUE

\* ParseAPTPL: a damaged file is an error, not an empty list.
Readable(f) == f.state # "torn"

\* ensureBackstore on a new backstore, or on one that an earlier pass left
\* without enabling it: loadAPTPL gives one saved record to the kernel per
\* write, and any write can be the last of this pass.  The object directory
\* keeps what it was given; a record given again counts once.
LoadAPTPL(o, h) ==
  /\ Reconciling
  /\ o \in WantDev \ dev
  /\ Readable(file[o])
  /\ h \in file[o].reg \ loaded[o].reg
  /\ loaded' = [loaded EXCEPT ![o] =
                  [state |-> "ok", reg |-> @.reg \cup {h},
                   holder |-> IF file[o].holder = h THEN h ELSE @.holder]]
  /\ UNCHANGED <<db, dev, ml, up, reg, holder, files, daemon, pc, seen, history>>

\* Mutant of Restored: the object is enabled first and the records follow,
\* which the kernel would also accept.
RestoredLater(o) == TRUE

\* loadAPTPL has returned nil: the file could be read and each of its records
\* is with the kernel.
Restored(o) == Readable(file[o]) /\ file[o].reg \subseteq loaded[o].reg

\* The enable that ensureBackstore writes after the restore; an object that is
\* enabled is never given its records again.
EnableBackstore(o) ==
  /\ Reconciling
  /\ o \in WantDev \ dev
  /\ Restored(o)
  /\ dev' = dev \cup {o}
  /\ UNCHANGED <<db, ml, up, pr, files, daemon, pc, seen, history>>

\* discoverBackstores lists the object directories, enabled or not.
Present == dev \cup {o \in Object : loaded[o] # NoFile}

EnsureMappedLUN(o, h) ==
  /\ DevsDone
  /\ h \in Want(o) \ ml[o]
  /\ ml' = [ml EXCEPT ![o] = @ \cup {h}]
  /\ Bind(o, h)
  /\ UNCHANGED <<db, dev, up, files, daemon, pc, seen, history>>

\* ensureTPG writes the enable flag last.
EnableTPG ==
  /\ DevsDone
  /\ ~up
  /\ \A o \in Object : Want(o) \subseteq ml[o]
  /\ up' = TRUE
  /\ UNCHANGED <<db, dev, ml, pr, files, daemon, pc, seen, history>>

RemoveMappedLUN(o, h) ==
  /\ AddsDone
  /\ h \in ml[o] \ Want(o)
  /\ ml' = [ml EXCEPT ![o] = @ \ {h}]
  /\ Unbind(o, h)
  /\ UNCHANGED <<db, dev, up, files, daemon, pc, seen, history>>

\* Removing the backstore frees what it still holds.
RemoveBackstore(o) ==
  /\ Pruned
  /\ o \in Present \ WantDev
  /\ dev' = dev \ {o}
  /\ reg' = [reg EXCEPT ![o] = {}]
  /\ holder' = [holder EXCEPT ![o] = NoHost]
  /\ loaded' = [loaded EXCEPT ![o] = NoFile]
  /\ UNCHANGED <<db, ml, up, files, daemon, pc, seen, history>>

\* Where a reconcile that succeeds, and one that fails, takes its caller.
AfterOK(p) ==
  CASE p = "prune" -> "discard" [] p = "rebuild" -> "verify"
    [] p = "recover" -> "verdict" [] OTHER -> "idle"
AfterFailure(p) ==
  CASE p = "prune" -> "recover" [] p = "rebuild" -> "rebuildFailed"
    [] p = "replay" -> "down" [] OTHER -> "idle"

ReconcileOK ==
  /\ Pruned /\ Present = WantDev
  /\ degraded' = FALSE
  /\ pc' = AfterOK(pc)
  /\ UNCHANGED <<db, tree, files, prClearing, withheld, clearing, seen, history>>

\* recoverFromFailedPrune takes the object out of prClearing and reconciles
\* once more; when that fails too, the state of the fence is unknown.
ReconcileFailed ==
  /\ Reconciling
  /\ degraded' = (pc # "replay")
  /\ pc' = AfterFailure(pc)
  /\ prClearing' = IF pc = "prune" THEN NoObj ELSE prClearing
  /\ clearing' = IF pc = "recover" THEN NoObj ELSE clearing
  /\ report' = IF pc = "recover" THEN "fence_unknown" ELSE report
  /\ UNCHANGED <<db, tree, files, withheld, seen, fence, cleared>>

(***************************************************************************)
(* ClearReservation.                                                       *)
(***************************************************************************)

Answer(r) == report' = r /\ clearing' = NoObj /\ pc' = "idle"

\* Phase 1: withhold the object; a reconcile removes its backstore.
ClearReservation(o) ==
  /\ pc = "idle" /\ ~degraded
  /\ o \in objs
  /\ clearing' = o /\ prClearing' = o /\ pc' = "prune"
  /\ report' = "none"
  /\ fence' = [fence EXCEPT ![o] = NoHost]
  /\ UNCHANGED <<db, tree, files, withheld, degraded, seen, cleared>>

\* What os.Remove leaves for a power loss to find.
Unlinked(o) ==
  /\ file' = [file EXCEPT ![o] = NoFile]
  /\ stable' = IF UnlinkDurable THEN [stable EXCEPT ![o] = NoFile] ELSE stable

\* Mutant of DiscardOK: the best-effort discardSavedPR in its place.
DiscardUnchecked ==
  /\ pc = "discard"
  /\ Unlinked(clearing) \/ UNCHANGED files
  /\ cleared' = cleared \cup {clearing}
  /\ withheld' = withheld \ {clearing}
  /\ prClearing' = NoObj
  /\ pc' = "rebuild"
  /\ UNCHANGED <<db, tree, clearing, degraded, seen, fence, report>>

\* Phase 2: the record is proven gone, the hold ends, phase 3 begins.
DiscardOK ==
  /\ pc = "discard"
  /\ Unlinked(clearing)
  /\ cleared' = cleared \cup {clearing}
  /\ withheld' = withheld \ {clearing}
  /\ prClearing' = NoObj
  /\ pc' = "rebuild"
  /\ UNCHANGED <<db, tree, clearing, degraded, seen, fence, report>>

\* Mutant of DiscardFailed: holdBack is forgotten.
DiscardFailedSilently ==
  /\ pc = "discard"
  /\ Unlinked(clearing) \/ UNCHANGED files
  /\ Answer("fence_dropped")
  /\ UNCHANGED <<db, tree, prClearing, withheld, degraded, seen, fence, cleared>>

\* Not removed, or removed and not proven: the object is held back, and
\* prClearing keeps naming it.
DiscardFailed ==
  /\ pc = "discard"
  /\ Unlinked(clearing) \/ UNCHANGED files
  /\ withheld' = withheld \cup {clearing}
  /\ Answer("fence_dropped")
  /\ UNCHANGED <<db, tree, prClearing, degraded, seen, fence, cleared>>

\* PRState reads the registrations and then the holder; initiators can come
\* in between.  An object that wants no backstore is not read.
ReadRegs(from, to) ==
  /\ pc = from
  /\ clearing \in WantDev
  /\ seen' = reg[clearing]
  /\ pc' = to
  /\ UNCHANGED <<db, tree, files, daemon, history>>

\* What the second read gives: the holder of the object being cleared, or not
\* even that.
HolderRead == {holder[clearing], "unreadable"}

\* verifyCleared.
Verified(h) ==
  CASE h = "unreadable" -> "clear_unverified"
    [] h \in Host -> "clear_unverified"
    [] h = NoHost /\ seen # {} -> "fence_dropped"
    [] OTHER -> "cleared"

\* Mutant of Verdict: a failed clear leaves everything as it was.
VerdictUnchanged(h) == "still_held"

\* recoverFromFailedPrune: is the fence itself down, whatever else failed?
Verdict(h) ==
  CASE h = "unreadable" -> "fence_unknown"
    [] h = NoHost -> "fence_dropped"
    [] OTHER -> "still_held"

VerifyCleared ==
  /\ \/ pc = "verify" /\ clearing \notin WantDev /\ Answer("cleared")
     \/ pc = "readHolder" /\ \E h \in HolderRead : Answer(Verified(h))
  /\ UNCHANGED <<db, tree, files, prClearing, withheld, degraded, seen, fence, cleared>>

RecoverVerdict ==
  /\ \/ pc = "verdict" /\ clearing \notin WantDev /\ Answer(Verdict(NoHost))
     \/ pc = "readVerdict" /\ \E h \in HolderRead : Answer(Verdict(h))
  /\ UNCHANGED <<db, tree, files, prClearing, withheld, degraded, seen, fence, cleared>>

RebuildVerdict ==
  /\ \/ pc = "rebuildFailed" /\ clearing \notin WantDev /\ Answer("reconcile_failed")
     \/ pc = "readFailed" /\ Answer("reconcile_failed")
     \/ pc = "readFailed" /\ Answer("fence_unknown")
  /\ UNCHANGED <<db, tree, files, prClearing, withheld, degraded, seen, fence, cleared>>

(***************************************************************************)
(* The other operations.                                                   *)
(***************************************************************************)

Heal ==
  /\ pc = "idle" /\ degraded
  /\ pc' = "reconcile"
  /\ UNCHANGED <<db, tree, files, daemon, seen, history>>

Commit(c) ==
  /\ pc = "idle" /\ ~degraded
  /\ conn' = c
  /\ pc' = "reconcile"
  /\ UNCHANGED <<objs, tree, files, daemon, seen, cleared, report>>

Connect(o, h) ==
  /\ o \in objs
  /\ h \notin conn[o]
  /\ Commit([conn EXCEPT ![o] = @ \cup {h}])
  /\ UNCHANGED fence

\* Detaching the holder releases its reservation; the caller is warned.
Disconnect(o, h) ==
  /\ h \in conn[o]
  /\ Commit([conn EXCEPT ![o] = @ \ {h}])
  /\ fence' = [fence EXCEPT ![o] = IF @ = h THEN NoHost ELSE @]

\* discardSavedPR is best effort and releaseHold drops the hold; neither is
\* reached when the record's removal is visible but not proven durable.
Delete(o) ==
  /\ pc = "idle" /\ ~degraded
  /\ o \in objs /\ conn[o] = {}
  /\ objs' = objs \ {o}
  /\ \/ (Unlinked(o) \/ UNCHANGED files) /\ withheld' = withheld \ {o}
     \/ UNCHANGED <<files, withheld>>
  /\ UNCHANGED <<conn, tree, prClearing, clearing, degraded, pc, seen, history>>

Open ==
  /\ pc = "down"
  /\ pc' = "replay"
  /\ UNCHANGED <<db, tree, files, daemon, seen, history>>

(***************************************************************************)
(* The environment.                                                        *)
(***************************************************************************)

DaemonGone ==
  /\ prClearing' = NoObj /\ withheld' = {} /\ clearing' = NoObj /\ degraded' = FALSE
  /\ pc' = "down" /\ seen' = {}

Crash ==
  /\ pc # "down"
  /\ DaemonGone
  /\ UNCHANGED <<db, tree, files, history>>

\* The kernel's tree is gone, and unlinks that were never synced may be undone.
\* When it hits a rewrite of a saved record, that record is torn.
PowerLoss ==
  /\ DaemonGone
  /\ dev' = {} /\ ml' = [o \in Object |-> {}] /\ up' = FALSE
  /\ reg' = [o \in Object |-> {}] /\ holder' = [o \in Object |-> NoHost]
  /\ loaded' = [o \in Object |-> NoFile]
  /\ \E undone \in SUBSET Object :
       LET f == [o \in Object |-> IF o \in undone THEN stable[o] ELSE file[o]] IN
       \/ file' = f /\ stable' = f /\ UNCHANGED cleared
       \/ \E o \in Object, h \in Host :
            /\ CanReach(o, h)
            /\ file' = [f EXCEPT ![o] = Torn] /\ stable' = [f EXCEPT ![o] = Torn]
            /\ cleared' = cleared \ {o}
  /\ UNCHANGED <<db, fence, report>>

\* An operator deletes a saved record by hand, and with it what it protected.
OperatorUnlink(o) ==
  /\ pc = "down" \/ o \in withheld
  /\ file[o] # NoFile
  /\ Unlinked(o)
  /\ fence' = [fence EXCEPT ![o] = NoHost]
  /\ UNCHANGED <<db, tree, daemon, pc, seen, cleared, report>>

Next ==
  \/ \E o \in Object, h \in Host :
       \/ PROut(o, h) \/ LoadAPTPL(o, h)
       \/ EnsureMappedLUN(o, h) \/ RemoveMappedLUN(o, h)
       \/ Connect(o, h) \/ Disconnect(o, h)
  \/ \E o \in Object :
       \/ EnableBackstore(o) \/ RemoveBackstore(o)
       \/ ClearReservation(o) \/ Delete(o) \/ OperatorUnlink(o)
  \/ EnableTPG \/ ReconcileOK \/ ReconcileFailed \/ Heal
  \/ DiscardOK \/ DiscardFailed
  \/ ReadRegs("verify", "readHolder") \/ VerifyCleared
  \/ ReadRegs("verdict", "readVerdict") \/ RecoverVerdict
  \/ ReadRegs("rebuildFailed", "readFailed") \/ RebuildVerdict
  \/ Open \/ Crash \/ PowerLoss

Spec == Init /\ [][Next]_vars

(***************************************************************************)
(* Properties.                                                             *)
(***************************************************************************)

\* A reservation that nobody released, detached, cleared or deleted by hand
\* is in effect whenever another initiator can reach the object, through
\* crashes, power losses, torn saved records and half-done reconciles
\* (loadAPTPL before enable, ParseAPTPL, the TPG's enable flag last).
FenceKept ==
  \A o \in Object, h \in Host :
    fence[o] # NoHost /\ h # fence[o] /\ CanReach(o, h) => holder[o] = fence[o]

\* Once ClearReservation has proven the saved record gone, the reservation
\* does not come back by itself: not by the rebuild, not by a later attach or
\* a restart, until an initiator issues a PR OUT (discardSavedPRChecked after
\* the prune).
ClearSticks ==
  \A o \in cleared : /\ reg[o] = {} /\ holder[o] = NoHost /\ loaded[o].reg = {}
                     /\ file[o].reg = {}

\* What discardSavedPRChecked's comment says of a clear that succeeded: it
\* "PROVES" the record is gone.  False over a power loss, for nobody syncs the
\* directory: the record can be back, and the start gives it to the kernel.
ClearedForGood == report = "cleared" => ClearSticks

\* "No reconcile restores them until they are resolved": an object that a
\* failed clear left withheld has no backstore, whatever else is mapped,
\* cleared or healed in the meantime (desiredLIO, holdBack, releaseHold).
WithheldIsAbsent == \A o \in withheld : o \notin dev

\* /health is never silent about an absent object: between operations every
\* connected object is presented to all of its hosts, or is named as
\* withheld, or the appliance is degraded (setClearing, holdBack).
AbsentIsReported ==
  pc = "idle" /\ ~degraded =>
    \A o \in objs \ withheld : ml[o] = conn[o] /\ (o \in dev <=> conn[o] # {})

\* An answer that speaks of the fence is true of the kernel at the moment it
\* is given: down when it says cleared or dropped, up when it says still held
\* (recoverFromFailedPrune, verifyCleared).
TruthfulAnswer ==
  [][clearing # NoObj /\ report' # report =>
       /\ report' \in {"cleared", "fence_dropped"} => holder'[clearing] = NoHost
       /\ report' = "still_held" => holder'[clearing] # NoHost]_vars
=============================================================================
