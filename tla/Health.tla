------------------------------- MODULE Health -------------------------------
(***************************************************************************)
(* What /health and the log say of the appliance, beside what is so: the   *)
(* attributes of the exported backstores (lio/backstore.go), the reconcile *)
(* that applies them and keeps a view of what it applied                   *)
(* (appliance/translate.go), the publication of its outcome                *)
(* (appliance/appliance.go) and the edge-triggered health event            *)
(* (appliance/events.go).                                                  *)
(*                                                                         *)
(* A reconcile runs under Coordinator.mu; /health takes only healthMu, so  *)
(* every state here is one a monitor can read.  The daemon can be killed   *)
(* at every step and started again with another -write-back.               *)
(*                                                                         *)
(* Abstractions.  A volume is one backstore and one LUN.  "geo" stands for *)
(* block_size and optimal_sectors, which the kernel refuses to change on   *)
(* an exported device; "wce" is emulate_write_cache, which it does not     *)
(* refuse.  The fencing findings are one Boolean (module Fencing has their *)
(* contents).  What a clear does to the reservation is in Reservations.    *)
(***************************************************************************)
EXTENDS Naturals, FiniteSets

CONSTANTS
  Vol,        \* volumes
  NoVol,      \* "no clear in flight"
  Legacy,     \* volumes an earlier release left exported, "geo" unmanaged
  ModeShown,  \* does the kernel's info line name the mode of a device?
  MaxEvents   \* bound: operator, initiator and failure events

ASSUME HealthAssumption ==
  NoVol \notin Vol /\ Legacy \subseteq Vol /\ ModeShown \in BOOLEAN /\ MaxEvents \in Nat

VARIABLES
  conn,      \* db: the volumes that have a connection
  wb,        \* cfg.WriteBack of the running daemon
  dev,       \* kernel: the storage object of a volume
  exported,  \* kernel: volumes behind a LUN of the TPG
  unbound,   \* kernel: a saved reservation is not in effect
  up,        \* "down", "starting" (replay, nothing served yet) or "up"
  applied,   \* Coordinator.applied, as far as the backstores go
  withheld,  \* Coordinator.withheld and its published copy
  prClearing,\* Coordinator.prClearing
  pc,        \* where the reconcile in flight is
  op,        \* that reconcile
  pub,       \* the health fields, under healthMu
  noted,     \* lastStatus and lastConditions: what the log said last
  events     \* bound

kernel == <<dev, exported, unbound>>
memory == <<up, applied, withheld, prClearing, pc, op>>
vars == <<conn, wb, kernel, memory, pub, noted, events>>

Attr == {"geo", "wce"}

\* made: directory and control written, not enabled yet.
Device == [st: {"none", "made", "on"}, buf: BOOLEAN, geo: BOOLEAN, wce: BOOLEAN]
NoDevice == [st |-> "none", buf |-> FALSE, geo |-> FALSE, wce |-> FALSE]

\* The cached view: the backstores in it, and those it holds with a live value
\* that is not the desired one (appliedView).
View == [known: BOOLEAN, in: SUBSET Vol, odd: SUBSET Vol]
NoView == [known |-> FALSE, in |-> {}, odd |-> {}]

Kind == {"none", "replay", "change", "heal", "clear", "restore", "recover"}
Op == [kind: Kind, full: BOOLEAN, todo: SUBSET Vol, cur: Vol \cup {NoVol},
       drift: SUBSET (Vol \X Attr), unread: SUBSET Vol, unbound: BOOLEAN]
NoOp == [kind |-> "none", full |-> FALSE, todo |-> {}, cur |-> NoVol,
         drift |-> {}, unread |-> {}, unbound |-> FALSE]
PC == {"idle", "ensure", "enable", "write", "walk", "publish", "note", "discard"}

\* unread: volumes whose drift is reported as unknown.
Published == [err: BOOLEAN, drift: SUBSET (Vol \X Attr), unread: SUBSET Vol,
              unbound: BOOLEAN, clearing: Vol \cup {NoVol}]
NoHealth == [err |-> FALSE, drift |-> {}, unread |-> {}, unbound |-> FALSE,
             clearing |-> NoVol]

Condition == {"pr_unbound", "clear_in_progress", "withheld_after_failed_clear",
              "attribute_drift"}
Note == [status: {"", "ok", "warning", "degraded"}, conds: SUBSET Condition]
NotNoted == [status |-> "", conds |-> {}]

TypeOK ==
  /\ conn \subseteq Vol /\ wb \in BOOLEAN
  /\ dev \in [Vol -> Device] /\ unbound \in BOOLEAN
  /\ exported \subseteq {v \in Vol : dev[v].st = "on"}
  /\ up \in {"down", "starting", "up"}
  /\ applied \in View /\ withheld \subseteq Vol /\ prClearing \in Vol \cup {NoVol}
  /\ pc \in PC /\ op \in Op /\ pub \in Published /\ noted \in Note
  /\ events \in 0..MaxEvents

\* The daemon is down; an earlier release has left its exports behind.
Init ==
  /\ conn = Legacy /\ wb = FALSE
  /\ dev = [v \in Vol |-> IF v \in Legacy THEN [NoDevice EXCEPT !.st = "on"] ELSE NoDevice]
  /\ exported = Legacy /\ unbound = FALSE
  /\ up = "down" /\ applied = NoView /\ withheld = {} /\ prClearing = NoVol
  /\ pc = "idle" /\ op = NoOp /\ pub = NoHealth /\ noted = NotNoted
  /\ events = 0

Event == events < MaxEvents /\ events' = events + 1

(***************************************************************************)
(* The verdict.                                                            *)
(***************************************************************************)

\* Health.Status.
Status ==
  IF pub.err THEN "degraded"
  ELSE IF withheld # {} \/ pub.clearing # NoVol \/ pub.unbound THEN "warning"
  ELSE "ok"

\* Health.Conditions: every field the body can carry.
Conditions ==
  {c \in Condition :
     \/ c = "pr_unbound" /\ pub.unbound
     \/ c = "clear_in_progress" /\ pub.clearing # NoVol
     \/ c = "withheld_after_failed_clear" /\ withheld # {}
     \/ c = "attribute_drift" /\ (pub.drift # {} \/ pub.unread # {})}

Shown == [status |-> Status, conds |-> Conditions]

(***************************************************************************)
(* A reconcile begins.                                                     *)
(***************************************************************************)

\* What desiredLIO takes out of the exports.
Out(held, clearing) == held \cup {clearing}

Desired == conn \ Out(withheld, prClearing)

\* The backstores ApplyDelta visits: the new ones, and those whose cached
\* attributes are not the desired ones.
Changed(want) == (want \ applied.in) \cup (want \cap applied.odd)

\* reconcile: a full pass without a cached view or when Diff refuses, a delta
\* otherwise.
Begin(kind, want) ==
  \E full \in {TRUE, ~applied.known} :
    /\ pc' = "ensure"
    /\ op' = [NoOp EXCEPT !.kind = kind, !.full = full,
                          !.todo = IF full THEN want ELSE Changed(want)]

(***************************************************************************)
(* ensureBackstore, for one visited backstore after the other.             *)
(***************************************************************************)

\* The kernel takes a write of block_size and optimal_sectors on a device that
\* no LUN refers to.
GeoWritable(v) == v \notin exported

\* The reconcile fails at this step: publishReconcileFailure, the view dropped,
\* the warnings of the last successful pass kept.
Fails ==
  /\ Event
  /\ applied' = NoView
  /\ pub' = [pub EXCEPT !.err = TRUE]
  /\ pc' = "note" /\ op' = [op EXCEPT !.todo = {}, !.cur = NoVol, !.drift = {}]

Proceeds(where, next) ==
  /\ pc' = where /\ op' = next
  /\ UNCHANGED <<applied, pub, events>>

Running == <<conn, wb, unbound, up, withheld, prClearing, noted>>

\* Mutant of WriteCache: the desired value is written whatever the mode is.
WriteCacheAsAsked(v) == wb

\* constrainWriteCache: the value follows the mode the device was opened in,
\* unless the info line names none (parseInfoMode).
WriteCache(v) == IF ModeShown THEN dev[v].buf ELSE wb

\* Attributes are written in order; a pass that stops has written a prefix.
Prefix == {{}, {"geo"}, Attr}

Tuned(v, keys) ==
  [dev[v] EXCEPT !.geo = @ \/ ("geo" \in keys /\ GeoWritable(v)),
                 !.wce = IF "wce" \in keys THEN WriteCache(v) ELSE @]

\* What the pass reports of a device it could not make as desired.
TuneDrift(v) ==
  {<<v, a>> : a \in {b \in Attr : \/ b = "geo" /\ ~dev[v].geo /\ ~GeoWritable(v)
                                  \/ b = "wce" /\ WriteCache(v) # wb}}

\* Mutant of Retuned: an enabled object is taken to be configured already.
LeftAlone(v) == dev[v]

\* An enabled object is not created again: every attribute is compared.
Retuned(v) == Tuned(v, Attr)

\* reconcileBackstoreMutable.
Tune(v) ==
  /\ pc = "ensure" /\ v \in op.todo /\ dev[v].st = "on"
  /\ \/ /\ dev' = [dev EXCEPT ![v] = Retuned(v)]
        /\ Proceeds("ensure", [op EXCEPT !.todo = @ \ {v}, !.drift = @ \cup TuneDrift(v)])
     \/ /\ \E keys \in Prefix : dev' = [dev EXCEPT ![v] = Tuned(v, keys)]
        /\ Fails
  /\ UNCHANGED <<exported, Running>>

\* mkdir and control.  The kernel keeps fd_buffered_io once it was given, and
\* the option is only ever given, never withdrawn (bufferedOpt).
Make(v) ==
  /\ pc = "ensure" /\ v \in op.todo /\ dev[v].st # "on"
  /\ \/ /\ dev' = [dev EXCEPT ![v] = [NoDevice EXCEPT !.st = "made", !.buf = @ \/ dev[v].buf \/ wb]]
        /\ Proceeds("enable", [op EXCEPT !.cur = v])
     \/ Fails /\ UNCHANGED dev
  /\ UNCHANGED <<exported, Running>>

\* loadAPTPL, then enable: the kernel derives the write cache from the mode.
Enable ==
  /\ pc = "enable"
  /\ \/ /\ dev' = [dev EXCEPT ![op.cur].st = "on", ![op.cur].wce = dev[op.cur].buf]
        /\ Proceeds("write", op)
     \/ Fails /\ UNCHANGED dev
  /\ UNCHANGED <<exported, Running>>

Written(v, keys) ==
  [dev[v] EXCEPT !.geo = @ \/ "geo" \in keys,
                 !.wce = IF "wce" \in keys THEN wb ELSE @]

\* The attributes of the new object.
WriteAttrs ==
  /\ pc = "write"
  /\ \/ /\ dev' = [dev EXCEPT ![op.cur] = Written(op.cur, Attr)]
        /\ Proceeds("ensure", [op EXCEPT !.todo = @ \ {op.cur}, !.cur = NoVol])
     \/ /\ \E keys \in Prefix : dev' = [dev EXCEPT ![op.cur] = Written(op.cur, keys)]
        /\ Fails
  /\ UNCHANGED <<exported, Running>>

(***************************************************************************)
(* LUNs, and then what goes: Sync prunes everything it finds, ApplyDelta   *)
(* removes what its cached view held.                                      *)
(***************************************************************************)

Gone(want) == (IF op.full THEN Vol ELSE applied.in) \ want

\* Mutant of Pruned: a device is kept when the old view had it.
PrunedByOldView(want) == [v \in Vol |-> IF v \in applied.in THEN dev[v] ELSE NoDevice]

Pruned(want) == [v \in Vol |-> IF v \in Gone(want) THEN NoDevice ELSE dev[v]]

\* Mutant of BeforeWalks: success is announced before its warnings are known.
AnnouncedFirst == [pub EXCEPT !.err = FALSE]

\* Nothing is published until the walks have ended.
BeforeWalks == pub

Wire ==
  /\ pc = "ensure" /\ op.todo = {}
  /\ LET want == Desired
     IN \/ /\ exported' = (exported \cup want) \ Gone(want)
           /\ dev' = Pruned(want)
           /\ pc' = "walk" /\ pub' = BeforeWalks
           /\ UNCHANGED <<op, applied, events>>
        \/ /\ \E lost \in {{}, Gone(want)} : exported' = (exported \cup want) \ lost
           /\ Fails /\ UNCHANGED dev
  /\ UNCHANGED Running

(***************************************************************************)
(* The walks, and one publication of everything they found.                *)
(***************************************************************************)

\* The managed attributes of exported devices that are not as desired.
Mismatch(v) ==
  {<<v, a>> : a \in {b \in Attr : \/ b = "geo" /\ ~dev[v].geo
                                  \/ b = "wce" /\ dev[v].wce # wb}}
Drifted(vols) == UNION {Mismatch(v) : v \in vols \cap exported}

\* Report.Drift of a full pass; VerifyDrift over the whole tree after a delta.
Drift(unread) == IF op.full THEN op.drift ELSE Drifted(Desired \ unread)

Walk ==
  /\ pc = "walk"
  /\ \E unread \in SUBSET {v \in Desired : ~op.full /\ v \in exported} :
       /\ pc' = "publish"
       /\ op' = [op EXCEPT !.drift = Drift(unread), !.unread = unread, !.unbound = unbound]
       /\ IF unread = {} THEN UNCHANGED events ELSE Event
  /\ UNCHANGED <<conn, wb, kernel, up, applied, withheld, prClearing, pub, noted>>

\* appliedView: a value that could not be read is not cached as live.
AppliedView == [known |-> TRUE, in |-> Desired, odd |-> {d[1] : d \in op.drift}]

\* storeDriftLocked: the whole set is replaced.
DriftNow == op.drift

\* publishReconcile, in one acquisition of healthMu.
Publish ==
  /\ pc = "publish"
  /\ applied' = AppliedView
  /\ pub' = [pub EXCEPT !.err = FALSE, !.drift = DriftNow, !.unread = op.unread,
                        !.unbound = op.unbound]
  /\ pc' = "note"
  /\ UNCHANGED <<conn, wb, kernel, up, withheld, prClearing, op, noted, events>>

\* noteHealth: a snapshot after the publication, compared with the last one.
NoteHealth == noted' = Shown

\* Where the operation goes on after its reconcile.  The replay of a starting
\* daemon must succeed; a clear whose prune failed restores the export.
AfterReconcile ==
  \/ /\ op.kind = "replay"
     /\ up' = IF pub.err THEN "down" ELSE "up"
     /\ pc' = "idle" /\ op' = NoOp /\ UNCHANGED <<pub, prClearing>>
  \/ /\ op.kind = "clear" /\ ~pub.err
     /\ pc' = "discard" /\ UNCHANGED <<op, pub, up, prClearing>>
  \/ /\ op.kind = "clear" /\ pub.err
     /\ prClearing' = NoVol
     /\ Begin("recover", conn \ Out(withheld, NoVol)) /\ UNCHANGED <<pub, up>>
  \/ /\ op.kind \in {"change", "heal", "restore", "recover"}
     /\ pub' = [pub EXCEPT !.clearing = NoVol]  \* the deferred setClearing("")
     /\ pc' = "idle" /\ op' = NoOp /\ UNCHANGED <<up, prClearing>>

ReconcileEnds ==
  /\ pc = "note"
  /\ NoteHealth
  /\ AfterReconcile
  /\ UNCHANGED <<conn, wb, kernel, applied, withheld, events>>

(***************************************************************************)
(* The operations.  Each holds Coordinator.mu to its end.                  *)
(***************************************************************************)

Idle == up = "up" /\ pc = "idle"

\* A mutation of the connections, or of something else the reconcile covers (a
\* host, an initiator): refused while degraded.
Change(c) ==
  /\ Idle /\ ~pub.err /\ Event
  /\ conn' = c
  /\ Begin("change", c \ Out(withheld, prClearing))
  /\ UNCHANGED <<wb, kernel, up, applied, withheld, prClearing, pub, noted>>

\* healIfDegraded, on the next mutation.
Heal ==
  /\ Idle /\ pub.err /\ Event
  /\ Begin("heal", Desired)
  /\ UNCHANGED <<conn, wb, kernel, up, applied, withheld, prClearing, pub, noted>>

\* ClearReservation, first phase.
ClearReservation(v) ==
  /\ Idle /\ ~pub.err /\ Event
  /\ pub' = [pub EXCEPT !.clearing = v]
  /\ prClearing' = v
  /\ Begin("clear", conn \ Out(withheld, v))
  /\ UNCHANGED <<conn, wb, kernel, up, applied, withheld, noted>>

\* releaseHold: one object, never the whole set.
Released(v) == withheld \ {v}

\* The saved record goes, the hold with it, and the volume comes back; or the
\* record stays and the volume is held back.
Discard ==
  /\ pc = "discard"
  /\ \/ /\ withheld' = Released(pub.clearing)
        /\ prClearing' = NoVol
        /\ Begin("restore", conn \ Out(withheld', NoVol))
        /\ UNCHANGED <<pub, events>>
     \/ /\ withheld' = withheld \cup {pub.clearing}
        /\ UNCHANGED prClearing
        /\ pub' = [pub EXCEPT !.clearing = NoVol]
        /\ pc' = "idle" /\ op' = NoOp
        /\ Event
  /\ UNCHANGED <<conn, wb, kernel, up, applied, noted>>

\* Mutant of RecheckNotes: the check publishes and says nothing.
RecheckSilent == noted

\* publishPRCheck ends with noteHealth.
RecheckNotes == Shown'

\* RecheckPR: TryLock, so only between operations.
RecheckPR ==
  /\ Idle
  /\ pub' = [pub EXCEPT !.unbound = unbound]
  /\ UNCHANGED <<conn, wb, kernel, memory, events>>
  /\ noted' = RecheckNotes

\* Initiators: a saved reservation stops, or starts again, to be in effect.
FenceMoves ==
  /\ Event /\ unbound' = ~unbound
  /\ UNCHANGED <<conn, wb, dev, exported, memory, pub, noted>>

\* The daemon is gone, with everything it held in memory.
Stops ==
  /\ up' = "down" /\ applied' = NoView /\ withheld' = {} /\ prClearing' = NoVol
  /\ pc' = "idle" /\ op' = NoOp /\ pub' = NoHealth /\ noted' = NotNoted

Crash ==
  /\ up # "down" /\ Event /\ Stops
  /\ UNCHANGED <<conn, wb, kernel>>

\* configfs is kernel memory.
Reboot ==
  /\ Event /\ Stops
  /\ dev' = [v \in Vol |-> NoDevice] /\ exported' = {}
  /\ UNCHANGED <<conn, wb, unbound>>

\* Open, with the flags of this start: replay before the API listens.
Start(flag) ==
  /\ up = "down"
  /\ wb' = flag
  /\ up' = "starting" /\ applied' = NoView /\ withheld' = {} /\ prClearing' = NoVol
  /\ pub' = NoHealth /\ noted' = NotNoted
  /\ pc' = "ensure" /\ op' = [NoOp EXCEPT !.kind = "replay", !.full = TRUE, !.todo = conn]
  /\ UNCHANGED <<conn, kernel, events>>

ReconcileStep ==
  \/ \E v \in Vol : Tune(v) \/ Make(v)
  \/ Enable \/ WriteAttrs \/ Wire \/ Walk \/ Publish \/ ReconcileEnds \/ Discard

Next ==
  \/ ReconcileStep \/ RecheckPR
  \/ \E c \in SUBSET Vol : Change(c)
  \/ Heal \/ \E v \in Vol : ClearReservation(v)
  \/ FenceMoves \/ Crash \/ Reboot \/ \E flag \in BOOLEAN : Start(flag)

\* A reconcile that the kernel lets end, the daemon's ticker, and systemd's
\* Restart=on-failure.
Fairness ==
  /\ WF_vars(ReconcileStep) /\ WF_vars(RecheckPR)
  /\ WF_vars(\E flag \in BOOLEAN : Start(flag))

Spec == Init /\ [][Next]_vars /\ Fairness

(***************************************************************************)
(* Properties.                                                             *)
(***************************************************************************)

\* VerifyDrift, appliedView and publishReconcile: what /health shows as drift
\* is exact.  While it does not say degraded, every managed attribute of an
\* exported device that is not as desired is shown, or is said to be
\* unreadable: after a delta that never visited the device, after a restart
\* with another flag, and in the middle of the reconcile that ends a degraded
\* spell, whose success is not to be seen before its warnings.  And with no
\* reconcile in flight nothing else is shown.
DriftExact ==
  /\ up = "up" /\ ~pub.err /\ (pc = "idle" \/ op.kind \in {"heal", "recover"})
       => Drifted(Vol) \subseteq pub.drift \cup (pub.unread \X Attr)
  /\ Idle /\ ~pub.err => pub.drift \subseteq Drifted(Vol)

\* ensureBackstore: a LUN appears only in front of a device that has its
\* geometry, whatever crash between enable and the attribute writes left an
\* enabled object without it.
GeometryBeforeExport == [][\A v \in exported' \ exported : dev'[v].geo]_vars

\* constrainWriteCache: no step, and no restart with another flag, makes an
\* exported device hide a write cache it has and used to declare, where the
\* kernel names the mode.
Hides(v) == dev[v].buf /\ ~dev[v].wce
CacheStaysDeclared ==
  [][\A v \in exported \cap exported' : Hides(v)' => Hides(v)]_vars

\* noteHealth: the log comes to say what /health says, whatever changed the
\* one without the other (the end of a clear, an initiator).
LogCatchesUp == []<>(up = "up" => noted = Shown)
=============================================================================
