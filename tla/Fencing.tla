------------------------------- MODULE Fencing -------------------------------
(***************************************************************************)
(* The fencing checks: does a saved SCSI-3 reservation still protect its   *)
(* volume (pr_unbound), and can the holder of a live one still address it  *)
(* (pr_stranded, pr_strand_undecided).  Source: lio/aptplcheck.go,         *)
(* lio/stranded.go, lio/isid.go, verifyAPTPL in lio/backstore.go, and the  *)
(* callers in appliance/translate.go and appliance/appliance.go.           *)
(*                                                                         *)
(* A check is a sequence of attribute reads under Coordinator.mu.  The     *)
(* mutex keeps the operator out; it does not keep the initiators out, who  *)
(* log in, log out and send PR commands between any two of the reads.      *)
(*                                                                         *)
(* Abstractions.  One volume is checked; a second one exists because LUN   *)
(* numbers and export indices are reused between volumes.  A host is one   *)
(* initiator with an ACL of its own.  An initiator registers under one     *)
(* key, with APTPL, so its name stands for the pair (initiator, key).  The *)
(* parsers are modelled by their verdicts: a value, or not interpretable.  *)
(* Reconciles succeed here (a failed one publishes nothing about fencing:  *)
(* module Health).                                                         *)
(***************************************************************************)
EXTENDS Naturals, FiniteSets

CONSTANTS
  Host,      \* initiators
  Isid,      \* session identifiers an initiator can log in with
  Lun,       \* mapped LUN numbers, positive
  NoHost, NoIsid,
  ResType,   \* the reservation types initiators ask for
  MaxEvents  \* bound: initiator events, operator events and failing reads

ASSUME FencingAssumption ==
  /\ NoHost \notin Host /\ NoIsid \notin Isid
  /\ IsFiniteSet(Host) /\ Host # {} /\ IsFiniteSet(Isid)
  /\ Lun \subseteq Nat \ {0}
  /\ ResType # {} /\ ResType \subseteq {"regonly", "allreg"}
  /\ MaxEvents \in Nat

VARIABLES
  lun,      \* lun[v][h]: the LUN at which host h sees volume v, 0 for none
  index,    \* State.Exports: the export index of v, NoIndex when unexported
  regs,     \* kernel: live registrations of the volume
  held,     \* kernel: the registration that holds the reservation, or NoReg
  rtype,    \* kernel: the type of that reservation
  dormant,  \* kernel: replayed records that no mapped LUN has bound yet
  saved,    \* db_root/pr/aptpl_<wwn>: registrations, holder and type
  sess,     \* kernel: the live sessions of an initiator
  shown,    \* kernel: the one session its ACL renders
  pc,       \* the next read of the check in flight, "idle" when there is none
  chk,      \* what that check has read so far
  pub,      \* what /health shows
  events,   \* bound
  truth     \* history: what was so while the check ran

config == <<lun, index>>
reservation == <<regs, held, rtype, dormant, saved>>
sessions == <<sess, shown>>
checking == <<pc, chk, pub>>
vars == <<config, reservation, sessions, checking, events, truth>>

Volume == {"vol", "other"}
NoIndex == Cardinality(Volume)
Index == 0..NoIndex

\* A registration: who made it, through which session and which export.
Reg == [host: Host, isid: Isid, lun: Lun, index: Index]
NoReg == [host |-> NoHost, isid |-> NoIsid, lun |-> 0, index |-> NoIndex]
Hold == Reg \cup {NoReg}

SavedFile == [regs: SUBSET Reg, held: Hold, rtype: ResType]
FirstType == CHOOSE t \in ResType : TRUE
NoFile == [regs |-> {}, held |-> NoReg, rtype |-> FirstType]

\* The entries verifyBackstoreAPTPL can produce.
Alarm == {"registration", "holder", "lapsed", "unreadable"}

\* The verdict of StrandedReservations.  It says "stranded" also when a read it
\* takes for detail has failed: the model calls that one "guessed".
Verdict == {"none", "stranded", "guessed", "undecided"}
Report == [alarms: SUBSET Alarm, strand: Verdict]
NoReport == [alarms |-> {}, strand |-> "none"]

Reads == {"visible", "live", "res_holder", "res_type", "info", "blind",
          "saved", "registered", "want_holder", "lapsed_holder"}
PC == Reads \cup {"idle", "publish"}

Check == [kind: {"none", "recheck", "reconcile"}, visible: 0..Cardinality(Host),
          blind: BOOLEAN, holder: Hold, sure: BOOLEAN, want: SUBSET Reg, wantHolder: Hold,
          lapsed: Hold, failed: BOOLEAN, report: Report]
NoCheck == [kind |-> "none", visible |-> 0, blind |-> FALSE, holder |-> NoReg,
            sure |-> TRUE, want |-> {}, wantHolder |-> NoReg, lapsed |-> NoReg,
            failed |-> FALSE, report |-> NoReport]

\* moved: somebody acted since the check began.  pubMoved: somebody acted since
\* the check that was published last began.  pubFailed: a read of it failed.
Truth == [moved: BOOLEAN, pubMoved: BOOLEAN, pubFailed: BOOLEAN]

Connected(v) == {h \in Host : lun[v][h] # 0}

TypeOK ==
  /\ lun \in [Volume -> [Host -> Lun \cup {0}]]
  /\ index \in [Volume -> Index]
  /\ \A v \in Volume : index[v] = NoIndex <=> Connected(v) = {}
  /\ regs \subseteq Reg /\ held \in regs \cup {NoReg} /\ rtype \in ResType
  /\ dormant \in SavedFile /\ saved \in SavedFile
  /\ sess \in [Host -> SUBSET Isid]
  /\ shown \in [Host -> Isid \cup {NoIsid}]
  /\ pc \in PC /\ chk \in Check /\ pub \in Report
  /\ events \in 0..MaxEvents
  /\ truth \in Truth

\* An appliance in service: every host is connected to the volume at the same
\* LUN and logged in once; nothing is registered yet.
Init ==
  /\ \E l \in Lun : lun = [v \in Volume |-> [h \in Host |-> IF v = "vol" THEN l ELSE 0]]
  /\ index = [v \in Volume |-> IF v = "vol" THEN 0 ELSE NoIndex]
  /\ regs = {} /\ held = NoReg /\ rtype = FirstType
  /\ dormant = NoFile /\ saved = NoFile
  /\ \E s \in Isid : /\ sess = [h \in Host |-> {s}]
                     /\ shown = [h \in Host |-> s]
  /\ pc = "idle" /\ chk = NoCheck /\ pub = NoReport
  /\ events = 0
  /\ truth = [moved |-> FALSE, pubMoved |-> FALSE, pubFailed |-> FALSE]

(***************************************************************************)
(* What is really so.                                                      *)
(***************************************************************************)

\* The holder is logged in, and not with the session its registration demands.
Stranded ==
  /\ held # NoReg /\ rtype = "regonly"
  /\ sess[held.host] # {} /\ held.isid \notin sess[held.host]

\* The session rendered for the holder is not the one its registration demands.
Mismatched == held # NoReg /\ shown[held.host] \notin {NoIsid, held.isid}

\* An event of the environment, or of the operator.
Event ==
  /\ events < MaxEvents
  /\ events' = events + 1
  /\ truth' = [truth EXCEPT !.moved = pc # "idle", !.pubMoved = TRUE]

(***************************************************************************)
(* The initiators and the kernel's side of their commands.                 *)
(***************************************************************************)

Login(h, s) ==
  /\ s \notin sess[h]
  /\ sess' = [sess EXCEPT ![h] = @ \cup {s}]
  /\ shown' = [shown EXCEPT ![h] = s]
  /\ UNCHANGED <<config, reservation, checking>>
  /\ Event

Logout(h, s) ==
  /\ s \in sess[h]
  /\ sess' = [sess EXCEPT ![h] = @ \ {s}]
  /\ \E t \in IF sess'[h] = {} THEN {NoIsid} ELSE sess'[h] :
       shown' = [shown EXCEPT ![h] = t]
  /\ UNCHANGED <<config, reservation, checking>>
  /\ Event

\* The ACL renders the session that was active last.
Activity(h, s) ==
  /\ s \in sess[h] /\ shown[h] # s
  /\ shown' = [shown EXCEPT ![h] = s]
  /\ UNCHANGED <<config, reservation, sess, checking>>
  /\ Event

\* When a registration goes, an ALL REGISTRANTS reservation passes to another
\* registrant; every other one is released.
HolderAfter(left) ==
  IF held \in left THEN {held}
  ELSE IF held # NoReg /\ rtype = "allreg" /\ left # {} THEN left ELSE {NoReg}

Without(h) == {r \in regs : r.host # h}

\* What one PR OUT through registration r can leave: the registrations, the
\* holder and the type.  The kernel finds r only with its very session.
RegisterOf(r) == {<<regs \cup {r}, held, rtype>>}
UnregisterOf(r) == {<<regs \ {r}, x, rtype>> : x \in HolderAfter(regs \ {r})}
ReserveOf(r) == {<<regs, r, t>> : t \in {u \in ResType : held = NoReg}}
ReleaseOf(r) == {<<regs, NoReg, t>> : t \in {u \in {rtype} : held = r \/ u = "allreg"}}
PreemptOf(r) == {<<Without(x.host) \cup {r}, r, rtype>> : x \in {held} \ {r, NoReg}}
PROutcomes(r) ==
  IF r \in regs THEN UnregisterOf(r) \cup ReserveOf(r) \cup ReleaseOf(r) \cup PreemptOf(r)
  ELSE RegisterOf(r)

\* A PR OUT is accepted over a session of an initiator that is mapped to the
\* volume; it rewrites the saved file from the live registrations.
PROut(h, s) ==
  /\ s \in sess[h] /\ lun["vol"][h] # 0
  /\ \E x \in PROutcomes([host |-> h, isid |-> s, lun |-> lun["vol"][h],
                          index |-> index["vol"]]) :
       /\ x # <<regs, held, rtype>>
       /\ regs' = x[1] /\ held' = x[2] /\ rtype' = x[3]
       /\ saved' = [regs |-> x[1], held |-> x[2], rtype |-> x[3]]
  /\ UNCHANGED <<config, dormant, sessions, checking>>
  /\ Event

(***************************************************************************)
(* The export a saved record was made through.                             *)
(***************************************************************************)

\* The export index that mapped LUN l of host h points at.
TPGLun(h, l) ==
  LET v == {w \in Volume : lun[w][h] = l}
  IN IF v = {} THEN NoIndex ELSE index[CHOOSE w \in v : TRUE]

\* Mutant of Exported: the number of the mapped LUN is enough.
ExportedByNumber(r) == TPGLun(r.host, r.lun) # NoIndex

\* aptplRecord.exported: the five fields the kernel binds by, and the
\* backstore behind the LUN is the one under verification.
Exported(r) == /\ TPGLun(r.host, r.lun) = r.index
               /\ index["vol"] = r.index

\* exportedMappings: mapped LUNs of everybody but the lapsed holder that reach
\* the volume.
SurvivorsRegistered(h) == {r.host : r \in {g \in saved.regs : g.host # h}}
Survivors(h) == Connected("vol") \ {h}

\* The kernel's own rule, when a mapped LUN of the volume appears.
KernelBinds(r) == lun["vol"][r.host] = r.lun /\ index["vol"] = r.index

\* The kernel binds the records in file f that the mapping now allows.
BindTo(f, live, h) ==
  LET bound == {r \in f.regs : KernelBinds(r)'}
  IN /\ regs' = live \cup bound
     /\ held' = IF h = NoReg /\ f.held \in bound THEN f.held ELSE h
     /\ rtype' = IF h = NoReg /\ f.held \in bound THEN f.rtype ELSE rtype
     /\ dormant' = [f EXCEPT !.regs = @ \ bound,
                             !.held = IF @ \in bound THEN NoReg ELSE @]

(***************************************************************************)
(* The operator.  Each mutation reconciles, and the reconcile ends with a  *)
(* check: VerifyAPTPL first, then StrandedReservations.                    *)
(***************************************************************************)

StartCheck(kind, first) ==
  /\ pc' = first
  /\ chk' = [NoCheck EXCEPT !.kind = kind]

Reconciled ==
  /\ StartCheck("reconcile", "saved")
  /\ UNCHANGED pub
  /\ events < MaxEvents /\ events' = events + 1
  /\ truth' = [truth EXCEPT !.moved = FALSE, !.pubMoved = TRUE]

\* Mutant of FreeIndex: the index after the highest one in use.
NextIndex(v) ==
  IF index[v] # NoIndex THEN index[v]
  ELSE CHOOSE n \in Index : /\ \A w \in Volume : index[w] # NoIndex => index[w] < n
                            /\ n = 0 \/ \E w \in Volume : index[w] = n - 1

\* exportIndex: the lowest index that no other export uses.
FreeIndex(v) ==
  IF index[v] # NoIndex THEN index[v]
  ELSE CHOOSE n \in Index : /\ \A w \in Volume : index[w] # n
                            /\ \A m \in 0..(n - 1) : \E w \in Volume : index[w] = m

\* The first connection of a volume creates its backstore, and the creation
\* replays the saved file; a later one can bind what that replay left dormant.
Connect(v, h, l) ==
  /\ pc = "idle"
  /\ lun[v][h] = 0 /\ \A w \in Volume : lun[w][h] # l
  /\ lun' = [lun EXCEPT ![v][h] = l]
  /\ index' = [index EXCEPT ![v] = FreeIndex(v)]
  /\ IF v = "vol"
       THEN BindTo(IF Connected("vol") = {} THEN saved ELSE dormant, regs, held)
       ELSE UNCHANGED <<regs, held, rtype, dormant>>
  /\ UNCHANGED <<saved, sessions>>
  /\ Reconciled

\* Removing a mapped LUN frees the registrations made through it.  The last
\* disconnect prunes the backstore with everything in it, and the export index
\* with it; the saved file stays as it was.
Disconnect(v, h) ==
  /\ pc = "idle"
  /\ lun[v][h] # 0
  /\ lun' = [lun EXCEPT ![v][h] = 0]
  /\ index' = [index EXCEPT ![v] = IF Connected(v) = {h} THEN NoIndex ELSE @]
  /\ IF v = "vol"
       THEN /\ regs' = Without(h)
            /\ held' \in HolderAfter(Without(h))
            /\ dormant' = IF Connected(v) = {h} THEN NoFile ELSE dormant
       ELSE UNCHANGED <<regs, held, dormant>>
  /\ UNCHANGED <<rtype, saved, sessions>>
  /\ Reconciled

\* A reboot: configfs is gone and is built again from the db, replaying the
\* saved file; the initiators are logged out.
Reboot ==
  /\ Connected("vol") # {}
  /\ UNCHANGED config
  /\ BindTo(saved, {}, NoReg)
  /\ UNCHANGED saved
  /\ sess' = [h \in Host |-> {}] /\ shown' = [h \in Host |-> NoIsid]
  /\ StartCheck("reconcile", "saved")
  /\ pub' = NoReport
  /\ events < MaxEvents /\ events' = events + 1
  /\ truth' = [truth EXCEPT !.moved = FALSE, !.pubMoved = TRUE, !.pubFailed = FALSE]

\* RecheckPR, every minute: the strand check first.
RecheckPR ==
  /\ pc = "idle"
  /\ StartCheck("recheck", "visible")
  /\ truth' = [truth EXCEPT !.moved = FALSE]
  /\ UNCHANGED <<config, reservation, sessions, pub, events>>

(***************************************************************************)
(* The reads of a check, one action each.  Every one may fail.             *)
(***************************************************************************)

\* A read that goes on at step p and leaves c behind.
Read(p, c) ==
  /\ pc' = p /\ chk' = c
  /\ UNCHANGED <<config, reservation, sessions, pub, events, truth>>

FailedRead(p, c) ==
  /\ events < MaxEvents /\ events' = events + 1
  /\ pc' = p /\ chk' = [c EXCEPT !.failed = TRUE]
  /\ UNCHANGED <<config, reservation, sessions, pub, truth>>

AfterStrand == IF chk.kind = "recheck" THEN "saved" ELSE "publish"
AfterAPTPL == IF chk.kind = "recheck" THEN "publish" ELSE "visible"

Visible == {h \in Host : sess[h] # {}}

\* blindTargets, first half: the ACLs that render a session.  One that cannot be
\* read is not counted.
ReadVisible ==
  /\ pc = "visible"
  /\ \/ Read("live", [chk EXCEPT !.visible = Cardinality(Visible)])
     \/ \E n \in 0..Cardinality(Visible) : FailedRead("live", [chk EXCEPT !.visible = n])

\* The kernel's live session count of the whole target.
LiveSessions == Cardinality({p \in Host \X Isid : p[2] \in sess[p[1]]})

\* Mutant of Blind: the session count is not compared.
NeverBlind(visible) == FALSE

Blind(visible) == LiveSessions > visible

\* blindTargets, second half; a count that cannot be read makes it blind.
ReadLive ==
  /\ pc = "live"
  /\ \/ Read("res_holder", [chk EXCEPT !.blind = Blind(chk.visible)])
     \/ FailedRead("res_holder", [chk EXCEPT !.blind = TRUE])

\* ReservationHolder, res_holder: the holder and the session it demands.
ReadHolder ==
  /\ pc = "res_holder"
  /\ \/ held # NoReg /\ Read("res_type", [chk EXCEPT !.holder = held])
     \/ held = NoReg /\ Read(AfterStrand, chk)
     \/ FailedRead(AfterStrand, chk)

\* Reservation.AllRegistrants: no one session is needed to release it.
AllRegistrants == held # NoReg /\ rtype = "allreg"

\* ReservationHolder, res_pr_type, best effort: a type that cannot be read is
\* not ALL REGISTRANTS, and the check goes on.
ReadType ==
  /\ pc = "res_type"
  /\ \/ AllRegistrants /\ Read(AfterStrand, chk)
     \/ ~AllRegistrants /\ Read("info", chk)
     \/ FailedRead("info", [chk EXCEPT !.sure = FALSE])

\* liveISIDs: the one session the holder's ACL renders.
ReadInfo ==
  /\ pc = "info"
  /\ \/ /\ shown[chk.holder.host] \in {NoIsid, chk.holder.isid}
        /\ Read(AfterStrand, chk)
     \/ /\ shown[chk.holder.host] \notin {NoIsid, chk.holder.isid}
        /\ Read("blind", chk)
     \/ FailedRead(AfterStrand, chk)  \* an info that does not parse is no session

\* The check with a verdict on the reservation.
Says(v) == [chk EXCEPT !.report.strand = v]

\* blindTargetFor: on a blind target the mismatch proves nothing, provided the
\* holder still has a session there; a session that cannot be read is none.
ReadBlindFor ==
  /\ pc = "blind"
  /\ \/ /\ ~chk.blind \/ shown[chk.holder.host] = NoIsid
        /\ Read(AfterStrand, Says(IF chk.sure THEN "stranded" ELSE "guessed"))
     \/ /\ chk.blind /\ shown[chk.holder.host] # NoIsid
        /\ Read(AfterStrand, Says("undecided"))
     \/ chk.blind /\ FailedRead(AfterStrand, Says("guessed"))

\* The check with one more entry in its report, and the one that could not read.
Alarmed(a) == [chk EXCEPT !.report.alarms = @ \cup a]
Unread == Alarmed({"unreadable"})

\* The saved records that are still exported, and the holder among the rest.
Want == {r \in saved.regs : Exported(r)}
WantHolder == IF saved.held \in Want THEN saved.held ELSE NoReg
Lapsed == IF saved.held \in Want THEN NoReg ELSE saved.held

\* The saved file is read and sorted into what is expected to be live.
ReadSaved ==
  /\ pc = "saved"
  /\ \/ Read(IF Want = {} /\ Lapsed = NoReg THEN AfterAPTPL ELSE "registered",
             [chk EXCEPT !.want = Want, !.wantHolder = WantHolder, !.lapsed = Lapsed])
     \/ FailedRead(AfterAPTPL, Unread)

AfterRegs ==
  IF chk.wantHolder # NoReg THEN "want_holder"
  ELSE IF chk.lapsed # NoReg THEN "lapsed_holder" ELSE AfterAPTPL

\* A saved registration is live: matched by initiator and key, not by session.
Bound(r) == \E g \in regs : g.host = r.host

\* res_pr_registered_i_pts against the records still exported.
ReadRegistrations ==
  /\ pc = "registered"
  /\ \/ Read(AfterRegs, IF \A r \in chk.want : Bound(r)
                        THEN chk ELSE Alarmed({"registration"}))
     \/ FailedRead(AfterAPTPL, Unread)

\* A saved holder that is still exported must be the live holder.
HolderAlarm(want) == IF held.host # want.host THEN {"holder"} ELSE {}

ReadWantHolder ==
  /\ pc = "want_holder"
  /\ \/ Read(AfterAPTPL, Alarmed(HolderAlarm(chk.wantHolder)))
     \/ FailedRead(AfterAPTPL, Unread)

\* Mutant of LapsedAlarm: survivors are taken from the saved records.
LapsedAmongSaved(gone) ==
  IF held = NoReg /\ SurvivorsRegistered(gone.host) # {} THEN {"lapsed"} ELSE {}

\* reportLapsedHolder: nobody holds the reservation and somebody is left.
LapsedAlarm(gone) ==
  IF held = NoReg /\ Survivors(gone.host) # {} THEN {"lapsed"} ELSE {}

ReadLapsedHolder ==
  /\ pc = "lapsed_holder"
  /\ \/ Read(AfterAPTPL, Alarmed(LapsedAlarm(chk.lapsed)))
     \/ Survivors(chk.lapsed.host) # {} /\ FailedRead(AfterAPTPL, Unread)

\* publishPRCheck, or the fencing half of publishReconcile.
Publish ==
  /\ pc = "publish"
  /\ pub' = chk.report
  /\ pc' = "idle" /\ chk' = NoCheck
  /\ truth' = [moved |-> FALSE, pubMoved |-> truth.moved, pubFailed |-> chk.failed]
  /\ UNCHANGED <<config, reservation, sessions, events>>

Initiators ==
  \E h \in Host, s \in Isid :
    \/ Login(h, s) \/ Logout(h, s) \/ Activity(h, s) \/ PROut(h, s)

Operator ==
  \/ \E v \in Volume, h \in Host :
       Disconnect(v, h) \/ \E l \in Lun : Connect(v, h, l)
  \/ Reboot

CheckStep ==
  \/ ReadVisible \/ ReadLive \/ ReadHolder \/ ReadType \/ ReadInfo \/ ReadBlindFor
  \/ ReadSaved \/ ReadRegistrations \/ ReadWantHolder \/ ReadLapsedHolder
  \/ Publish

Next == Initiators \/ Operator \/ RecheckPR \/ CheckStep

Spec == Init /\ [][Next]_vars

(***************************************************************************)
(* Properties.                                                             *)
(***************************************************************************)

\* The published check is still the last word: nobody has acted since it began.
Current == pc = "idle" /\ ~truth.pubMoved

\* StrandedReservations against the sessions the kernel really holds, most of
\* which it does not render: what is reported as stranded is stranded, and a
\* stranded reservation is reported, or said to be undecided.  A report made
\* although the type, or the holder's session on a blind target, could not be
\* read says no more than that the holder shows another session: it may be of
\* an ALL REGISTRANTS reservation, which the comments say is never reported.
StrandExact ==
  Current => /\ pub.strand = "stranded" => Stranded
             /\ pub.strand = "guessed" => Mismatched
             /\ Stranded /\ ~truth.pubFailed => pub.strand # "none"

\* What the saved file promises and the kernel does not have: a registration
\* the kernel would bind, or a reservation nobody holds while another host can
\* reach the volume.
Unbound == \E r \in saved.regs : KernelBinds(r) /\ ~\E g \in regs : g.host = r.host
FenceGone == saved.held # NoReg /\ held = NoReg

\* verifyAPTPL, the fail-open direction: it is reported, also when one of the
\* reads failed, and whether or not that other host ever registered.
LossReported ==
  Current /\ (Unbound \/ (FenceGone /\ Connected("vol") \ {saved.held.host} # {}))
    => pub.alarms # {}

\* verifyAPTPL, the direction of the alarm nobody can clear: a report without
\* a failed read has a cause in the exports that exist now.  A routine
\* disconnect, and a LUN number used again by another volume, are not causes.
AlarmHasCause ==
  Current /\ pub.alarms # {} /\ ~truth.pubFailed => Unbound \/ FenceGone
==============================================================================
