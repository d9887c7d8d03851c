---------------------------- MODULE FencingProofs ----------------------------
(***************************************************************************)
(* The safety properties of module Fencing, for every set of initiators,   *)
(* session identifiers and LUNs.                                           *)
(*                                                                         *)
(* The invariant has two halves.  RecordInv relates the three places a     *)
(* registration can be in (live, dormant, in the saved file) to each other *)
(* and to the exports; it is what makes a difference between the file and  *)
(* the kernel mean a loss.  CheckInv says what a check in flight knows, as *)
(* long as nobody has acted since it began.                                *)
(***************************************************************************)
EXTENDS Fencing, FiniteSetTheorems, TLAPS

(***************************************************************************)
(* The invariant.                                                          *)
(***************************************************************************)

\* An ACL renders one of its initiator's sessions, if there is one.
SessionInv == \A h \in Host : IF sess[h] = {} THEN shown[h] = NoIsid ELSE shown[h] \in sess[h]

\* A mapped LUN leads to one volume, an export index to one backstore.
MapInv ==
  /\ \A h \in Host : lun["vol"][h] # 0 => lun["vol"][h] # lun["other"][h]
  /\ index["vol"] # NoIndex => index["vol"] # index["other"]

\* The same initiator through the same export, over whichever session.
SameNexus(r, s) == r.host = s.host /\ r.lun = s.lun /\ r.index = s.index

\* A file names its holder among its registrations, all made through an export.
FileOK(f) == f.held \in f.regs \cup {NoReg} /\ \A r \in f.regs : r.index # NoIndex

\* Live registrations are mapped, dormant ones are not.  While the nexus of
\* the saved holder is dormant the reservation waits there with it; once it is
\* live, that host has the reservation.
RecordInv ==
  /\ FileOK(saved) /\ FileOK(dormant)
  /\ \A g \in regs : KernelBinds(g)
  /\ \A d \in dormant.regs : ~KernelBinds(d)
  /\ saved.held # NoReg /\ (\E d \in dormant.regs : SameNexus(d, saved.held)) =>
       held = NoReg /\ dormant.held = saved.held
  /\ saved.held # NoReg /\ (\E g \in regs : SameNexus(g, saved.held)) =>
       held # NoReg /\ held.host = saved.held.host

DataInv == SessionInv /\ MapInv /\ RecordInv

StrandReads == {"visible", "live", "res_holder", "res_type", "info", "blind"}
FileReads == {"saved", "registered", "want_holder", "lapsed_holder"}
StrandDone == pc = "publish" \/ (pc \in FileReads /\ chk.kind = "recheck")
FileDone == pc = "publish" \/ (pc \in StrandReads /\ chk.kind = "reconcile")

\* No initiator has a session that its ACL does not render.
AllRendered == \A h \in Host : \A s, t \in sess[h] : s = t

\* What a verdict on the sessions, and one on the saved file, must be.
StrandRight(v, failed) == /\ v = "stranded" => Stranded
                          /\ v = "guessed" => Mismatched
                          /\ Stranded /\ ~failed => v # "none"
Loss == Unbound \/ (FenceGone /\ Connected("vol") \ {saved.held.host} # {})
CauseRight(alarms, failed) == alarms # {} /\ ~failed => Unbound \/ FenceGone

StrandInv ==
  /\ IF StrandDone THEN StrandRight(chk.report.strand, chk.failed)
                   ELSE chk.report.strand = "none"
  /\ pc = "live" => chk.visible <= Cardinality(Visible)
  /\ pc \in {"res_holder", "res_type", "info", "blind"} /\ ~chk.blind => AllRendered
  /\ pc \in {"res_type", "info", "blind"} => chk.holder = held /\ held # NoReg
  /\ pc \in {"info", "blind"} /\ chk.sure => rtype = "regonly"
  /\ pc = "blind" => Mismatched

AlarmInv ==
  /\ CauseRight(chk.report.alarms, chk.failed)
  /\ FileDone /\ Loss => chk.report.alarms # {}
  /\ pc \in {"registered", "want_holder", "lapsed_holder"} =>
       chk.want = Want /\ chk.wantHolder = WantHolder /\ chk.lapsed = Lapsed
  /\ pc \in {"want_holder", "lapsed_holder"} /\ Unbound => chk.report.alarms # {}
  /\ pc = "want_holder" => chk.wantHolder # NoReg
  /\ pc = "lapsed_holder" => chk.lapsed # NoReg

CheckInv ==
  /\ pc # "idle" => chk.kind \in {"recheck", "reconcile"}
  /\ pc # "idle" /\ ~truth.moved => StrandInv /\ AlarmInv

PubInv ==
  Current => /\ StrandRight(pub.strand, truth.pubFailed)
             /\ CauseRight(pub.alarms, truth.pubFailed)
             /\ Loss => pub.alarms # {}

Inv == TypeOK /\ DataInv /\ CheckInv /\ PubInv

(***************************************************************************)
(* The operators.                                                          *)
(***************************************************************************)

LEMMA TwoVolumes == NoIndex = 2 /\ Index = 0..2
<1>1. IsFiniteSet({"vol"}) /\ Cardinality({"vol"}) = 1
  BY FS_Singleton
<1>2. Cardinality({"vol"} \cup {"other"}) = 2
  BY <1>1, FS_AddElement
<1>3. Volume = {"vol"} \cup {"other"}
  BY DEF Volume
<1> QED
  BY <1>2, <1>3 DEF NoIndex, Index

LEMMA NothingTyped ==
  /\ NoReg \notin Reg /\ NoReg \in Hold /\ NoReg.host = NoHost
  /\ FirstType \in ResType
  /\ NoFile \in SavedFile /\ NoFile.regs = {} /\ NoFile.held = NoReg
  /\ NoReport \in Report /\ NoReport.alarms = {} /\ NoReport.strand = "none"
<1>1. NoReg \notin Reg /\ NoReg \in Hold /\ NoReg.host = NoHost
  BY FencingAssumption DEF NoReg, Reg, Hold
<1>2. FirstType \in ResType
  BY FencingAssumption DEF FirstType
<1> QED
  BY <1>1, <1>2 DEF NoFile, SavedFile, NoReport, Report, Verdict

LEMMA NoCheckTyped ==
  /\ NoCheck \in Check
  /\ \A kind \in {"none", "recheck", "reconcile"} :
       LET c == [NoCheck EXCEPT !.kind = kind] IN
       c \in Check /\ c.kind = kind /\ c.report = NoReport
<1>1. 0 \in 0..Cardinality(Host)
  BY FencingAssumption, FS_CardinalityType
<1> QED
  BY <1>1, NothingTyped DEF NoCheck, Check

\* What exported decides from five fields, the kernel decides from the mapping:
\* a LUN number, or an index, that serves another volume now does not count.
LEMMA ExportedIsBound ==
  ASSUME TypeOK, DataInv
  PROVE  \A r \in saved.regs : Exported(r) <=> KernelBinds(r)
<1> SUFFICES ASSUME NEW r \in saved.regs PROVE Exported(r) <=> KernelBinds(r)
  OBVIOUS
<1>1. /\ r.host \in Host /\ r.lun \in Lun /\ r.lun # 0 /\ r.index # NoIndex
  BY FencingAssumption DEF TypeOK, SavedFile, Reg, DataInv, RecordInv, FileOK
<1> DEFINE V == {w \in Volume : lun[w][r.host] = r.lun}
<1>2. CASE lun["vol"][r.host] = r.lun
  <2>1. V = {"vol"}
    BY <1>1, <1>2 DEF Volume, DataInv, MapInv
  <2>2. TPGLun(r.host, r.lun) = index["vol"]
    BY <2>1 DEF TPGLun
  <2> QED
    BY <1>2, <2>2 DEF Exported, KernelBinds
<1>3. CASE lun["vol"][r.host] # r.lun
  <2>1. V = {} \/ V = {"other"}
    BY <1>3 DEF Volume
  <2>2. TPGLun(r.host, r.lun) = NoIndex \/ TPGLun(r.host, r.lun) = index["other"]
    BY <2>1 DEF TPGLun
  <2> QED
    BY <1>1, <1>3, <2>2 DEF Exported, KernelBinds, DataInv, MapInv
<1> QED
  BY <1>2, <1>3

\* exportIndex finds an index, and one that the other volume does not have.
LEMMA FreeIndexFree ==
  ASSUME TypeOK, NEW v \in Volume
  PROVE  /\ FreeIndex(v) \in Index \ {NoIndex}
         /\ index[v] # NoIndex => FreeIndex(v) = index[v]
         /\ index[v] = NoIndex => \A w \in Volume : index[w] # FreeIndex(v)
<1>1. CASE index[v] # NoIndex
  BY <1>1 DEF FreeIndex, TypeOK
<1>2. CASE index[v] = NoIndex
  <2> DEFINE Free(n) == /\ \A w \in Volume : index[w] # n
                        /\ \A m \in 0..(n - 1) : \E w \in Volume : index[w] = m
  <2>1. PICK w \in Volume : \A u \in Volume : u = v \/ u = w
    BY DEF Volume
  <2>2. index[w] \in 0..2 /\ index[v] = 2
    BY <1>2, <2>1, TwoVolumes DEF TypeOK
  <2>3. \E n \in Index : Free(n)
    <3>1. CASE index[w] = 0
      <4>1. Free(1)
        BY <2>1, <2>2, <3>1
      <4> QED
        BY <4>1, TwoVolumes
    <3>2. CASE index[w] # 0
      <4>1. Free(0)
        BY <2>1, <2>2, <3>2
      <4> QED
        BY <4>1, TwoVolumes
    <3> QED
      BY <3>1, <3>2
  <2> HIDE DEF Free
  <2>4. FreeIndex(v) = CHOOSE n \in Index : Free(n)
    BY <1>2 DEF FreeIndex, Free
  <2>5. FreeIndex(v) \in Index /\ Free(FreeIndex(v))
    BY <2>3, <2>4
  <2> QED
    BY <1>2, <2>5 DEF Free
<1> QED
  BY <1>1, <1>2

\* A target with no more sessions than ACLs that render one hides none.
LEMMA NotBlind ==
  ASSUME TypeOK, NEW n \in Nat, n <= Cardinality(Visible), ~Blind(n)
  PROVE  AllRendered
<1> DEFINE S == {p \in Host \X Isid : p[2] \in sess[p[1]]}
           f == [p \in S |-> p[1]]
<1>1. IsFiniteSet(S) /\ Cardinality(S) \in Nat /\ Cardinality(Visible) \in Nat
  <2>1. IsFiniteSet(Host \X Isid)
    BY FencingAssumption, FS_Product
  <2>2. S \in SUBSET (Host \X Isid) /\ Visible \in SUBSET Host
    BY DEF Visible
  <2> QED
    BY <2>1, <2>2, FencingAssumption, FS_Subset, FS_CardinalityType
<1>2. \A h \in Host : \A s \in sess[h] : <<h, s>> \in S /\ f[<<h, s>>] = h
  BY DEF TypeOK
<1>3. f \in [S -> Visible]
  BY DEF Visible
<1>4. f \in Surjection(S, Visible)
  <2>1. ASSUME NEW h \in Visible PROVE \E p \in S : f[p] = h
    <3>1. PICK s \in sess[h] : h \in Host
      BY DEF Visible
    <3>2. <<h, s>> \in S /\ f[<<h, s>>] = h
      BY <1>2, <3>1
    <3> HIDE DEF S, f
    <3> QED
      BY <3>2
  <2> QED
    BY <1>3, <2>1 DEF Surjection
<1>5. Cardinality(S) = LiveSessions
  BY DEF LiveSessions
<1> HIDE DEF S, f
<1>6. Cardinality(Visible) = Cardinality(S) /\ f \in Injection(S, Visible)
  BY <1>1, <1>4, <1>5, FS_Surjection DEF Blind
<1>7. \A p, q \in S : f[p] = f[q] => p = q
  BY <1>3, <1>6 DEF Injection, IsInjective
<1>8. ASSUME NEW h \in Host, NEW s \in sess[h], NEW t \in sess[h] PROVE s = t
  <2>1. /\ <<h, s>> \in S /\ <<h, t>> \in S
        /\ f[<<h, s>>] = f[<<h, t>>]
    BY <1>2
  <2>2. <<h, s>> = <<h, t>>
    BY <1>7, <2>1
  <2> QED
    BY <2>2
<1> QED
  BY <1>8 DEF AllRendered

(***************************************************************************)
(* The records.                                                            *)
(***************************************************************************)

LEMMA SameMaps ==
  ASSUME UNCHANGED config
  PROVE  /\ \A r : KernelBinds(r)' <=> KernelBinds(r)
         /\ \A v : Connected(v)' = Connected(v)
BY DEF config, KernelBinds, Connected

\* A registration that the kernel binds was made through an export.
LEMMA BoundIsMapped ==
  /\ TypeOK => \A r \in Reg : KernelBinds(r) =>
                 r.host \in Connected("vol") /\ r.index # NoIndex
  /\ TypeOK' => \A r \in Reg : KernelBinds(r)' =>
                 r.host \in Connected("vol")' /\ r.index # NoIndex
BY FencingAssumption DEF KernelBinds, TypeOK, Connected, Reg, Volume

LEMMA HolderAfterIs ==
  ASSUME TypeOK, NEW left \in SUBSET regs, NEW x \in HolderAfter(left)
  PROVE  /\ x \in left \cup {NoReg}
         /\ held = NoReg => x = NoReg
         /\ held \in left => x = held
BY NothingTyped DEF HolderAfter, TypeOK

\* A PR OUT leaves registrations of mapped initiators and a holder among them.
LEMMA PROutcome ==
  ASSUME TypeOK, RecordInv, NEW r \in Reg, KernelBinds(r), NEW x \in PROutcomes(r)
  PROVE  /\ x[1] \subseteq Reg /\ x[2] \in x[1] \cup {NoReg} /\ x[3] \in ResType
         /\ \A g \in x[1] : KernelBinds(g)
<1>1. regs \subseteq Reg /\ held \in regs \cup {NoReg} /\ rtype \in ResType
  BY DEF TypeOK
<1>2. \A g \in regs : KernelBinds(g)
  BY DEF RecordInv
<1>3. CASE x \in RegisterOf(r)
  BY <1>1, <1>2, <1>3 DEF RegisterOf
<1>4. CASE x \in UnregisterOf(r)
  <2>1. PICK y \in HolderAfter(regs \ {r}) : x = <<regs \ {r}, y, rtype>>
    BY <1>4 DEF UnregisterOf
  <2>2. y \in (regs \ {r}) \cup {NoReg}
    BY HolderAfterIs
  <2> QED
    BY <1>1, <1>2, <2>1, <2>2
<1>5. CASE r \in regs /\ x \in ReserveOf(r)
  BY <1>1, <1>2, <1>5 DEF ReserveOf
<1>6. CASE x \in ReleaseOf(r)
  BY <1>1, <1>2, <1>6 DEF ReleaseOf
<1>7. CASE x \in PreemptOf(r)
  <2>1. PICK y : x = <<Without(y.host) \cup {r}, r, rtype>>
    BY <1>7 DEF PreemptOf
  <2>2. Without(y.host) \subseteq regs
    BY DEF Without
  <2> QED
    BY <1>1, <1>2, <2>1, <2>2
<1> QED
  BY <1>3, <1>4, <1>5, <1>6, <1>7 DEF PROutcomes

\* Binding the records of a file: the file the backstore was made from, or
\* what an earlier binding left.
LEMMA BindStep ==
  ASSUME TypeOK, RecordInv, UNCHANGED saved,
         NEW f \in SavedFile, FileOK(f),
         NEW live \in SUBSET Reg, \A g \in live : KernelBinds(g)',
         NEW h \in live \cup {NoReg},
         BindTo(f, live, h),
         saved.held # NoReg /\ (\E d \in f.regs : SameNexus(d, saved.held)) =>
           h = NoReg /\ f.held = saved.held,
         saved.held # NoReg /\ (\E g \in live : SameNexus(g, saved.held)) =>
           h # NoReg /\ h.host = saved.held.host
  PROVE  /\ regs' \subseteq Reg /\ held' \in regs' \cup {NoReg} /\ rtype' \in ResType
         /\ dormant' \in SavedFile /\ RecordInv'
<1> DEFINE bound == {r \in f.regs : KernelBinds(r)'}
<1>1. /\ regs' = live \cup bound
      /\ held' = (IF h = NoReg /\ f.held \in bound THEN f.held ELSE h)
      /\ rtype' = (IF h = NoReg /\ f.held \in bound THEN f.rtype ELSE rtype)
      /\ dormant' = [f EXCEPT !.regs = f.regs \ bound,
                              !.held = IF f.held \in bound THEN NoReg ELSE f.held]
  BY DEF BindTo
<1>2. /\ dormant'.regs = f.regs \ bound
      /\ dormant'.held = (IF f.held \in bound THEN NoReg ELSE f.held)
      /\ dormant' \in SavedFile
  BY <1>1, NothingTyped DEF SavedFile
<1>3. /\ f.regs \subseteq Reg /\ f.rtype \in ResType /\ f.held \in f.regs \cup {NoReg}
      /\ bound \subseteq f.regs /\ \A r \in f.regs : r.index # NoIndex
      /\ \A r \in bound : KernelBinds(r)'
      /\ \A r \in f.regs \ bound : ~KernelBinds(r)'
  BY DEF SavedFile, FileOK
<1>4. ASSUME NEW r, NEW s, SameNexus(r, s) PROVE KernelBinds(r)' <=> KernelBinds(s)'
  BY <1>4 DEF SameNexus, KernelBinds
<1>5. rtype \in ResType
  BY DEF TypeOK
<1> HIDE DEF bound
<1>6. regs' \subseteq Reg /\ held' \in regs' \cup {NoReg} /\ rtype' \in ResType
  BY <1>1, <1>3, <1>5
<1>7. FileOK(saved)' /\ FileOK(dormant)'
  BY <1>2, <1>3 DEF RecordInv, FileOK
<1>8. (\A g \in regs' : KernelBinds(g)') /\ (\A d \in dormant'.regs : ~KernelBinds(d)')
  BY <1>1, <1>2, <1>3
<1>9. ASSUME saved.held # NoReg, NEW d \in dormant'.regs, SameNexus(d, saved.held)
      PROVE  held' = NoReg /\ dormant'.held = saved.held
  <2>1. h = NoReg /\ f.held = saved.held
    BY <1>2, <1>9
  <2>2. ~KernelBinds(saved.held)'
    BY <1>2, <1>3, <1>4, <1>9
  <2>3. f.held \notin bound
    BY <1>3, <2>1, <2>2
  <2> QED
    BY <1>1, <1>2, <2>1, <2>3
<1>10. ASSUME saved.held # NoReg, NEW g \in regs', SameNexus(g, saved.held)
       PROVE  held' # NoReg /\ held'.host = saved.held.host
  <2>1. CASE g \in live
    <3>1. h # NoReg /\ h.host = saved.held.host
      BY <1>10, <2>1
    <3> QED
      BY <1>1, <3>1
  <2>2. CASE g \in bound
    <3>1. h = NoReg /\ f.held = saved.held
      BY <1>3, <1>10, <2>2
    <3>2. KernelBinds(saved.held)'
      BY <1>3, <1>4, <1>10, <2>2
    <3>3. f.held \in bound
      BY <1>3, <1>10, <3>1, <3>2 DEF bound
    <3> QED
      BY <1>1, <1>10, <3>1, <3>3
  <2> QED
    BY <1>1, <2>1, <2>2
<1> QED
  BY <1>2, <1>6, <1>7, <1>8, <1>9, <1>10 DEF RecordInv, SameNexus

\* Nothing is live of a volume that nobody is mapped to.
LEMMA Unmapped ==
  ASSUME TypeOK, RecordInv, Connected("vol") = {}
  PROVE  regs = {} /\ held = NoReg
BY BoundIsMapped DEF RecordInv, TypeOK

(***************************************************************************)
(* Events: what a check has found says nothing any more.                   *)
(***************************************************************************)

LEMMA TruthMoves ==
  ASSUME TypeOK, Event
  PROVE  /\ events' \in 0..MaxEvents /\ truth' \in Truth
         /\ truth'.moved = (pc # "idle") /\ truth'.pubMoved = TRUE
<1> DEFINE b == pc # "idle"
<1>1. truth \in Truth /\ truth' = [truth EXCEPT !.moved = b, !.pubMoved = TRUE] /\ b \in BOOLEAN
  BY DEF TypeOK, Event
<1>2. events' \in 0..MaxEvents
  BY FencingAssumption DEF TypeOK, Event
<1> HIDE DEF b
<1>3. truth' \in Truth /\ truth'.moved = b /\ truth'.pubMoved = TRUE
  BY <1>1 DEF Truth
<1> QED
  BY <1>2, <1>3 DEF b

LEMMA EventStep ==
  ASSUME Inv, Event, UNCHANGED checking, TypeOK', DataInv'
  PROVE  Inv'
<1>1. /\ pc' = pc /\ chk' = chk /\ truth'.pubMoved = TRUE
      /\ truth'.moved = (pc # "idle")
  BY TruthMoves DEF Inv, checking
<1> QED
  BY <1>1 DEF Inv, CheckInv, PubInv, Current

LEMMA SessionStep ==
  ASSUME Inv, Event, UNCHANGED <<config, reservation, checking>>,
         sess' \in [Host -> SUBSET Isid], shown' \in [Host -> Isid \cup {NoIsid}],
         SessionInv'
  PROVE  Inv'
<1>1. /\ TypeOK /\ events' \in 0..MaxEvents /\ truth' \in Truth
  BY TruthMoves DEF Inv
<1>2. TypeOK'
  BY <1>1, SameMaps DEF TypeOK, config, reservation, checking
<1>3. DataInv'
  BY SameMaps DEF Inv, DataInv, MapInv, RecordInv, config, reservation
<1> QED
  BY <1>2, <1>3, EventStep

LEMMA LoginStep == ASSUME Inv, NEW h \in Host, NEW s \in Isid, Login(h, s) PROVE Inv'
<1>1. /\ sess \in [Host -> SUBSET Isid] /\ shown \in [Host -> Isid \cup {NoIsid}] /\ SessionInv
      /\ sess' = [sess EXCEPT ![h] = sess[h] \cup {s}] /\ shown' = [shown EXCEPT ![h] = s]
  BY DEF Login, Inv, TypeOK, DataInv
<1>2. SessionInv'
  BY <1>1 DEF SessionInv
<1>3. sess' \in [Host -> SUBSET Isid] /\ shown' \in [Host -> Isid \cup {NoIsid}]
  BY <1>1
<1> QED
  BY <1>2, <1>3, SessionStep DEF Login

LEMMA LogoutStep == ASSUME Inv, NEW h \in Host, NEW s \in Isid, Logout(h, s) PROVE Inv'
<1>1. /\ sess \in [Host -> SUBSET Isid] /\ shown \in [Host -> Isid \cup {NoIsid}] /\ SessionInv
      /\ sess' = [sess EXCEPT ![h] = sess[h] \ {s}]
  BY DEF Logout, Inv, TypeOK, DataInv
<1>2. sess' \in [Host -> SUBSET Isid] /\ sess'[h] = sess[h] \ {s}
  BY <1>1
<1>3. PICK t \in IF sess'[h] = {} THEN {NoIsid} ELSE sess'[h] : shown' = [shown EXCEPT ![h] = t]
  BY DEF Logout
<1>4. shown' \in [Host -> Isid \cup {NoIsid}]
  BY <1>1, <1>2, <1>3
<1>5. SessionInv'
  BY <1>1, <1>2, <1>3 DEF SessionInv
<1> QED
  BY <1>2, <1>4, <1>5, SessionStep DEF Logout

LEMMA ActivityStep == ASSUME Inv, NEW h \in Host, NEW s \in Isid, Activity(h, s) PROVE Inv'
<1>1. /\ sess \in [Host -> SUBSET Isid] /\ shown \in [Host -> Isid \cup {NoIsid}] /\ SessionInv
      /\ s \in sess[h] /\ sess' = sess /\ shown' = [shown EXCEPT ![h] = s]
  BY DEF Activity, Inv, TypeOK, DataInv
<1>2. SessionInv'
  BY <1>1 DEF SessionInv
<1>3. sess' \in [Host -> SUBSET Isid] /\ shown' \in [Host -> Isid \cup {NoIsid}]
  BY <1>1
<1> QED
  BY <1>2, <1>3, SessionStep DEF Activity

\* The saved file is the live state from here on, and says nothing of what is
\* dormant: a dormant record is of an export that is not there.
LEMMA PROutStep == ASSUME Inv, NEW h \in Host, NEW s \in Isid, PROut(h, s) PROVE Inv'
<1> DEFINE r == [host |-> h, isid |-> s, lun |-> lun["vol"][h], index |-> index["vol"]]
<1>1. /\ TypeOK /\ DataInv /\ SessionInv /\ MapInv /\ RecordInv
      /\ lun["vol"][h] # 0 /\ UNCHANGED <<config, dormant, sessions, checking>> /\ Event
  BY DEF Inv, DataInv, PROut
<1>2. r \in Reg /\ KernelBinds(r)
  BY <1>1 DEF Reg, TypeOK, Volume, KernelBinds
<1>3. PICK x \in PROutcomes(r) :
        /\ regs' = x[1] /\ held' = x[2] /\ rtype' = x[3]
        /\ saved' = [regs |-> x[1], held |-> x[2], rtype |-> x[3]]
  BY DEF PROut
<1> HIDE DEF r
<1>4. /\ regs' \subseteq Reg /\ held' \in regs' \cup {NoReg} /\ rtype' \in ResType
      /\ \A g \in regs' : KernelBinds(g)
      /\ saved' = [regs |-> regs', held |-> held', rtype |-> rtype']
  BY <1>1, <1>2, <1>3, PROutcome
<1>5. saved' \in SavedFile /\ saved'.held = held' /\ saved'.regs = regs'
  BY <1>4 DEF SavedFile, Hold
<1>6. events' \in 0..MaxEvents /\ truth' \in Truth
  BY <1>1, TruthMoves
<1>7. TypeOK'
  BY <1>1, <1>4, <1>5, <1>6, SameMaps DEF TypeOK, config, sessions, checking
<1>8. \A q : KernelBinds(q)' <=> KernelBinds(q)
  BY <1>1, SameMaps
<1>9. RecordInv'
  <2>1. FileOK(saved)'
    BY <1>1, <1>4, <1>5, BoundIsMapped DEF FileOK
  <2>2. FileOK(dormant)' /\ (\A d \in dormant'.regs : ~KernelBinds(d)')
    BY <1>1, <1>8 DEF RecordInv, FileOK
  <2>3. ASSUME NEW d \in dormant'.regs, saved'.held # NoReg PROVE ~SameNexus(d, saved'.held)
    BY <1>4, <1>5, <1>8, <2>2, <2>3 DEF SameNexus, KernelBinds
  <2> QED
    BY <1>4, <1>5, <1>8, <2>1, <2>2, <2>3 DEF RecordInv, SameNexus
<1>10. DataInv'
  BY <1>1, <1>9 DEF DataInv, SessionInv, MapInv, config, sessions
<1> QED
  BY <1>1, <1>7, <1>10, EventStep

(***************************************************************************)
(* Steps that start a check.                                               *)
(***************************************************************************)

LEMMA StartStep ==
  ASSUME TypeOK', DataInv', NEW kind, NEW first, StartCheck(kind, first),
         <<kind, first>> \in {<<"reconcile", "saved">>, <<"recheck", "visible">>}
  PROVE  Inv'
<1>1. /\ pc' = first /\ chk'.kind = kind /\ chk'.report = NoReport
      /\ \/ kind = "reconcile" /\ first = "saved"
         \/ kind = "recheck" /\ first = "visible"
  BY NoCheckTyped DEF StartCheck
<1>2. StrandInv' /\ AlarmInv'
  BY <1>1, NothingTyped
  DEF StrandInv, AlarmInv, StrandDone, FileDone, FileReads, StrandReads, CauseRight
<1>3. CheckInv' /\ PubInv'
  BY <1>1, <1>2 DEF CheckInv, PubInv, Current
<1> QED
  BY <1>3 DEF Inv

LEMMA ReconciledTyped ==
  ASSUME TypeOK, Reconciled
  PROVE  /\ pc' \in PC /\ chk' \in Check /\ pub' \in Report
         /\ events' \in 0..MaxEvents /\ truth' \in Truth
<1>1. pc' \in PC /\ chk' \in Check /\ pub' \in Report
  BY NoCheckTyped DEF Reconciled, StartCheck, TypeOK, PC, Reads
<1>2. events' \in 0..MaxEvents
  BY FencingAssumption DEF Reconciled, TypeOK
<1>3. truth' \in Truth
  BY DEF Reconciled, TypeOK, Truth
<1> QED
  BY <1>1, <1>2, <1>3

\* The kernel side of a step that leaves the mapped LUNs of the volume alone.
LEMMA OtherVolume ==
  ASSUME TypeOK, DataInv, lun'["vol"] = lun["vol"], index'["vol"] = index["vol"],
         UNCHANGED reservation
  PROVE  RecordInv'
<1>1. \A r : KernelBinds(r)' <=> KernelBinds(r)
  BY DEF KernelBinds
<1> QED
  BY <1>1 DEF DataInv, RecordInv, reservation

LEMMA ConnectStep ==
  ASSUME Inv, NEW v \in Volume, NEW h \in Host, NEW l \in Lun, Connect(v, h, l)
  PROVE  Inv'
<1>1. /\ TypeOK /\ DataInv /\ SessionInv /\ MapInv /\ RecordInv
      /\ lun[v][h] = 0 /\ (\A w \in Volume : lun[w][h] # l)
      /\ UNCHANGED <<saved, sessions>> /\ Reconciled /\ l # 0
  BY FencingAssumption DEF Inv, DataInv, Connect
<1>2. /\ lun \in [Volume -> [Host -> Lun \cup {0}]] /\ index \in [Volume -> Index]
      /\ lun' = [lun EXCEPT ![v][h] = l]
      /\ index' = [index EXCEPT ![v] = FreeIndex(v)]
  BY <1>1 DEF TypeOK, Connect
<1>3. /\ lun' \in [Volume -> [Host -> Lun \cup {0}]]
      /\ \A w \in Volume, g \in Host :
           lun'[w][g] = IF w = v /\ g = h THEN l ELSE lun[w][g]
      /\ \A w \in Volume : w # v => lun'[w] = lun[w]
  BY <1>2
<1>4. FreeIndex(v) \in Index \ {NoIndex}
  BY <1>1, FreeIndexFree
<1>5. /\ index' \in [Volume -> Index]
      /\ \A w \in Volume : index'[w] = IF w = v THEN FreeIndex(v) ELSE index[w]
  BY <1>2, <1>4
<1>6. /\ Connected(v)' = Connected(v) \cup {h}
      /\ \A w \in Volume : w # v => Connected(w)' = Connected(w)
  BY <1>1, <1>3 DEF Connected
<1>7. \A w \in Volume : index'[w] = NoIndex <=> Connected(w)' = {}
  BY <1>1, <1>4, <1>5, <1>6 DEF TypeOK
<1>8. MapInv'
  <2>1. ASSUME NEW g \in Host, lun'["vol"][g] # 0 PROVE lun'["vol"][g] # lun'["other"][g]
    BY <1>1, <1>3, <2>1 DEF Volume, MapInv
  <2>2. index'["vol"] # NoIndex => index'["vol"] # index'["other"]
    BY <1>1, <1>5, FreeIndexFree DEF Volume, MapInv, TypeOK
  <2> QED
    BY <2>1, <2>2 DEF MapInv
<1>9. /\ regs' \subseteq Reg /\ held' \in regs' \cup {NoReg} /\ rtype' \in ResType
      /\ dormant' \in SavedFile /\ RecordInv'
  <2>1. CASE v = "other"
    <3>1. UNCHANGED reservation /\ lun'["vol"] = lun["vol"] /\ index'["vol"] = index["vol"]
      BY <1>1, <1>3, <1>5, <2>1 DEF Connect, reservation, Volume
    <3> QED
      BY <1>1, <3>1, OtherVolume DEF TypeOK, reservation
  <2>2. CASE v = "vol" /\ Connected("vol") = {}
    <3>1. regs = {} /\ held = NoReg
      BY <1>1, <2>2, Unmapped
    <3>2. BindTo(saved, regs, held)
      BY <2>2 DEF Connect
    <3>3. saved \in SavedFile /\ FileOK(saved)
      BY <1>1 DEF TypeOK, RecordInv
    <3> QED
      BY <1>1, <3>1, <3>2, <3>3, BindStep
  <2>3. CASE v = "vol" /\ Connected("vol") # {}
    <3>1. BindTo(dormant, regs, held)
      BY <2>3 DEF Connect
    <3>2. dormant \in SavedFile /\ FileOK(dormant) /\ regs \subseteq Reg /\ held \in regs \cup {NoReg}
      BY <1>1 DEF TypeOK, RecordInv
    <3>3. FreeIndex("vol") = index["vol"]
      BY <1>1, <2>3, FreeIndexFree DEF TypeOK
    <3>4. ASSUME NEW g \in regs PROVE KernelBinds(g)'
      <4>1. g \in Reg /\ KernelBinds(g)
        BY <1>1, <3>2 DEF RecordInv
      <4>2. lun["vol"][g.host] # 0 /\ g.host \in Host
        BY <4>1, FencingAssumption DEF KernelBinds, Reg
      <4>3. lun'["vol"][g.host] = lun["vol"][g.host] /\ index'["vol"] = index["vol"]
        BY <1>1, <1>3, <1>5, <2>3, <3>3, <4>2
      <4> QED
        BY <4>1, <4>3 DEF KernelBinds
    <3> QED
      BY <1>1, <3>1, <3>2, <3>4, BindStep DEF RecordInv
  <2> QED
    BY <2>1, <2>2, <2>3 DEF Volume
<1>10. DataInv'
  BY <1>1, <1>8, <1>9 DEF DataInv, SessionInv, sessions
<1>11. TypeOK'
  BY <1>1, <1>3, <1>5, <1>7, <1>9, ReconciledTyped DEF TypeOK, sessions
<1> QED
  BY <1>1, <1>10, <1>11, StartStep DEF Reconciled

LEMMA DisconnectStep ==
  ASSUME Inv, NEW v \in Volume, NEW h \in Host, Disconnect(v, h)
  PROVE  Inv'
<1>1. /\ TypeOK /\ DataInv /\ SessionInv /\ MapInv /\ RecordInv
      /\ UNCHANGED <<rtype, saved, sessions>> /\ Reconciled
  BY DEF Inv, DataInv, Disconnect
<1> DEFINE n == IF Connected(v) = {h} THEN NoIndex ELSE index[v]
<1>2. /\ lun \in [Volume -> [Host -> Lun \cup {0}]] /\ index \in [Volume -> Index]
      /\ lun' = [lun EXCEPT ![v][h] = 0] /\ lun[v][h] # 0
      /\ index' = [index EXCEPT ![v] = n]
  BY <1>1 DEF TypeOK, Disconnect
<1>3. /\ lun' \in [Volume -> [Host -> Lun \cup {0}]]
      /\ \A w \in Volume, g \in Host :
           lun'[w][g] = IF w = v /\ g = h THEN 0 ELSE lun[w][g]
      /\ \A w \in Volume : w # v => lun'[w] = lun[w]
  BY <1>2
<1>4. n \in Index
  BY <1>2, TwoVolumes
<1>5. /\ index' \in [Volume -> Index]
      /\ \A w \in Volume : index'[w] = IF w = v THEN n ELSE index[w]
  BY <1>2, <1>4
<1>6. /\ Connected(v)' = Connected(v) \ {h} /\ h \in Connected(v)
      /\ \A w \in Volume : w # v => Connected(w)' = Connected(w)
  BY <1>2, <1>3 DEF Connected
<1>7. \A w \in Volume : index'[w] = NoIndex <=> Connected(w)' = {}
  BY <1>1, <1>5, <1>6 DEF TypeOK
<1>8. MapInv'
  <2>1. ASSUME NEW g \in Host, lun'["vol"][g] # 0 PROVE lun'["vol"][g] # lun'["other"][g]
    BY <1>1, <1>3, <2>1 DEF Volume, MapInv
  <2>2. index'["vol"] # NoIndex => index'["vol"] # index'["other"]
    BY <1>1, <1>5 DEF Volume, MapInv, TypeOK
  <2> QED
    BY <2>1, <2>2 DEF MapInv
<1>9. /\ regs' \subseteq Reg /\ held' \in regs' \cup {NoReg}
      /\ dormant' \in SavedFile /\ RecordInv'
  <2>1. CASE v = "other"
    <3>1. UNCHANGED reservation /\ lun'["vol"] = lun["vol"] /\ index'["vol"] = index["vol"]
      BY <1>1, <1>3, <1>5, <2>1 DEF Disconnect, reservation, Volume
    <3> QED
      BY <1>1, <3>1, OtherVolume DEF TypeOK, reservation
  <2>2. CASE v = "vol"
    <3>1. /\ regs' = Without(h) /\ held' \in HolderAfter(Without(h))
          /\ dormant' \in {dormant, NoFile}
      BY <2>2 DEF Disconnect
    <3>2. /\ Without(h) \subseteq regs /\ regs \subseteq Reg
          /\ \A g \in Without(h) : g.host # h
          /\ \A g \in regs : g.host # h => g \in Without(h)
      BY <1>1 DEF TypeOK, Without
    <3>3. /\ held' \in regs' \cup {NoReg} /\ (held = NoReg => held' = NoReg)
          /\ (held \in Without(h) => held' = held)
      BY <1>1, <3>1, <3>2, HolderAfterIs
    <3>4. dormant' \in SavedFile /\ FileOK(dormant)' /\ FileOK(saved)'
      BY <1>1, <3>1, NothingTyped DEF TypeOK, RecordInv, FileOK
    <3>5. ASSUME NEW r \in Reg PROVE KernelBinds(r)' <=> KernelBinds(r) /\ r.host # h
      <4>1. r.host \in Host /\ r.lun # 0 /\ r.lun \in Lun
        BY FencingAssumption DEF Reg
      <4>2. CASE r.host = h
        BY <1>3, <2>2, <4>1, <4>2 DEF KernelBinds
      <4>3. CASE r.host # h
        <5>1. lun'["vol"][r.host] = lun["vol"][r.host]
          BY <1>3, <2>2, <4>1, <4>3
        <5>2. CASE lun["vol"][r.host] # 0
          <6>1. r.host \in Connected("vol")
            BY <4>1, <5>2 DEF Connected
          <6>2. index'["vol"] = index["vol"]
            BY <1>5, <2>2, <4>3, <6>1
          <6> QED
            BY <4>3, <5>1, <6>2 DEF KernelBinds
        <5>3. CASE lun["vol"][r.host] = 0
          BY <4>1, <5>1, <5>3 DEF KernelBinds
        <5> QED
          BY <5>2, <5>3
      <4> QED
        BY <4>2, <4>3
    <3>6. \A g \in regs' : KernelBinds(g)'
      BY <1>1, <3>1, <3>2, <3>5 DEF RecordInv
    <3>7. \A d \in dormant'.regs : ~KernelBinds(d)' /\ d \in dormant.regs
      BY <1>1, <3>1, <3>5, NothingTyped DEF RecordInv, TypeOK, SavedFile
    <3>8. ASSUME saved.held # NoReg, NEW d \in dormant'.regs, SameNexus(d, saved.held)
          PROVE  held' = NoReg /\ dormant'.held = saved.held
      BY <1>1, <3>1, <3>3, <3>7, <3>8, NothingTyped DEF RecordInv
    <3>9. ASSUME saved.held # NoReg, NEW g \in regs', SameNexus(g, saved.held)
          PROVE  held' # NoReg /\ held'.host = saved.held.host
      <4>1. g \in regs /\ g.host # h /\ g.host = saved.held.host
        BY <3>1, <3>2, <3>9 DEF SameNexus
      <4>2. held # NoReg /\ held.host = saved.held.host /\ held \in regs
        BY <1>1, <3>9, <4>1 DEF RecordInv, TypeOK
      <4> QED
        BY <3>2, <3>3, <4>1, <4>2
    <3> QED
      BY <1>1, <3>1, <3>2, <3>3, <3>4, <3>6, <3>7, <3>8, <3>9 DEF RecordInv, SameNexus
  <2> QED
    BY <2>1, <2>2 DEF Volume
<1>10. DataInv'
  BY <1>1, <1>8, <1>9 DEF DataInv, SessionInv, sessions
<1>11. TypeOK'
  BY <1>1, <1>3, <1>5, <1>7, <1>9, ReconciledTyped DEF TypeOK, sessions
<1> QED
  BY <1>1, <1>10, <1>11, StartStep DEF Reconciled

LEMMA RebootStep == ASSUME Inv, Reboot PROVE Inv'
<1>1. /\ TypeOK /\ MapInv /\ RecordInv /\ saved \in SavedFile /\ FileOK(saved)
      /\ UNCHANGED <<config, saved>> /\ BindTo(saved, {}, NoReg)
      /\ sess' = [h \in Host |-> {}] /\ shown' = [h \in Host |-> NoIsid]
      /\ StartCheck("reconcile", "saved") /\ pub' = NoReport
  BY DEF Inv, DataInv, RecordInv, TypeOK, Reboot
<1>2. /\ regs' \subseteq Reg /\ held' \in regs' \cup {NoReg} /\ rtype' \in ResType
      /\ dormant' \in SavedFile /\ RecordInv'
  BY <1>1, BindStep
<1>3. SessionInv' /\ sess' \in [Host -> SUBSET Isid] /\ shown' \in [Host -> Isid \cup {NoIsid}]
  BY <1>1 DEF SessionInv
<1>4. DataInv'
  BY <1>1, <1>2, <1>3 DEF DataInv, MapInv, config
<1>5. pc' \in PC /\ chk' \in Check /\ pub' \in Report
  BY <1>1, NoCheckTyped, NothingTyped DEF StartCheck, PC, Reads
<1>6. events' \in 0..MaxEvents
  BY <1>1, FencingAssumption DEF Reboot, TypeOK
<1>7. truth' \in Truth
  BY <1>1 DEF Reboot, TypeOK, Truth
<1>8. TypeOK'
  BY <1>1, <1>2, <1>3, <1>5, <1>6, <1>7, SameMaps DEF TypeOK, config
<1> QED
  BY <1>1, <1>4, <1>8, StartStep

LEMMA RecheckPRStep == ASSUME Inv, RecheckPR PROVE Inv'
<1>1. /\ TypeOK /\ DataInv /\ StartCheck("recheck", "visible")
      /\ UNCHANGED <<config, reservation, sessions, pub, events>>
      /\ truth' = [truth EXCEPT !.moved = FALSE]
  BY DEF Inv, RecheckPR
<1>2. pc' \in PC /\ chk' \in Check
  BY <1>1, NoCheckTyped DEF StartCheck, PC, Reads
<1>3. truth' \in Truth
  BY <1>1 DEF TypeOK, Truth
<1>4. TypeOK'
  BY <1>1, <1>2, <1>3, SameMaps DEF TypeOK, config, reservation, sessions
<1>5. DataInv'
  BY <1>1, SameMaps DEF DataInv, SessionInv, MapInv, RecordInv, config, reservation, sessions
<1> QED
  BY <1>1, <1>4, <1>5, StartStep

(***************************************************************************)
(* The reads.  None of them changes what it reads.                         *)
(***************************************************************************)

LEMMA SameData ==
  ASSUME UNCHANGED <<config, reservation, sessions>>
  PROVE  /\ Stranded' <=> Stranded
         /\ Mismatched' <=> Mismatched
         /\ Unbound' <=> Unbound
         /\ FenceGone' <=> FenceGone
         /\ Loss' <=> Loss
         /\ AllRendered' <=> AllRendered
         /\ Visible' = Visible
         /\ Want' = Want /\ WantHolder' = WantHolder /\ Lapsed' = Lapsed
         /\ held' = held /\ rtype' = rtype
<1>1. /\ \A r : KernelBinds(r)' <=> KernelBinds(r)
      /\ \A v : Connected(v)' = Connected(v)
  BY SameMaps
<1>2. \A r : Exported(r)' <=> Exported(r)
  BY DEF Exported, TPGLun, config
<1>3. Unbound' <=> Unbound
  BY <1>1 DEF Unbound, reservation
<1>4. FenceGone' <=> FenceGone
  BY DEF FenceGone, reservation
<1>5. Loss' <=> Loss
  BY <1>1, <1>3, <1>4 DEF Loss, reservation
<1>6. Want' = Want
  BY <1>2 DEF Want, reservation
<1>7. WantHolder' = WantHolder /\ Lapsed' = Lapsed
  BY <1>6 DEF WantHolder, Lapsed, reservation
<1>8. (Stranded' <=> Stranded) /\ (Mismatched' <=> Mismatched) /\ (AllRendered' <=> AllRendered) /\ Visible' = Visible
  BY DEF Stranded, Mismatched, AllRendered, Visible, reservation, sessions
<1>9. held' = held /\ rtype' = rtype
  BY DEF reservation
<1> QED
  BY <1>3, <1>4, <1>5, <1>6, <1>7, <1>8, <1>9

\* The check goes from pc to a later read and has lost nothing.
Goes ==
  /\ UNCHANGED <<config, reservation, sessions, pub, truth>>
  /\ events' \in 0..MaxEvents
  /\ pc # "idle" /\ pc' \in PC \ {"idle"}
  /\ chk' \in Check /\ chk'.kind = chk.kind /\ (chk.failed => chk'.failed)

LEMMA ReadGoes ==
  ASSUME TypeOK, pc # "idle", NEW p \in PC \ {"idle"}, NEW c \in Check, c.kind = chk.kind,
         c.failed = chk.failed
  PROVE  /\ Read(p, c) => Goes /\ pc' = p /\ chk' = c
         /\ FailedRead(p, c) =>
              /\ Goes /\ pc' = p /\ chk'.failed = TRUE /\ chk'.report = c.report
              /\ chk'.visible = c.visible /\ chk'.blind = c.blind
              /\ chk'.holder = c.holder /\ chk'.sure = c.sure
<1>1. Read(p, c) => Goes /\ pc' = p /\ chk' = c
  BY DEF Read, Goes, TypeOK
<1>2. ASSUME FailedRead(p, c)
      PROVE  /\ Goes /\ pc' = p /\ chk'.failed = TRUE /\ chk'.report = c.report
             /\ chk'.visible = c.visible /\ chk'.blind = c.blind
             /\ chk'.holder = c.holder /\ chk'.sure = c.sure
  <2>1. /\ chk' \in Check /\ chk'.failed = TRUE /\ chk'.kind = c.kind
        /\ chk'.report = c.report /\ chk'.visible = c.visible /\ chk'.blind = c.blind
        /\ chk'.holder = c.holder /\ chk'.sure = c.sure
    BY <1>2 DEF FailedRead, Check
  <2>2. events' \in 0..MaxEvents
    BY <1>2, FencingAssumption DEF FailedRead, TypeOK
  <2> QED
    BY <1>2, <2>1, <2>2 DEF FailedRead, Goes
<1> QED
  BY <1>1, <1>2

LEMMA GoesStep ==
  ASSUME Inv, Goes, ~truth.moved => StrandInv' /\ AlarmInv'
  PROVE  Inv'
<1>1. TypeOK'
  BY SameMaps DEF Inv, Goes, TypeOK, config, reservation, sessions
<1>2. DataInv'
  BY SameMaps
  DEF Inv, Goes, DataInv, SessionInv, MapInv, RecordInv, config, reservation, sessions
<1>3. CheckInv' /\ PubInv'
  BY DEF Inv, Goes, CheckInv, PubInv, Current
<1> QED
  BY <1>1, <1>2, <1>3 DEF Inv

LEMMA AfterIs ==
  ASSUME TypeOK, CheckInv, pc # "idle"
  PROVE  /\ chk.kind = "recheck" => AfterStrand = "saved" /\ AfterAPTPL = "publish"
         /\ chk.kind = "reconcile" => AfterStrand = "publish" /\ AfterAPTPL = "visible"
         /\ chk.kind \in {"recheck", "reconcile"}
         /\ AfterStrand \in PC \ {"idle"} /\ AfterAPTPL \in PC \ {"idle"}
BY DEF AfterStrand, AfterAPTPL, CheckInv, PC, Reads

\* The check of the sessions is over.
LEMMA StrandEnds ==
  ASSUME Inv, Goes, pc \in StrandReads, pc' = AfterStrand,
         chk'.report.alarms = chk.report.alarms,
         ~truth.moved => StrandRight(chk'.report.strand, chk'.failed)
  PROVE  Inv'
<1> SUFFICES ASSUME ~truth.moved PROVE StrandInv' /\ AlarmInv'
  BY GoesStep
<1>1. AlarmInv /\ pc # "idle" /\ TypeOK /\ CheckInv
  BY DEF Inv, CheckInv, StrandReads
<1>2. UNCHANGED <<config, reservation, sessions>> /\ chk'.kind = chk.kind /\ (chk.failed => chk'.failed)
  BY DEF Goes
<1>3. pc' \in {"saved", "publish"} /\ (pc' = "saved" <=> chk.kind = "recheck")
      /\ (pc' = "publish" <=> chk.kind = "reconcile")
  BY <1>1, AfterIs
<1>4. StrandInv'
  BY <1>2, <1>3, SameData DEF StrandInv, StrandRight, StrandDone, FileReads
<1>5. FileDone' => FileDone
  BY <1>2, <1>3 DEF FileDone, StrandReads
<1>6. AlarmInv'
  BY <1>1, <1>2, <1>3, <1>5, SameData DEF AlarmInv, CauseRight
<1> QED
  BY <1>4, <1>6

\* The check of the sessions goes on.
LEMMA StrandGoes ==
  ASSUME Inv, Goes, pc \in StrandReads, pc' \in StrandReads,
         chk'.report = chk.report,
         ~truth.moved =>
           /\ pc' = "live" => chk'.visible <= Cardinality(Visible)
           /\ pc' \in {"res_holder", "res_type", "info", "blind"} /\ ~chk'.blind => AllRendered
           /\ pc' \in {"res_type", "info", "blind"} => chk'.holder = held /\ held # NoReg
           /\ pc' \in {"info", "blind"} /\ chk'.sure => rtype = "regonly"
           /\ pc' = "blind" => Mismatched
  PROVE  Inv'
<1> SUFFICES ASSUME ~truth.moved PROVE StrandInv' /\ AlarmInv'
  BY GoesStep
<1>1. AlarmInv /\ StrandInv /\ pc # "idle"
  BY DEF Inv, CheckInv, StrandReads
<1>2. UNCHANGED <<config, reservation, sessions>> /\ chk'.kind = chk.kind /\ (chk.failed => chk'.failed)
  BY DEF Goes
<1>3. ~StrandDone /\ ~StrandDone' /\ (FileDone' <=> FileDone)
  BY <1>2 DEF StrandDone, FileDone, FileReads, StrandReads
<1>4. StrandInv'
  BY <1>1, <1>2, <1>3, SameData DEF StrandInv, reservation, sessions
<1>5. AlarmInv'
  BY <1>1, <1>2, <1>3, SameData DEF AlarmInv, CauseRight, StrandReads
<1> QED
  BY <1>4, <1>5

\* The check of the saved file is over.
LEMMA FileEnds ==
  ASSUME Inv, Goes, pc \in FileReads, pc' = AfterAPTPL,
         chk'.report.strand = chk.report.strand,
         ~truth.moved =>
           /\ CauseRight(chk'.report.alarms, chk'.failed)
           /\ Loss => chk'.report.alarms # {}
  PROVE  Inv'
<1> SUFFICES ASSUME ~truth.moved PROVE StrandInv' /\ AlarmInv'
  BY GoesStep
<1>1. StrandInv /\ pc # "idle" /\ TypeOK /\ CheckInv
  BY DEF Inv, CheckInv, FileReads
<1>2. UNCHANGED <<config, reservation, sessions>> /\ chk'.kind = chk.kind /\ (chk.failed => chk'.failed)
  BY DEF Goes
<1>3. pc' \in {"visible", "publish"} /\ (pc' = "visible" <=> chk.kind = "reconcile")
      /\ (pc' = "publish" <=> chk.kind = "recheck")
  BY <1>1, AfterIs
<1>4. StrandDone' <=> StrandDone
  BY <1>2, <1>3 DEF StrandDone, FileReads
<1>5. StrandInv'
  BY <1>1, <1>2, <1>3, <1>4, SameData DEF StrandInv, StrandRight
<1>6. AlarmInv'
  BY <1>2, <1>3, SameData DEF AlarmInv, CauseRight
<1> QED
  BY <1>5, <1>6

\* The check of the saved file goes on.
LEMMA FileGoes ==
  ASSUME Inv, Goes, pc \in FileReads, pc' \in FileReads \ {"saved"},
         chk'.report.strand = chk.report.strand,
         ~truth.moved =>
           /\ CauseRight(chk'.report.alarms, chk'.failed)
           /\ chk'.want = Want /\ chk'.wantHolder = WantHolder /\ chk'.lapsed = Lapsed
           /\ pc' # "registered" /\ Unbound => chk'.report.alarms # {}
           /\ pc' = "want_holder" => chk'.wantHolder # NoReg
           /\ pc' = "lapsed_holder" => chk'.lapsed # NoReg
  PROVE  Inv'
<1> SUFFICES ASSUME ~truth.moved PROVE StrandInv' /\ AlarmInv'
  BY GoesStep
<1>1. StrandInv /\ pc # "idle"
  BY DEF Inv, CheckInv, FileReads
<1>2. UNCHANGED <<config, reservation, sessions>> /\ chk'.kind = chk.kind /\ (chk.failed => chk'.failed)
  BY DEF Goes
<1>3. (StrandDone' <=> StrandDone) /\ ~FileDone'
  BY <1>2 DEF StrandDone, FileDone, FileReads, StrandReads
<1>4. StrandInv'
  BY <1>1, <1>2, <1>3, SameData DEF StrandInv, StrandRight, FileReads
<1>5. AlarmInv'
  BY <1>2, <1>3, SameData DEF AlarmInv, CauseRight
<1> QED
  BY <1>4, <1>5

LEMMA ReadVisibleStep == ASSUME Inv, ReadVisible PROVE Inv'
<1>1. TypeOK /\ chk \in Check /\ pc = "visible"
  BY DEF Inv, TypeOK, ReadVisible
<1>2. Cardinality(Visible) \in Nat /\ Cardinality(Visible) <= Cardinality(Host)
      /\ Cardinality(Host) \in Nat
  <2>1. Visible \in SUBSET Host
    BY DEF Visible
  <2> QED
    BY <2>1, FencingAssumption, FS_Subset, FS_CardinalityType
<1>3. PICK n \in 0..Cardinality(Visible) :
        \/ Read("live", [chk EXCEPT !.visible = n])
        \/ FailedRead("live", [chk EXCEPT !.visible = n])
  BY <1>2 DEF ReadVisible
<1> DEFINE c == [chk EXCEPT !.visible = n]
<1>4. n \in 0..Cardinality(Host) /\ n <= Cardinality(Visible)
  BY <1>2
<1>5. /\ c \in Check /\ c.kind = chk.kind /\ c.failed = chk.failed /\ c.report = chk.report
      /\ c.visible = n
  BY <1>1, <1>4 DEF Check
<1> HIDE DEF c
<1>6. Goes /\ pc' = "live" /\ chk'.report = chk.report /\ chk'.visible = n
  BY <1>1, <1>3, <1>5, ReadGoes DEF PC, Reads, c
<1> QED
  BY <1>1, <1>4, <1>6, StrandGoes DEF StrandReads

LEMMA ReadLiveStep == ASSUME Inv, ReadLive PROVE Inv'
<1> DEFINE b == Blind(chk.visible)
           c == [chk EXCEPT !.blind = b]
           d == [chk EXCEPT !.blind = TRUE]
<1>1. /\ TypeOK /\ chk \in Check /\ pc = "live"
      /\ Read("res_holder", c) \/ FailedRead("res_holder", d)
  BY DEF Inv, TypeOK, ReadLive
<1>2. b \in BOOLEAN
  BY DEF Blind
<1>3. ~truth.moved /\ ~b => AllRendered
  <2>1. chk.visible \in Nat
    BY <1>1, FencingAssumption, FS_CardinalityType DEF Check
  <2> QED
    BY <1>1, <2>1, NotBlind DEF Inv, CheckInv, StrandInv
<1> HIDE DEF b
<1>4. /\ c \in Check /\ c.kind = chk.kind /\ c.failed = chk.failed /\ c.report = chk.report
      /\ c.blind = b
      /\ d \in Check /\ d.kind = chk.kind /\ d.failed = chk.failed /\ d.report = chk.report
      /\ d.blind = TRUE
  BY <1>1, <1>2 DEF Check
<1>5. CASE Read("res_holder", c)
  <2>1. Goes /\ pc' = "res_holder" /\ chk' = c
    BY <1>1, <1>4, <1>5, ReadGoes DEF PC, Reads
  <2> QED
    BY <1>1, <1>3, <1>4, <2>1, StrandGoes DEF StrandReads
<1>6. CASE FailedRead("res_holder", d)
  <2>1. Goes /\ pc' = "res_holder" /\ chk'.report = d.report /\ chk'.blind = TRUE
    BY <1>1, <1>4, <1>6, ReadGoes DEF PC, Reads
  <2> QED
    BY <1>1, <1>4, <2>1, StrandGoes DEF StrandReads
<1> QED
  BY <1>1, <1>5, <1>6

\* A read that failed, or an early return: no verdict.
LEMMA NoVerdict ==
  ASSUME Inv, pc \in {"res_holder", "res_type", "info"},
         \/ Read(AfterStrand, chk) /\ (~truth.moved => ~Stranded)
         \/ FailedRead(AfterStrand, chk)
  PROVE  Inv'
<1>1. /\ TypeOK /\ CheckInv /\ chk \in Check /\ pc # "idle" /\ pc \in StrandReads
      /\ AfterStrand \in PC \ {"idle"}
  BY AfterIs DEF Inv, TypeOK, StrandReads
<1>2. ~truth.moved => chk.report.strand = "none"
  BY <1>1 DEF CheckInv, StrandInv, StrandDone, FileReads
<1>3. CASE Read(AfterStrand, chk) /\ (~truth.moved => ~Stranded)
  <2>1. Goes /\ pc' = AfterStrand /\ chk' = chk
    BY <1>1, <1>3, ReadGoes
  <2> QED
    BY <1>1, <1>2, <1>3, <2>1, StrandEnds DEF StrandRight
<1>4. CASE FailedRead(AfterStrand, chk)
  <2>1. Goes /\ pc' = AfterStrand /\ chk'.report = chk.report /\ chk'.failed = TRUE
    BY <1>1, <1>4, ReadGoes
  <2> QED
    BY <1>1, <1>2, <2>1, StrandEnds DEF StrandRight
<1> QED
  BY <1>3, <1>4

LEMMA ReadHolderStep == ASSUME Inv, ReadHolder PROVE Inv'
<1>1. TypeOK /\ CheckInv /\ chk \in Check /\ pc = "res_holder"
  BY DEF Inv, TypeOK, ReadHolder
<1>2. CASE held # NoReg /\ Read("res_type", [chk EXCEPT !.holder = held])
  <2> DEFINE c == [chk EXCEPT !.holder = held]
  <2>1. held \in Hold
    BY <1>1 DEF TypeOK, Hold
  <2>2. /\ c \in Check /\ c.kind = chk.kind /\ c.failed = chk.failed /\ c.report = chk.report
        /\ c.holder = held /\ c.blind = chk.blind
    BY <1>1, <2>1 DEF Check
  <2>3. Goes /\ pc' = "res_type" /\ chk' = c
    BY <1>1, <1>2, <2>2, ReadGoes DEF PC, Reads
  <2>4. ~truth.moved /\ ~chk.blind => AllRendered
    BY <1>1 DEF CheckInv, StrandInv
  <2> HIDE DEF c
  <2> QED
    BY <1>1, <1>2, <2>2, <2>3, <2>4, StrandGoes DEF StrandReads
<1>3. CASE held = NoReg /\ Read(AfterStrand, chk)
  BY <1>1, <1>3, NoVerdict DEF Stranded
<1>4. CASE FailedRead(AfterStrand, chk)
  BY <1>1, <1>4, NoVerdict
<1> QED
  BY <1>2, <1>3, <1>4 DEF ReadHolder

\* A type that could not be read leaves the check unsure.
LEMMA ReadTypeStep == ASSUME Inv, ReadType PROVE Inv'
<1>1. TypeOK /\ CheckInv /\ chk \in Check /\ pc = "res_type" /\ rtype \in {"regonly", "allreg"}
  BY FencingAssumption DEF Inv, TypeOK, ReadType
<1>2. ~truth.moved => /\ chk.holder = held /\ held # NoReg
                      /\ (~chk.blind => AllRendered)
  BY <1>1 DEF CheckInv, StrandInv
<1>3. CASE AllRegistrants /\ Read(AfterStrand, chk)
  BY <1>1, <1>3, NoVerdict DEF Stranded, AllRegistrants
<1>4. CASE ~AllRegistrants /\ Read("info", chk)
  <2>1. Goes /\ pc' = "info" /\ chk' = chk
    BY <1>1, <1>4, ReadGoes DEF PC, Reads
  <2>2. ~truth.moved => rtype = "regonly"
    BY <1>1, <1>2, <1>4 DEF AllRegistrants
  <2> QED
    BY <1>1, <1>2, <2>1, <2>2, StrandGoes DEF StrandReads
<1>5. CASE FailedRead("info", [chk EXCEPT !.sure = FALSE])
  <2> DEFINE c == [chk EXCEPT !.sure = FALSE]
  <2>1. /\ c \in Check /\ c.kind = chk.kind /\ c.failed = chk.failed /\ c.report = chk.report
        /\ c.holder = chk.holder /\ c.blind = chk.blind /\ c.sure = FALSE
    BY <1>1 DEF Check
  <2> HIDE DEF c
  <2>2. /\ Goes /\ pc' = "info" /\ chk'.report = chk.report /\ chk'.holder = chk.holder
        /\ chk'.blind = chk.blind /\ chk'.sure = FALSE
    BY <1>1, <1>5, <2>1, ReadGoes DEF PC, Reads, c
  <2> QED
    BY <1>1, <1>2, <2>2, StrandGoes DEF StrandReads
<1> QED
  BY <1>3, <1>4, <1>5 DEF ReadType

\* The one session that is rendered is a session, so a holder whose session is
\* rendered, or who has none, is not stranded.
LEMMA ReadInfoStep == ASSUME Inv, ReadInfo PROVE Inv'
<1>1. /\ TypeOK /\ CheckInv /\ SessionInv /\ chk \in Check /\ pc = "info"
  BY DEF Inv, TypeOK, DataInv, ReadInfo
<1>2. ~truth.moved => /\ chk.holder = held /\ held # NoReg
                      /\ held \in Reg /\ held.host \in Host
                      /\ (~chk.blind => AllRendered)
                      /\ (chk.sure => rtype = "regonly")
  BY <1>1 DEF CheckInv, StrandInv, TypeOK, Reg
<1>3. CASE /\ shown[chk.holder.host] \in {NoIsid, chk.holder.isid}
           /\ Read(AfterStrand, chk)
  <2>1. ~truth.moved => ~Stranded
    BY <1>1, <1>2, <1>3, FencingAssumption DEF SessionInv, Stranded, TypeOK
  <2> QED
    BY <1>1, <1>3, <2>1, NoVerdict
<1>4. CASE /\ shown[chk.holder.host] \notin {NoIsid, chk.holder.isid}
           /\ Read("blind", chk)
  <2>1. Goes /\ pc' = "blind" /\ chk' = chk
    BY <1>1, <1>4, ReadGoes DEF PC, Reads
  <2>2. ~truth.moved => Mismatched
    BY <1>2, <1>4 DEF Mismatched
  <2> QED
    BY <1>1, <1>2, <2>1, <2>2, StrandGoes DEF StrandReads
<1>5. CASE FailedRead(AfterStrand, chk)
  BY <1>1, <1>5, NoVerdict
<1> QED
  BY <1>3, <1>4, <1>5 DEF ReadInfo

\* Where nothing is hidden, a holder that shows another session is stranded.
LEMMA MismatchStrands ==
  ASSUME TypeOK, SessionInv, AllRendered, Mismatched, rtype = "regonly"
  PROVE  Stranded
<1>1. held # NoReg /\ held.host \in Host /\ shown[held.host] \notin {NoIsid, held.isid}
  BY DEF Mismatched, TypeOK, Reg
<1>2. sess[held.host] # {} /\ shown[held.host] \in sess[held.host]
  BY <1>1 DEF SessionInv
<1>3. held.isid \notin sess[held.host]
  BY <1>1, <1>2 DEF AllRendered
<1> QED
  BY <1>1, <1>2, <1>3 DEF Stranded

LEMMA ReadBlindForStep == ASSUME Inv, ReadBlindFor PROVE Inv'
<1>1. /\ TypeOK /\ CheckInv /\ SessionInv /\ chk \in Check /\ pc = "blind"
      /\ AfterStrand \in PC \ {"idle"}
  BY AfterIs DEF Inv, TypeOK, DataInv, ReadBlindFor
<1>2. ~truth.moved => /\ chk.holder = held /\ Mismatched /\ shown[held.host] # NoIsid
                      /\ (~chk.blind => AllRendered) /\ (chk.sure => rtype = "regonly")
  BY <1>1 DEF CheckInv, StrandInv, Mismatched
<1>3. PICK v \in {"stranded", "guessed", "undecided"} :
        /\ Read(AfterStrand, Says(v)) \/ FailedRead(AfterStrand, Says(v))
        /\ v = "stranded" => chk.sure /\ (~chk.blind \/ shown[chk.holder.host] = NoIsid)
  BY DEF ReadBlindFor
<1>4. /\ Says(v) \in Check /\ Says(v).kind = chk.kind /\ Says(v).failed = chk.failed
      /\ Says(v).report.alarms = chk.report.alarms /\ Says(v).report.strand = v
  BY <1>1 DEF Says, Check, Report, Verdict
<1>5. /\ Goes /\ pc' = AfterStrand
      /\ chk'.report.alarms = chk.report.alarms /\ chk'.report.strand = v
  BY <1>1, <1>3, <1>4, ReadGoes
<1>6. ~truth.moved => /\ v = "stranded" => Stranded
                      /\ v = "guessed" => Mismatched
  BY <1>1, <1>2, <1>3, MismatchStrands
<1>7. ~truth.moved => StrandRight(chk'.report.strand, chk'.failed)
  BY <1>5, <1>6 DEF StrandRight
<1> QED
  BY <1>1, <1>5, <1>7, StrandEnds DEF StrandReads

LEMMA AlarmedIs ==
  ASSUME TypeOK, NEW a \in SUBSET Alarm
  PROVE  /\ Alarmed(a) \in Check /\ Alarmed(a).kind = chk.kind
         /\ Alarmed(a).failed = chk.failed /\ Alarmed(a).report.strand = chk.report.strand
         /\ Alarmed(a).report.alarms = chk.report.alarms \cup a
         /\ Alarmed(a).want = chk.want /\ Alarmed(a).wantHolder = chk.wantHolder
         /\ Alarmed(a).lapsed = chk.lapsed
<1>1. chk \in Check
  BY DEF TypeOK
<1> QED
  BY <1>1 DEF Alarmed, Check, Report

\* A file, or a state, that cannot be read is an alarm of its own.
LEMMA UnreadStep ==
  ASSUME Inv, pc \in FileReads, FailedRead(AfterAPTPL, Unread)
  PROVE  Inv'
<1>1. /\ TypeOK /\ CheckInv /\ pc # "idle" /\ AfterAPTPL \in PC \ {"idle"}
  BY AfterIs DEF Inv, FileReads
<1>2. /\ Unread \in Check /\ Unread.kind = chk.kind /\ Unread.failed = chk.failed
      /\ Unread.report.strand = chk.report.strand /\ Unread.report.alarms # {}
  BY <1>1, AlarmedIs DEF Unread, Alarm
<1>3. Goes /\ pc' = AfterAPTPL /\ chk'.failed = TRUE /\ chk'.report = Unread.report
  BY <1>1, <1>2, ReadGoes
<1> QED
  BY <1>2, <1>3, FileEnds DEF CauseRight

\* A promise that is broken is about a record that is wanted, or about a holder
\* that has lapsed.
LEMMA Promises ==
  ASSUME TypeOK, DataInv
  PROVE  /\ Want \subseteq Reg
         /\ Unbound <=> \E r \in Want : ~Bound(r)
         /\ saved.held # NoReg => WantHolder # NoReg \/ Lapsed # NoReg
         /\ WantHolder # NoReg => WantHolder = saved.held /\ saved.held \in Want
         /\ Lapsed # NoReg => Lapsed = saved.held
<1>1. saved.regs \subseteq Reg /\ Want = {r \in saved.regs : KernelBinds(r)}
  BY ExportedIsBound DEF Want, TypeOK, SavedFile
<1>2. Unbound <=> \E r \in Want : ~Bound(r)
  BY <1>1 DEF Unbound, Bound
<1> QED
  BY <1>1, <1>2 DEF WantHolder, Lapsed

LEMMA ReadSavedStep == ASSUME Inv, ReadSaved PROVE Inv'
<1>1. /\ TypeOK /\ DataInv /\ CheckInv /\ chk \in Check /\ pc = "saved" /\ pc \in FileReads
      /\ AfterAPTPL \in PC \ {"idle"}
  BY AfterIs DEF Inv, TypeOK, ReadSaved, FileReads
<1> DEFINE c == [chk EXCEPT !.want = Want, !.wantHolder = WantHolder, !.lapsed = Lapsed]
           p == IF Want = {} /\ Lapsed = NoReg THEN AfterAPTPL ELSE "registered"
<1>2. CASE Read(p, c)
  <2>1. Want \in SUBSET Reg /\ WantHolder \in Hold /\ Lapsed \in Hold
    <3>1. saved.regs \subseteq Reg /\ saved.held \in Hold
      BY <1>1 DEF TypeOK, SavedFile
    <3> QED
      BY <3>1, NothingTyped DEF Want, WantHolder, Lapsed
  <2>2. /\ c \in Check /\ c.kind = chk.kind /\ c.failed = chk.failed /\ c.report = chk.report
        /\ c.want = Want /\ c.wantHolder = WantHolder /\ c.lapsed = Lapsed
    BY <1>1, <2>1 DEF Check
  <2>3. p \in PC \ {"idle"}
    BY <1>1 DEF PC, Reads
  <2>4. Goes /\ pc' = p /\ chk' = c
    BY <1>1, <1>2, <2>2, <2>3, ReadGoes
  <2>5. ~truth.moved => CauseRight(chk.report.alarms, chk.failed)
    BY <1>1 DEF CheckInv, AlarmInv
  <2>6. Want = {} /\ Lapsed = NoReg => ~Loss
    BY <1>1, Promises DEF Loss, FenceGone
  <2> HIDE DEF c
  <2>7. CASE Want = {} /\ Lapsed = NoReg
    BY <1>1, <2>2, <2>4, <2>5, <2>6, <2>7, FileEnds
  <2>8. CASE ~(Want = {} /\ Lapsed = NoReg)
    <3>1. pc' = "registered"
      BY <2>4, <2>8
    <3> QED
      BY <1>1, <2>2, <2>4, <2>5, <3>1, FileGoes DEF FileReads
  <2> QED
    BY <2>7, <2>8
<1>3. CASE FailedRead(AfterAPTPL, Unread)
  BY <1>1, <1>3, UnreadStep
<1> QED
  BY <1>2, <1>3 DEF ReadSaved

LEMMA ReadRegistrationsStep == ASSUME Inv, ReadRegistrations PROVE Inv'
<1>1. /\ TypeOK /\ DataInv /\ CheckInv /\ chk \in Check /\ pc = "registered" /\ pc \in FileReads
      /\ AfterAPTPL \in PC \ {"idle"}
  BY AfterIs DEF Inv, TypeOK, ReadRegistrations, FileReads
<1> DEFINE a == IF \A r \in chk.want : Bound(r) THEN {} ELSE {"registration"}
           c == IF \A r \in chk.want : Bound(r) THEN chk ELSE Alarmed({"registration"})
<1>2. CASE Read(AfterRegs, c)
  <2>1. /\ c \in Check /\ c.kind = chk.kind /\ c.failed = chk.failed
        /\ c.report.strand = chk.report.strand /\ c.report.alarms = chk.report.alarms \cup a
        /\ c.want = chk.want /\ c.wantHolder = chk.wantHolder /\ c.lapsed = chk.lapsed
    BY <1>1, AlarmedIs DEF Alarm
  <2>2. AfterRegs \in PC \ {"idle"}
    BY <1>1 DEF AfterRegs, PC, Reads
  <2> HIDE DEF c
  <2>3. Goes /\ pc' = AfterRegs /\ chk' = c
    BY <1>1, <1>2, <2>1, <2>2, ReadGoes
  <2>4. ~truth.moved =>
          /\ CauseRight(chk.report.alarms, chk.failed)
          /\ chk.want = Want /\ chk.wantHolder = WantHolder /\ chk.lapsed = Lapsed
    BY <1>1 DEF CheckInv, AlarmInv
  <2>5. ~truth.moved => (Unbound <=> a # {})
    BY <1>1, <2>4, Promises
  <2> HIDE DEF a
  <2>6. ~truth.moved => /\ CauseRight(chk'.report.alarms, chk'.failed)
                        /\ Unbound => chk'.report.alarms # {}
    BY <2>1, <2>3, <2>4, <2>5 DEF CauseRight
  <2>7. CASE chk.wantHolder = NoReg /\ chk.lapsed = NoReg
    <3>1. ~truth.moved => ~FenceGone
      BY <1>1, <2>4, <2>7, Promises DEF FenceGone
    <3>2. pc' = AfterAPTPL
      BY <2>3, <2>7 DEF AfterRegs
    <3> QED
      BY <1>1, <2>1, <2>3, <2>6, <3>1, <3>2, FileEnds DEF Loss
  <2>8. CASE chk.wantHolder # NoReg \/ chk.lapsed # NoReg
    <3>1. /\ pc' \in {"want_holder", "lapsed_holder"}
          /\ pc' = "want_holder" => chk.wantHolder # NoReg
          /\ pc' = "lapsed_holder" => chk.lapsed # NoReg
      BY <2>3, <2>8 DEF AfterRegs
    <3>2. pc' \in FileReads \ {"saved"}
      BY <3>1 DEF FileReads
    <3> QED
      BY <1>1, <2>1, <2>3, <2>4, <2>6, <3>1, <3>2, FileGoes
  <2> QED
    BY <2>7, <2>8
<1>3. CASE FailedRead(AfterAPTPL, Unread)
  BY <1>1, <1>3, UnreadStep
<1> QED
  BY <1>2, <1>3 DEF ReadRegistrations

\* A holder that the kernel would bind and that another host holds in its
\* place has lost its registration: a live one at its nexus would have it.
LEMMA ReadWantHolderStep == ASSUME Inv, ReadWantHolder PROVE Inv'
<1>1. /\ TypeOK /\ DataInv /\ RecordInv /\ CheckInv /\ chk \in Check
      /\ pc = "want_holder" /\ pc \in FileReads /\ AfterAPTPL \in PC \ {"idle"}
  BY AfterIs DEF Inv, DataInv, TypeOK, ReadWantHolder, FileReads
<1> DEFINE a == HolderAlarm(chk.wantHolder)
<1>2. CASE Read(AfterAPTPL, Alarmed(a))
  <2>1. a \in SUBSET Alarm /\ (a # {} <=> held.host # chk.wantHolder.host)
    BY DEF HolderAlarm, Alarm
  <2> HIDE DEF a
  <2>2. /\ Alarmed(a) \in Check /\ Alarmed(a).kind = chk.kind /\ Alarmed(a).failed = chk.failed
        /\ Alarmed(a).report.strand = chk.report.strand
        /\ Alarmed(a).report.alarms = chk.report.alarms \cup a
    BY <1>1, <2>1, AlarmedIs
  <2>3. Goes /\ pc' = AfterAPTPL /\ chk' = Alarmed(a)
    BY <1>1, <1>2, <2>2, ReadGoes
  <2>4. ~truth.moved =>
          /\ CauseRight(chk.report.alarms, chk.failed)
          /\ Unbound => chk.report.alarms # {}
          /\ chk.wantHolder = saved.held /\ saved.held \in Want /\ saved.held # NoReg
    BY <1>1, Promises DEF CheckInv, AlarmInv
  <2>5. ~truth.moved /\ a # {} => Unbound \/ FenceGone
    <3> SUFFICES ASSUME ~truth.moved, held.host # saved.held.host, ~Unbound, held # NoReg
                 PROVE  FALSE
      BY <2>1, <2>4 DEF FenceGone
    <3>1. saved.held \in saved.regs /\ KernelBinds(saved.held)
      BY <1>1, <2>4, ExportedIsBound DEF Want
    <3>2. PICK g \in regs : g.host = saved.held.host
      BY <3>1 DEF Unbound
    <3>3. KernelBinds(g)
      BY <1>1 DEF RecordInv
    <3>4. SameNexus(g, saved.held)
      BY <3>1, <3>2, <3>3 DEF SameNexus, KernelBinds
    <3> QED
      BY <1>1, <2>4, <3>4 DEF RecordInv
  <2>6. ~truth.moved /\ FenceGone => a # {}
    <3>1. ~truth.moved => saved.held.host \in Host
      BY <1>1, <2>4, Promises DEF Reg
    <3> QED
      BY <2>1, <2>4, <3>1, NothingTyped, FencingAssumption DEF FenceGone
  <2>7. ~truth.moved => /\ CauseRight(chk'.report.alarms, chk'.failed)
                        /\ Loss => chk'.report.alarms # {}
    BY <2>2, <2>3, <2>4, <2>5, <2>6 DEF CauseRight, Loss
  <2> QED
    BY <1>1, <2>2, <2>3, <2>7, FileEnds
<1>3. CASE FailedRead(AfterAPTPL, Unread)
  BY <1>1, <1>3, UnreadStep
<1> QED
  BY <1>2, <1>3 DEF ReadWantHolder

LEMMA ReadLapsedHolderStep == ASSUME Inv, ReadLapsedHolder PROVE Inv'
<1>1. /\ TypeOK /\ DataInv /\ CheckInv /\ chk \in Check
      /\ pc = "lapsed_holder" /\ pc \in FileReads /\ AfterAPTPL \in PC \ {"idle"}
  BY AfterIs DEF Inv, TypeOK, ReadLapsedHolder, FileReads
<1> DEFINE a == LapsedAlarm(chk.lapsed)
<1>2. CASE Read(AfterAPTPL, Alarmed(a))
  <2>1. a \in SUBSET Alarm /\ (a # {} <=> held = NoReg /\ Survivors(chk.lapsed.host) # {})
    BY DEF LapsedAlarm, Alarm
  <2> HIDE DEF a
  <2>2. /\ Alarmed(a) \in Check /\ Alarmed(a).kind = chk.kind /\ Alarmed(a).failed = chk.failed
        /\ Alarmed(a).report.strand = chk.report.strand
        /\ Alarmed(a).report.alarms = chk.report.alarms \cup a
    BY <1>1, <2>1, AlarmedIs
  <2>3. Goes /\ pc' = AfterAPTPL /\ chk' = Alarmed(a)
    BY <1>1, <1>2, <2>2, ReadGoes
  <2>4. ~truth.moved =>
          /\ CauseRight(chk.report.alarms, chk.failed)
          /\ Unbound => chk.report.alarms # {}
          /\ chk.lapsed = saved.held /\ saved.held # NoReg
    BY <1>1, Promises DEF CheckInv, AlarmInv
  <2>5. ~truth.moved => /\ CauseRight(chk'.report.alarms, chk'.failed)
                        /\ Loss => chk'.report.alarms # {}
    BY <2>1, <2>2, <2>3, <2>4 DEF CauseRight, Loss, FenceGone, Survivors
  <2> QED
    BY <1>1, <2>2, <2>3, <2>5, FileEnds
<1>3. CASE FailedRead(AfterAPTPL, Unread)
  BY <1>1, <1>3, UnreadStep
<1> QED
  BY <1>2, <1>3 DEF ReadLapsedHolder

LEMMA PublishStep == ASSUME Inv, Publish PROVE Inv'
<1>1. /\ TypeOK /\ DataInv /\ CheckInv /\ chk \in Check /\ pc = "publish"
      /\ pub' = chk.report /\ pc' = "idle" /\ chk' = NoCheck
      /\ truth' = [moved |-> FALSE, pubMoved |-> truth.moved, pubFailed |-> chk.failed]
      /\ UNCHANGED <<config, reservation, sessions, events>>
  BY DEF Inv, TypeOK, Publish
<1>2. /\ pub' \in Report /\ truth' \in Truth
      /\ truth'.pubMoved = truth.moved /\ truth'.pubFailed = chk.failed
  BY <1>1 DEF TypeOK, Truth, Check
<1>3. TypeOK'
  BY <1>1, <1>2, NoCheckTyped, SameMaps DEF TypeOK, config, reservation, sessions, PC
<1>4. DataInv'
  BY <1>1, SameMaps DEF DataInv, SessionInv, MapInv, RecordInv, config, reservation, sessions
<1>5. CheckInv'
  BY <1>1 DEF CheckInv
<1>6. ~truth.moved => /\ StrandRight(chk.report.strand, chk.failed)
                      /\ CauseRight(chk.report.alarms, chk.failed)
                      /\ Loss => chk.report.alarms # {}
  BY <1>1 DEF CheckInv, StrandInv, AlarmInv, StrandDone, FileDone
<1>7. PubInv'
  BY <1>1, <1>2, <1>6, SameData DEF PubInv, Current, StrandRight, CauseRight
<1> QED
  BY <1>3, <1>4, <1>5, <1>7 DEF Inv

(***************************************************************************)
(* The invariant holds.                                                    *)
(***************************************************************************)

LEMMA InitInv == Init => Inv
<1> SUFFICES ASSUME Init PROVE Inv
  OBVIOUS
<1>1. PICK l \in Lun : lun = [v \in Volume |-> [h \in Host |-> IF v = "vol" THEN l ELSE 0]]
  BY DEF Init
<1>2. PICK s \in Isid : sess = [h \in Host |-> {s}] /\ shown = [h \in Host |-> s]
  BY DEF Init
<1>3. /\ index = [v \in Volume |-> IF v = "vol" THEN 0 ELSE NoIndex]
      /\ regs = {} /\ held = NoReg /\ rtype = FirstType /\ dormant = NoFile /\ saved = NoFile
      /\ pc = "idle" /\ chk = NoCheck /\ pub = NoReport /\ events = 0
      /\ truth = [moved |-> FALSE, pubMoved |-> FALSE, pubFailed |-> FALSE]
  BY DEF Init
<1>4. \A v \in Volume : index[v] = NoIndex <=> Connected(v) = {}
  <2>1. Connected("vol") = Host /\ Connected("other") = {}
    BY <1>1, FencingAssumption DEF Connected, Volume
  <2>2. index["vol"] = 0 /\ index["other"] = NoIndex
    BY <1>3 DEF Volume
  <2> QED
    BY <2>1, <2>2, TwoVolumes, FencingAssumption DEF Volume
<1>5. TypeOK
  <2>1. lun \in [Volume -> [Host -> Lun \cup {0}]]
    BY <1>1
  <2>2. index \in [Volume -> Index]
    BY <1>3, TwoVolumes
  <2>3. truth \in Truth /\ events \in 0..MaxEvents
    BY <1>3, FencingAssumption DEF Truth
  <2> QED
    BY <1>2, <1>3, <1>4, <2>1, <2>2, <2>3, NothingTyped, NoCheckTyped DEF TypeOK, PC
<1>6. DataInv
  <2>1. SessionInv
    BY <1>2 DEF SessionInv
  <2>2. MapInv
    BY <1>1, <1>3, TwoVolumes DEF MapInv, Volume
  <2>3. RecordInv
    BY <1>3, NothingTyped DEF RecordInv, FileOK
  <2> QED
    BY <2>1, <2>2, <2>3 DEF DataInv
<1>7. CheckInv /\ PubInv
  BY <1>3, NothingTyped
  DEF CheckInv, PubInv, StrandRight, CauseRight, Stranded, Loss, Unbound, FenceGone
<1> QED
  BY <1>5, <1>6, <1>7 DEF Inv

LEMMA NextInv == ASSUME Inv, [Next]_vars PROVE Inv'
<1>1. CASE UNCHANGED vars
  <2>1. UNCHANGED <<config, reservation, sessions, checking, events, truth>>
    BY <1>1 DEF vars
  <2>2. TypeOK'
    BY <2>1, SameMaps DEF Inv, TypeOK, config, reservation, sessions, checking
  <2>3. DataInv'
    BY <2>1, SameMaps
    DEF Inv, DataInv, SessionInv, MapInv, RecordInv, config, reservation, sessions
  <2>4. UNCHANGED <<pc, chk, pub, truth, held, rtype, shown>>
    BY <2>1 DEF checking, reservation, sessions
  <2>5. (StrandInv /\ AlarmInv) => (StrandInv' /\ AlarmInv')
    BY <2>1, <2>4, SameData
    DEF StrandInv, AlarmInv, StrandRight, CauseRight, StrandDone, FileDone
  <2>6. CheckInv'
    BY <2>4, <2>5 DEF Inv, CheckInv
  <2>7. PubInv'
    BY <2>1, <2>4, SameData DEF Inv, PubInv, Current, StrandRight, CauseRight
  <2> QED
    BY <2>2, <2>3, <2>6, <2>7 DEF Inv
<1>2. CASE Initiators
  BY <1>2, LoginStep, LogoutStep, ActivityStep, PROutStep DEF Initiators
<1>3. CASE Operator
  BY <1>3, ConnectStep, DisconnectStep, RebootStep DEF Operator
<1>4. CASE RecheckPR
  BY <1>4, RecheckPRStep
<1>5. CASE CheckStep
  BY <1>5, ReadVisibleStep, ReadLiveStep, ReadHolderStep, ReadTypeStep, ReadInfoStep,
     ReadBlindForStep, ReadSavedStep, ReadRegistrationsStep, ReadWantHolderStep, ReadLapsedHolderStep, PublishStep
  DEF CheckStep
<1> QED
  BY <1>1, <1>2, <1>3, <1>4, <1>5 DEF Next

LEMMA SpecInv == Spec => []Inv
BY InitInv, NextInv, PTL DEF Spec

(***************************************************************************)
(* The properties.                                                         *)
(***************************************************************************)

\* Every variable has its type in every reachable state; in particular the
\* holder is a registrant, and an export index is held exactly while somebody
\* is mapped to the volume (exportIndex, pruning).
THEOREM TypeCorrect == Spec => []TypeOK
<1>1. Inv => TypeOK
  BY DEF Inv
<1> QED
  BY <1>1, SpecInv, PTL

\* With any number of initiators and of sessions each, of which an ACL renders
\* one: what StrandedReservations reports as stranded, with the type read, is
\* stranded, and a stranded reservation is reported or said to be undecided.
\* What it reports on the strength of a failed read is a mismatch at least.
THEOREM StrandVerdictExact == Spec => []StrandExact
<1>1. Inv => StrandExact
  BY DEF Inv, PubInv, StrandRight, StrandExact
<1> QED
  BY <1>1, SpecInv, PTL

\* A saved registration that the kernel would bind and does not have, and a
\* saved reservation nobody holds while another host is mapped, are reported
\* by verifyAPTPL, reads that fail included.
THEOREM LossIsReported == Spec => []LossReported
<1>1. Inv => LossReported
  BY DEF Inv, PubInv, Loss, LossReported
<1> QED
  BY <1>1, SpecInv, PTL

\* verifyAPTPL raises no alarm, its reads having succeeded, about what no
\* export that exists now has lost: not after a disconnect, nor because a LUN
\* number or an export index serves another volume.
THEOREM NoFalseAlarm == Spec => []AlarmHasCause
<1>1. Inv => AlarmHasCause
  BY DEF Inv, PubInv, CauseRight, AlarmHasCause
<1> QED
  BY <1>1, SpecInv, PTL
=============================================================================
