------------------------- MODULE ReservationsProofs -------------------------
(***************************************************************************)
(* The invariants of module Reservations, proved for every set of objects  *)
(* and hosts.  Inv is the inductive invariant: the properties,             *)
(* strengthened by what each step of ClearReservation relies on (StepInv)  *)
(* and by where the record of a reservation is while it is not yet in      *)
(* effect (FenceInv).                                                      *)
(***************************************************************************)
EXTENDS Reservations, TLAPS

ClearSteps == {"prune", "recover", "rebuild", "discard", "verify", "verdict",
               "readHolder", "readVerdict", "rebuildFailed", "readFailed"}

\* The steps that only a reconcile that succeeded leads to.
Settled == {"idle", "discard", "verify", "verdict", "readHolder", "readVerdict"}

Converged ==
  /\ dev = WantDev
  /\ \A o \in Object : ml[o] = Want(o) /\ (o \notin dev => loaded[o] = NoFile)

\* What is known at each step: which object is being cleared, that it is out
\* of the kernel when its record is removed, that nothing but the operation
\* in flight or a hold keeps an object out of desiredLIO.
StepInv ==
  /\ IF pc \in ClearSteps THEN clearing \in objs ELSE clearing = NoObj
  /\ IF pc \in {"prune", "discard"} THEN prClearing = clearing
                                    ELSE prClearing \notin objs \ withheld
  /\ pc \in Settled \ {"idle"} => ~degraded
  /\ pc \in {"rebuildFailed", "readFailed"} => degraded
  /\ pc \in Settled /\ ~degraded => Converged

\* A backstore whose restore stopped half way has the reservation that is owed
\* with its holder, if it has that record at all: resuming the restore does not
\* depend on where the pass before it stopped.
LoadedInv ==
  \A o \in Object \ dev :
    fence[o] # NoHost /\ fence[o] \in loaded[o].reg => loaded[o].holder = fence[o]

\* f is a record from which the kernel restores the reservation of h.
Saves(f, h) == h \in f.reg /\ f.holder = h

\* The reservation that is owed is in effect as soon as its holder is mapped,
\* and before that in the record that the mapping will bind, or on file.
FenceInv ==
  \A o \in Object : fence[o] # NoHost =>
    /\ o \in objs /\ o # prClearing /\ o \notin withheld /\ fence[o] \in conn[o]
    /\ \A f \in {file[o], stable[o]} : f.state = "torn" \/ Saves(f, fence[o])
    /\ fence[o] \in ml[o] => holder[o] = fence[o]
    /\ fence[o] \notin ml[o] => /\ ~up /\ holder[o] = NoHost
                                /\ o \in dev => Saves(loaded[o], fence[o])

\* A record that was proven gone is nowhere, not even where a power loss
\* could find it: true only where an unlink survives one.
GoneInv ==
  UnlinkDurable =>
    \A o \in cleared : /\ reg[o] = {} /\ holder[o] = NoHost /\ loaded[o].reg = {}
                       /\ file[o].reg = {} /\ stable[o].reg = {}

Inv ==
  /\ TypeOK
  /\ StepInv
  /\ LoadedInv
  /\ WithheldIsAbsent
  /\ FenceInv
  /\ GoneInv

LEMMA FileFacts ==
  /\ NoFile \in File /\ Torn \in File
  /\ NoFile.reg = {} /\ NoFile.holder = NoHost /\ NoFile.state = "none"
  /\ Torn.reg = {} /\ Torn.state = "torn"
BY DEF NoFile, Torn, File

LEMMA InitInv == Init => Inv
<1> SUFFICES ASSUME Init PROVE Inv
  OBVIOUS
<1> USE ReservationsAssumption DEF Init
<1>1. TypeOK
  BY FileFacts DEF TypeOK, PC, Reconciles, Report
<1>2. StepInv
  BY DEF StepInv, ClearSteps, Settled
<1>3. LoadedInv /\ WithheldIsAbsent /\ FenceInv /\ GoneInv
  BY DEF LoadedInv, WithheldIsAbsent, FenceInv, GoneInv
<1> QED
  BY <1>1, <1>2, <1>3 DEF Inv

\* A step of the daemon that touches neither the db nor the kernel nor a file
\* disturbs nothing but its own program counter.
LEMMA QuietStep ==
  ASSUME Inv, UNCHANGED <<db, tree, files, fence, cleared>>, StepInv',
         prClearing' \in {prClearing, NoObj}, clearing' \in {clearing, NoObj},
         withheld' \in {withheld, {}}, degraded' \in BOOLEAN,
         pc' \in PC, seen' \in SUBSET Host, report' \in Report
  PROVE  Inv'
<1> USE ReservationsAssumption DEF db, tree, pr, files
<1>1. TypeOK'
  BY DEF Inv, TypeOK
<1>2. LoadedInv' /\ WithheldIsAbsent'
  BY DEF Inv, LoadedInv, WithheldIsAbsent
<1>3. FenceInv'
  BY DEF Inv, FenceInv, Saves
<1>4. GoneInv'
  BY DEF Inv, GoneInv
<1> QED
  BY <1>1, <1>2, <1>3, <1>4 DEF Inv

LEMMA SameConverged ==
  ASSUME Converged, UNCHANGED <<objs, conn, dev, ml, loaded, prClearing, withheld>>
  PROVE  Converged'
<1>1. \A o \in Object : (ml[o] = Want(o) /\ (o \notin dev => loaded[o] = NoFile))'
  BY DEF Converged, Want
<1>2. (dev = WantDev)'
  BY DEF Converged, WantDev, Want
<1> QED
  BY <1>1, <1>2 DEF Converged

LEMMA ReconcileOKStep == ASSUME Inv, ReconcileOK PROVE Inv'
<1> USE DEF db, tree, pr, files, history
<1>1. pc \in Reconciles /\ Converged
  BY DEF ReconcileOK, Pruned, AddsDone, DevsDone, Reconciling, Present, Converged
<1>2. Converged'
  BY <1>1, SameConverged DEF ReconcileOK
<1>3. /\ pc' \in PC /\ (pc' \in ClearSteps <=> pc \in ClearSteps)
      /\ (pc' \in {"prune", "discard"} <=> pc = "prune") /\ pc # "discard"
      /\ pc' \notin {"rebuildFailed", "readFailed"}
  BY <1>1 DEF ReconcileOK, AfterOK, Reconciles, PC, ClearSteps
<1>4. StepInv'
  BY <1>1, <1>2, <1>3 DEF ReconcileOK, Inv, StepInv
<1> QED
  BY <1>3, <1>4, QuietStep DEF ReconcileOK, Inv, TypeOK

LEMMA ReconcileFailedStep == ASSUME Inv, ReconcileFailed PROVE Inv'
<1> USE DEF db, tree, pr, files, history
<1>1. /\ pc' \in PC /\ pc' \notin {"prune", "discard"} \cup (Settled \ {"idle"})
      /\ (pc' \in ClearSteps <=> pc \in ClearSteps \ {"recover"})
      /\ pc # "discard"
      /\ pc' # "down" => degraded'
      /\ pc \in Reconciles
  BY DEF ReconcileFailed, Reconciling, AfterFailure, Reconciles, PC, ClearSteps, Settled
<1>2. StepInv'
  BY <1>1, ReservationsAssumption DEF ReconcileFailed, Inv, TypeOK, StepInv, ClearSteps,
     Settled, Reconciles
<1> QED
  BY <1>1, <1>2, QuietStep DEF ReconcileFailed, Inv, TypeOK, Report

\* PRState and the answers: nothing in the kernel moves.
LEMMA ReadStep ==
  ASSUME Inv, \/ ReadRegs("verify", "readHolder") \/ ReadRegs("verdict", "readVerdict")
              \/ ReadRegs("rebuildFailed", "readFailed")
  PROVE  Inv'
<1> USE DEF db, tree, pr, files, history, daemon
<1>1. /\ clearing \in objs /\ seen' \in SUBSET Host
      /\ UNCHANGED <<db, tree, files, daemon, history>>
  BY DEF ReadRegs, Inv, TypeOK, StepInv, ClearSteps
<1>2. \/ pc \in {"verify", "verdict"} /\ pc' \in {"readHolder", "readVerdict"}
      \/ pc = "rebuildFailed" /\ pc' = "readFailed"
  BY DEF ReadRegs
<1>3. pc \in Settled /\ ~degraded => Converged'
  BY <1>1, SameConverged DEF Inv, StepInv
<1>4. StepInv'
  BY <1>1, <1>2, <1>3 DEF Inv, StepInv, ClearSteps, Settled
<1>5. pc' \in PC
  BY <1>2 DEF PC
<1> QED
  BY <1>1, <1>4, <1>5, QuietStep DEF Inv, TypeOK

LEMMA AnswerStep ==
  ASSUME Inv, VerifyCleared \/ RecoverVerdict \/ RebuildVerdict PROVE Inv'
<1> USE DEF db, tree, pr, files, history
<1>1. /\ clearing' = NoObj /\ pc' = "idle" /\ report' \in Report
      /\ UNCHANGED <<db, tree, files, prClearing, withheld, degraded, seen, fence, cleared>>
  BY DEF VerifyCleared, RecoverVerdict, RebuildVerdict, Answer, Verified, Verdict, Report
<1>2. pc \in {"verify", "readHolder", "verdict", "readVerdict", "rebuildFailed", "readFailed"}
  BY DEF VerifyCleared, RecoverVerdict, RebuildVerdict
<1>3. ~degraded => Converged'
  BY <1>1, <1>2, SameConverged DEF Inv, StepInv, Settled
<1>4. StepInv'
  BY <1>1, <1>2, <1>3 DEF Inv, StepInv, ClearSteps, Settled
<1>5. "idle" \in PC
  BY DEF PC
<1> QED
  BY <1>1, <1>4, <1>5, QuietStep DEF Inv, TypeOK

LEMMA HealOpenCrashStep == ASSUME Inv, Heal \/ Open \/ Crash PROVE Inv'
<1> USE ReservationsAssumption DEF db, tree, pr, files, history, daemon
<1>1. CASE Heal \/ Open
  <2>1. pc' \in {"reconcile", "replay"} /\ pc \in {"idle", "down"}
        /\ UNCHANGED <<db, tree, files, daemon, seen, history>>
    BY <1>1 DEF Heal, Open
  <2>2. StepInv' /\ pc' \in PC
    BY <2>1 DEF Inv, StepInv, ClearSteps, Settled, PC, Reconciles
  <2> QED
    BY <2>1, <2>2, QuietStep DEF Inv, TypeOK
<1>2. CASE Crash
  <2>1. /\ prClearing' = NoObj /\ clearing' = NoObj /\ withheld' = {} /\ degraded' = FALSE
        /\ pc' = "down" /\ seen' = {}
        /\ UNCHANGED <<db, tree, files, history>>
    BY <1>2 DEF Crash, DaemonGone
  <2>2. StepInv' /\ pc' \in PC
    BY <2>1 DEF Inv, TypeOK, StepInv, ClearSteps, Settled, PC
  <2> QED
    BY <2>1, <2>2, QuietStep DEF Inv, TypeOK
<1> QED
  BY <1>1, <1>2

\* A PR OUT leaves the holder registered and the registered mapped.
LEMMA PROutcomeFacts ==
  ASSUME TypeOK, NEW o \in Object, NEW h \in ml[o], NEW r \in PROutcomes(o, h)
  PROVE  /\ r[1] \in SUBSET ml[o] /\ r[1] \in SUBSET Host
         /\ r[2] \in Host \cup {NoHost} /\ r[2] \in r[1] \cup {NoHost}
<1>1. h \in Host /\ reg[o] \subseteq ml[o] /\ ml[o] \subseteq Host
      /\ holder[o] \in reg[o] \cup {NoHost}
  BY DEF TypeOK
<1> QED
  BY <1>1, ReservationsAssumption DEF PROutcomes

LEMMA PROutStep == ASSUME Inv, NEW o \in Object, NEW h \in Host, PROut(o, h) PROVE Inv'
<1> USE DEF db, daemon
<1>1. PICK r \in PROutcomes(o, h) :
         /\ reg' = [reg EXCEPT ![o] = r[1]]
         /\ holder' = [holder EXCEPT ![o] = r[2]]
         /\ fence' = [fence EXCEPT ![o] = IF r[2] \in Want(o) THEN r[2] ELSE NoHost]
         /\ file' = [file EXCEPT ![o] = [state |-> "ok", reg |-> r[1], holder |-> r[2]]]
         /\ stable' = [stable EXCEPT ![o] = [state |-> "ok", reg |-> r[1], holder |-> r[2]]]
  BY DEF PROut
<1>2. /\ up /\ h \in ml[o] /\ cleared' = cleared \ {o}
      /\ UNCHANGED <<db, dev, ml, up, loaded, daemon, pc, seen, report>>
  BY DEF PROut, CanReach
<1> DEFINE f == [state |-> "ok", reg |-> r[1], holder |-> r[2]]
<1>3. /\ r[1] \in SUBSET ml[o] /\ r[1] \in SUBSET Host
      /\ r[2] \in Host \cup {NoHost} /\ r[2] \in r[1] \cup {NoHost}
  BY <1>2, PROutcomeFacts DEF Inv
<1>4. f \in File /\ f.reg = r[1] /\ f.holder = r[2]
  BY <1>3 DEF File
<1> HIDE DEF f
<1>5. /\ reg'[o] = r[1] /\ holder'[o] = r[2] /\ file'[o] = f /\ stable'[o] = f
      /\ fence'[o] = IF r[2] \in Want(o) THEN r[2] ELSE NoHost
      /\ \A p \in Object : p # o => /\ reg'[p] = reg[p] /\ holder'[p] = holder[p]
                                    /\ file'[p] = file[p] /\ stable'[p] = stable[p]
                                    /\ fence'[p] = fence[p]
  BY <1>1 DEF Inv, TypeOK, f
<1>6. TypeOK'
  <2>1. /\ reg' \in [Object -> SUBSET Host] /\ holder' \in [Object -> Host \cup {NoHost}]
        /\ file' \in [Object -> File] /\ stable' \in [Object -> File]
        /\ fence' \in [Object -> Host \cup {NoHost}] /\ cleared' \subseteq Object
    BY <1>1, <1>2, <1>3, <1>4 DEF Inv, TypeOK, f
  <2> QED
    BY <1>2, <1>3, <1>5, <2>1 DEF Inv, TypeOK
<1>7. StepInv'
  <2>1. Converged => Converged'
    BY <1>2, SameConverged
  <2> QED
    BY <1>2, <2>1 DEF Inv, StepInv
<1>8. LoadedInv' /\ WithheldIsAbsent'
  BY <1>2, <1>5 DEF Inv, TypeOK, LoadedInv, WithheldIsAbsent
<1>9. FenceInv'
  <2> SUFFICES ASSUME NEW p \in Object, fence'[p] # NoHost
               PROVE  /\ p \in objs /\ p # prClearing /\ p \notin withheld
                      /\ fence'[p] \in conn[p]
                      /\ \A g \in {file'[p], stable'[p]} :
                            g.state = "torn" \/ Saves(g, fence'[p])
                      /\ fence'[p] \in ml[p] => holder'[p] = fence'[p]
                      /\ fence'[p] \notin ml[p] => /\ ~up /\ holder'[p] = NoHost
                                                   /\ p \in dev => Saves(loaded[p], fence'[p])
    BY <1>2 DEF FenceInv, Saves
  <2>1. CASE p = o
    <3>1. r[2] \in Want(o) /\ fence'[o] = r[2] /\ r[2] \in r[1]
      BY <1>3, <1>5, <2>1
    <3> QED
      BY <1>3, <1>4, <1>5, <2>1, <3>1 DEF Want, Saves
  <2>2. CASE p # o
    BY <1>5, <2>2 DEF Inv, FenceInv
  <2> QED
    BY <2>1, <2>2
<1>10. GoneInv'
  BY <1>2, <1>5 DEF Inv, TypeOK, GoneInv
<1> QED
  BY <1>6, <1>7, <1>8, <1>9, <1>10 DEF Inv

\* One record more is with a backstore that is not enabled yet.
LEMMA LoadAPTPLStep ==
  ASSUME Inv, NEW o \in Object, NEW h \in Host, LoadAPTPL(o, h) PROVE Inv'
<1> USE DEF db, files, daemon, history
<1> DEFINE f == [state |-> "ok", reg |-> loaded[o].reg \cup {h},
                 holder |-> IF file[o].holder = h THEN h ELSE loaded[o].holder]
<1>1. /\ pc \in Reconciles /\ o \notin dev /\ file[o].state # "torn" /\ h \in file[o].reg
      /\ UNCHANGED <<db, dev, ml, up, reg, holder, files, daemon, pc, seen, history>>
  BY DEF LoadAPTPL, Reconciling, Readable
<1>2. f \in File
  BY DEF Inv, TypeOK, File
<1>3. /\ f.reg = loaded[o].reg \cup {h}
      /\ f.holder = IF file[o].holder = h THEN h ELSE loaded[o].holder
  OBVIOUS
<1>4. loaded' = [loaded EXCEPT ![o] = f]
  BY DEF Inv, TypeOK, LoadAPTPL
<1> HIDE DEF f
<1>5. /\ loaded'[o] = f /\ \A p \in Object : p # o => loaded'[p] = loaded[p]
      /\ loaded' \in [Object -> File]
  BY <1>2, <1>4 DEF Inv, TypeOK
<1>6. TypeOK'
  BY <1>1, <1>5 DEF Inv, TypeOK
<1>7. StepInv'
  BY <1>1 DEF Inv, StepInv, Reconciles, Settled
<1>8. LoadedInv' /\ WithheldIsAbsent'
  <2>1. fence[o] # NoHost => Saves(file[o], fence[o])
    BY <1>1 DEF Inv, FenceInv
  <2> QED
    BY <1>1, <1>3, <1>5, <2>1 DEF Inv, LoadedInv, WithheldIsAbsent, Saves
<1>9. FenceInv'
  BY <1>1, <1>5 DEF Inv, FenceInv, Saves
<1>10. GoneInv'
  BY <1>1, <1>3, <1>5 DEF Inv, GoneInv, TypeOK
<1> QED
  BY <1>6, <1>7, <1>8, <1>9, <1>10 DEF Inv

\* What is enabled has every record of its file, that of the owed reservation
\* among them.
LEMMA EnableBackstoreStep ==
  ASSUME Inv, NEW o \in Object, EnableBackstore(o) PROVE Inv'
<1> USE DEF db, pr, files, daemon, history
<1>1. /\ pc \in Reconciles /\ o \notin dev /\ Want(o) # {} /\ file[o].state # "torn"
      /\ file[o].reg \subseteq loaded[o].reg /\ dev' = dev \cup {o}
      /\ UNCHANGED <<db, ml, up, pr, files, daemon, pc, seen, history>>
  BY DEF EnableBackstore, Restored, Reconciling, WantDev, Readable
<1>2. o \in objs /\ o # prClearing /\ o \notin withheld
  BY <1>1 DEF Want
<1>3. TypeOK'
  BY <1>1 DEF Inv, TypeOK
<1>4. StepInv'
  BY <1>1 DEF Inv, StepInv, Reconciles, Settled
<1>5. LoadedInv' /\ WithheldIsAbsent'
  BY <1>1, <1>2 DEF Inv, LoadedInv, WithheldIsAbsent
<1>6. FenceInv'
  <2>1. fence[o] # NoHost => Saves(loaded[o], fence[o])
    BY <1>1 DEF Inv, FenceInv, LoadedInv, Saves
  <2> QED
    BY <1>1, <2>1 DEF Inv, FenceInv, Saves
<1>7. GoneInv'
  BY <1>1 DEF Inv, GoneInv
<1> QED
  BY <1>3, <1>4, <1>5, <1>6, <1>7 DEF Inv

LEMMA EnsureMappedLUNStep ==
  ASSUME Inv, NEW o \in Object, NEW h \in Host, EnsureMappedLUN(o, h) PROVE Inv'
<1> USE DEF db, files, daemon, history
<1>1. /\ pc \in Reconciles /\ h \in Want(o) /\ h \notin ml[o] /\ WantDev \subseteq dev
      /\ ml' = [ml EXCEPT ![o] = @ \cup {h}] /\ Bind(o, h)
      /\ UNCHANGED <<db, dev, up, files, daemon, pc, seen, history>>
  BY DEF EnsureMappedLUN, DevsDone, Reconciling
<1>2. o \in dev
  BY <1>1 DEF WantDev
<1>3. /\ ml'[o] = ml[o] \cup {h}
      /\ reg'[o] = IF h \in loaded[o].reg THEN reg[o] \cup {h} ELSE reg[o]
      /\ holder'[o] = IF h \in loaded[o].reg /\ loaded[o].holder = h /\ holder[o] = NoHost
                      THEN h ELSE holder[o]
      /\ \A p \in Object : p # o => /\ ml'[p] = ml[p] /\ reg'[p] = reg[p]
                                    /\ holder'[p] = holder[p] /\ loaded'[p] = loaded[p]
  BY <1>1 DEF Inv, TypeOK, Bind
<1>4. /\ loaded[o] \in File /\ loaded'[o] \in File
      /\ loaded'[o].reg = loaded[o].reg \ {h} /\ loaded'[o].holder = loaded[o].holder
  BY <1>1 DEF Inv, TypeOK, Bind, File
<1>5. TypeOK'
  <2>1. /\ ml' \in [Object -> SUBSET Host] /\ reg' \in [Object -> SUBSET Host]
        /\ holder' \in [Object -> Host \cup {NoHost}]
    BY <1>1 DEF Inv, TypeOK, Bind
  <2>2. loaded' \in [Object -> File]
    BY <1>1, <1>3, <1>4 DEF Inv, TypeOK, Bind
  <2> QED
    BY <1>1, <1>2, <1>3, <2>1, <2>2 DEF Inv, TypeOK
<1>6. StepInv'
  BY <1>1 DEF Inv, StepInv, Reconciles, Settled
<1>7. LoadedInv' /\ WithheldIsAbsent'
  BY <1>1, <1>2, <1>3 DEF Inv, LoadedInv, WithheldIsAbsent
<1>8. FenceInv'
  <2> SUFFICES ASSUME NEW p \in Object, fence[p] # NoHost
               PROVE  /\ fence[p] \in ml'[p] => holder'[p] = fence[p]
                      /\ fence[p] \notin ml'[p] => /\ ~up /\ holder'[p] = NoHost
                                                   /\ p \in dev => Saves(loaded'[p], fence[p])
    BY <1>1 DEF Inv, FenceInv, Saves
  <2>1. CASE p = o
    <3>1. /\ fence[o] \in ml[o] => holder[o] = fence[o]
          /\ fence[o] \notin ml[o] => /\ ~up /\ holder[o] = NoHost
                                      /\ Saves(loaded[o], fence[o])
      BY <1>2, <2>1 DEF Inv, FenceInv
    <3> QED
      BY <1>3, <1>4, <2>1, <3>1 DEF Saves
  <2>2. CASE p # o
    BY <1>3, <2>2 DEF Inv, FenceInv
  <2> QED
    BY <2>1, <2>2
<1>9. GoneInv'
  BY <1>1, <1>3, <1>4 DEF Inv, GoneInv, TypeOK
<1> QED
  BY <1>5, <1>6, <1>7, <1>8, <1>9 DEF Inv

LEMMA EnableTPGStep == ASSUME Inv, EnableTPG PROVE Inv'
<1> USE DEF db, pr, files, daemon, history
<1>1. /\ pc \in Reconciles /\ up' = TRUE /\ \A o \in Object : Want(o) \subseteq ml[o]
      /\ UNCHANGED <<db, dev, ml, pr, files, daemon, pc, seen, history>>
  BY DEF EnableTPG, DevsDone, Reconciling
<1>2. TypeOK' /\ LoadedInv' /\ WithheldIsAbsent' /\ GoneInv'
  BY <1>1 DEF Inv, TypeOK, LoadedInv, WithheldIsAbsent, GoneInv
<1>3. StepInv'
  BY <1>1 DEF Inv, StepInv, Reconciles, Settled
<1>4. FenceInv'
  <2>1. \A o \in Object : fence[o] # NoHost => fence[o] \in ml[o]
    BY <1>1 DEF Inv, FenceInv, Want
  <2> QED
    BY <1>1, <2>1 DEF Inv, FenceInv, Saves
<1> QED
  BY <1>2, <1>3, <1>4 DEF Inv

\* Only a host that is not wanted loses its mapped LUN, so no fence falls.
LEMMA RemoveMappedLUNStep ==
  ASSUME Inv, NEW o \in Object, NEW h \in Host, RemoveMappedLUN(o, h) PROVE Inv'
<1> USE DEF db, files, daemon, history
<1>1. /\ pc \in Reconciles /\ h \in ml[o] /\ h \notin Want(o)
      /\ ml' = [ml EXCEPT ![o] = @ \ {h}] /\ Unbind(o, h)
      /\ UNCHANGED <<db, dev, up, files, daemon, pc, seen, history>>
  BY DEF RemoveMappedLUN, AddsDone, DevsDone, Reconciling
<1>2. /\ ml'[o] = ml[o] \ {h} /\ reg'[o] = reg[o] \ {h} /\ loaded' = loaded
      /\ holder'[o] = IF holder[o] = h THEN NoHost ELSE holder[o]
      /\ \A p \in Object : p # o => /\ ml'[p] = ml[p] /\ reg'[p] = reg[p]
                                    /\ holder'[p] = holder[p]
  BY <1>1 DEF Inv, TypeOK, Unbind
<1>3. TypeOK'
  <2>1. /\ ml' \in [Object -> SUBSET Host] /\ reg' \in [Object -> SUBSET Host]
        /\ holder' \in [Object -> Host \cup {NoHost}]
    BY <1>1 DEF Inv, TypeOK, Unbind
  <2> QED
    BY <1>1, <1>2, <2>1 DEF Inv, TypeOK
<1>4. StepInv'
  BY <1>1 DEF Inv, StepInv, Reconciles, Settled
<1>5. LoadedInv' /\ WithheldIsAbsent'
  BY <1>1, <1>2 DEF Inv, LoadedInv, WithheldIsAbsent
<1>6. FenceInv'
  <2>1. \A p \in Object : fence[p] # NoHost => fence[p] \in Want(p)
    BY DEF Inv, FenceInv, Want
  <2> QED
    BY <1>1, <1>2, <2>1 DEF Inv, FenceInv, Saves
<1>7. GoneInv'
  BY <1>1, <1>2 DEF Inv, GoneInv, TypeOK
<1> QED
  BY <1>3, <1>4, <1>5, <1>6, <1>7 DEF Inv

LEMMA RemoveBackstoreStep ==
  ASSUME Inv, NEW o \in Object, RemoveBackstore(o) PROVE Inv'
<1> USE DEF db, files, daemon, history
<1>1. /\ pc \in Reconciles /\ Want(o) = {} /\ ml[o] = {}
      /\ dev' = dev \ {o} /\ reg' = [reg EXCEPT ![o] = {}]
      /\ holder' = [holder EXCEPT ![o] = NoHost] /\ loaded' = [loaded EXCEPT ![o] = NoFile]
      /\ UNCHANGED <<db, ml, up, files, daemon, pc, seen, history>>
  BY DEF RemoveBackstore, Pruned, AddsDone, DevsDone, Reconciling, WantDev, Present
<1>2. /\ reg'[o] = {} /\ holder'[o] = NoHost /\ loaded'[o] = NoFile
      /\ \A p \in Object : p # o => /\ reg'[p] = reg[p] /\ holder'[p] = holder[p]
                                    /\ loaded'[p] = loaded[p]
  BY <1>1 DEF Inv, TypeOK
<1>3. TypeOK'
  <2>1. /\ reg' \in [Object -> SUBSET Host] /\ holder' \in [Object -> Host \cup {NoHost}]
        /\ loaded' \in [Object -> File]
    BY <1>1, FileFacts DEF Inv, TypeOK
  <2> QED
    BY <1>1, <1>2, <2>1 DEF Inv, TypeOK
<1>4. StepInv'
  BY <1>1 DEF Inv, StepInv, Reconciles, Settled
<1>5. fence[o] = NoHost
  BY <1>1 DEF Inv, FenceInv, Want
<1>6. LoadedInv' /\ WithheldIsAbsent' /\ FenceInv'
  BY <1>1, <1>2, <1>5 DEF Inv, LoadedInv, WithheldIsAbsent, FenceInv, Saves
<1>7. GoneInv'
  BY <1>1, <1>2, FileFacts DEF Inv, GoneInv, TypeOK
<1> QED
  BY <1>3, <1>4, <1>6, <1>7 DEF Inv

LEMMA ClearReservationStep ==
  ASSUME Inv, NEW o \in Object, ClearReservation(o) PROVE Inv'
<1> USE DEF db, tree, pr, files
<1>1. /\ o \in objs /\ clearing' = o /\ prClearing' = o /\ pc' = "prune" /\ report' = "none"
      /\ fence' = [fence EXCEPT ![o] = NoHost]
      /\ UNCHANGED <<db, tree, files, withheld, degraded, seen, cleared>>
  BY DEF ClearReservation
<1>2. fence'[o] = NoHost /\ \A p \in Object : p # o => fence'[p] = fence[p]
  BY <1>1 DEF Inv, TypeOK
<1>3. TypeOK'
  BY <1>1, <1>2 DEF Inv, TypeOK, PC, Reconciles, Report
<1>4. StepInv'
  BY <1>1 DEF StepInv, ClearSteps, Settled
<1>5. LoadedInv' /\ WithheldIsAbsent' /\ GoneInv'
  BY <1>1, <1>2 DEF Inv, LoadedInv, WithheldIsAbsent, GoneInv
<1>6. FenceInv'
  BY <1>1, <1>2 DEF Inv, FenceInv, Saves
<1> QED
  BY <1>3, <1>4, <1>5, <1>6 DEF Inv

\* When its saved record is removed, the object is out of the kernel.
LEMMA DiscardFacts ==
  ASSUME Inv, pc = "discard"
  PROVE  /\ clearing \in Object /\ clearing \in objs /\ prClearing = clearing
         /\ clearing \notin dev /\ ml[clearing] = {} /\ reg[clearing] = {}
         /\ holder[clearing] = NoHost /\ loaded[clearing] = NoFile
         /\ fence[clearing] = NoHost
<1>1. /\ clearing \in objs /\ clearing \in Object /\ prClearing = clearing /\ Converged
  BY DEF Inv, TypeOK, StepInv, ClearSteps, Settled
<1>2. clearing \notin dev /\ ml[clearing] = {} /\ loaded[clearing] = NoFile
  BY <1>1 DEF Converged, WantDev, Want
<1> QED
  BY <1>1, <1>2 DEF Inv, TypeOK, FenceInv

\* An unlink changes the saved record of one object, and perhaps not even for
\* a power loss.
LEMMA UnlinkedFacts ==
  ASSUME Inv, NEW o \in Object, Unlinked(o) \/ UNCHANGED files
  PROVE  /\ file' \in [Object -> File] /\ stable' \in [Object -> File]
         /\ \A p \in Object : p # o => file'[p] = file[p] /\ stable'[p] = stable[p]
         /\ UnlinkDurable => /\ file'[o].reg \subseteq file[o].reg
                             /\ stable'[o].reg \subseteq stable[o].reg
BY FileFacts, ReservationsAssumption DEF Inv, TypeOK, Unlinked, files

LEMMA DiscardOKStep == ASSUME Inv, DiscardOK PROVE Inv'
<1> USE DEF db, tree, pr, files
<1>1. /\ Unlinked(clearing) /\ pc = "discard" /\ cleared' = cleared \cup {clearing}
      /\ withheld' = withheld \ {clearing} /\ prClearing' = NoObj /\ pc' = "rebuild"
      /\ UNCHANGED <<db, tree, clearing, degraded, seen, fence, report>>
  BY DEF DiscardOK
<1>2. /\ clearing \in Object /\ clearing \in objs /\ reg[clearing] = {}
      /\ holder[clearing] = NoHost /\ loaded[clearing] = NoFile /\ fence[clearing] = NoHost
  BY <1>1, DiscardFacts
<1>3. /\ file' \in [Object -> File] /\ stable' \in [Object -> File]
      /\ \A p \in Object : p # clearing => file'[p] = file[p] /\ stable'[p] = stable[p]
  BY <1>1, <1>2, UnlinkedFacts
<1>4. TypeOK'
  BY <1>1, <1>2, <1>3, ReservationsAssumption DEF Inv, TypeOK, PC, Reconciles
<1>5. StepInv'
  BY <1>1, <1>2, ReservationsAssumption DEF Inv, TypeOK, StepInv, ClearSteps, Settled
<1>6. LoadedInv' /\ WithheldIsAbsent'
  BY <1>1 DEF Inv, LoadedInv, WithheldIsAbsent
<1>7. FenceInv'
  BY <1>1, <1>2, <1>3, ReservationsAssumption DEF Inv, FenceInv, Saves
<1>8. GoneInv'
  <2>1. UnlinkDurable => file'[clearing] = NoFile /\ stable'[clearing] = NoFile
    BY <1>1, <1>2 DEF Inv, TypeOK, Unlinked
  <2> QED
    BY <1>1, <1>2, <1>3, <2>1, FileFacts DEF Inv, GoneInv, TypeOK
<1> QED
  BY <1>4, <1>5, <1>6, <1>7, <1>8 DEF Inv

LEMMA DiscardFailedStep == ASSUME Inv, DiscardFailed PROVE Inv'
<1> USE DEF db, tree, pr
<1>1. /\ pc = "discard" /\ withheld' = withheld \cup {clearing}
      /\ report' = "fence_dropped" /\ clearing' = NoObj /\ pc' = "idle"
      /\ UNCHANGED <<db, tree, prClearing, degraded, seen, fence, cleared>>
  BY DEF DiscardFailed, Answer
<1>2. /\ clearing \in Object /\ clearing \in objs /\ prClearing = clearing
      /\ clearing \notin dev /\ fence[clearing] = NoHost
  BY <1>1, DiscardFacts
<1>3. /\ file' \in [Object -> File] /\ stable' \in [Object -> File]
      /\ \A p \in Object : p # clearing => file'[p] = file[p] /\ stable'[p] = stable[p]
      /\ UnlinkDurable => /\ file'[clearing].reg \subseteq file[clearing].reg
                          /\ stable'[clearing].reg \subseteq stable[clearing].reg
  BY <1>2, UnlinkedFacts DEF DiscardFailed
<1>4. TypeOK'
  BY <1>1, <1>2, <1>3 DEF Inv, TypeOK, PC, Report
<1>5. Converged'
  <2>1. \A o \in Object : Want(o)' = Want(o)
    BY <1>1, <1>2 DEF Want
  <2>2. Converged
    BY <1>1 DEF Inv, StepInv, Settled
  <2>3. WantDev' = WantDev
    BY <2>1 DEF WantDev
  <2> QED
    BY <1>1, <2>1, <2>2, <2>3 DEF Converged
<1>6. StepInv'
  BY <1>1, <1>2, <1>5 DEF Inv, StepInv, ClearSteps
<1>7. LoadedInv' /\ WithheldIsAbsent'
  BY <1>1, <1>2 DEF Inv, LoadedInv, WithheldIsAbsent
<1>8. FenceInv'
  BY <1>1, <1>2, <1>3 DEF Inv, FenceInv, Saves
<1>9. GoneInv'
  BY <1>1, <1>2, <1>3 DEF Inv, GoneInv, TypeOK
<1> QED
  BY <1>4, <1>6, <1>7, <1>8, <1>9 DEF Inv

LEMMA ConnectStep == ASSUME Inv, NEW o \in Object, NEW h \in Host, Connect(o, h) PROVE Inv'
<1> USE DEF db, tree, pr, files, daemon
<1>1. /\ pc = "idle" /\ pc' = "reconcile" /\ conn' = [conn EXCEPT ![o] = @ \cup {h}]
      /\ UNCHANGED <<objs, tree, files, daemon, seen, cleared, report, fence>>
  BY DEF Connect, Commit
<1>2. conn' \in [Object -> SUBSET Host] /\ \A p \in Object : conn[p] \subseteq conn'[p]
  BY <1>1 DEF Inv, TypeOK
<1>3. TypeOK'
  BY <1>1, <1>2 DEF Inv, TypeOK, PC, Reconciles
<1>4. StepInv'
  BY <1>1 DEF Inv, StepInv, ClearSteps, Settled
<1>5. LoadedInv' /\ WithheldIsAbsent' /\ GoneInv'
  BY <1>1 DEF Inv, LoadedInv, WithheldIsAbsent, GoneInv
<1>6. FenceInv'
  BY <1>1, <1>2 DEF Inv, FenceInv, Saves
<1> QED
  BY <1>3, <1>4, <1>5, <1>6 DEF Inv

LEMMA DisconnectStep ==
  ASSUME Inv, NEW o \in Object, NEW h \in Host, Disconnect(o, h) PROVE Inv'
<1> USE DEF db, tree, pr, files, daemon
<1>1. /\ pc = "idle" /\ pc' = "reconcile" /\ conn' = [conn EXCEPT ![o] = @ \ {h}]
      /\ fence' = [fence EXCEPT ![o] = IF @ = h THEN NoHost ELSE @]
      /\ UNCHANGED <<objs, tree, files, daemon, seen, cleared, report>>
  BY DEF Disconnect, Commit
<1>2. /\ conn' \in [Object -> SUBSET Host] /\ fence' \in [Object -> Host \cup {NoHost}]
      /\ conn'[o] = conn[o] \ {h} /\ fence'[o] = IF fence[o] = h THEN NoHost ELSE fence[o]
      /\ \A p \in Object : p # o => conn'[p] = conn[p] /\ fence'[p] = fence[p]
  BY <1>1 DEF Inv, TypeOK
<1>3. TypeOK'
  BY <1>1, <1>2 DEF Inv, TypeOK, PC, Reconciles
<1>4. StepInv'
  BY <1>1 DEF Inv, StepInv, ClearSteps, Settled
<1>5. LoadedInv' /\ WithheldIsAbsent' /\ GoneInv'
  BY <1>1, <1>2 DEF Inv, LoadedInv, WithheldIsAbsent, GoneInv
<1>6. \A p \in Object : fence'[p] # NoHost => fence'[p] = fence[p] /\ fence[p] \in conn'[p]
  BY <1>2 DEF Inv, FenceInv
<1>7. FenceInv'
  BY <1>1, <1>6 DEF Inv, FenceInv, Saves
<1> QED
  BY <1>3, <1>4, <1>5, <1>7 DEF Inv

LEMMA DeleteStep == ASSUME Inv, NEW o \in Object, Delete(o) PROVE Inv'
<1> USE DEF tree, pr, history
<1>1. /\ pc = "idle" /\ conn[o] = {} /\ objs' = objs \ {o} /\ withheld' \in {withheld, withheld \ {o}}
      /\ UNCHANGED <<conn, tree, prClearing, clearing, degraded, pc, seen, history>>
  BY DEF Delete
<1>2. /\ file' \in [Object -> File] /\ stable' \in [Object -> File]
      /\ \A p \in Object : p # o => file'[p] = file[p] /\ stable'[p] = stable[p]
      /\ UnlinkDurable => /\ file'[o].reg \subseteq file[o].reg
                          /\ stable'[o].reg \subseteq stable[o].reg
  BY UnlinkedFacts DEF Delete, files
<1>3. fence[o] = NoHost
  BY <1>1 DEF Inv, FenceInv
<1>4. TypeOK'
  BY <1>1, <1>2 DEF Inv, TypeOK
<1>5. Converged => Converged'
  <2>1. \A p \in Object : Want(p)' = Want(p)
    BY <1>1 DEF Want
  <2>2. WantDev' = WantDev
    BY <2>1 DEF WantDev
  <2> QED
    BY <1>1, <2>1, <2>2 DEF Converged
<1>6. StepInv'
  BY <1>1, <1>5 DEF Inv, StepInv, ClearSteps
<1>7. LoadedInv' /\ WithheldIsAbsent'
  BY <1>1 DEF Inv, LoadedInv, WithheldIsAbsent
<1>8. FenceInv'
  BY <1>1, <1>2, <1>3 DEF Inv, FenceInv, Saves
<1>9. GoneInv'
  BY <1>1, <1>2 DEF Inv, GoneInv, TypeOK
<1> QED
  BY <1>4, <1>6, <1>7, <1>8, <1>9 DEF Inv

LEMMA OperatorUnlinkStep ==
  ASSUME Inv, NEW o \in Object, OperatorUnlink(o) PROVE Inv'
<1> USE DEF db, tree, pr, daemon
<1>1. /\ fence' = [fence EXCEPT ![o] = NoHost]
      /\ UNCHANGED <<db, tree, daemon, pc, seen, cleared, report>>
  BY DEF OperatorUnlink
<1>2. /\ file' \in [Object -> File] /\ stable' \in [Object -> File]
      /\ \A p \in Object : p # o => file'[p] = file[p] /\ stable'[p] = stable[p]
      /\ UnlinkDurable => /\ file'[o].reg \subseteq file[o].reg
                          /\ stable'[o].reg \subseteq stable[o].reg
  BY UnlinkedFacts DEF OperatorUnlink
<1>3. /\ fence' \in [Object -> Host \cup {NoHost}] /\ fence'[o] = NoHost
      /\ \A p \in Object : p # o => fence'[p] = fence[p]
  BY <1>1 DEF Inv, TypeOK
<1>4. TypeOK'
  BY <1>1, <1>2, <1>3 DEF Inv, TypeOK
<1>5. StepInv'
  <2>1. Converged => Converged'
    BY <1>1, SameConverged
  <2> QED
    BY <1>1, <2>1 DEF Inv, StepInv
<1>6. LoadedInv' /\ WithheldIsAbsent'
  BY <1>1, <1>3 DEF Inv, LoadedInv, WithheldIsAbsent
<1>7. FenceInv'
  BY <1>1, <1>2, <1>3 DEF Inv, FenceInv, Saves
<1>8. GoneInv'
  BY <1>1, <1>2 DEF Inv, GoneInv, TypeOK
<1> QED
  BY <1>4, <1>5, <1>6, <1>7, <1>8 DEF Inv

\* After a power loss every saved record is the old one, one that an unlink
\* nobody synced brought back, or torn.
LEMMA PowerLossStep == ASSUME Inv, PowerLoss PROVE Inv'
<1> USE DEF db
<1>1. /\ prClearing' = NoObj /\ withheld' = {} /\ clearing' = NoObj /\ degraded' = FALSE
      /\ pc' = "down" /\ seen' = {}
      /\ dev' = {} /\ ml' = [o \in Object |-> {}] /\ up' = FALSE
      /\ reg' = [o \in Object |-> {}] /\ holder' = [o \in Object |-> NoHost]
      /\ loaded' = [o \in Object |-> NoFile]
      /\ UNCHANGED <<db, fence, report>>
  BY DEF PowerLoss, DaemonGone
<1>2. /\ file' \in [Object -> File] /\ stable' = file' /\ cleared' \subseteq cleared
      /\ \A o \in Object : file'[o] \in {file[o], stable[o], Torn}
  <2>1. PICK undone \in SUBSET Object :
          LET f == [o \in Object |-> IF o \in undone THEN stable[o] ELSE file[o]] IN
          \/ file' = f /\ stable' = f /\ UNCHANGED cleared
          \/ \E o \in Object, h \in Host :
               /\ CanReach(o, h)
               /\ file' = [f EXCEPT ![o] = Torn] /\ stable' = [f EXCEPT ![o] = Torn]
               /\ cleared' = cleared \ {o}
    BY DEF PowerLoss
  <2> DEFINE f == [o \in Object |-> IF o \in undone THEN stable[o] ELSE file[o]]
  <2>2. f \in [Object -> File] /\ \A o \in Object : f[o] \in {file[o], stable[o]}
    BY DEF Inv, TypeOK
  <2> HIDE DEF f
  <2>3. CASE file' = f /\ stable' = f /\ UNCHANGED cleared
    BY <2>2, <2>3
  <2>4. ASSUME NEW o \in Object, file' = [f EXCEPT ![o] = Torn],
               stable' = [f EXCEPT ![o] = Torn], cleared' = cleared \ {o}
        PROVE  /\ file' \in [Object -> File] /\ stable' = file' /\ cleared' \subseteq cleared
               /\ \A p \in Object : file'[p] \in {file[p], stable[p], Torn}
    BY <2>2, <2>4, FileFacts
  <2> QED
    BY <2>1, <2>3, <2>4 DEF f
<1>3. TypeOK'
  BY <1>1, <1>2, FileFacts DEF Inv, TypeOK, PC
<1>4. StepInv'
  BY <1>1, ReservationsAssumption DEF Inv, TypeOK, StepInv, ClearSteps, Settled
<1>5. LoadedInv' /\ WithheldIsAbsent'
  BY <1>1, FileFacts DEF LoadedInv, WithheldIsAbsent
<1>6. FenceInv'
  BY <1>1, <1>2, FileFacts, ReservationsAssumption DEF Inv, FenceInv, Saves
<1>7. GoneInv'
  BY <1>1, <1>2, FileFacts DEF Inv, GoneInv, TypeOK
<1> QED
  BY <1>3, <1>4, <1>5, <1>6, <1>7 DEF Inv

LEMMA NextInv == Inv /\ [Next]_vars => Inv'
<1> SUFFICES ASSUME Inv, [Next]_vars PROVE Inv'
  OBVIOUS
<1>1. CASE UNCHANGED vars
  <2> USE <1>1 DEF vars, db, tree, pr, files, daemon, history
  <2>1. Converged => Converged'
    BY SameConverged
  <2>2. StepInv'
    BY <2>1 DEF Inv, StepInv
  <2> QED
    BY <2>2, QuietStep DEF Inv, TypeOK
<1> QED
  BY <1>1, PROutStep, EnsureMappedLUNStep, RemoveMappedLUNStep, ConnectStep, DisconnectStep,
     LoadAPTPLStep, EnableBackstoreStep, RemoveBackstoreStep, ClearReservationStep, DeleteStep,
     OperatorUnlinkStep, EnableTPGStep, ReconcileOKStep, ReconcileFailedStep,
     HealOpenCrashStep, DiscardOKStep, DiscardFailedStep, ReadStep, AnswerStep,
     PowerLossStep DEF Next

LEMMA SpecInv == Spec => []Inv
BY InitInv, NextInv, PTL DEF Spec

\* Every variable keeps its type, and the kernel tree its shape: no mapped LUN
\* without its backstore, no registration without its mapped LUN, whatever the
\* order in which applyRemovals and the initiators act.
THEOREM TypeCorrect == Spec => []TypeOK
<1>1. Inv => TypeOK
  BY DEF Inv
<1> QED
  BY <1>1, SpecInv, PTL

\* A reservation that nobody gave up is in effect whenever another initiator
\* can reach the object: loadAPTPL before the enable, ParseAPTPL's refusal of a
\* damaged file and the TPG's enable flag last are enough, for any number of
\* objects and hosts, and even where an unlink does not survive a power loss.
THEOREM FenceStands == Spec => []FenceKept
<1>1. Inv => FenceKept
  BY DEF Inv, FenceInv, FenceKept, CanReach
<1> QED
  BY <1>1, SpecInv, PTL

\* A reservation whose saved record discardSavedPRChecked proved gone does not
\* come back by itself, provided that an unlink survives a power loss.
THEOREM ClearStays == UnlinkDurable => (Spec => []ClearSticks)
<1> SUFFICES ASSUME UnlinkDurable PROVE Spec => []ClearSticks
  OBVIOUS
<1>1. Inv => ClearSticks
  BY DEF Inv, GoneInv, ClearSticks
<1> QED
  BY <1>1, SpecInv, PTL

\* No reconcile, heal or other clear brings back an object that a failed clear
\* left withheld (desiredLIO, holdBack, releaseHold).
THEOREM WithheldStaysOut == Spec => []WithheldIsAbsent
<1>1. Inv => WithheldIsAbsent
  BY DEF Inv
<1> QED
  BY <1>1, SpecInv, PTL

\* Between operations a connected object that is not presented to all of its
\* hosts is named as withheld, or the appliance reports itself degraded.
THEOREM AbsenceReported == Spec => []AbsentIsReported
<1>1. Inv => AbsentIsReported
  <2> SUFFICES ASSUME Inv, pc = "idle", ~degraded, NEW o \in objs \ withheld
               PROVE  ml[o] = conn[o] /\ (o \in dev <=> conn[o] # {})
    BY DEF AbsentIsReported
  <2>1. Converged /\ o # prClearing /\ o \in Object
    BY DEF Inv, TypeOK, StepInv, Settled
  <2>2. Want(o) = conn[o]
    BY <2>1 DEF Want
  <2> QED
    BY <2>1, <2>2 DEF Converged, WantDev
<1> QED
  BY <1>1, SpecInv, PTL

\* What a step of ClearReservation answers about the fence is true of the
\* kernel at that moment.
LEMMA AnswerIsTrue ==
  ASSUME Inv, [Next]_vars, clearing # NoObj, report' # report
  PROVE  /\ report' \in {"cleared", "fence_dropped"} => holder'[clearing] = NoHost
         /\ report' = "still_held" => holder'[clearing] # NoHost
<1> USE DEF tree, pr, history
<1>1. clearing \in Object /\ pc \in ClearSteps
  BY DEF Inv, TypeOK, StepInv
<1>2. pc \in {"verify", "verdict"} /\ clearing \notin WantDev => holder[clearing] = NoHost
  <2> SUFFICES ASSUME pc \in {"verify", "verdict"}, clearing \notin WantDev
               PROVE  holder[clearing] = NoHost
    OBVIOUS
  <2>1. clearing \notin dev
    BY DEF Inv, StepInv, Settled, Converged
  <2> QED
    BY <1>1, <2>1 DEF Inv, TypeOK
<1>3. CASE DiscardFailed
  <2>1. report' = "fence_dropped" /\ holder' = holder /\ holder[clearing] = NoHost
    BY <1>3, DiscardFacts DEF DiscardFailed, Answer
  <2> QED
    BY <2>1
<1>4. CASE VerifyCleared
  <2>1. holder' = holder
    BY <1>4 DEF VerifyCleared
  <2>2. CASE pc = "verify" /\ clearing \notin WantDev /\ Answer("cleared")
    BY <1>2, <2>1, <2>2 DEF Answer
  <2>3. CASE pc = "readHolder" /\ \E h \in HolderRead : Answer(Verified(h))
    <3>1. PICK h \in {holder[clearing], "unreadable"} : report' = Verified(h)
      BY <2>3 DEF HolderRead, Answer
    <3>2. holder[clearing] \in Host \cup {NoHost}
      BY <1>1 DEF Inv, TypeOK
    <3> QED
      BY <2>1, <3>1, <3>2, ReservationsAssumption DEF Verified
  <2> QED
    BY <1>4, <2>2, <2>3 DEF VerifyCleared
<1>5. CASE RecoverVerdict
  <2>1. holder' = holder
    BY <1>5 DEF RecoverVerdict
  <2>2. CASE pc = "verdict" /\ clearing \notin WantDev /\ Answer(Verdict(NoHost))
    <3>1. Verdict(NoHost) = "fence_dropped"
      BY ReservationsAssumption DEF Verdict
    <3> QED
      BY <1>2, <2>1, <2>2, <3>1 DEF Answer
  <2>3. CASE pc = "readVerdict" /\ \E h \in HolderRead : Answer(Verdict(h))
    <3>1. PICK h \in {holder[clearing], "unreadable"} : report' = Verdict(h)
      BY <2>3 DEF HolderRead, Answer
    <3> QED
      BY <2>1, <3>1, ReservationsAssumption DEF Verdict
  <2> QED
    BY <1>5, <2>2, <2>3 DEF RecoverVerdict
<1>6. CASE RebuildVerdict \/ ReconcileFailed
  BY <1>6 DEF RebuildVerdict, Answer, ReconcileFailed
<1>7. pc # "idle"
  BY <1>1 DEF ClearSteps
<1>8. CASE ~(DiscardFailed \/ VerifyCleared \/ RecoverVerdict \/ RebuildVerdict \/ ReconcileFailed)
  <2>1. report' = report
    BY <1>7, <1>8 DEF Next, vars, PROut, EnsureMappedLUN, RemoveMappedLUN, Connect, Disconnect,
       Commit, LoadAPTPL, EnableBackstore, RemoveBackstore, ClearReservation, Delete,
       OperatorUnlink, EnableTPG, ReconcileOK, Heal, DiscardOK, ReadRegs, Open, Crash, PowerLoss
  <2> QED
    BY <2>1
<1> QED
  BY <1>3, <1>4, <1>5, <1>6, <1>8

\* ClearReservation never misreports the fence: "cleared" and "dropped" are
\* said only when nobody holds the object, "still held" only when somebody
\* does, although initiators act between the two reads of PRState.
THEOREM AnswersTruthful == Spec => TruthfulAnswer
<1>1. Inv /\ [Next]_vars =>
        [clearing # NoObj /\ report' # report =>
           /\ report' \in {"cleared", "fence_dropped"} => holder'[clearing] = NoHost
           /\ report' = "still_held" => holder'[clearing] # NoHost]_vars
  BY AnswerIsTrue
<1> QED
  BY <1>1, SpecInv, PTL DEF Spec, TruthfulAnswer
=============================================================================
