---------------------------- MODULE ObjectsProofs ----------------------------
(***************************************************************************)
(* The invariants of module Objects, proved for every set of objects and   *)
(* names and every bound on sizes.  IInv is the inductive invariant: the   *)
(* properties, strengthened by what the operation in flight has already    *)
(* established (OpInv).                                                    *)
(***************************************************************************)
EXTENDS ObjectsRefinement, TLAPS

\* A well-formed document: it loads, it names only minted objects, and a
\* record has a capacity exactly when it exists.
DocOK(d, known) ==
  /\ ValidateLoaded(d)
  /\ \A o \in Object : IF Recorded(d, o) THEN o \in known /\ d.obj[o].cap > 0
                                         ELSE d.obj[o].cap = 0

DocsInv == \A d \in {mem, disk, durable, backup} : DocOK(d, minted)

HasBytes(d) ==
  \A o \in Object : Ready(d, o) => loc[o] = "objects" /\ Backed(o, d.obj[o].cap)

\* Every object whose capacity was acknowledged is recorded at that capacity.
AckedIn(d) ==
  \A o \in Object : acked[o] > 0 => Recorded(d, o) /\ d.obj[o].cap >= acked[o]

AckInv ==
  /\ ~rolledBack => AckedIn(disk) /\ AckedIn(durable)
  /\ ~rolledBack /\ pc # "down" => AckedIn(mem)
  /\ \A o \in Object : acked[o] > 0 => o \in minted

ServesExports ==
  \A o \in Object : /\ served[o] > 0 <=> Desired(mem, o) > 0
                    /\ served[o] <= Desired(mem, o)

ServeInv ==
  /\ pc \in {"idle", "grow", "persist", "undo", "unlink"} /\ ~degraded => ServesExports
  /\ \A o \in Object : served[o] > 0 => o \in minted

\* Nothing depends on the object any more.
Forgotten(o) == o \in Object /\ ~Recorded(mem, o) /\ acked[o] = 0 /\ served[o] = 0

\* What is known of the operation in flight at each of its steps.
OpInv ==
  /\ pc \in {"heal", "grow", "persist"} =>
       /\ op.obj \in Object
       /\ DocOK(op.next, minted)
       /\ op.kind # "none"
       /\ \A o \in Object : o # op.obj => op.next.obj[o] = mem.obj[o]
       /\ op.kind \in {"create", "rename", "delete", "resize"} =>
            op.next.conn = mem.conn
       /\ op.kind \in {"connect", "disconnect"} => op.next.obj = mem.obj
       /\ op.kind \in {"rename", "resize"} =>
            op.next.obj[op.obj].state = mem.obj[op.obj].state
       /\ op.kind = "rename" => op.next.obj[op.obj].cap = mem.obj[op.obj].cap
       /\ op.kind = "resize" => op.next.obj[op.obj].cap > mem.obj[op.obj].cap
       /\ op.kind = "create" => pc = "persist" /\ Forgotten(op.obj)
       /\ op.kind = "delete" => ~Recorded(op.next, op.obj) /\ op.obj \notin mem.conn
  /\ pc = "grow" => op.kind = "resize" /\ ~degraded
  /\ pc = "persist" =>
       /\ HasBytes(op.next)
       /\ op.kind \in {"create", "resize"} =>
            loc[op.obj] = "objects" /\ Backed(op.obj, op.next.obj[op.obj].cap)
       /\ op.kind = "delete" => served[op.obj] = 0
  /\ pc \in {"undo", "unlink"} => Forgotten(op.obj)

IInv ==
  /\ TypeOK
  /\ DocsInv
  /\ ReadyHasBytes
  /\ OwedDataKept
  /\ ServedHasBytes
  /\ AckInv
  /\ ServeInv
  /\ OpInv

\* A file still in objects/ is long enough for every document that records
\* it, so a start may believe whichever document it finds.
LongEnough(d) ==
  \A o \in Object : Recorded(d, o) /\ loc[o] = "objects" => Backed(o, d.obj[o].cap)

LengthInv == \A d \in {mem, disk, durable, backup} : LongEnough(d)

\* A document that is not there is empty; memory always holds one that is.
PresentInv ==
  /\ mem.present /\ op.next.present
  /\ \A d \in {disk, durable, backup} : d.present \/ d = NoDb

FullInv == IInv /\ LengthInv /\ PresentInv

\* A step that takes nothing from what Backed says of o.
NotLess(o) == synced'[o] >= synced[o] /\ unproven'[o] >= unproven[o]

\* What the two updates of a document change and what they leave alone.
LEMMA PutRecordFacts ==
  ASSUME NEW d \in Doc, NEW o \in Object, NEW r \in ObjRecord
  PROVE  /\ PutRecord(d, o, r) \in Doc
         /\ PutRecord(d, o, r).obj[o] = r
         /\ \A p \in Object : p # o => PutRecord(d, o, r).obj[p] = d.obj[p]
         /\ PutRecord(d, o, r).conn = d.conn
         /\ PutRecord(d, o, r).present = d.present
BY DEF PutRecord, Doc

LEMMA SetConnFacts ==
  ASSUME NEW d \in Doc, NEW c \in SUBSET Object
  PROVE  /\ SetConn(d, c) \in Doc
         /\ SetConn(d, c).obj = d.obj
         /\ SetConn(d, c).conn = c
         /\ SetConn(d, c).present = d.present
BY DEF SetConn, Doc

LEMMA EmptyDocFacts ==
  /\ NoDb \in Doc /\ EmptyDb \in Doc /\ NoOp \in Op
  /\ NoRecord \in ObjRecord
  /\ \A o \in Object : EmptyDb.obj[o] = NoRecord /\ NoDb.obj[o] = NoRecord
  /\ EmptyDb.conn = {} /\ NoDb.conn = {} /\ EmptyDb.present /\ ~NoDb.present
<1>1. NoRecord \in ObjRecord
  BY ObjectsAssumption DEF NoRecord, ObjRecord, State
<1>2. NoDb \in Doc
  BY <1>1 DEF NoDb, Doc
<1>3. EmptyDb \in Doc
  BY <1>1 DEF NoDb, Doc, EmptyDb
<1>4. NoOp \in Op
  BY <1>3 DEF NoOp, Op, Kind
<1> QED
  BY <1>1, <1>2, <1>3, <1>4 DEF NoDb, EmptyDb

LEMMA EmptyDocOK == \A known : DocOK(NoDb, known) /\ DocOK(EmptyDb, known)
BY EmptyDocFacts DEF DocOK, ValidateLoaded, Recorded, NoRecord

\* Replacing a record keeps a document well formed when the new record keeps
\* names unique and is not a removal under a connection.
LEMMA PutRecordOK ==
  ASSUME NEW d \in Doc, NEW o \in Object, NEW r \in ObjRecord, NEW known,
         \A p \in Object : Recorded(d, p) => p \in known /\ d.obj[p].cap > 0,
         \A p \in Object : ~Recorded(d, p) => d.obj[p].cap = 0,
         ValidateLoaded(d),
         r.state = "none" => r.cap = 0 /\ o \notin d.conn,
         r.state # "none" => /\ r.cap > 0
                             /\ o \in known
                             /\ \A p \in Object : Recorded(d, p) /\ p # o
                                                  => d.obj[p].name # r.name
  PROVE  DocOK(PutRecord(d, o, r), known)
<1> DEFINE e == PutRecord(d, o, r)
<1>1. /\ e \in Doc /\ e.obj[o] = r /\ e.conn = d.conn
      /\ \A p \in Object : p # o => e.obj[p] = d.obj[p]
  BY PutRecordFacts
<1> HIDE DEF e
<1>2. \A p \in Object : p # o => (Recorded(e, p) <=> Recorded(d, p))
  BY <1>1 DEF Recorded
<1>3. Recorded(e, o) <=> r.state # "none"
  BY <1>1 DEF Recorded
<1>4. \A p, q \in Object :
        Recorded(e, p) /\ Recorded(e, q) /\ e.obj[p].name = e.obj[q].name => p = q
  BY <1>1, <1>2, <1>3 DEF ValidateLoaded
<1>5. \A p \in e.conn : Recorded(e, p)
  BY <1>1, <1>2, <1>3 DEF ValidateLoaded, Doc
<1>6. \A p \in Object : IF Recorded(e, p) THEN p \in known /\ e.obj[p].cap > 0
                                        ELSE e.obj[p].cap = 0
  BY <1>1, <1>2, <1>3
<1>7. DocOK(e, known)
  BY <1>4, <1>5, <1>6 DEF DocOK, ValidateLoaded
<1> QED
  BY <1>7 DEF e

LEMMA SetConnOK ==
  ASSUME NEW d \in Doc, NEW c \in SUBSET Object, NEW known,
         DocOK(d, known), \A o \in c : Recorded(d, o)
  PROVE  DocOK(SetConn(d, c), known)
BY SetConnFacts DEF DocOK, ValidateLoaded, Recorded

LEMMA InitIInv == Init => IInv
<1> SUFFICES ASSUME Init PROVE IInv
  OBVIOUS
<1> USE ObjectsAssumption DEF Init
<1>1. [o \in Object |-> 0] \in [Object -> 0..MaxSize]
  OBVIOUS
<1>11. \A o \in Object : synced[o] <= size[o]
  <2> SUFFICES ASSUME NEW o \in Object PROVE synced[o] <= size[o]
    OBVIOUS
  <2>1. synced[o] = 0 /\ size[o] = 0
    OBVIOUS
  <2> QED
    BY <2>1, SMT
<1>2. TypeOK
  BY <1>1, <1>11, EmptyDocFacts DEF TypeOK, PC
<1>3. DocsInv
  BY EmptyDocOK DEF DocsInv
<1>4. ReadyHasBytes
  BY EmptyDocFacts DEF ReadyHasBytes, Ready, NoRecord
<1>5. OwedDataKept /\ ServedHasBytes /\ AckInv /\ ServeInv /\ OpInv
  BY DEF OwedDataKept, ServedHasBytes, AckInv, AckedIn, ServeInv, OpInv
<1> QED
  BY <1>2, <1>3, <1>4, <1>5 DEF IInv

\* A handler that only sets up an operation disturbs nothing but OpInv.
LEMMA BeginStep ==
  ASSUME IInv, pc = "idle", pc' \in {"heal", "grow", "persist"}, op' \in Op,
         UNCHANGED <<docs, store, kernel, history>>, OpInv'
  PROVE  IInv'
<1> USE DEF docs, store, kernel, history, Backed
<1>1. TypeOK'
  BY DEF IInv, TypeOK, PC
<1>2. DocsInv' /\ ReadyHasBytes' /\ OwedDataKept' /\ ServedHasBytes'
  BY DEF IInv, DocsInv, ReadyHasBytes, OwedDataKept, ServedHasBytes
<1>3. AckInv'
  BY DEF IInv, AckInv, AckedIn
<1>4. ServeInv'
  BY DEF IInv, ServeInv, ServesExports, Desired
<1> QED
  BY <1>1, <1>2, <1>3, <1>4 DEF IInv

LEMMA DeleteStep == ASSUME IInv, NEW o \in Object, Delete(o) PROVE IInv'
<1> DEFINE n == PutRecord(mem, o, NoRecord)
<1> USE DEF docs, store, kernel, history, Backed
<1>1. mem \in Doc /\ DocOK(mem, minted)
  BY DEF IInv, TypeOK, DocsInv
<1>2. /\ n \in Doc /\ n.obj[o] = NoRecord /\ n.conn = mem.conn
      /\ \A p \in Object : p # o => n.obj[p] = mem.obj[p]
  BY <1>1, PutRecordFacts, EmptyDocFacts
<1>3. DocOK(n, minted)
  BY <1>1, PutRecordOK, EmptyDocFacts DEF Delete, DocOK, NoRecord
<1> HIDE DEF n
<1>4. /\ op' = [kind |-> "delete", obj |-> o, next |-> n] /\ op' \in Op
      /\ pc' \in {"heal", "persist"}
      /\ ~Recorded(n, o) /\ o \notin mem.conn /\ HasBytes(n)
  BY <1>2 DEF Delete, n, Op, Kind, GateStep, AfterHeal, Recorded, NoRecord,
     HasBytes, Ready, IInv, ReadyHasBytes
<1>5. pc' = "persist" => served[o] = 0
  <2> SUFFICES ASSUME pc' = "persist" PROVE served[o] = 0
    OBVIOUS
  <2>1. ~degraded
    BY DEF Delete, GateStep
  <2>2. Desired(mem, o) = 0
    BY DEF Delete, Desired
  <2> QED
    BY <2>1, <2>2 DEF Delete, IInv, TypeOK, ServeInv, ServesExports
<1>6. OpInv'
  BY <1>2, <1>3, <1>4, <1>5 DEF OpInv, Delete, Recorded, HasBytes, Ready
<1> QED
  BY <1>4, <1>6, BeginStep DEF Delete

LEMMA RenameStep ==
  ASSUME IInv, NEW o \in Object, NEW m \in Name, Rename(o, m) PROVE IInv'
<1> DEFINE r == [mem.obj[o] EXCEPT !.name = m]
           n == PutRecord(mem, o, r)
<1> USE DEF docs, store, kernel, history, Backed
<1>1. mem \in Doc /\ DocOK(mem, minted) /\ mem.obj[o] \in ObjRecord
  BY DEF IInv, TypeOK, DocsInv, Doc
<1>2. r \in ObjRecord /\ r.name = m /\ r.cap = mem.obj[o].cap /\ r.state = mem.obj[o].state
  BY <1>1 DEF ObjRecord
<1> HIDE DEF r
<1>3. /\ n \in Doc /\ n.obj[o] = r /\ n.conn = mem.conn
      /\ \A p \in Object : p # o => n.obj[p] = mem.obj[p]
  BY <1>1, <1>2, PutRecordFacts
<1>4. r.state # "none" /\ \A p \in Object : Recorded(mem, p) => mem.obj[p].name # r.name
  BY <1>2 DEF Rename, NameTaken, Recorded
<1>5. DocOK(n, minted)
  BY <1>1, <1>2, <1>4, PutRecordOK DEF DocOK, Recorded
<1> HIDE DEF n
<1>6. op' = [kind |-> "rename", obj |-> o, next |-> n] /\ op' \in Op /\ pc' = "persist"
  BY <1>3 DEF Rename, n, r, Op, Kind
<1>7. HasBytes(n)
  BY <1>2, <1>3 DEF HasBytes, Ready, IInv, ReadyHasBytes
<1>8. OpInv'
  BY <1>2, <1>3, <1>5, <1>6, <1>7 DEF OpInv, Rename, Recorded, HasBytes, Ready
<1> QED
  BY <1>6, <1>8, BeginStep DEF Rename

LEMMA ResizeStep ==
  ASSUME IInv, NEW o \in Object, NEW s \in Size, Resize(o, s) PROVE IInv'
<1> DEFINE r == [mem.obj[o] EXCEPT !.cap = s]
           n == PutRecord(mem, o, r)
<1> USE DEF docs, store, kernel, history, Backed
<1>1. mem \in Doc /\ DocOK(mem, minted) /\ mem.obj[o] \in ObjRecord
  BY DEF IInv, TypeOK, DocsInv, Doc
<1>2. /\ r \in ObjRecord /\ r.name = mem.obj[o].name /\ r.cap = s
      /\ r.state = mem.obj[o].state
  BY <1>1, ObjectsAssumption DEF ObjRecord, Size
<1>3. s > 0 /\ s \in Nat
  BY ObjectsAssumption DEF Size
<1> HIDE DEF r
<1>4. /\ n \in Doc /\ n.obj[o] = r /\ n.conn = mem.conn
      /\ \A p \in Object : p # o => n.obj[p] = mem.obj[p]
  BY <1>1, <1>2, PutRecordFacts
<1>5. /\ r.state # "none"
      /\ \A p \in Object : Recorded(mem, p) /\ p # o => mem.obj[p].name # r.name
  BY <1>1, <1>2 DEF Resize, Recorded, DocOK, ValidateLoaded
<1>6. DocOK(n, minted)
  BY <1>1, <1>2, <1>3, <1>5, PutRecordOK DEF DocOK, Recorded
<1> HIDE DEF n
<1>7. /\ op' = [kind |-> "resize", obj |-> o, next |-> n] /\ op' \in Op
      /\ pc' = IF degraded THEN "heal" ELSE "grow"
  BY <1>4 DEF Resize, n, r, Op, Kind, GateStep, AfterHeal
<1>8. OpInv'
  BY <1>2, <1>4, <1>6, <1>7 DEF OpInv, Resize, Recorded
<1> QED
  BY <1>7, <1>8, BeginStep DEF Resize

LEMMA ConnectStep == ASSUME IInv, NEW o \in Object, Connect(o) PROVE IInv'
<1> DEFINE n == SetConn(mem, mem.conn \cup {o})
<1> USE DEF docs, store, kernel, history, Backed
<1>1. mem \in Doc /\ DocOK(mem, minted) /\ mem.conn \in SUBSET Object
  BY DEF IInv, TypeOK, DocsInv, Doc
<1>2. n \in Doc /\ n.obj = mem.obj
  BY <1>1, SetConnFacts
<1>3. DocOK(n, minted)
  <2>1. \A p \in mem.conn \cup {o} : Recorded(mem, p)
    BY <1>1 DEF Connect, Ready, Recorded, DocOK, ValidateLoaded
  <2> QED
    BY <1>1, <2>1, SetConnOK
<1> HIDE DEF n
<1>4. /\ op' = [kind |-> "connect", obj |-> o, next |-> n] /\ op' \in Op
      /\ pc' \in {"heal", "persist"}
  BY <1>2 DEF Connect, n, Op, Kind, GateStep, AfterHeal
<1>5. op'.kind = "connect" /\ op'.obj = o /\ op'.next = n
  BY <1>4
<1>6. \A p \in Object : Ready(n, p) =>
        loc'[p] = "objects" /\ (synced'[p] >= n.obj[p].cap \/ unproven'[p] >= n.obj[p].cap)
  BY <1>2 DEF Connect, Ready, IInv, ReadyHasBytes
<1>7. OpInv'
  BY <1>2, <1>3, <1>4, <1>5, <1>6 DEF OpInv, Connect, HasBytes
<1> QED
  BY <1>4, <1>7, BeginStep DEF Connect

LEMMA DisconnectStep == ASSUME IInv, NEW o \in Object, Disconnect(o) PROVE IInv'
<1> DEFINE n == SetConn(mem, mem.conn \ {o})
<1> USE DEF docs, store, kernel, history, Backed
<1>1. mem \in Doc /\ DocOK(mem, minted) /\ mem.conn \in SUBSET Object
  BY DEF IInv, TypeOK, DocsInv, Doc
<1>2. n \in Doc /\ n.obj = mem.obj
  BY <1>1, SetConnFacts
<1>3. DocOK(n, minted)
  BY <1>1, SetConnOK DEF DocOK, ValidateLoaded
<1> HIDE DEF n
<1>4. /\ op' = [kind |-> "disconnect", obj |-> o, next |-> n] /\ op' \in Op
      /\ pc' \in {"heal", "persist"}
  BY <1>2 DEF Disconnect, n, Op, Kind, GateStep, AfterHeal
<1>5. op'.kind = "disconnect" /\ op'.obj = o /\ op'.next = n
  BY <1>4
<1>6. \A p \in Object : Ready(n, p) =>
        loc'[p] = "objects" /\ (synced'[p] >= n.obj[p].cap \/ unproven'[p] >= n.obj[p].cap)
  BY <1>2 DEF Disconnect, Ready, IInv, ReadyHasBytes
<1>7. OpInv'
  BY <1>2, <1>3, <1>4, <1>5, <1>6 DEF OpInv, Disconnect, HasBytes
<1> QED
  BY <1>4, <1>7, BeginStep DEF Disconnect

\* Create and Clone: the bytes of a fresh object disturb nothing.
LEMMA BeginCreateStep ==
  ASSUME IInv, NEW o \in Object, NEW m \in Name, NEW cap \in Size, NEW len \in 0..MaxSize,
         BeginCreate(o, m, cap, len)
  PROVE  IInv'
<1> DEFINE r == [name |-> m, cap |-> cap, state |-> "ready"]
           n == PutRecord(mem, o, r)
<1> USE DEF docs, store, kernel, history, Backed
<1>1. mem \in Doc /\ DocOK(mem, minted) /\ pc = "idle" /\ o \notin minted
  BY DEF IInv, TypeOK, DocsInv, BeginCreate
<1>2. \A d \in {mem, disk, durable, backup} :
        d \in Doc /\ DocOK(d, minted') /\ ~Recorded(d, o)
  BY <1>1 DEF IInv, TypeOK, DocsInv, DocOK, BeginCreate
<1>3. r \in ObjRecord /\ cap \in Nat /\ len \in Nat /\ cap > 0
  BY ObjectsAssumption DEF ObjRecord, State, Size
<1>4. /\ n \in Doc /\ n.obj[o] = r /\ n.conn = mem.conn
      /\ \A p \in Object : p # o => n.obj[p] = mem.obj[p]
  BY <1>1, <1>3, PutRecordFacts
<1>5. \A p \in Object : Recorded(mem, p) => mem.obj[p].name # m
  BY DEF BeginCreate, NameTaken
<1>6. DocOK(n, minted')
  BY <1>1, <1>2, <1>3, <1>5, PutRecordOK DEF DocOK, BeginCreate
<1>7. acked[o] = 0 /\ served[o] = 0 /\ o \notin mem.conn
  BY <1>1, <1>2 DEF IInv, TypeOK, AckInv, ServeInv, DocOK, ValidateLoaded
<1>8. /\ loc' \in [Object -> {"none", "objects", "aside"}] /\ size' \in [Object -> 0..MaxSize]
      /\ synced' \in [Object -> 0..MaxSize] /\ unproven' \in [Object -> 0..MaxSize]
      /\ loc'[o] = "objects" /\ size'[o] = len /\ synced'[o] \in {0, len}
      /\ pc' = "persist" => synced'[o] = len /\ unproven'[o] = IF len < cap THEN cap ELSE 0
      /\ \A p \in Object : p # o => /\ loc'[p] = loc[p] /\ size'[p] = size[p]
                                   /\ synced'[p] = synced[p] /\ unproven'[p] = unproven[p]
  BY <1>1, ObjectsAssumption DEF IInv, TypeOK, BeginCreate, Size
<1>81. \A p \in Object : synced'[p] <= size'[p]
  BY <1>3, <1>8 DEF IInv, TypeOK
<1>9. TypeOK'
  <2>1. op' \in Op /\ pc' \in {"idle", "persist"}
    BY <1>1, <1>4 DEF IInv, TypeOK, BeginCreate, Op, Kind
  <2> QED
    BY <2>1, <1>8, <1>81 DEF IInv, TypeOK, BeginCreate, PC
<1>10. DocsInv'
  BY <1>2 DEF DocsInv, BeginCreate
<1>11. ReadyHasBytes' /\ OwedDataKept' /\ ServedHasBytes'
  BY <1>2, <1>7, <1>8 DEF IInv, ReadyHasBytes, OwedDataKept, ServedHasBytes, Ready,
     Recorded, BeginCreate
<1>12. AckInv' /\ ServeInv'
  BY <1>1 DEF IInv, AckInv, AckedIn, ServeInv, ServesExports, Desired, BeginCreate
<1>13. OpInv'
  <2>1. CASE pc' = "idle"
    BY <2>1 DEF OpInv
  <2>2. CASE pc' # "idle"
    <3> HIDE DEF n
    <3>1. pc' = "persist" /\ op' = [kind |-> "create", obj |-> o, next |-> n]
      BY <1>1, <2>2 DEF BeginCreate, n
    <3>2. op'.kind = "create" /\ op'.obj = o /\ op'.next = n
      BY <3>1
    <3>3. \A p \in Object : Ready(n, p) =>
            loc'[p] = "objects" /\ (synced'[p] >= n.obj[p].cap \/ unproven'[p] >= n.obj[p].cap)
      BY <1>3, <1>4, <1>8, <3>1 DEF Ready, IInv, ReadyHasBytes
    <3>4. Forgotten(o)'
      BY <1>2, <1>7 DEF Forgotten, BeginCreate, Recorded
    <3>5. /\ mem' = mem /\ loc'[o] = "objects"
          /\ synced'[o] >= n.obj[o].cap \/ unproven'[o] >= n.obj[o].cap
      BY <1>3, <1>4, <1>8, <3>1 DEF BeginCreate
    <3> QED
      BY <3>1, <3>2, <3>3, <3>4, <3>5, <1>4, <1>6 DEF OpInv, HasBytes
  <2> QED
    BY <2>1, <2>2
<1> QED
  BY <1>9, <1>10, <1>11, <1>12, <1>13 DEF IInv

\* The step after a persist, by kind and outcome.
LEMMA AfterPersistFacts ==
  ASSUME NEW kind \in Kind, kind # "none"
  PROVE  /\ AfterPersist(kind, "ok") =
              IF kind = "delete" THEN "unlink"
              ELSE IF kind \in {"create", "rename"} THEN "idle" ELSE "reconcile"
         /\ AfterPersist(kind, "notDurable") =
              IF kind \in {"connect", "disconnect"} THEN "reconcile" ELSE "idle"
         /\ AfterPersist(kind, "failed") = IF kind = "create" THEN "undo" ELSE "idle"
BY DEF AfterPersist, DropBytes, Kind

\* What the operation has established by the time it persists.
LEMMA AtPersist ==
  ASSUME IInv, pc = "persist"
  PROVE  /\ op.obj \in Object /\ op.next \in Doc /\ op.kind \in Kind \ {"none"}
         /\ DocOK(op.next, minted) /\ HasBytes(op.next)
         /\ \A o \in Object : o # op.obj => op.next.obj[o] = mem.obj[o]
         /\ op.kind \in {"create", "rename", "delete", "resize"} =>
              op.next.conn = mem.conn
         /\ op.kind \in {"connect", "disconnect"} => op.next.obj = mem.obj
         /\ op.kind = "rename" => /\ op.next.obj[op.obj].state = mem.obj[op.obj].state
                                  /\ op.next.obj[op.obj].cap = mem.obj[op.obj].cap
         /\ op.kind = "resize" => /\ op.next.obj[op.obj].state = mem.obj[op.obj].state
                                  /\ op.next.obj[op.obj].cap > mem.obj[op.obj].cap
         /\ op.kind = "create" => Forgotten(op.obj)
         /\ op.kind \in {"create", "resize"} =>
              loc[op.obj] = "objects" /\ Backed(op.obj, op.next.obj[op.obj].cap)
         /\ op.kind = "delete" => /\ ~Recorded(op.next, op.obj)
                                  /\ op.obj \notin mem.conn
                                  /\ served[op.obj] = 0
         /\ \A o \in Object : /\ op.next.obj[o].cap \in Nat /\ mem.obj[o].cap \in Nat
                              /\ served[o] \in Nat /\ acked[o] \in Nat
<1>1. op \in Op /\ op.next \in Doc /\ op.kind \in Kind /\ mem \in Doc
  BY DEF IInv, TypeOK, Op
<1>2. \A d \in Doc, o \in Object : d.obj[o].cap \in Nat
  BY ObjectsAssumption DEF Doc, ObjRecord
<1>3. \A o \in Object : served[o] \in Nat /\ acked[o] \in Nat
  <2>1. served \in [Object -> 0..MaxSize] /\ acked \in [Object -> 0..MaxSize]
    BY DEF IInv, TypeOK
  <2> QED
    BY <2>1, ObjectsAssumption
<1> QED
  BY <1>1, <1>2, <1>3 DEF IInv, OpInv

\* A record that is written, durably or not, before or after an outcome that
\* does not reconcile, leaves what the kernel serves in step with memory.
LEMMA ServeAfterPersist ==
  ASSUME IInv, pc = "persist", ~degraded, op.kind \notin {"connect", "disconnect"}
  PROVE  \A o \in Object : /\ served[o] > 0 <=> Desired(op.next, o) > 0
                           /\ served[o] <= Desired(op.next, o)
<1> SUFFICES ASSUME NEW o \in Object
             PROVE  /\ served[o] > 0 <=> Desired(op.next, o) > 0
                    /\ served[o] <= Desired(op.next, o)
  OBVIOUS
<1>1. /\ served[o] > 0 <=> Desired(mem, o) > 0
      /\ served[o] <= Desired(mem, o)
  BY DEF IInv, ServeInv, ServesExports
<1>2. op.next.conn = mem.conn
  BY AtPersist DEF Kind
<1>3. CASE o # op.obj
  BY <1>1, <1>2, <1>3, AtPersist DEF Desired, Ready
<1>4. CASE o = op.obj /\ op.kind \in {"create", "delete"}
  <2>1. o \notin mem.conn /\ served[o] = 0
    BY <1>4, AtPersist DEF IInv, DocsInv, DocOK, ValidateLoaded, Forgotten
  <2> QED
    BY <2>1, <1>2 DEF Desired
<1>5. CASE o = op.obj /\ op.kind \in {"rename", "resize"}
  <2>1. op.next.obj[o].state = mem.obj[o].state /\ op.next.obj[o].cap >= mem.obj[o].cap
    BY <1>5, AtPersist
  <2>2. op.next.obj[o].cap \in Nat /\ mem.obj[o].cap \in Nat /\ served[o] \in Nat
    BY AtPersist
  <2>3. Ready(mem, o) => mem.obj[o].cap > 0
    BY DEF IInv, DocsInv, DocOK, Recorded, Ready
  <2> QED
    BY <2>1, <2>2, <2>3, <1>1, <1>2 DEF Desired, Ready
<1> QED
  BY <1>3, <1>4, <1>5, AtPersist DEF Kind

\* The new document records everything acknowledged but a deleted object.
LEMMA AckedInNext ==
  ASSUME IInv, pc = "persist", ~rolledBack, NEW o \in Object, acked[o] > 0,
         o = op.obj => op.kind # "delete"
  PROVE  Recorded(op.next, o) /\ op.next.obj[o].cap >= acked[o]
<1>1. Recorded(mem, o) /\ mem.obj[o].cap >= acked[o]
  BY DEF IInv, AckInv, AckedIn
<1>2. op.kind # "create" \/ o # op.obj
  BY AtPersist DEF Forgotten
<1> QED
  BY <1>1, <1>2, AtPersist DEF Recorded, Kind

LEMMA LinkBackupFacts ==
  ASSUME LinkBackup PROVE backup' \in {disk, backup}
BY DEF LinkBackup

LEMMA PersistOKStep == ASSUME IInv, PersistOK PROVE IInv'
<1> DEFINE n == op.next
<1> USE DEF store, kernel, Backed
<1>0. pc = "persist" /\ mem' = n /\ disk' = n /\ durable' = n /\ backup' \in {disk, backup}
  BY LinkBackupFacts DEF PersistOK
<1>1. pc' = IF op.kind = "delete" THEN "unlink"
            ELSE IF op.kind \in {"create", "rename"} THEN "idle" ELSE "reconcile"
  BY <1>0, AtPersist, AfterPersistFacts DEF PersistOK, Finish
<1>2. op' \in Op /\ (pc' # "idle" => op' = op)
  BY <1>1, EmptyDocFacts DEF PersistOK, Finish, IInv, TypeOK
<1>3. \A o \in Object : acked'[o] =
        IF o = op.obj /\ op.kind \in {"create", "resize", "delete"}
        THEN n.obj[o].cap ELSE acked[o]
  BY <1>0, AtPersist DEF PersistOK, IInv, TypeOK
<1>4. acked' \in [Object -> 0..MaxSize]
  <2>1. n.obj[op.obj].cap \in 0..MaxSize
    BY <1>0, AtPersist DEF Doc, ObjRecord
  <2> QED
    BY <2>1 DEF PersistOK, IInv, TypeOK
<1>5. op.kind = "delete" => n.obj[op.obj].cap = 0
  BY <1>0, AtPersist DEF DocOK
<1>6. TypeOK'
  BY <1>0, <1>1, <1>2, <1>4, AtPersist DEF PersistOK, IInv, TypeOK, PC
<1>7. DocsInv'
  BY <1>0, AtPersist DEF PersistOK, IInv, DocsInv
<1>8. ReadyHasBytes' /\ ServedHasBytes'
  BY <1>0, AtPersist DEF PersistOK, IInv, ReadyHasBytes, HasBytes, ServedHasBytes, Ready
<1>9. OwedDataKept'
  BY <1>0, <1>3, <1>5, AtPersist DEF PersistOK, IInv, OwedDataKept
<1>10. AckInv'
  <2>1. \A o \in Object : acked'[o] > 0 => o \in minted
    BY <1>0, <1>3, <1>5, AtPersist DEF IInv, AckInv, DocOK
  <2>2. ~rolledBack => \A o \in Object :
          acked'[o] > 0 => Recorded(n, o) /\ n.obj[o].cap >= acked'[o]
    <3> SUFFICES ASSUME ~rolledBack, NEW o \in Object, acked'[o] > 0
                 PROVE  Recorded(n, o) /\ n.obj[o].cap >= acked'[o]
      OBVIOUS
    <3>1. CASE o = op.obj /\ op.kind \in {"create", "resize", "delete"}
      BY <3>1, <1>0, <1>3, AtPersist DEF DocOK
    <3>2. CASE ~(o = op.obj /\ op.kind \in {"create", "resize", "delete"})
      BY <3>2, <1>0, <1>3, AckedInNext
    <3> QED
      BY <3>1, <3>2
  <2> QED
    BY <2>1, <2>2, <1>0 DEF PersistOK, AckInv, AckedIn
<1>11. ServeInv'
  BY <1>0, <1>1, ServeAfterPersist DEF PersistOK, IInv, ServeInv, ServesExports, Desired, Ready
<1>12. OpInv'
  <2>1. CASE op.kind = "delete"
    <3>1. pc' = "unlink" /\ op' = op
      BY <2>1, <1>1, <1>2
    <3>2. /\ op.obj \in Object /\ ~Recorded(mem', op.obj)
          /\ acked'[op.obj] = 0 /\ served'[op.obj] = 0
      BY <2>1, <1>0, <1>3, <1>5, AtPersist DEF PersistOK
    <3> QED
      BY <3>1, <3>2 DEF OpInv, Forgotten, Recorded
  <2>2. CASE op.kind # "delete"
    BY <2>2, <1>1 DEF OpInv
  <2> QED
    BY <2>1, <2>2
<1> QED
  BY <1>6, <1>7, <1>8, <1>9, <1>10, <1>11, <1>12 DEF IInv

LEMMA PersistNotDurableStep == ASSUME IInv, PersistNotDurable PROVE IInv'
<1> DEFINE n == op.next
<1> USE DEF store, kernel, Backed
<1>0. pc = "persist" /\ mem' = n /\ disk' = n /\ durable' = durable /\ backup' \in {disk, backup}
  BY LinkBackupFacts DEF PersistNotDurable
<1>1. pc' = IF op.kind \in {"connect", "disconnect"} THEN "reconcile" ELSE "idle"
  BY <1>0, AtPersist, AfterPersistFacts DEF PersistNotDurable, Finish
<1>2. op' \in Op
  BY <1>1, EmptyDocFacts DEF PersistNotDurable, Finish, IInv, TypeOK
<1>3. \A o \in Object : acked'[o] =
        IF o = op.obj /\ op.kind = "delete" THEN 0 ELSE acked[o]
  BY <1>0, AtPersist DEF PersistNotDurable, IInv, TypeOK
<1>4. acked' \in [Object -> 0..MaxSize]
  <2>1. 0 \in 0..MaxSize /\ acked \in [Object -> 0..MaxSize]
    BY ObjectsAssumption DEF IInv, TypeOK
  <2> QED
    BY <2>1 DEF PersistNotDurable
<1>6. TypeOK'
  BY <1>0, <1>1, <1>2, <1>4, AtPersist DEF PersistNotDurable, IInv, TypeOK, PC
<1>7. DocsInv'
  BY <1>0, AtPersist DEF PersistNotDurable, IInv, DocsInv
<1>8. ReadyHasBytes' /\ ServedHasBytes'
  BY <1>0, AtPersist DEF PersistNotDurable, IInv, ReadyHasBytes, HasBytes, ServedHasBytes, Ready
<1>9. OwedDataKept'
  BY <1>0, <1>3 DEF PersistNotDurable, IInv, OwedDataKept
<1>10. AckInv'
  <2>1. \A o \in Object : acked'[o] > 0 => o \in minted /\ acked[o] = acked'[o]
    BY <1>0, <1>3 DEF IInv, AckInv
  <2>2. ~rolledBack => \A o \in Object :
          acked'[o] > 0 => Recorded(n, o) /\ n.obj[o].cap >= acked'[o]
    BY <1>0, <1>3, AckedInNext
  <2>3. ~rolledBack => \A o \in Object :
          acked'[o] > 0 => Recorded(durable, o) /\ durable.obj[o].cap >= acked'[o]
    BY <2>1 DEF IInv, AckInv, AckedIn
  <2> QED
    BY <2>1, <2>2, <2>3, <1>0 DEF PersistNotDurable, AckInv, AckedIn
<1>11. ServeInv'
  BY <1>0, <1>1, ServeAfterPersist DEF PersistNotDurable, IInv, ServeInv, ServesExports, Desired, Ready
<1>12. OpInv'
  BY <1>1 DEF OpInv
<1> QED
  BY <1>6, <1>7, <1>8, <1>9, <1>10, <1>11, <1>12 DEF IInv

LEMMA PersistFailedStep == ASSUME IInv, PersistFailed PROVE IInv'
<1> USE DEF store, kernel, history, Backed
<1>0. pc = "persist" /\ backup' \in {disk, backup}
  BY LinkBackupFacts DEF PersistFailed
<1>1. pc' = IF op.kind = "create" THEN "undo" ELSE "idle"
  BY <1>0, AtPersist, AfterPersistFacts DEF PersistFailed, Finish
<1>2. op' \in Op /\ (pc' # "idle" => op' = op)
  BY <1>1, EmptyDocFacts DEF PersistFailed, Finish, IInv, TypeOK
<1>3. TypeOK' /\ DocsInv'
  BY <1>0, <1>1, <1>2 DEF PersistFailed, IInv, TypeOK, PC, DocsInv
<1>4. ReadyHasBytes' /\ ServedHasBytes' /\ OwedDataKept'
  BY DEF PersistFailed, IInv, ReadyHasBytes, Ready, ServedHasBytes, OwedDataKept
<1>5. AckInv'
  BY <1>0 DEF PersistFailed, IInv, AckInv, AckedIn
<1>6. ServeInv'
  BY <1>0 DEF PersistFailed, IInv, ServeInv, ServesExports, Desired
<1>7. OpInv'
  <2>1. CASE op.kind = "create"
    <3>1. pc' = "undo" /\ op' = op
      BY <2>1, <1>1, <1>2
    <3> QED
      BY <2>1, <3>1, <1>0, AtPersist DEF PersistFailed, OpInv, Forgotten, Recorded
  <2>2. CASE op.kind # "create"
    BY <2>2, <1>1 DEF OpInv
  <2> QED
    BY <2>1, <2>2
<1> QED
  BY <1>3, <1>4, <1>5, <1>6, <1>7 DEF IInv

\* The bytes of a forgotten object may go: UndoCreate and Unlink.
LEMMA DropStep == ASSUME IInv, UndoCreate \/ Unlink PROVE IInv'
<1> USE DEF docs, store, kernel, history, Backed
<1>1. Forgotten(op.obj) /\ pc' = "idle" /\ op' = NoOp
  BY DEF UndoCreate, Unlink, IInv, OpInv, Return
<1>2. /\ loc' \in [Object -> {"none", "objects", "aside"}] /\ size' \in [Object -> 0..MaxSize]
      /\ synced' \in [Object -> 0..MaxSize] /\ unproven' \in [Object -> 0..MaxSize]
      /\ \A o \in Object : synced'[o] <= size'[o]
      /\ \A o \in Object : o # op.obj => /\ loc'[o] = loc[o] /\ size'[o] = size[o]
                                        /\ synced'[o] = synced[o] /\ unproven'[o] = unproven[o]
  BY <1>1, ObjectsAssumption DEF UndoCreate, Unlink, DropDirectory, IInv, TypeOK, Forgotten
<1>3. TypeOK' /\ DocsInv'
  BY <1>1, <1>2, EmptyDocFacts DEF UndoCreate, Unlink, IInv, TypeOK, PC, DocsInv
<1>4. ReadyHasBytes'
  BY <1>1, <1>2 DEF UndoCreate, Unlink, IInv, ReadyHasBytes, Ready, Forgotten, Recorded
<1>5. ServedHasBytes' /\ OwedDataKept'
  BY <1>1, <1>2 DEF UndoCreate, Unlink, IInv, ServedHasBytes, OwedDataKept, Forgotten
<1>6. AckInv' /\ ServeInv'
  BY <1>1 DEF UndoCreate, Unlink, IInv, AckInv, AckedIn, ServeInv, ServesExports, Desired
<1>7. OpInv'
  BY <1>1 DEF OpInv
<1> QED
  BY <1>3, <1>4, <1>5, <1>6, <1>7 DEF IInv

\* What every outcome of Grow does to the store: no length is lost, and one
\* that lets the resize go on is backed.
LEMMA GrowFacts ==
  ASSUME IInv, Grow
  PROVE  /\ pc = "grow" /\ op.obj \in Object /\ op.next \in Doc /\ op.kind = "resize"
         /\ size' \in [Object -> 0..MaxSize] /\ synced' \in [Object -> 0..MaxSize]
         /\ unproven' \in [Object -> 0..MaxSize]
         /\ \A o \in Object : /\ synced'[o] <= size'[o]
                              /\ NotLess(o)
         /\ \/ pc' = "idle" /\ op' = NoOp
            \/ /\ pc' = "persist" /\ op' = op
               /\ loc[op.obj] = "objects"
               /\ \/ synced'[op.obj] >= op.next.obj[op.obj].cap
                  \/ unproven'[op.obj] >= op.next.obj[op.obj].cap
<1> DEFINE s == op.next.obj[op.obj].cap
<1>1. pc = "grow" /\ op.obj \in Object /\ op.next \in Doc /\ op.kind = "resize"
  BY DEF Grow, IInv, TypeOK, OpInv, Op
<1>2. /\ size \in [Object -> 0..MaxSize] /\ synced \in [Object -> 0..MaxSize]
      /\ unproven \in [Object -> 0..MaxSize] /\ \A o \in Object : synced[o] <= size[o]
  BY DEF IInv, TypeOK
<1>3. s \in 0..MaxSize
  BY <1>1 DEF Doc, ObjRecord
<1> HIDE DEF s
<1>4. CASE /\ loc[op.obj] = "objects" /\ s = size[op.obj]
           /\ unproven' = [unproven EXCEPT ![op.obj] = IF synced[op.obj] < s /\ @ < s THEN s ELSE @]
           /\ pc' = "persist"
           /\ UNCHANGED <<op, size, synced>>
  <2>1. \A o \in Object : o # op.obj => unproven'[o] = unproven[o]
    BY <1>2, <1>4
  <2>2. /\ unproven'[op.obj] = IF synced[op.obj] < s /\ unproven[op.obj] < s
                               THEN s ELSE unproven[op.obj]
        /\ unproven' \in [Object -> 0..MaxSize]
    BY <1>1, <1>2, <1>3, <1>4
  <2> QED
    BY <1>1, <1>2, <1>3, <1>4, <2>1, <2>2, ObjectsAssumption DEF NotLess, s
<1>5. CASE /\ loc[op.obj] = "objects" /\ s > size[op.obj]
           /\ size' = [size EXCEPT ![op.obj] = s]
           /\ \/ synced' = [synced EXCEPT ![op.obj] = s] /\ pc' = "persist" /\ UNCHANGED op
              \/ Return /\ UNCHANGED synced
           /\ UNCHANGED unproven
  <2>1. /\ size' \in [Object -> 0..MaxSize] /\ size'[op.obj] = s
        /\ \A o \in Object : o # op.obj => size'[o] = size[o]
    BY <1>1, <1>2, <1>3, <1>5
  <2>2. /\ synced' \in [Object -> 0..MaxSize]
        /\ \A o \in Object : o # op.obj => synced'[o] = synced[o]
        /\ \/ synced'[op.obj] = s /\ pc' = "persist" /\ op' = op
           \/ synced'[op.obj] = synced[op.obj] /\ pc' = "idle" /\ op' = NoOp
    BY <1>1, <1>2, <1>3, <1>5 DEF Return
  <2> QED
    BY <1>1, <1>2, <1>3, <1>5, <2>1, <2>2, ObjectsAssumption DEF NotLess, s
<1>6. CASE Return /\ UNCHANGED <<size, synced, unproven>>
  BY <1>1, <1>2, <1>6, ObjectsAssumption DEF NotLess, Return
<1> QED
  BY <1>4, <1>5, <1>6 DEF Grow, s

LEMMA GrowStep == ASSUME IInv, Grow PROVE IInv'
<1> USE DEF docs, kernel, history
<1>0. /\ pc = "grow" /\ op.obj \in Object /\ op.next \in Doc /\ op.kind = "resize"
      /\ op \in Op /\ ~degraded /\ UNCHANGED <<docs, loc, kernel, history>>
  BY DEF Grow, IInv, TypeOK, OpInv, Op
<1>1. TypeOK' /\ DocsInv'
  BY <1>0, GrowFacts, EmptyDocFacts DEF IInv, TypeOK, PC, DocsInv
<1>2. \A o \in Object : /\ synced[o] \in Nat /\ synced'[o] \in Nat
                         /\ unproven[o] \in Nat /\ unproven'[o] \in Nat
  BY GrowFacts, ObjectsAssumption DEF IInv, TypeOK
<1>3. \A o \in Object, k \in Nat : Backed(o, k) =>
        synced'[o] >= k \/ unproven'[o] >= k
  BY <1>2, GrowFacts DEF Backed, NotLess
<1>4. \A o \in Object : served[o] \in Nat /\ acked[o] \in Nat /\ mem.obj[o].cap \in Nat
  <2>1. mem \in Doc /\ served \in [Object -> 0..MaxSize] /\ acked \in [Object -> 0..MaxSize]
    BY DEF IInv, TypeOK
  <2> QED
    BY <2>1, ObjectsAssumption DEF Doc, ObjRecord
<1>5. ReadyHasBytes' /\ ServedHasBytes' /\ OwedDataKept'
  BY <1>0, <1>3, <1>4 DEF IInv, ReadyHasBytes, Ready, ServedHasBytes, OwedDataKept, Backed
<1>6. AckInv' /\ ServeInv'
  BY <1>0, GrowFacts DEF IInv, AckInv, AckedIn, ServeInv, ServesExports, Desired
<1>7. CASE pc' = "idle"
  <2>1. OpInv'
    BY <1>7 DEF OpInv
  <2> QED
    BY <1>1, <1>5, <1>6, <2>1 DEF IInv
<1>8. CASE pc' = "persist" /\ op' = op
  <2>1. HasBytes(op.next)'
    <3> SUFFICES ASSUME NEW o \in Object, Ready(op.next, o)
                 PROVE  /\ loc'[o] = "objects"
                        /\ synced'[o] >= op.next.obj[o].cap \/ unproven'[o] >= op.next.obj[o].cap
      BY <1>8 DEF HasBytes, Ready, Backed
    <3>1. CASE o = op.obj
      BY <3>1, <1>0, <1>8, GrowFacts
    <3>2. CASE o # op.obj
      <4>1. op.next.obj[o] = mem.obj[o]
        BY <3>2, <1>0 DEF IInv, OpInv
      <4> QED
        BY <4>1, <1>0, <1>3, <1>4 DEF IInv, ReadyHasBytes, Ready
    <3> QED
      BY <3>1, <3>2
  <2>2. OpInv'
    BY <1>0, <1>8, <2>1, GrowFacts DEF IInv, OpInv, Recorded, Backed
  <2> QED
    BY <1>1, <1>5, <1>6, <2>2 DEF IInv
<1> QED
  BY <1>7, <1>8, GrowFacts

\* A reconcile brings an object to what memory asks for or leaves it alone;
\* one that succeeds leaves none alone.
LEMMA ReconcileFacts ==
  ASSUME IInv, ReconcileOK \/ ReconcileFailed
  PROVE  /\ served' \in [Object -> 0..MaxSize] /\ degraded' \in BOOLEAN
         /\ \A o \in Object : served'[o] \in {served[o], Desired(mem, o)}
         /\ ~degraded' => \A o \in Object : served'[o] = Desired(mem, o)
         /\ \A o \in Object : Desired(mem, o) \in 0..MaxSize
<1>1. \A o \in Object : Desired(mem, o) \in 0..MaxSize
  <2>1. mem \in Doc
    BY DEF IInv, TypeOK
  <2> QED
    BY <2>1, ObjectsAssumption DEF Desired, Doc, ObjRecord
<1>2. CASE ReconcileOK
  BY <1>1, <1>2 DEF ReconcileOK
<1>3. CASE ReconcileFailed
  <2>1. PICK done \in SUBSET Object :
          served' = [o \in Object |-> IF o \in done THEN Desired(mem, o) ELSE served[o]]
    BY <1>3 DEF ReconcileFailed
  <2>2. degraded' = TRUE /\ served \in [Object -> 0..MaxSize]
    BY <1>3 DEF ReconcileFailed, IInv, TypeOK
  <2> QED
    BY <1>1, <2>1, <2>2
<1> QED
  BY <1>2, <1>3

\* What a reconcile preserves, whoever called it.
LEMMA ReconcileKeeps ==
  ASSUME IInv, ReconcileOK \/ ReconcileFailed, UNCHANGED <<store, history>>,
         mem' \in {mem, EmptyDb}
  PROVE  /\ ServedHasBytes' /\ ReadyHasBytes' /\ OwedDataKept'
         /\ \A o \in Object : served'[o] > 0 => o \in minted
         /\ mem' = mem /\ ~degraded' => ServesExports'
<1> USE DEF store, history, Backed
<1>1. \A o \in Object : Desired(mem, o) > 0 =>
        loc[o] = "objects" /\ Backed(o, Desired(mem, o)) /\ o \in minted
  BY DEF IInv, ReadyHasBytes, Ready, Recorded, Desired, DocsInv, DocOK
<1>2. ServedHasBytes' /\ OwedDataKept'
  BY <1>1, ReconcileFacts DEF IInv, ServedHasBytes, OwedDataKept
<1>3. ReadyHasBytes'
  BY EmptyDocFacts DEF IInv, ReadyHasBytes, Ready, NoRecord
<1>4. \A o \in Object : served'[o] > 0 => o \in minted
  BY <1>1, ReconcileFacts DEF IInv, ServeInv
<1>5. mem' = mem /\ ~degraded' => ServesExports'
  <2> SUFFICES ASSUME mem' = mem, ~degraded' PROVE ServesExports'
    OBVIOUS
  <2>1. \A o \in Object : served'[o] = Desired(mem, o) /\ Desired(mem, o) \in 0..MaxSize
    BY ReconcileFacts
  <2> QED
    BY <2>1, ObjectsAssumption DEF ServesExports, Desired, Ready
<1> QED
  BY <1>2, <1>3, <1>4, <1>5

LEMMA HealStep == ASSUME IInv, Heal PROVE IInv'
<1> USE DEF docs, store, history, Backed
<1>0. pc = "heal" /\ op.kind \in Kind /\ (ReconcileOK \/ ReconcileFailed)
  BY DEF Heal, IInv, TypeOK, Op
<1>1. \/ pc' = "idle" /\ op' = NoOp
      \/ /\ pc' = IF op.kind = "resize" THEN "grow" ELSE "persist"
         /\ op' = op /\ ~degraded'
         /\ \A o \in Object : served'[o] = Desired(mem, o)
  BY <1>0, ReconcileFacts DEF Heal, AfterHeal, Return, ReconcileOK
<1>2. TypeOK' /\ DocsInv'
  <2>1. op' \in Op /\ pc' \in PC
    BY <1>1, EmptyDocFacts DEF IInv, TypeOK, PC
  <2> QED
    BY <2>1, <1>0, ReconcileFacts DEF Heal, IInv, TypeOK, DocsInv
<1>3. ServedHasBytes' /\ ReadyHasBytes' /\ OwedDataKept'
  BY <1>0, ReconcileKeeps DEF Heal
<1>4. AckInv'
  BY <1>0 DEF Heal, IInv, AckInv, AckedIn
<1>5. ServeInv'
  BY <1>0, ReconcileKeeps DEF Heal, ServeInv
<1>6. OpInv'
  <2>1. CASE pc' = "idle"
    BY <2>1 DEF OpInv
  <2>2. CASE pc' # "idle"
    <3>1. /\ op.kind \in Kind \ {"none", "create"} /\ op' = op /\ ~degraded'
          /\ pc' = IF op.kind = "resize" THEN "grow" ELSE "persist"
      BY <1>0, <1>1, <2>2 DEF IInv, OpInv
    <3>2. op.kind = "delete" => served'[op.obj] = 0
      BY <1>0, <1>1, <2>2 DEF IInv, OpInv, Desired
    <3>3. op.kind # "resize" => HasBytes(op.next)'
      <4> SUFFICES ASSUME op.kind # "resize", NEW o \in Object, Ready(op.next, o)
                   PROVE  /\ loc'[o] = "objects"
                          /\ synced'[o] >= op.next.obj[o].cap \/ unproven'[o] >= op.next.obj[o].cap
        BY <3>1 DEF HasBytes, Ready
      <4>1. op.next.obj[o].state = mem.obj[o].state /\ op.next.obj[o].cap = mem.obj[o].cap
        BY <1>0, <3>1 DEF IInv, OpInv, Kind, Ready, Recorded
      <4> QED
        BY <4>1 DEF Heal, IInv, ReadyHasBytes, Ready
    <3> QED
      BY <1>0, <3>1, <3>2, <3>3 DEF Heal, IInv, OpInv, Recorded
  <2> QED
    BY <2>1, <2>2
<1> QED
  BY <1>2, <1>3, <1>4, <1>5, <1>6 DEF IInv

LEMMA ReconcileStep == ASSUME IInv, Reconcile PROVE IInv'
<1> USE DEF docs, store, history, Backed
<1>0. pc = "reconcile" /\ (ReconcileOK \/ ReconcileFailed) /\ pc' = "idle" /\ op' = NoOp
  BY DEF Reconcile, Return
<1>1. TypeOK' /\ DocsInv'
  BY <1>0, ReconcileFacts, EmptyDocFacts DEF Reconcile, IInv, TypeOK, DocsInv, PC
<1>2. ServedHasBytes' /\ ReadyHasBytes' /\ OwedDataKept' /\ ServeInv'
  BY <1>0, ReconcileKeeps DEF Reconcile, ServeInv
<1>3. AckInv' /\ OpInv'
  BY <1>0 DEF Reconcile, IInv, AckInv, AckedIn, OpInv
<1> QED
  BY <1>1, <1>2, <1>3 DEF IInv

LEMMA ReplayStep == ASSUME IInv, Replay PROVE IInv'
<1> USE DEF docs, store, history, Backed
<1>0. /\ pc = "replay" /\ (ReconcileOK \/ ReconcileFailed)
      /\ \/ pc' = "idle" /\ mem' = mem
         \/ pc' = "down" /\ mem' = EmptyDb
  BY DEF Replay
<1>1. TypeOK' /\ DocsInv'
  BY <1>0, ReconcileFacts, EmptyDocFacts, EmptyDocOK DEF Replay, IInv, TypeOK, DocsInv, PC
<1>2. ServedHasBytes' /\ ReadyHasBytes' /\ OwedDataKept' /\ ServeInv'
  BY <1>0, ReconcileKeeps DEF Replay, ServeInv
<1>3. AckInv' /\ OpInv'
  BY <1>0 DEF Replay, IInv, AckInv, AckedIn, OpInv
<1> QED
  BY <1>1, <1>2, <1>3 DEF IInv

\* A start marks records and sets directories aside; it destroys nothing.
LEMMA OpenStep == ASSUME IInv, LengthInv, Open PROVE IInv'
<1> USE DEF store, kernel, history, Backed
<1> DEFINE m == MarkMissing(disk)
<1>1. disk \in Doc /\ DocOK(disk, minted) /\ loc \in [Object -> {"none", "objects", "aside"}]
  BY DEF IInv, TypeOK, DocsInv
<1>2. /\ m.present = disk.present /\ m.conn = disk.conn
      /\ m.obj = [o \in Object |->
            IF Recorded(disk, o) /\ loc[o] # "objects"
            THEN [disk.obj[o] EXCEPT !.state = "missing"] ELSE disk.obj[o]]
  BY <1>1 DEF MarkMissing, Doc
<1>3. \A o \in Object : /\ m.obj[o] \in ObjRecord
                        /\ m.obj[o].name = disk.obj[o].name
                        /\ m.obj[o].cap = disk.obj[o].cap
                        /\ Recorded(m, o) <=> Recorded(disk, o)
                        /\ Ready(m, o) => Ready(disk, o) /\ loc[o] = "objects"
  <2> TAKE o \in Object
  <2> HIDE DEF m
  <2>1. disk.obj[o] \in ObjRecord
    BY <1>1 DEF Doc
  <2>2. CASE Recorded(disk, o) /\ loc[o] # "objects"
    <3>1. m.obj[o] = [disk.obj[o] EXCEPT !.state = "missing"]
      BY <1>2, <2>2
    <3> QED
      BY <2>1, <2>2, <3>1 DEF ObjRecord, State, Recorded, Ready
  <2>3. CASE ~(Recorded(disk, o) /\ loc[o] # "objects")
    <3>1. m.obj[o] = disk.obj[o]
      BY <1>2, <2>3
    <3> QED
      BY <2>1, <2>3, <3>1 DEF Recorded, Ready
  <2> QED
    BY <2>2, <2>3
<1>4. m \in Doc
  BY <1>1, <1>2, <1>3 DEF MarkMissing, Doc
<1>5. DocOK(m, minted)
  BY <1>1, <1>2, <1>3 DEF DocOK, ValidateLoaded, Doc
<1> HIDE DEF m
<1>6. mem' = m
  BY DEF Open, m
<1>7. /\ loc' \in [Object -> {"none", "objects", "aside"}]
      /\ \A o \in Object : /\ loc[o] # "none" => loc'[o] # "none"
                           /\ Recorded(disk, o) => loc'[o] = loc[o]
  BY <1>1 DEF Open, QuarantineUnrecorded
<1>8. TypeOK' /\ DocsInv'
  BY <1>4, <1>5, <1>6, <1>7 DEF Open, IInv, TypeOK, DocsInv, PC
<1>9. ReadyHasBytes'
  <2> SUFFICES ASSUME NEW o \in Object, Ready(m, o)
               PROVE  /\ loc'[o] = "objects"
                      /\ synced'[o] >= m.obj[o].cap \/ unproven'[o] >= m.obj[o].cap
    BY <1>6 DEF ReadyHasBytes, Ready
  <2>1. Ready(disk, o) /\ loc[o] = "objects" /\ Recorded(disk, o)
    BY <1>3 DEF Recorded, Ready
  <2>2. Backed(o, disk.obj[o].cap)
    BY <2>1 DEF LengthInv, LongEnough
  <2> QED
    BY <2>1, <2>2, <1>3, <1>7 DEF Open
<1>10. OwedDataKept' /\ ServedHasBytes'
  BY <1>7 DEF Open, IInv, OwedDataKept, ServedHasBytes
<1>11. AckInv'
  BY <1>3, <1>6 DEF Open, IInv, AckInv, AckedIn
<1>12. ServeInv' /\ OpInv'
  BY DEF Open, IInv, ServeInv, OpInv
<1> QED
  BY <1>8, <1>9, <1>10, <1>11, <1>12 DEF IInv

LEMMA OpenFirstStep == ASSUME IInv, PresentInv, OpenFirst PROVE IInv'
<1> USE DEF store, kernel, history, Backed
<1>1. /\ pc = "down" /\ mem' = EmptyDb /\ disk' = EmptyDb /\ pc' \in {"down", "replay"}
      /\ durable' \in {EmptyDb, durable}
  BY DEF OpenFirst
<1>2. TypeOK' /\ DocsInv'
  BY <1>1, EmptyDocFacts, EmptyDocOK DEF OpenFirst, IInv, TypeOK, DocsInv, PC
<1>3. ReadyHasBytes' /\ OwedDataKept' /\ ServedHasBytes'
  BY <1>1, EmptyDocFacts DEF OpenFirst, IInv, ReadyHasBytes, OwedDataKept,
     ServedHasBytes, Ready, NoRecord
<1>4. ~rolledBack => \A o \in Object : acked[o] = 0
  <2> SUFFICES ASSUME ~rolledBack, NEW o \in Object PROVE acked[o] = 0
    OBVIOUS
  <2>1. ~Recorded(disk, o)
    BY EmptyDocFacts DEF OpenFirst, PresentInv, Recorded, NoRecord
  <2>2. ~(acked[o] > 0)
    BY <2>1 DEF IInv, AckInv, AckedIn
  <2> QED
    BY <2>2, ObjectsAssumption DEF IInv, TypeOK
<1>5. AckInv'
  BY <1>4 DEF OpenFirst, IInv, TypeOK, AckInv, AckedIn
<1>6. ServeInv' /\ OpInv'
  BY <1>1 DEF OpenFirst, IInv, ServeInv, OpInv
<1> QED
  BY <1>2, <1>3, <1>5, <1>6 DEF IInv

\* A power loss leaves every length that was synced.
LEMMA LengthDown ==
  ASSUME IInv, Crash \/ PowerLoss
  PROVE  /\ size' \in [Object -> 0..MaxSize] /\ synced' \in [Object -> 0..MaxSize]
         /\ \A o \in Object : synced'[o] <= size'[o] /\ NotLess(o)
<1>1. /\ size \in [Object -> 0..MaxSize] /\ synced \in [Object -> 0..MaxSize]
      /\ unproven \in [Object -> 0..MaxSize] /\ \A o \in Object : synced[o] <= size[o]
  BY DEF IInv, TypeOK
<1>2. CASE Crash
  BY <1>1, <1>2, ObjectsAssumption DEF Crash, store, NotLess
<1>3. CASE PowerLoss
  <2>1. PICK len \in [Object -> 0..MaxSize] :
          /\ \A o \in Object : len[o] \in synced[o]..size[o]
          /\ size' = len /\ synced' = len /\ unproven' = unproven
    BY <1>3 DEF PowerLoss
  <2> QED
    BY <1>1, <2>1, ObjectsAssumption DEF NotLess
<1> QED
  BY <1>2, <1>3

\* A dead daemon knows nothing; what it left in the kernel stays, or goes too.
LEMMA DownStep == ASSUME IInv, Crash \/ PowerLoss PROVE IInv'
<1> USE DEF history
<1>1. /\ pc' = "down" /\ op' = NoOp /\ mem' = EmptyDb /\ degraded' = FALSE
      /\ disk' \in {disk, durable} /\ durable' \in {disk, durable}
      /\ \A o \in Object : served'[o] \in {0, served[o]}
      /\ UNCHANGED <<backup, loc, unproven, history>>
  BY DEF Crash, PowerLoss, store
<1>2. served' \in [Object -> 0..MaxSize]
  BY ObjectsAssumption DEF Crash, PowerLoss, IInv, TypeOK
<1>3. /\ size' \in [Object -> 0..MaxSize] /\ synced' \in [Object -> 0..MaxSize]
      /\ \A o \in Object : synced'[o] <= size'[o] /\ NotLess(o)
  BY LengthDown
<1>4. TypeOK' /\ DocsInv'
  BY <1>1, <1>2, <1>3, EmptyDocFacts, EmptyDocOK DEF IInv, TypeOK, DocsInv, PC
<1>5. ReadyHasBytes'
  BY <1>1, EmptyDocFacts DEF ReadyHasBytes, Ready, NoRecord
<1>6. \A o \in Object : /\ synced[o] \in Nat /\ synced'[o] \in Nat
                         /\ unproven[o] \in Nat /\ unproven'[o] \in Nat
                         /\ served[o] \in Nat /\ acked[o] \in Nat
  BY <1>1, <1>3, ObjectsAssumption DEF IInv, TypeOK
<1>7. OwedDataKept' /\ ServedHasBytes'
  BY <1>1, <1>3, <1>6 DEF IInv, OwedDataKept, ServedHasBytes, Backed, NotLess
<1>8. AckInv'
  BY <1>1 DEF IInv, AckInv, AckedIn
<1>9. ServeInv' /\ OpInv'
  BY <1>1 DEF IInv, ServeInv, OpInv
<1> QED
  BY <1>4, <1>5, <1>7, <1>8, <1>9 DEF IInv

\* An operator replaces the document of a stopped daemon.
LEMMA OperatorStep == ASSUME IInv, LoseDb \/ RestoreBackup PROVE IInv'
<1> USE DEF store, kernel, Backed
<1>1. /\ pc = "down" /\ rolledBack' = TRUE
      /\ disk' \in {NoDb, backup} /\ durable' \in {NoDb, backup}
      /\ UNCHANGED <<mem, backup, store, kernel, pc, op, minted, acked>>
  BY DEF LoseDb, RestoreBackup
<1>2. TypeOK' /\ DocsInv'
  BY <1>1, EmptyDocFacts, EmptyDocOK DEF IInv, TypeOK, DocsInv
<1>3. ReadyHasBytes' /\ OwedDataKept' /\ ServedHasBytes'
  BY <1>1 DEF IInv, ReadyHasBytes, OwedDataKept, ServedHasBytes
<1>4. AckInv' /\ ServeInv' /\ OpInv'
  BY <1>1 DEF IInv, AckInv, ServeInv, OpInv
<1> QED
  BY <1>2, <1>3, <1>4 DEF IInv

\* What a document records, another records at the same capacity.
Within(d, e) ==
  \A o \in Object : Recorded(d, o) => Recorded(e, o) /\ d.obj[o].cap = e.obj[o].cap

\* Lengths survive a step that moves no directory into objects/, shortens
\* none that stays there, and takes its documents from ones long enough.
LEMMA LengthKept ==
  ASSUME IInv, IInv',
         \A o \in Object : loc'[o] = "objects" => loc[o] = "objects" /\ NotLess(o),
         \A d \in {mem', disk', durable', backup'} :
            \E e \in {mem, disk, durable, backup, op.next, EmptyDb, NoDb} :
               LongEnough(e) /\ Within(d, e)
  PROVE  LengthInv'
<1>1. \A o \in Object : /\ synced[o] \in Nat /\ synced'[o] \in Nat
                         /\ unproven[o] \in Nat /\ unproven'[o] \in Nat
  BY ObjectsAssumption DEF IInv, TypeOK
<1> SUFFICES ASSUME NEW d \in {mem', disk', durable', backup'}, NEW o \in Object,
                    Recorded(d, o), loc'[o] = "objects"
             PROVE  synced'[o] >= d.obj[o].cap \/ unproven'[o] >= d.obj[o].cap
  BY DEF LengthInv, LongEnough, Recorded, Backed
<1>2. PICK e \in {mem, disk, durable, backup, op.next, EmptyDb, NoDb} :
         LongEnough(e) /\ Within(d, e)
  OBVIOUS
<1>3. e \in Doc
  BY EmptyDocFacts DEF IInv, TypeOK, Op
<1>4. Backed(o, e.obj[o].cap) /\ e.obj[o].cap = d.obj[o].cap
  BY <1>2 DEF LongEnough, Within
<1>5. e.obj[o].cap \in Nat
  BY <1>3, ObjectsAssumption DEF Doc, ObjRecord
<1> QED
  BY <1>1, <1>4, <1>5 DEF Backed, NotLess

LEMMA LengthOfEmpty == LongEnough(EmptyDb) /\ LongEnough(NoDb)
BY EmptyDocFacts DEF LongEnough, Recorded, NoRecord

LEMMA WithinSelf == \A d : Within(d, d)
BY DEF Within

\* The document about to be written is long enough: its one new capacity is
\* the length Create or Resize gave the file first.
LEMMA NextLongEnough ==
  ASSUME IInv, LengthInv, pc = "persist" PROVE LongEnough(op.next)
<1> SUFFICES ASSUME NEW o \in Object, Recorded(op.next, o), loc[o] = "objects"
             PROVE  Backed(o, op.next.obj[o].cap)
  BY DEF LongEnough
<1>1. op.kind \in Kind \ {"none"} /\ op.obj \in Object
  BY DEF IInv, OpInv, TypeOK, Op
<1>2. LongEnough(mem)
  BY DEF LengthInv
<1>3. CASE o # op.obj \/ op.kind \in {"connect", "disconnect", "rename"}
  <2>1. op.next.obj[o].cap = mem.obj[o].cap /\ op.next.obj[o].state = mem.obj[o].state
    BY <1>1, <1>3 DEF IInv, OpInv
  <2> QED
    BY <1>2, <2>1 DEF LongEnough, Recorded
<1>4. CASE o = op.obj /\ op.kind \in {"create", "resize"}
  BY <1>4 DEF IInv, OpInv
<1>5. CASE o = op.obj /\ op.kind = "delete"
  BY <1>5 DEF IInv, OpInv
<1> QED
  BY <1>1, <1>3, <1>4, <1>5 DEF Kind

LEMMA LengthBeginCreate ==
  ASSUME FullInv, NEW o \in Object, NEW m \in Name, NEW cap \in Size, NEW len \in 0..MaxSize,
         BeginCreate(o, m, cap, len)
  PROVE  LengthInv'
<1> SUFFICES ASSUME NEW d \in {mem, disk, durable, backup}, NEW p \in Object,
                    Recorded(d, p), loc'[p] = "objects"
             PROVE  synced'[p] >= d.obj[p].cap \/ unproven'[p] >= d.obj[p].cap
  BY DEF BeginCreate, docs, LengthInv, LongEnough, Recorded, Backed
<1>1. p # o
  BY DEF FullInv, IInv, DocsInv, DocOK, BeginCreate
<1>2. loc'[p] = loc[p] /\ synced'[p] = synced[p] /\ unproven'[p] = unproven[p]
  BY <1>1 DEF BeginCreate, FullInv, IInv, TypeOK
<1> QED
  BY <1>2 DEF FullInv, LengthInv, LongEnough, Backed

LEMMA LengthPersist ==
  ASSUME FullInv, IInv', PersistOK \/ PersistNotDurable \/ PersistFailed
  PROVE  LengthInv'
<1>1. /\ pc = "persist" /\ UNCHANGED <<loc, synced, unproven>>
      /\ \A d \in {mem', disk', durable'} : d \in {mem, disk, durable, op.next}
      /\ backup' \in {backup, disk}
  BY DEF PersistOK, PersistNotDurable, PersistFailed, LinkBackup, store
<1>2. LongEnough(op.next) /\ \A d \in {mem, disk, durable, backup} : LongEnough(d)
  BY <1>1, NextLongEnough DEF FullInv, LengthInv
<1>3. \A o \in Object : NotLess(o)
  BY <1>1, ObjectsAssumption DEF FullInv, IInv, TypeOK, NotLess
<1>4. \A d \in {mem', disk', durable', backup'} :
         \E e \in {mem, disk, durable, backup, op.next, EmptyDb, NoDb} :
            LongEnough(e) /\ Within(d, e)
  BY <1>1, <1>2, WithinSelf
<1> QED
  BY <1>1, <1>3, <1>4, LengthKept DEF FullInv

LEMMA LengthStart ==
  ASSUME FullInv, IInv', Open \/ OpenFirst PROVE LengthInv'
<1>1. UNCHANGED <<synced, unproven>> /\ \A o \in Object : loc'[o] = "objects" => loc[o] = "objects"
  BY DEF Open, OpenFirst, QuarantineUnrecorded, store, FullInv, IInv, TypeOK
<1>2. \A o \in Object : NotLess(o)
  BY <1>1, ObjectsAssumption DEF FullInv, IInv, TypeOK, NotLess
<1>3. \A d \in {disk', durable', backup'} : d \in {disk, durable, backup, EmptyDb}
  BY DEF Open, OpenFirst
<1>4. mem' = EmptyDb \/ Within(mem', disk)
  <2>1. CASE Open
    <3>1. disk \in Doc /\ mem' = MarkMissing(disk)
      BY <2>1 DEF Open, FullInv, IInv, TypeOK
    <3>2. mem'.obj = [o \in Object |->
            IF Recorded(disk, o) /\ loc[o] # "objects"
            THEN [disk.obj[o] EXCEPT !.state = "missing"] ELSE disk.obj[o]]
      BY <3>1 DEF MarkMissing, Doc
    <3>3. \A o \in Object : disk.obj[o] \in ObjRecord
      BY <3>1 DEF Doc
    <3> QED
      BY <3>2, <3>3 DEF Within, Recorded, ObjRecord
  <2>2. CASE OpenFirst
    BY <2>2 DEF OpenFirst
  <2> QED
    BY <2>1, <2>2
<1>5. \A d \in {disk, durable, backup, EmptyDb} : LongEnough(d)
  BY LengthOfEmpty DEF FullInv, LengthInv
<1>6. \A d \in {mem', disk', durable', backup'} :
         \E e \in {mem, disk, durable, backup, op.next, EmptyDb, NoDb} :
            LongEnough(e) /\ Within(d, e)
  BY <1>3, <1>4, <1>5, WithinSelf
<1> QED
  BY <1>1, <1>2, <1>6, LengthKept DEF FullInv

\* Every other step takes its documents from the old ones, or empty ones, and
\* never shortens a file that stays in objects/.
LEMMA LengthOther ==
  ASSUME FullInv, IInv',
         \A d \in {mem', disk', durable', backup'} :
            d \in {mem, disk, durable, backup, EmptyDb, NoDb},
         \A o \in Object : loc'[o] = "objects" => loc[o] = "objects" /\ NotLess(o)
  PROVE  LengthInv'
<1>1. \A d \in {mem, disk, durable, backup, EmptyDb, NoDb} : LongEnough(d)
  BY LengthOfEmpty DEF FullInv, LengthInv
<1>2. \A d \in {mem', disk', durable', backup'} :
         \E e \in {mem, disk, durable, backup, op.next, EmptyDb, NoDb} :
            LongEnough(e) /\ Within(d, e)
  BY <1>1, WithinSelf
<1> QED
  BY <1>2, LengthKept DEF FullInv

\* The steps of the handlers that only set up an operation.
Begin ==
  \/ \E o \in Object, n \in Name : Rename(o, n)
  \/ \E o \in Object, s \in Size : Resize(o, s)
  \/ \E o \in Object : Delete(o) \/ Connect(o) \/ Disconnect(o)

LEMMA BeginIInv == ASSUME IInv, Begin PROVE IInv'
BY RenameStep, ResizeStep, DeleteStep, ConnectStep, DisconnectStep DEF Begin

\* Create and Clone differ in the length of the file they make.
LEMMA CreateBegins ==
  ASSUME IInv, \/ \E o \in Object, n \in Name, s \in Size : Create(o, n, s)
               \/ \E o, src \in Object, n \in Name, s \in Size : Clone(o, n, s, src)
  PROVE  \E o \in Object, n \in Name, s \in Size, len \in 0..MaxSize : BeginCreate(o, n, s, len)
<1>1. \A s \in Size : s \in 0..MaxSize
  BY ObjectsAssumption DEF Size
<1>2. ASSUME NEW o \in Object, NEW n \in Name, NEW s \in Size, Create(o, n, s)
      PROVE  \E len \in 0..MaxSize : BeginCreate(o, n, s, len)
  BY <1>1, <1>2 DEF Create
<1>3. ASSUME NEW o \in Object, NEW src \in Object, NEW n \in Name, NEW s \in Size,
             Clone(o, n, s, src)
      PROVE  \E len \in 0..MaxSize : BeginCreate(o, n, s, len)
  <2> DEFINE len == IF s > mem.obj[src].cap THEN s ELSE size[src]
  <2>1. size[src] \in 0..MaxSize
    BY DEF IInv, TypeOK
  <2>2. len \in 0..MaxSize
    BY <2>1, <1>1
  <2>3. BeginCreate(o, n, s, len)
    BY <1>3 DEF Clone
  <2> QED
    BY <2>2, <2>3
<1> QED
  BY <1>2, <1>3

LEMMA PresentStep == ASSUME FullInv, [Next]_vars PROVE PresentInv'
<1> USE DEF docs, store, kernel, history
<1>1. mem.present /\ op.next.present /\ mem \in Doc /\ disk \in Doc
  BY DEF FullInv, PresentInv, IInv, TypeOK
<1>2. NoOp.next.present
  BY EmptyDocFacts DEF NoOp
<1>3. CASE Begin \/ \E o \in Object, n \in Name, s \in Size, len \in 0..MaxSize : BeginCreate(o, n, s, len)
  <2>1. /\ \A o \in Object : \A r : PutRecord(mem, o, r).present
        /\ \A c : SetConn(mem, c).present
    BY <1>1 DEF PutRecord, SetConn, Doc
  <2>2. UNCHANGED docs
    BY <1>3 DEF Begin, BeginCreate, Rename, Resize, Delete, Connect, Disconnect
  <2>3. \/ op' = op
        \/ \E o \in Object : \E r : op'.next = PutRecord(mem, o, r)
        \/ \E c : op'.next = SetConn(mem, c)
    <3>1. ASSUME NEW o \in Object, NEW n \in Name, Rename(o, n)
          PROVE  \E p \in Object : \E r : op'.next = PutRecord(mem, p, r)
      BY <3>1 DEF Rename
    <3>2. ASSUME NEW o \in Object, NEW s \in Size, Resize(o, s)
          PROVE  \E p \in Object : \E r : op'.next = PutRecord(mem, p, r)
      BY <3>2 DEF Resize
    <3>3. ASSUME NEW o \in Object, Delete(o)
          PROVE  \E p \in Object : \E r : op'.next = PutRecord(mem, p, r)
      BY <3>3 DEF Delete
    <3>4. ASSUME NEW o \in Object, Connect(o) \/ Disconnect(o)
          PROVE  \E c : op'.next = SetConn(mem, c)
      BY <3>4 DEF Connect, Disconnect
    <3>5. ASSUME NEW o \in Object, NEW n \in Name, NEW s \in Size, NEW len \in 0..MaxSize,
                 BeginCreate(o, n, s, len)
          PROVE  op' = op \/ \E p \in Object : \E r : op'.next = PutRecord(mem, p, r)
      BY <3>5 DEF BeginCreate
    <3> QED
      BY <1>3, <3>1, <3>2, <3>3, <3>4, <3>5 DEF Begin
  <2> QED
    BY <1>1, <2>1, <2>2, <2>3 DEF FullInv, PresentInv
<1>4. CASE Heal \/ Grow \/ UndoCreate \/ Unlink \/ Reconcile
  <2>1. UNCHANGED docs /\ op' \in {op, NoOp}
    BY <1>4 DEF Heal, Grow, UndoCreate, Unlink, Reconcile, Return
  <2> QED
    BY <1>1, <1>2, <2>1 DEF FullInv, PresentInv
<1>5. CASE PersistOK \/ PersistNotDurable \/ PersistFailed
  <2>1. /\ mem' \in {mem, op.next} /\ disk' \in {disk, op.next}
        /\ durable' \in {durable, op.next} /\ backup' \in {disk, backup}
        /\ op' \in {op, NoOp}
    BY <1>5 DEF PersistOK, PersistNotDurable, PersistFailed, LinkBackup, Finish
  <2> QED
    BY <1>1, <1>2, <2>1 DEF FullInv, PresentInv
<1>6. CASE Open
  <2>1. mem'.present /\ op' = op /\ UNCHANGED <<disk, durable, backup>>
    BY <1>1, <1>6 DEF Open, MarkMissing, Doc
  <2> QED
    BY <1>1, <2>1 DEF FullInv, PresentInv
<1>7. CASE OpenFirst \/ Replay \/ Crash \/ PowerLoss \/ LoseDb \/ RestoreBackup
  <2>1. /\ mem' \in {mem, EmptyDb} /\ op' \in {op, NoOp}
        /\ \A d \in {disk', durable', backup'} : d \in {disk, durable, backup, NoDb, EmptyDb}
    BY <1>7 DEF OpenFirst, Replay, Crash, PowerLoss, LoseDb, RestoreBackup
  <2> QED
    BY <1>1, <1>2, <2>1, EmptyDocFacts DEF FullInv, PresentInv
<1>8. CASE UNCHANGED vars
  BY <1>8 DEF vars, FullInv, PresentInv
<1> QED
  BY <1>3, <1>4, <1>5, <1>6, <1>7, <1>8, CreateBegins DEF Next, Begin, FullInv

LEMMA NextFullInv == FullInv /\ [Next]_vars => FullInv'
<1> SUFFICES ASSUME FullInv, [Next]_vars PROVE IInv' /\ LengthInv'
  BY PresentStep DEF FullInv
<1> USE DEF docs, store, kernel, history
<1>0. IInv /\ LengthInv /\ PresentInv
  BY DEF FullInv
<1>00. UNCHANGED <<synced, unproven>> => \A o \in Object : NotLess(o)
  BY <1>0, ObjectsAssumption DEF IInv, TypeOK, NotLess
<1>1. CASE Begin
  <2>1. IInv'
    BY <1>0, <1>1, BeginIInv
  <2>2. UNCHANGED <<mem, disk, durable, backup, loc, synced, unproven>>
    BY <1>1 DEF Begin, Rename, Resize, Delete, Connect, Disconnect
  <2> QED
    BY <1>00, <2>1, <2>2, LengthOther
<1>2. CASE \E o \in Object, n \in Name, s \in Size, len \in 0..MaxSize : BeginCreate(o, n, s, len)
  BY <1>0, <1>2, BeginCreateStep, LengthBeginCreate
<1>3. CASE PersistOK \/ PersistNotDurable \/ PersistFailed
  BY <1>0, <1>3, PersistOKStep, PersistNotDurableStep, PersistFailedStep, LengthPersist
<1>4. CASE Heal \/ Reconcile
  <2>1. IInv' /\ UNCHANGED <<mem, disk, durable, backup, loc, synced, unproven>>
    BY <1>0, <1>4, HealStep, ReconcileStep DEF Heal, Reconcile
  <2> QED
    BY <1>00, <2>1, LengthOther
<1>5. CASE UndoCreate \/ Unlink
  <2>1. IInv' /\ UNCHANGED <<mem, disk, durable, backup>>
    BY <1>0, <1>5, DropStep DEF UndoCreate, Unlink
  <2>2. /\ op.obj \in Object /\ loc \in [Object -> {"none", "objects", "aside"}]
        /\ synced \in [Object -> 0..MaxSize] /\ unproven \in [Object -> 0..MaxSize]
    BY <1>0, <1>5 DEF UndoCreate, Unlink, IInv, TypeOK, OpInv, Forgotten
  <2>3. \A o \in Object : loc'[o] = "objects" => loc[o] = "objects" /\ NotLess(o)
    BY <1>5, <2>2, ObjectsAssumption DEF UndoCreate, Unlink, DropDirectory, NotLess
  <2> QED
    BY <1>0, <2>1, <2>3, LengthOther
<1>6. CASE Grow
  <2>1. IInv' /\ UNCHANGED <<mem, disk, durable, backup, loc>>
    BY <1>0, <1>6, GrowStep DEF Grow
  <2> QED
    BY <1>0, <1>6, <2>1, GrowFacts, LengthOther
<1>7. CASE Open \/ OpenFirst
  BY <1>0, <1>7, OpenStep, OpenFirstStep, LengthStart
<1>8. CASE Replay \/ Crash \/ PowerLoss \/ LoseDb \/ RestoreBackup
  <2>1. IInv'
    BY <1>0, <1>8, ReplayStep, DownStep, OperatorStep
  <2>2. /\ loc' = loc /\ mem' \in {mem, EmptyDb}
        /\ \A d \in {disk', durable', backup'} : d \in {disk, durable, backup, NoDb}
    BY <1>8 DEF Replay, Crash, PowerLoss, LoseDb, RestoreBackup
  <2>3. \A o \in Object : NotLess(o)
    BY <1>0, <1>00, <1>8, LengthDown DEF Replay, LoseDb, RestoreBackup
  <2> QED
    BY <2>1, <2>2, <2>3, LengthOther
<1>9. CASE UNCHANGED vars
  <2>1. IInv'
    BY <1>0, <1>9 DEF vars, IInv, TypeOK, DocsInv, ReadyHasBytes, OwedDataKept,
       ServedHasBytes, AckInv, AckedIn, ServeInv, ServesExports, Desired, OpInv,
       Forgotten, HasBytes, Backed
  <2> QED
    BY <1>00, <1>9, <2>1, LengthOther DEF vars
<1> QED
  BY <1>0, <1>1, <1>2, <1>3, <1>4, <1>5, <1>6, <1>7, <1>8, <1>9, CreateBegins DEF Next, Begin

LEMMA InitFullInv == Init => FullInv
<1> SUFFICES ASSUME Init PROVE LengthInv /\ PresentInv
  BY InitIInv DEF FullInv
<1>1. LengthInv
  BY LengthOfEmpty DEF Init, LengthInv
<1> QED
  BY <1>1, EmptyDocFacts DEF Init, PresentInv, NoOp

LEMMA SpecFullInv == Spec => []FullInv
BY InitFullInv, NextFullInv, PTL DEF Spec

\* Every variable keeps its type, whatever the sizes of the constants.
THEOREM TypeCorrect == Spec => []TypeOK
<1>1. FullInv => TypeOK
  BY DEF FullInv, IInv
<1> QED
  BY <1>1, SpecFullInv, PTL

\* Data committed durably and not deleted is never destroyed by Create,
\* Resize, Delete, adoptStorage, a crash, a power loss or a replaced db: its
\* length was synced, or store.Resize found it already there.
THEOREM DataKept == Spec => []OwedDataKept
<1>1. FullInv => OwedDataKept
  BY DEF FullInv, IInv
<1> QED
  BY <1>1, SpecFullInv, PTL

\* A record persist reported durable is in the document a power loss leaves.
THEOREM AcksDurable == Spec => []AckedIsDurable
<1>1. FullInv => AckedIsDurable
  BY DEF FullInv, IInv, AckInv, AckedIn, AckedIsDurable
<1> QED
  BY <1>1, SpecFullInv, PTL

\* A ready object has a backing file as long as its record says, synced at
\* that length but for the same exception, in every state of the daemon, over
\* every document a start may load.
THEOREM ReadyBacked == Spec => []ReadyHasBytes
<1>1. FullInv => ReadyHasBytes
  BY DEF FullInv, IInv
<1> QED
  BY <1>1, SpecFullInv, PTL

\* The kernel never serves a deleted file, nor past the length that was synced
\* with the same exception.
THEOREM ServedBacked == Spec => []ServedHasBytes
<1>1. FullInv => ServedHasBytes
  BY DEF FullInv, IInv
<1> QED
  BY <1>1, SpecFullInv, PTL

\* No accepted request, crash or restore leaves a db that validateLoaded
\* refuses, so the appliance can always be started again.
THEOREM DbsLoad == Spec => []EveryDbLoads
<1>1. FullInv => EveryDbLoads
  BY DEF FullInv, IInv, DocsInv, DocOK, EveryDbLoads
<1> QED
  BY <1>1, SpecFullInv, PTL

\* A daemon at rest that reports no reconcile error serves exactly what the
\* db in memory exports.
THEOREM HealthyExports == Spec => []HealthyServesExports
<1>1. FullInv => HealthyServesExports
  BY DEF FullInv, IInv, ServeInv, ServesExports, HealthyServesExports
<1> QED
  BY <1>1, SpecFullInv, PTL

(***************************************************************************)
(* Objects implements Catalogue.                                           *)
(***************************************************************************)

\* A document holds nothing of an object that it does not record.
BlankInv ==
  \A d \in {mem, disk, durable, backup} : \A o \in Object :
    /\ Recorded(d, o) => d.obj[o].name \in Name
    /\ ~Recorded(d, o) => d.obj[o].name = NoName

\* While the daemon runs, its db and the file name the same objects: they
\* differ at most in what a start marked missing.
SameInv == pc # "down" => disk.present /\ View(mem) = View(disk)

\* The document an operation is about to write is the one in memory with the
\* one change the operation was accepted for.
MadeCreate ==
  /\ op.kind = "create"
  /\ \A d \in {mem, disk, durable, backup} : ~Recorded(d, op.obj)
  /\ \E n \in Name, s \in Size :
       /\ ~NameTaken(mem, n)
       /\ op.next = PutRecord(mem, op.obj, [name |-> n, cap |-> s, state |-> "ready"])

MadeRename ==
  /\ op.kind = "rename" /\ Recorded(mem, op.obj)
  /\ \E n \in Name :
       /\ ~NameTaken(mem, n)
       /\ op.next = PutRecord(mem, op.obj, [mem.obj[op.obj] EXCEPT !.name = n])

MadeResize ==
  /\ op.kind = "resize" /\ Recorded(mem, op.obj)
  /\ \E s \in Size :
       /\ s > mem.obj[op.obj].cap
       /\ op.next = PutRecord(mem, op.obj, [mem.obj[op.obj] EXCEPT !.cap = s])

MadeDelete ==
  /\ op.kind = "delete" /\ Recorded(mem, op.obj) /\ op.obj \notin mem.conn
  /\ op.next = PutRecord(mem, op.obj, NoRecord)

MadeConnect ==
  /\ op.kind = "connect" /\ Recorded(mem, op.obj) /\ op.obj \notin mem.conn
  /\ op.next = SetConn(mem, mem.conn \cup {op.obj})

MadeDisconnect ==
  /\ op.kind = "disconnect" /\ op.obj \in mem.conn
  /\ op.next = SetConn(mem, mem.conn \ {op.obj})

Made == \/ MadeCreate \/ MadeRename \/ MadeResize \/ MadeDelete
        \/ MadeConnect \/ MadeDisconnect

MadeInv == pc \in {"heal", "grow", "persist"} => op.obj \in Object /\ Made

RefInv == FullInv /\ BlankInv /\ SameInv /\ MadeInv

\* The table of names and capacities that a document holds.
Entries(d) == [o \in Object |-> [name |-> d.obj[o].name, cap |-> d.obj[o].cap]]

LEMMA ViewIs ==
  ASSUME NEW d
  PROVE  View(d) = [present |-> d.present, obj |-> Entries(d), conn |-> d.conn]
BY DEF View, Entries

\* What the updates of a document do to the catalogue it holds.
LEMMA ViewPut ==
  ASSUME NEW d \in Doc, NEW o \in Object, NEW r \in ObjRecord
  PROVE  View(PutRecord(d, o, r)) =
           [View(d) EXCEPT !.obj[o] = [name |-> r.name, cap |-> r.cap]]
<1> DEFINE e == PutRecord(d, o, r)
<1>1. /\ e.obj[o] = r /\ e.conn = d.conn /\ e.present = d.present
      /\ \A p \in Object : p # o => e.obj[p] = d.obj[p]
  BY PutRecordFacts
<1> HIDE DEF e
<1>2. Entries(e) = [Entries(d) EXCEPT ![o] = [name |-> r.name, cap |-> r.cap]]
  BY <1>1 DEF Entries
<1>3. View(e) = [View(d) EXCEPT !.obj[o] = [name |-> r.name, cap |-> r.cap]]
  <2>1. View(d) = [present |-> d.present, obj |-> Entries(d), conn |-> d.conn]
    BY ViewIs
  <2>2. View(e) = [present |-> d.present, conn |-> d.conn,
                   obj |-> [Entries(d) EXCEPT ![o] = [name |-> r.name, cap |-> r.cap]]]
    BY <1>1, <1>2, ViewIs
  <2> QED
    BY <2>1, <2>2
<1> QED
  BY <1>3 DEF e

LEMMA ViewSetConn ==
  ASSUME NEW d \in Doc, NEW c \in SUBSET Object
  PROVE  View(SetConn(d, c)) = [View(d) EXCEPT !.conn = c]
<1>1. Entries(SetConn(d, c)) = Entries(d)
  BY SetConnFacts DEF Entries
<1> QED
  BY <1>1, SetConnFacts, ViewIs

LEMMA ViewEmpty == View(NoDb) = C!Absent /\ View(EmptyDb) = C!Empty
<1>1. NoDb.present = FALSE /\ EmptyDb.present = TRUE
  BY DEF NoDb, EmptyDb
<1>2. Entries(NoDb) = [o \in Object |-> C!NoEntry] /\ Entries(EmptyDb) = Entries(NoDb)
  BY EmptyDocFacts DEF Entries, NoRecord, C!NoEntry
<1> QED
  BY <1>1, <1>2, EmptyDocFacts, ViewIs DEF C!Absent, C!Empty, C!Blank

\* The state marks of a start are no part of the catalogue.
LEMMA ViewMark ==
  ASSUME NEW d \in Doc PROVE View(MarkMissing(d)) = View(d)
<1>1. \A o \in Object : d.obj[o] \in ObjRecord
  BY DEF Doc
<1>2. MarkMissing(d).present = d.present /\ MarkMissing(d).conn = d.conn
  BY DEF MarkMissing, Doc
<1>3. \A o \in Object : /\ MarkMissing(d).obj[o].name = d.obj[o].name
                        /\ MarkMissing(d).obj[o].cap = d.obj[o].cap
  BY <1>1 DEF MarkMissing, Doc, ObjRecord
<1> QED
  BY <1>2, <1>3 DEF View

\* The fields of a catalogue, in terms of the document.
LEMMA ViewFields ==
  ASSUME NEW d
  PROVE  /\ View(d).present = d.present /\ View(d).conn = d.conn
         /\ \A o \in Object : View(d).obj[o] = [name |-> d.obj[o].name, cap |-> d.obj[o].cap]
         /\ \A o \in Object : View(d).obj[o].name = d.obj[o].name
         /\ \A o \in Object : View(d).obj[o].cap = d.obj[o].cap
BY DEF View

LEMMA InitRefInv == Init => RefInv
<1> SUFFICES ASSUME Init PROVE BlankInv /\ SameInv /\ MadeInv
  BY InitFullInv DEF RefInv
<1>1. \A o \in Object : /\ ~Recorded(NoDb, o) /\ NoDb.obj[o].name = NoName
                        /\ ~Recorded(EmptyDb, o) /\ EmptyDb.obj[o].name = NoName
  <2>1. NoRecord.state = "none" /\ NoRecord.name = NoName
    BY DEF NoRecord
  <2> QED
    BY <2>1, EmptyDocFacts DEF Recorded
<1>2. BlankInv
  BY <1>1 DEF Init, BlankInv
<1> QED
  BY <1>2 DEF Init, SameInv, MadeInv

\* The handlers make the document they will write from the one in memory.
LEMMA MadeStep == ASSUME RefInv, [Next]_vars PROVE MadeInv'
<1> USE DEF docs, store, kernel, history
<1>1. ASSUME NEW o \in Object, NEW n \in Name, Rename(o, n) PROVE MadeInv'
  <2>1. MadeRename'
    BY <1>1 DEF Rename, MadeRename, NameTaken, Recorded
  <2> QED
    BY <1>1, <2>1 DEF Rename, MadeInv, Made
<1>2. ASSUME NEW o \in Object, NEW s \in Size, Resize(o, s) PROVE MadeInv'
  <2>1. MadeResize'
    BY <1>2 DEF Resize, MadeResize, Recorded
  <2> QED
    BY <1>2, <2>1 DEF Resize, MadeInv, Made
<1>3. ASSUME NEW o \in Object, Delete(o) PROVE MadeInv'
  <2>1. MadeDelete'
    BY <1>3 DEF Delete, MadeDelete, Recorded
  <2> QED
    BY <1>3, <2>1 DEF Delete, MadeInv, Made
<1>4. ASSUME NEW o \in Object, Connect(o) PROVE MadeInv'
  <2>1. MadeConnect'
    BY <1>4 DEF Connect, MadeConnect, Recorded, Ready
  <2> QED
    BY <1>4, <2>1 DEF Connect, MadeInv, Made
<1>5. ASSUME NEW o \in Object, Disconnect(o) PROVE MadeInv'
  <2>1. MadeDisconnect'
    BY <1>5 DEF Disconnect, MadeDisconnect
  <2> QED
    BY <1>5, <2>1 DEF Disconnect, MadeInv, Made
<1>6. ASSUME NEW o \in Object, NEW n \in Name, NEW s \in Size, NEW len \in 0..MaxSize,
             BeginCreate(o, n, s, len)
      PROVE  MadeInv'
  <2>1. \A d \in {mem, disk, durable, backup} : ~Recorded(d, o)
    BY <1>6 DEF BeginCreate, RefInv, FullInv, IInv, DocsInv, DocOK
  <2>2. CASE UNCHANGED <<pc, op>>
    BY <1>6, <2>2 DEF BeginCreate, MadeInv
  <2>3. CASE ~UNCHANGED <<pc, op>>
    <3>1. MadeCreate'
      BY <1>6, <2>1, <2>3 DEF BeginCreate, MadeCreate, NameTaken, Recorded
    <3> QED
      BY <1>6, <2>3, <3>1 DEF BeginCreate, MadeInv, Made
  <2> QED
    BY <2>2, <2>3
<1>7. CASE Heal \/ Grow
  <2>1. CASE pc' = "idle"
    BY <2>1 DEF MadeInv
  <2>2. CASE pc' # "idle"
    <3>1. UNCHANGED <<op, mem, disk, durable, backup>> /\ pc \in {"heal", "grow"}
      BY <1>7, <2>2 DEF Heal, Grow, Return
    <3>2. op.obj \in Object /\ Made
      BY <3>1 DEF RefInv, MadeInv
    <3>3. Made'
      BY <3>1, <3>2 DEF Made, MadeCreate, MadeRename, MadeResize, MadeDelete,
         MadeConnect, MadeDisconnect, Recorded, NameTaken
    <3> QED
      BY <3>1, <3>2, <3>3 DEF MadeInv
  <2> QED
    BY <2>1, <2>2
<1>8. CASE PersistOK \/ PersistNotDurable \/ PersistFailed
  <2>1. pc' \in {"reconcile", "unlink", "undo", "idle"}
    BY <1>8 DEF PersistOK, PersistNotDurable, PersistFailed, Finish, AfterPersist
  <2> QED
    BY <2>1 DEF MadeInv
<1>9. CASE \/ UndoCreate \/ Unlink \/ Reconcile \/ Open \/ OpenFirst \/ Replay
           \/ Crash \/ PowerLoss \/ LoseDb \/ RestoreBackup
  <2>1. pc' \in {"idle", "down", "replay"}
    BY <1>9 DEF UndoCreate, Unlink, Reconcile, Open, OpenFirst, Replay, Return,
       Crash, PowerLoss, LoseDb, RestoreBackup
  <2> QED
    BY <2>1 DEF MadeInv
<1>10. CASE UNCHANGED vars
  BY <1>10 DEF vars, RefInv, MadeInv, Made, MadeCreate, MadeRename, MadeResize,
     MadeDelete, MadeConnect, MadeDisconnect, Recorded, NameTaken
<1> QED
  BY <1>1, <1>2, <1>3, <1>4, <1>5, <1>6, <1>7, <1>8, <1>9, <1>10, CreateBegins
     DEF Next, RefInv, FullInv

\* One record replaced leaves the others as they were.
LEMMA NextBlank ==
  ASSUME RefInv, pc = "persist", NEW o \in Object
  PROVE  /\ Recorded(op.next, o) => op.next.obj[o].name \in Name
         /\ ~Recorded(op.next, o) => op.next.obj[o].name = NoName
<1>1. mem \in Doc /\ op.obj \in Object /\ Made /\ mem.obj[op.obj] \in ObjRecord
  BY DEF RefInv, FullInv, IInv, TypeOK, MadeInv, Doc
<1>2. /\ Recorded(mem, o) => mem.obj[o].name \in Name
      /\ ~Recorded(mem, o) => mem.obj[o].name = NoName
  BY DEF RefInv, BlankInv
<1>3. ASSUME NEW r \in ObjRecord, op.next = PutRecord(mem, op.obj, r),
             r.state # "none" => r.name \in Name,
             r.state = "none" => r.name = NoName
      PROVE  /\ Recorded(op.next, o) => op.next.obj[o].name \in Name
             /\ ~Recorded(op.next, o) => op.next.obj[o].name = NoName
  <2>1. /\ op.next.obj[op.obj] = r
        /\ \A p \in Object : p # op.obj => op.next.obj[p] = mem.obj[p]
    BY <1>1, <1>3, PutRecordFacts
  <2> QED
    BY <1>2, <1>3, <2>1 DEF Recorded
<1>4. CASE MadeCreate
  <2>1. PICK n \in Name, s \in Size :
          op.next = PutRecord(mem, op.obj, [name |-> n, cap |-> s, state |-> "ready"])
    BY <1>4 DEF MadeCreate
  <2>2. [name |-> n, cap |-> s, state |-> "ready"] \in ObjRecord
    BY ObjectsAssumption DEF ObjRecord, State, Size
  <2> QED
    BY <1>3, <2>1, <2>2
<1>5. CASE MadeRename
  <2>1. PICK n \in Name :
          op.next = PutRecord(mem, op.obj, [mem.obj[op.obj] EXCEPT !.name = n])
    BY <1>5 DEF MadeRename
  <2>2. /\ [mem.obj[op.obj] EXCEPT !.name = n] \in ObjRecord
        /\ [mem.obj[op.obj] EXCEPT !.name = n].name = n
        /\ [mem.obj[op.obj] EXCEPT !.name = n].state # "none"
    BY <1>1, <1>5 DEF ObjRecord, MadeRename, Recorded
  <2> QED
    BY <1>3, <2>1, <2>2
<1>6. CASE MadeResize
  <2>1. PICK s \in Size :
          op.next = PutRecord(mem, op.obj, [mem.obj[op.obj] EXCEPT !.cap = s])
    BY <1>6 DEF MadeResize
  <2>2. /\ [mem.obj[op.obj] EXCEPT !.cap = s] \in ObjRecord
        /\ [mem.obj[op.obj] EXCEPT !.cap = s].name = mem.obj[op.obj].name
        /\ [mem.obj[op.obj] EXCEPT !.cap = s].state # "none"
        /\ Recorded(mem, op.obj)
    BY <1>1, <1>6, ObjectsAssumption DEF ObjRecord, MadeResize, Recorded, Size
  <2>3. mem.obj[op.obj].name \in Name
    BY <1>1, <2>2 DEF RefInv, BlankInv
  <2> QED
    BY <1>3, <2>1, <2>2, <2>3
<1>7. CASE MadeDelete
  <2>1. NoRecord.state = "none" /\ NoRecord.name = NoName
    BY DEF NoRecord
  <2> QED
    BY <1>3, <1>7, <2>1, EmptyDocFacts DEF MadeDelete
<1>8. CASE MadeConnect \/ MadeDisconnect
  <2>1. op.next.obj = mem.obj
    BY <1>1, <1>8, SetConnFacts DEF MadeConnect, MadeDisconnect, Doc
  <2> QED
    BY <1>2, <2>1 DEF Recorded
<1> QED
  BY <1>1, <1>4, <1>5, <1>6, <1>7, <1>8 DEF Made

LEMMA BlankStep == ASSUME RefInv, [Next]_vars PROVE BlankInv'
<1> USE DEF docs, store, kernel, history
<1> DEFINE Blank(d) == \A o \in Object : /\ Recorded(d, o) => d.obj[o].name \in Name
                                         /\ ~Recorded(d, o) => d.obj[o].name = NoName
<1>1. \A d \in {mem, disk, durable, backup} : Blank(d)
  BY DEF RefInv, BlankInv
<1>2. Blank(EmptyDb) /\ Blank(NoDb)
  BY EmptyDocFacts DEF Recorded, NoRecord
<1>3. pc = "persist" => Blank(op.next)
  BY NextBlank
<1>4. Open => Blank(mem')
  <2> SUFFICES ASSUME Open PROVE Blank(mem')
    OBVIOUS
  <2>1. disk \in Doc /\ mem' = MarkMissing(disk)
    BY DEF Open, RefInv, FullInv, IInv, TypeOK
  <2>2. \A o \in Object : disk.obj[o] \in ObjRecord
    BY <2>1 DEF Doc
  <2>3. \A o \in Object : /\ mem'.obj[o].name = disk.obj[o].name
                          /\ Recorded(mem', o) <=> Recorded(disk, o)
    BY <2>1, <2>2 DEF MarkMissing, Doc, ObjRecord, Recorded
  <2> QED
    BY <1>1, <2>3
<1> DEFINE Old == {mem, disk, durable, backup, EmptyDb, NoDb}
<1>5. /\ mem' \in Old \/ (pc = "persist" /\ mem' = op.next) \/ Open
      /\ disk' \in Old \/ (pc = "persist" /\ disk' = op.next)
      /\ durable' \in Old \/ (pc = "persist" /\ durable' = op.next)
      /\ backup' \in Old
  <2>1. CASE \/ \E o \in Object, n \in Name, s \in Size, len \in 0..MaxSize : BeginCreate(o, n, s, len)
             \/ Begin
    BY <2>1 DEF BeginCreate, Begin, Rename, Resize, Delete, Connect, Disconnect
  <2>2. CASE PersistOK \/ PersistNotDurable \/ PersistFailed
    BY <2>2 DEF PersistOK, PersistNotDurable, PersistFailed, LinkBackup
  <2>3. CASE \/ Heal \/ Grow \/ UndoCreate \/ Unlink \/ Reconcile \/ Replay
    BY <2>3 DEF Heal, Grow, UndoCreate, Unlink, Reconcile, Replay
  <2>4. CASE Open \/ OpenFirst \/ Crash \/ PowerLoss \/ LoseDb \/ RestoreBackup
    BY <2>4 DEF Open, OpenFirst, Crash, PowerLoss, LoseDb, RestoreBackup
  <2>5. CASE UNCHANGED vars
    BY <2>5 DEF vars
  <2> QED
    BY <2>1, <2>2, <2>3, <2>4, <2>5, CreateBegins DEF Next, Begin, RefInv, FullInv
<1>6. \A d \in {mem', disk', durable', backup'} : Blank(d)
  <2> HIDE DEF Blank
  <2> QED
    BY <1>1, <1>2, <1>3, <1>4, <1>5
<1> QED
  BY <1>6 DEF BlankInv, Recorded

LEMMA SameStep == ASSUME RefInv, [Next]_vars PROVE SameInv'
<1> USE DEF docs, store, kernel, history
<1>1. CASE \/ \E o \in Object, n \in Name, s \in Size, len \in 0..MaxSize : BeginCreate(o, n, s, len)
           \/ Begin \/ Heal \/ Grow \/ UndoCreate \/ Unlink \/ Reconcile \/ PersistFailed
  <2>1. UNCHANGED <<mem, disk>>
    BY <1>1 DEF BeginCreate, Begin, Rename, Resize, Delete, Connect, Disconnect, Heal,
       Grow, UndoCreate, Unlink, Reconcile, PersistFailed
  <2>2. pc # "down"
    BY <1>1 DEF BeginCreate, Begin, Rename, Resize, Delete, Connect, Disconnect, Heal,
       Grow, UndoCreate, Unlink, Reconcile, PersistFailed
  <2> QED
    BY <2>1, <2>2 DEF RefInv, SameInv
<1>2. CASE PersistOK \/ PersistNotDurable
  <2>1. mem' = op.next /\ disk' = op.next /\ op.next.present
    BY <1>2 DEF PersistOK, PersistNotDurable, RefInv, FullInv, PresentInv
  <2> QED
    BY <2>1 DEF SameInv
<1>3. CASE Open
  <2>1. disk \in Doc /\ disk' = disk /\ disk.present /\ mem' = MarkMissing(disk)
    BY <1>3 DEF Open, RefInv, FullInv, IInv, TypeOK
  <2> QED
    BY <2>1, ViewMark DEF SameInv
<1>4. CASE OpenFirst
  BY <1>4, EmptyDocFacts DEF OpenFirst, SameInv
<1>5. CASE Replay
  BY <1>5 DEF Replay, RefInv, SameInv
<1>6. CASE Crash \/ PowerLoss \/ LoseDb \/ RestoreBackup
  <2>1. pc' = "down"
    BY <1>6 DEF Crash, PowerLoss, LoseDb, RestoreBackup
  <2> QED
    BY <2>1 DEF SameInv
<1>7. CASE UNCHANGED vars
  BY <1>7 DEF vars, RefInv, SameInv
<1> QED
  BY <1>1, <1>2, <1>3, <1>4, <1>5, <1>6, <1>7, CreateBegins DEF Next, Begin, RefInv, FullInv

LEMMA SpecRefInv == Spec => []RefInv
<1>1. RefInv /\ [Next]_vars => RefInv'
  BY NextFullInv, MadeStep, BlankStep, SameStep DEF RefInv
<1> QED
  BY <1>1, InitRefInv, PTL DEF Spec

\* The initial document is the absent catalogue.
LEMMA InitRefines == Init => C!Init
BY ViewEmpty DEF Init, C!Init

\* A catalogue lists the objects that the document records.
LEMMA ListedIsRecorded ==
  ASSUME RefInv, NEW d \in {mem, disk, durable, backup}, NEW o \in Object
  PROVE  C!Listed(View(d), o) <=> Recorded(d, o)
<1>1. View(d).obj[o] = [name |-> d.obj[o].name, cap |-> d.obj[o].cap]
  BY ViewFields
<1>2. Recorded(d, o) => d.obj[o].cap > 0
  BY DEF RefInv, FullInv, IInv, DocsInv, DocOK
<1>3. ~Recorded(d, o) => d.obj[o].cap = 0 /\ d.obj[o].name = NoName
  BY DEF RefInv, FullInv, IInv, DocsInv, DocOK, BlankInv
<1> QED
  BY <1>1, <1>2, <1>3 DEF C!Listed, C!NoEntry

LEMMA NameIsFree ==
  ASSUME RefInv, View(mem) = View(disk), NEW n \in Name, ~NameTaken(mem, n)
  PROVE  C!FreeName(n)
<1> SUFFICES ASSUME NEW o \in Object PROVE View(disk).obj[o].name # n
  BY DEF C!FreeName
<1>1. View(disk).obj[o].name = mem.obj[o].name
  BY ViewFields
<1>2. ~Recorded(mem, o) => mem.obj[o].name = NoName
  BY DEF RefInv, BlankInv
<1> QED
  BY <1>1, <1>2, ObjectsAssumption DEF NameTaken

\* The rename of persist is one whole operation on the catalogue on disk.
LEMMA PersistRefines ==
  ASSUME RefInv, PersistOK \/ PersistNotDurable PROVE C!Next
<1>1. pc = "persist"
  BY DEF PersistOK, PersistNotDurable
<1>2. /\ mem \in Doc /\ op.obj \in Object /\ Made /\ View(mem) = View(disk)
      /\ mem.obj[op.obj] \in ObjRecord
  BY <1>1 DEF RefInv, FullInv, IInv, TypeOK, SameInv, MadeInv, Doc
<1>3. C!Write(View(op.next))
  <2>1. disk' = op.next /\ durable' \in {op.next, durable} /\ backup' \in {disk, backup}
    BY DEF PersistOK, PersistNotDurable, LinkBackup
  <2> QED
    BY <2>1 DEF C!Write
<1>4. CASE MadeCreate
  <2>1. PICK n \in Name, s \in Size :
          /\ ~NameTaken(mem, n)
          /\ op.next = PutRecord(mem, op.obj, [name |-> n, cap |-> s, state |-> "ready"])
    BY <1>4 DEF MadeCreate
  <2>2. [name |-> n, cap |-> s, state |-> "ready"] \in ObjRecord
    BY ObjectsAssumption DEF ObjRecord, State, Size
  <2>3. View(op.next) = [View(disk) EXCEPT !.obj[op.obj] = [name |-> n, cap |-> s]]
    BY <1>2, <2>1, <2>2, ViewPut
  <2>4. \A c \in {View(disk), View(durable), View(backup)} : ~C!Listed(c, op.obj)
    BY <1>2, <1>4, ListedIsRecorded DEF MadeCreate
  <2>5. C!Create(op.obj, n, s)
    BY <1>2, <1>3, <2>1, <2>3, <2>4, NameIsFree DEF C!Create
  <2> QED
    BY <1>2, <2>5 DEF C!Next, Size
<1>5. CASE MadeRename
  <2>1. PICK n \in Name :
          /\ ~NameTaken(mem, n)
          /\ op.next = PutRecord(mem, op.obj, [mem.obj[op.obj] EXCEPT !.name = n])
    BY <1>5 DEF MadeRename
  <2>2. /\ [mem.obj[op.obj] EXCEPT !.name = n] \in ObjRecord
        /\ [mem.obj[op.obj] EXCEPT !.name = n].name = n
        /\ [mem.obj[op.obj] EXCEPT !.name = n].cap = mem.obj[op.obj].cap
    BY <1>2 DEF ObjRecord
  <2> DEFINE r == [mem.obj[op.obj] EXCEPT !.name = n]
  <2> HIDE DEF r
  <2>3. View(op.next) =
          [View(disk) EXCEPT !.obj[op.obj] = [name |-> n, cap |-> mem.obj[op.obj].cap]]
    <3>1. /\ r \in ObjRecord /\ op.next = PutRecord(mem, op.obj, r)
          /\ r.name = n /\ r.cap = mem.obj[op.obj].cap
      BY <2>1, <2>2 DEF r
    <3>2. View(PutRecord(mem, op.obj, r)) =
            [View(mem) EXCEPT !.obj[op.obj] = [name |-> r.name, cap |-> r.cap]]
      BY <1>2, <3>1, ViewPut
    <3> QED
      BY <1>2, <3>1, <3>2
  <2>4. [name |-> n, cap |-> mem.obj[op.obj].cap] = [View(disk).obj[op.obj] EXCEPT !.name = n]
    <3>1. View(disk).obj[op.obj] = [name |-> mem.obj[op.obj].name, cap |-> mem.obj[op.obj].cap]
      BY <1>2, ViewFields
    <3> QED
      BY <3>1
  <2>5. C!Listed(View(disk), op.obj)
    BY <1>2, <1>5, ListedIsRecorded DEF MadeRename
  <2>6. C!Rename(op.obj, n)
    BY <1>2, <1>3, <2>1, <2>3, <2>4, <2>5, NameIsFree DEF C!Rename
  <2> QED
    BY <1>2, <2>6 DEF C!Next
<1>6. CASE MadeResize
  <2>1. PICK s \in Size :
          /\ s > mem.obj[op.obj].cap
          /\ op.next = PutRecord(mem, op.obj, [mem.obj[op.obj] EXCEPT !.cap = s])
    BY <1>6 DEF MadeResize
  <2>2. /\ [mem.obj[op.obj] EXCEPT !.cap = s] \in ObjRecord
        /\ [mem.obj[op.obj] EXCEPT !.cap = s].cap = s
        /\ [mem.obj[op.obj] EXCEPT !.cap = s].name = mem.obj[op.obj].name
    BY <1>2, ObjectsAssumption DEF ObjRecord, Size
  <2> DEFINE r == [mem.obj[op.obj] EXCEPT !.cap = s]
  <2> HIDE DEF r
  <2>3. View(op.next) =
          [View(disk) EXCEPT !.obj[op.obj] = [name |-> mem.obj[op.obj].name, cap |-> s]]
    <3>1. /\ r \in ObjRecord /\ op.next = PutRecord(mem, op.obj, r)
          /\ r.cap = s /\ r.name = mem.obj[op.obj].name
      BY <2>1, <2>2 DEF r
    <3>2. View(PutRecord(mem, op.obj, r)) =
            [View(mem) EXCEPT !.obj[op.obj] = [name |-> r.name, cap |-> r.cap]]
      BY <1>2, <3>1, ViewPut
    <3> QED
      BY <1>2, <3>1, <3>2
  <2>4. /\ [name |-> mem.obj[op.obj].name, cap |-> s] = [View(disk).obj[op.obj] EXCEPT !.cap = s]
        /\ View(disk).obj[op.obj].cap = mem.obj[op.obj].cap
    <3>1. View(disk).obj[op.obj] = [name |-> mem.obj[op.obj].name, cap |-> mem.obj[op.obj].cap]
      BY <1>2, ViewFields
    <3> QED
      BY <3>1
  <2>5. C!Listed(View(disk), op.obj)
    BY <1>2, <1>6, ListedIsRecorded DEF MadeResize
  <2>6. C!Resize(op.obj, s)
    BY <1>3, <2>1, <2>3, <2>4, <2>5 DEF C!Resize
  <2> QED
    BY <1>2, <2>6 DEF C!Next, Size
<1>7. CASE MadeDelete
  <2>1. View(op.next) = [View(disk) EXCEPT !.obj[op.obj] = C!NoEntry]
    BY <1>2, <1>7, ViewPut, EmptyDocFacts DEF MadeDelete, NoRecord, C!NoEntry
  <2>2. C!Listed(View(disk), op.obj) /\ op.obj \notin View(disk).conn
    BY <1>2, <1>7, ListedIsRecorded, ViewFields DEF MadeDelete
  <2>3. C!Delete(op.obj)
    BY <1>3, <2>1, <2>2 DEF C!Delete
  <2> QED
    BY <1>2, <2>3 DEF C!Next
<1>8. CASE MadeConnect
  <2>1. View(op.next) = [View(disk) EXCEPT !.conn = View(disk).conn \cup {op.obj}]
    <3>1. (mem.conn \cup {op.obj}) \in SUBSET Object /\ View(disk).conn = mem.conn
      BY <1>2, ViewFields DEF Doc
    <3>2. View(SetConn(mem, mem.conn \cup {op.obj})) =
            [View(mem) EXCEPT !.conn = mem.conn \cup {op.obj}]
      BY <1>2, <3>1, ViewSetConn
    <3> QED
      BY <1>2, <1>8, <3>1, <3>2 DEF MadeConnect
  <2>2. C!Listed(View(disk), op.obj) /\ op.obj \notin View(disk).conn
    BY <1>2, <1>8, ListedIsRecorded, ViewFields DEF MadeConnect
  <2>3. C!Connect(op.obj)
    BY <1>3, <2>1, <2>2 DEF C!Connect
  <2> QED
    BY <1>2, <2>3 DEF C!Next
<1>9. CASE MadeDisconnect
  <2>1. View(op.next) = [View(disk) EXCEPT !.conn = View(disk).conn \ {op.obj}]
    <3>1. (mem.conn \ {op.obj}) \in SUBSET Object /\ View(disk).conn = mem.conn
      BY <1>2, ViewFields DEF Doc
    <3>2. View(SetConn(mem, mem.conn \ {op.obj})) =
            [View(mem) EXCEPT !.conn = mem.conn \ {op.obj}]
      BY <1>2, <3>1, ViewSetConn
    <3> QED
      BY <1>2, <1>9, <3>1, <3>2 DEF MadeDisconnect
  <2>2. op.obj \in View(disk).conn
    BY <1>2, <1>9, ViewFields DEF MadeDisconnect
  <2>3. C!Disconnect(op.obj)
    BY <1>3, <2>1, <2>2 DEF C!Disconnect
  <2> QED
    BY <1>2, <2>3 DEF C!Next
<1> QED
  BY <1>2, <1>4, <1>5, <1>6, <1>7, <1>8, <1>9 DEF Made

\* Every other step leaves the catalogue, or does to it what a first start, a
\* power loss or an operator does.
LEMMA OtherRefines ==
  ASSUME RefInv, [Next]_vars, ~PersistOK, ~PersistNotDurable
  PROVE  [C!Next]_C!vars
<1> USE DEF docs, store, kernel, history
<1>1. CASE UNCHANGED <<disk, durable, backup>>
  BY <1>1 DEF C!vars
<1>2. CASE PersistFailed
  <2>1. \/ disk.present /\ backup' = disk /\ UNCHANGED <<disk, durable>>
        \/ UNCHANGED <<disk, durable, backup>>
    BY <1>2 DEF PersistFailed, LinkBackup
  <2>2. disk.present /\ backup' = disk /\ UNCHANGED <<disk, durable>> => C!BackUp
    BY ViewFields DEF C!BackUp
  <2> QED
    BY <1>1, <2>1, <2>2 DEF C!Next
<1>3. CASE OpenFirst
  <2>1. ~disk.present /\ disk' = EmptyDb /\ durable' \in {EmptyDb, durable} /\ backup' = backup
    BY <1>3 DEF OpenFirst
  <2>2. C!First
    BY <2>1, ViewEmpty, ViewFields DEF C!First
  <2> QED
    BY <2>2 DEF C!Next
<1>4. CASE PowerLoss
  <2>1. backup' = backup /\ \E d \in {disk, durable} : disk' = d /\ durable' = d
    BY <1>4 DEF PowerLoss
  <2>2. C!PowerLoss
    BY <2>1 DEF C!PowerLoss
  <2> QED
    BY <2>2 DEF C!Next
<1>5. CASE LoseDb
  <2>1. C!Lose
    BY <1>5, ViewEmpty DEF LoseDb, C!Lose
  <2> QED
    BY <2>1 DEF C!Next
<1>6. CASE RestoreBackup
  <2>1. C!Restore
    BY <1>6, ViewFields DEF RestoreBackup, C!Restore
  <2> QED
    BY <2>1 DEF C!Next
<1>7. CASE \/ \E o \in Object, n \in Name, s \in Size, len \in 0..MaxSize : BeginCreate(o, n, s, len)
           \/ Begin \/ Heal \/ Grow \/ UndoCreate \/ Unlink \/ Reconcile
           \/ Open \/ Replay \/ Crash
  <2>1. UNCHANGED <<disk, durable, backup>>
    BY <1>7 DEF BeginCreate, Begin, Rename, Resize, Delete, Connect, Disconnect, Heal,
       Grow, UndoCreate, Unlink, Reconcile, Open, Replay, Crash
  <2> QED
    BY <1>1, <2>1
<1>8. CASE UNCHANGED vars
  BY <1>1, <1>8 DEF vars
<1> QED
  BY <1>2, <1>3, <1>4, <1>5, <1>6, <1>7, <1>8, CreateBegins DEF Next, Begin, RefInv, FullInv

\* The record db, with its steps in memory, on disk and in the kernel, keeps
\* the promise of the catalogue: every change of the records is one whole
\* operation made from the records it replaces (commit, persistOnly,
\* restoreState, Open), through every crash, failed write and restored backup.
THEOREM RefinesCatalogue == Spec => ImplementsCatalogue
<1>1. RefInv /\ [Next]_vars => [C!Next]_C!vars
  BY PersistRefines, OtherRefines
<1> QED
  BY <1>1, SpecRefInv, InitRefines, PTL DEF Spec, ImplementsCatalogue, C!Spec
=============================================================================
