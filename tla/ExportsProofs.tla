--------------------------- MODULE ExportsProofs ---------------------------
(***************************************************************************)
(* The safety properties of module Exports, for every set of objects,      *)
(* hosts, initiators and LUNs.                                             *)
(*                                                                         *)
(* The argument: between two successful reconciles at most one document    *)
(* follows the one the tree was last brought to (the heal gate in commit), *)
(* so there is a document d, that of the last success, such that whatever  *)
(* the kernel holds comes from d or from the document in force, and no     *)
(* export index stands for one object in d and for another in the db.      *)
(***************************************************************************)
EXTENDS Exports, FiniteSetTheorems, WellFoundedInduction, SequenceTheorems, TLAPS

\* A document the operations can produce: an index for every exported object,
\* none held twice, and one object at each LUN of a host.
Wf(d) ==
  /\ \A o \in Exported(d) : d.exp[o] # NoIdx
  /\ \A o, p \in Object : d.exp[o] # NoIdx /\ d.exp[o] = d.exp[p] => o = p
  /\ \A c, e \in d.conn : c.host = e.host /\ c.lun = e.lun => c = e

\* A tree a document can ask for: one object at an index, one index at a LUN
\* of an initiator, and a TPG LUN behind every mapped LUN.
GoodTree(T) ==
  /\ T \in Tree
  /\ \A x, y \in T.lun : x[1] = y[1] => x = y
  /\ \A m, n \in T.ml : m[1] = n[1] /\ m[2] = n[2] => m = n
  /\ \A m \in T.ml : \E x \in T.lun : x[1] = m[3]

\* The kernel holds nothing but what T or W asks for.
Within(T, W) ==
  /\ bs \subseteq T.lun \cup W.lun
  /\ \A x \in lun : /\ x[2] # NoObj => x \in T.lun \cup W.lun
                    /\ \E w \in T.lun \cup W.lun : w[1] = x[1]
  /\ acl \subseteq T.acl \cup W.acl
  /\ \A m \in ml : /\ m[3] # NoIdx => m \in T.ml \cup W.ml
                   /\ \E w \in T.ml \cup W.ml : w[1] = m[1] /\ w[2] = m[2]

\* The kernel holds what T and W agree on.
Keeps(T, W) ==
  /\ T.lun \cap W.lun \subseteq bs /\ T.lun \cap W.lun \subseteq lun
  /\ T.acl \cap W.acl \subseteq acl
  /\ T.ml \cap W.ml \subseteq ml

\* No index of d stands for another object in e.
SameIndices(d, e) ==
  \A o, p \in Object : d.exp[o] # NoIdx /\ d.exp[o] = e.exp[p] => o = p

DocInv == Wf(db) /\ (\A k \in 1..Len(backups) : Wf(backups[k])) /\ Grants(db) \subseteq granted

\* configfs holds one directory of a name.
TreeInv ==
  /\ \A x, y \in lun : x[1] = y[1] => x = y
  /\ \A m, n \in ml : m[1] = n[1] /\ m[2] = n[2] => m = n

TreeIs(T) == bs = T.lun /\ lun = T.lun /\ acl = T.acl /\ ml = T.ml
TreeGone == bs = {} /\ lun = {} /\ acl = {} /\ ml = {} /\ ~tpg

\* The cached view is that of a running daemon whose last reconcile succeeded.
ViewInv ==
  /\ pc = "idle" /\ ~degraded =>
       applied = Want /\ (wiped => TreeGone) /\ (~wiped => TreeIs(Want))
  /\ applied # NoTree => pc \in {"idle", "reconcile"} /\ ~degraded /\ ~restored
  /\ pc = "reconcile" /\ applied # NoTree => Keeps(applied, Want)

\* d is the document of the last success.
Since(d) ==
  /\ Wf(d) /\ SameIndices(d, db) /\ Grants(d) \subseteq granted
  /\ Within(desiredLIO(d), Want)
  /\ applied # NoTree => applied = desiredLIO(d)
SinceInv == ~restored => \E d \in Db : Since(d)

Inv == TypeOK /\ DocInv /\ TreeInv /\ ViewInv /\ SinceInv

(***************************************************************************)
(* The operators.                                                          *)
(***************************************************************************)

\* Every set of numbers that has a member has a least one.
LEMMA LeastMember ==
  ASSUME NEW S \in SUBSET Nat, S # {}
  PROVE  \E i \in S : \A j \in S : i <= j
<1> DEFINE R == OpToRel(<, Nat)
<1>1. \A i, j \in Nat : <<i, j>> \in R <=> i < j
  BY DEF OpToRel
<1>2. IsWellFoundedOn(R, Nat)
  BY NatLessThanWellFounded
<1> HIDE DEF R
<1>3. PICK i \in S : \A j \in S : <<j, i>> \notin R
  BY <1>2, WFMin
<1>4. ASSUME NEW j \in S PROVE i <= j
  <2>1. i \in Nat /\ j \in Nat /\ ~(j < i)
    BY <1>1, <1>3
  <2> QED
    BY <2>1
<1> QED
  BY <1>4

\* There are as many indices as objects, so an object that holds none finds
\* one that no object holds.
LEMMA FreeIndex ==
  ASSUME NEW d \in Db, NEW o \in Object, d.exp[o] = NoIdx
  PROVE  \E i \in Idx : \A p \in Object : d.exp[p] # i
<1> SUFFICES ASSUME \A i \in Idx : \E p \in Object : d.exp[p] = i
             PROVE  FALSE
  OBVIOUS
<1> DEFINE f == [i \in Idx |-> CHOOSE p \in Object : d.exp[p] = i]
           S == Object \ {o}
<1>1. \A i \in Idx : f[i] \in Object /\ d.exp[f[i]] = i
  OBVIOUS
<1>2. \A i \in Idx : i # NoIdx
  BY ExportsAssumption DEF Idx
<1>3. f \in [Idx -> S]
  BY <1>1, <1>2
<1>4. IsFiniteSet(Idx) /\ Cardinality(Idx) = MaxIdx + 1
  BY ExportsAssumption, FS_Interval DEF Idx
<1>5. IsFiniteSet(S) /\ Cardinality(S) < MaxIdx + 1
  <2>1. IsFiniteSet(S) /\ Cardinality(S) = Cardinality(Object) - 1
    BY ExportsAssumption, FS_RemoveElement
  <2>2. Cardinality(Object) \in Nat
    BY ExportsAssumption, FS_CardinalityType
  <2> QED
    BY <2>1, <2>2, ExportsAssumption
<1> HIDE DEF f, S
<1>6. \E i, j \in Idx : i # j /\ f[i] = f[j]
  BY <1>3, <1>4, <1>5, FS_PigeonHole
<1> QED
  BY <1>1, <1>6

\* The index exportIndex hands out is nobody else's.
LEMMA ExportIndexFresh ==
  ASSUME NEW d \in Db, Wf(d), NEW o \in Object
  PROVE  /\ exportIndex(d, o) \in Idx
         /\ \A p \in Object : d.exp[p] = exportIndex(d, o) => p = o
         /\ d.exp[o] # NoIdx => exportIndex(d, o) = d.exp[o]
<1>1. CASE d.exp[o] # NoIdx
  BY <1>1 DEF exportIndex, Db, Wf
<1>2. CASE d.exp[o] = NoIdx
  <2> DEFINE F == {i \in Idx : \A p \in Object : d.exp[p] # i}
  <2>1. F # {} /\ F \in SUBSET Nat
    BY <1>2, FreeIndex, ExportsAssumption DEF Idx
  <2>2. \E i \in F : \A j \in F : i <= j
    <3> HIDE DEF F
    <3> QED
      BY <2>1, LeastMember
  <2>3. \E i \in Idx : /\ \A p \in Object : d.exp[p] # i
                       /\ \A j \in Idx : j < i => \E p \in Object : d.exp[p] = j
    BY <2>2, ExportsAssumption DEF Idx
  <2> QED
    BY <1>2, <2>3 DEF exportIndex
<1> QED
  BY <1>1, <1>2

\* What desiredLIO asks for.
LEMMA DesiredGood == ASSUME NEW d \in Db, Wf(d) PROVE GoodTree(desiredLIO(d))
<1> DEFINE T == desiredLIO(d)
<1>1. \A c \in d.conn : c.obj \in Object /\ c.obj \in Exported(d)
  BY DEF Db, Conn, Exported
<1>2. \A o \in Exported(d) : o \in Object /\ d.exp[o] \in Idx
  BY <1>1 DEF Db, Wf, Exported
<1>3. T.lun \subseteq Idx \X Object
  BY <1>2 DEF desiredLIO
<1>4. T \in Tree
  BY <1>3 DEF desiredLIO, Tree
<1>5. ASSUME NEW x \in T.lun, NEW y \in T.lun, x[1] = y[1] PROVE x = y
  <2>1. PICK o \in Exported(d) : x = <<d.exp[o], o>>
    BY DEF desiredLIO
  <2>2. PICK p \in Exported(d) : y = <<d.exp[p], p>>
    BY DEF desiredLIO
  <2> QED
    BY <1>2, <1>5, <2>1, <2>2 DEF Wf
<1>6. ASSUME NEW m \in T.ml, NEW n \in T.ml, m[1] = n[1], m[2] = n[2] PROVE m = n
  <2>1. m \in IQN \X Lun \X Idx /\ n \in IQN \X Lun \X Idx
    BY DEF desiredLIO
  <2>2. PICK c \in d.conn : d.bind[m[1]] = c.host /\ m[2] = c.lun /\ m[3] = d.exp[c.obj]
    BY DEF desiredLIO
  <2>3. PICK e \in d.conn : d.bind[n[1]] = e.host /\ n[2] = e.lun /\ n[3] = d.exp[e.obj]
    BY DEF desiredLIO
  <2>4. c = e
    BY <1>6, <2>2, <2>3 DEF Wf
  <2> QED
    BY <1>6, <2>1, <2>2, <2>3, <2>4
<1>7. ASSUME NEW m \in T.ml PROVE \E x \in T.lun : x[1] = m[3]
  <2>1. PICK c \in d.conn : m[3] = d.exp[c.obj]
    BY DEF desiredLIO
  <2>2. <<d.exp[c.obj], c.obj>> \in T.lun
    BY <1>1 DEF desiredLIO
  <2> QED
    BY <2>1, <2>2
<1> QED
  BY <1>4, <1>5, <1>6, <1>7 DEF GoodTree

\* A mapped LUN of one document on a TPG LUN of the other shows nothing that
\* the first does not grant.
LEMMA MixedAccess ==
  ASSUME NEW d \in Db, NEW e \in Db, SameIndices(d, e),
         NEW q, NEW l, NEW i \in Idx, NEW o \in Object,
         <<q, l, i>> \in desiredLIO(d).ml, <<i, o>> \in desiredLIO(e).lun
  PROVE  <<q, l, o>> \in Grants(d)
<1>1. PICK c \in d.conn : /\ d.bind[q] = c.host /\ l = c.lun /\ i = d.exp[c.obj]
                          /\ q \in IQN /\ l \in Lun
  BY DEF desiredLIO
<1>2. i = e.exp[o]
  BY DEF desiredLIO
<1>3. c.obj \in Object /\ i # NoIdx
  BY ExportsAssumption DEF Db, Conn, Idx
<1>4. c.obj = o
  BY <1>1, <1>2, <1>3 DEF SameIndices
<1> QED
  BY <1>1, <1>4 DEF Grants

(***************************************************************************)
(* The steps of a reconcile.                                               *)
(***************************************************************************)

LEMMA WantGood ==
  ASSUME Inv
  PROVE  /\ GoodTree(Want)
         /\ AddLun \subseteq Want.lun /\ AddAcl \subseteq Want.acl /\ AddMl \subseteq Want.ml
<1>1. GoodTree(Want)
  BY DesiredGood DEF Inv, TypeOK, DocInv, Want
<1> QED
  BY <1>1 DEF AddLun, AddAcl, AddMl

\* A step of a reconcile changes the tree only.  It keeps the invariant if it
\* brings in nothing but what is wanted and takes out nothing that is.
LEMMA TreeStep ==
  ASSUME Inv, Reconciling,
         UNCHANGED <<docs, applied, degraded, pc, granted, wiped, restored, ask>>,
         bs' \subseteq Idx \X Object, tpg' \in BOOLEAN,
         lun' \subseteq Idx \X (Object \cup {NoObj}),
         acl' \subseteq IQN, ml' \subseteq IQN \X Lun \X (Idx \cup {NoIdx}),
         TreeInv',
         \A T : GoodTree(T) /\ Within(T, Want) => Within(T, Want)',
         Keeps(applied, Want) => Keeps(applied, Want)'
  PROVE  Inv'
<1> USE DEF docs
<1>1. TypeOK'
  BY DEF Inv, TypeOK
<1>2. DocInv'
  BY DEF Inv, DocInv
<1>3. Want' = Want
  BY DEF Want
<1>4. ViewInv'
  BY <1>3 DEF Inv, ViewInv, Reconciling
<1>5. SinceInv'
  <2> SUFFICES ASSUME ~restored' PROVE \E d \in Db : Since(d)'
    BY DEF SinceInv
  <2>1. PICK d \in Db : Since(d)
    BY DEF Inv, SinceInv
  <2>2. GoodTree(desiredLIO(d))
    BY <2>1, DesiredGood DEF Since
  <2>3. Within(desiredLIO(d), Want)'
    BY <2>1, <2>2 DEF Since
  <2>4. Since(d)'
    BY <2>1, <2>3 DEF Since
  <2> QED
    BY <2>4
<1> QED
  BY <1>1, <1>2, <1>4, <1>5 DEF Inv

LEMMA EnsureBackstoreStep == ASSUME Inv, NEW x \in Want.lun, EnsureBackstore(x) PROVE Inv'
<1>1. /\ GoodTree(Want) /\ Want' = Want /\ bs' = bs \cup {x} /\ Reconciling
      /\ UNCHANGED <<docs, tpg, lun, acl, ml, applied, degraded, pc, granted, wiped, restored, ask>>
  BY WantGood DEF EnsureBackstore, docs, Want
<1>2. bs' \subseteq Idx \X Object
  BY <1>1 DEF Inv, TypeOK, GoodTree, Tree
<1>3. TreeInv'
  BY <1>1 DEF Inv, TreeInv
<1>4. \A T : Within(T, Want) => Within(T, Want)'
  BY <1>1 DEF Within
<1>5. Keeps(applied, Want) => Keeps(applied, Want)'
  BY <1>1 DEF Keeps
<1> QED
  BY <1>1, <1>2, <1>3, <1>4, <1>5, TreeStep DEF Inv, TypeOK

LEMMA EnsureTPGStep == ASSUME Inv, EnsureTPG PROVE Inv'
<1>1. /\ Want' = Want /\ tpg' = TRUE /\ Reconciling
      /\ UNCHANGED <<docs, bs, lun, acl, ml, applied, degraded, pc, granted, wiped, restored, ask>>
  BY DEF EnsureTPG, BackstoresDone, docs, Want
<1>2. TreeInv' /\ \A T : Within(T, Want) => Within(T, Want)'
  BY <1>1 DEF Inv, TreeInv, Within
<1>3. Keeps(applied, Want) => Keeps(applied, Want)'
  BY <1>1 DEF Keeps
<1> QED
  BY <1>1, <1>2, <1>3, TreeStep DEF Inv, TypeOK

LEMMA EnsureACLStep == ASSUME Inv, NEW q \in IQN, EnsureACL(q) PROVE Inv'
<1>1. /\ Want' = Want /\ acl' = acl \cup {q} /\ Reconciling /\ q \in Want.acl
      /\ UNCHANGED <<docs, bs, tpg, lun, ml, applied, degraded, pc, granted, wiped, restored, ask>>
  BY WantGood DEF EnsureACL, LunsDone, BackstoresDone, docs, Want
<1>2. TreeInv' /\ \A T : Within(T, Want) => Within(T, Want)'
  BY <1>1 DEF Inv, TreeInv, Within
<1>3. Keeps(applied, Want) => Keeps(applied, Want)'
  BY <1>1 DEF Keeps
<1>4. acl' \subseteq IQN
  BY <1>1 DEF Inv, TypeOK
<1> QED
  BY <1>1, <1>2, <1>3, <1>4, TreeStep DEF Inv, TypeOK

\* The TPG LUN of one index changes: to none or bare, or to what is wanted
\* there.  Nothing wanted goes.
LEMMA LunStep ==
  ASSUME Inv, Reconciling, NEW i \in Idx, NEW new,
         lun' = {y \in lun : y[1] # i} \cup new,
         \/ new = {} /\ \A w \in Want.lun : w[1] # i
         \/ /\ new = {<<i, NoObj>>}
            /\ \E y \in lun \cup Want.lun : y[1] = i
            /\ \A w \in Want.lun : w[1] = i => w \notin applied.lun \/ w \notin lun
         \/ \E w \in Want.lun : w[1] = i /\ new = {w},
         UNCHANGED <<docs, bs, tpg, acl, ml, applied, degraded, pc, granted, wiped, restored, ask>>
  PROVE  Inv'
<1>1. GoodTree(Want) /\ Want' = Want /\ TypeOK /\ TreeInv
  BY WantGood DEF docs, Want, Inv
<1>2. /\ \A y \in new : y \in Idx \X (Object \cup {NoObj}) /\ y[1] = i
      /\ \A y, z \in new : y = z
      /\ \A y \in new : y[2] # NoObj => y \in Want.lun
      /\ \A y \in new : \E z \in lun \cup Want.lun : z[1] = i
  BY <1>1, ExportsAssumption DEF GoodTree, Tree
<1>3. lun' \subseteq Idx \X (Object \cup {NoObj})
  BY <1>1, <1>2 DEF TypeOK
<1>4. TreeInv'
  BY <1>1, <1>2 DEF TreeInv
<1>5. ASSUME NEW T, Within(T, Want) PROVE Within(T, Want)'
  <2>1. ASSUME NEW x \in lun'
        PROVE  /\ x[2] # NoObj => x \in T.lun \cup Want.lun
               /\ \E w \in T.lun \cup Want.lun : w[1] = x[1]
    <3>1. CASE x \in lun
      BY <1>5, <3>1 DEF Within
    <3>2. CASE x \in new
      BY <1>2, <1>5, <3>2 DEF Within
    <3> QED
      BY <2>1, <3>1, <3>2
  <2> QED
    BY <1>1, <1>5, <2>1 DEF Within
<1>6. ASSUME Keeps(applied, Want) PROVE Keeps(applied, Want)'
  <2>1. ASSUME NEW x \in applied.lun \cap Want.lun PROVE x \in lun'
    <3>1. x \in lun
      BY <1>6 DEF Keeps
    <3>2. CASE x[1] # i
      BY <3>1, <3>2
    <3>3. CASE x[1] = i
      BY <1>1, <3>1, <3>3 DEF GoodTree
    <3> QED
      BY <3>2, <3>3
  <2> QED
    BY <1>1, <1>6, <2>1 DEF Keeps
<1> QED
  BY <1>1, <1>3, <1>4, <1>5, <1>6, TreeStep DEF TypeOK

LEMMA EnsureLUNStep == ASSUME Inv, NEW x \in Want.lun, EnsureLUN(x) PROVE Inv'
<1> DEFINE cur == {y \in lun : y[1] = x[1]}
           new == IF cur = {<<x[1], NoObj>>} THEN {x} ELSE {<<x[1], NoObj>>}
<1>1. GoodTree(Want) /\ x \in Idx \X Object
  BY WantGood DEF GoodTree, Tree
<1>2. /\ Reconciling /\ x \notin lun /\ lun' = {y \in lun : y[1] # x[1]} \cup new
      /\ UNCHANGED <<docs, bs, tpg, acl, ml, applied, degraded, pc, granted, wiped, restored, ask>>
  BY DEF EnsureLUN, BackstoresDone
<1>3. \/ new = {x}
      \/ new = {<<x[1], NoObj>>}
  OBVIOUS
<1>4. \A w \in Want.lun : w[1] = x[1] => w \notin lun
  BY <1>1, <1>2 DEF GoodTree
<1> HIDE DEF new
<1> QED
  BY <1>1, <1>2, <1>3, <1>4, LunStep

LEMMA RemoveLUNStep == ASSUME Inv, NEW x \in lun, RemoveLUN(x) PROVE Inv'
<1> DEFINE new == IF x[2] = NoObj THEN {} ELSE {<<x[1], NoObj>>}
<1>1. /\ x \in Idx \X (Object \cup {NoObj})
      /\ \A y \in lun : y[1] = x[1] <=> y = x
  BY DEF Inv, TypeOK, TreeInv
<1>2. /\ Reconciling /\ \A w \in Want.lun : w[1] # x[1]
      /\ lun' = (lun \ {x}) \cup new
      /\ UNCHANGED <<docs, bs, tpg, acl, ml, applied, degraded, pc, granted, wiped, restored, ask>>
  BY DEF RemoveLUN, DropLun, AclsPruned, AddsDone, LunsDone, BackstoresDone
<1>3. lun' = {y \in lun : y[1] # x[1]} \cup new
  BY <1>1, <1>2
<1>4. \/ new = {}
      \/ new = {<<x[1], NoObj>>}
  OBVIOUS
<1> HIDE DEF new
<1> QED
  BY <1>1, <1>2, <1>3, <1>4, LunStep

\* The mapped LUN of an initiator at one LUN changes, likewise.
LEMMA MlStep ==
  ASSUME Inv, Reconciling, NEW q \in IQN, NEW l \in Lun, NEW new,
         ml' = {n \in ml : n[1] # q \/ n[2] # l} \cup new,
         \/ new = {} /\ \A w \in Want.ml : w[1] # q \/ w[2] # l
         \/ /\ new = {<<q, l, NoIdx>>}
            /\ \E n \in ml \cup Want.ml : n[1] = q /\ n[2] = l
            /\ \A w \in Want.ml : w[1] = q /\ w[2] = l => w \notin ml
         \/ \E w \in Want.ml : w[1] = q /\ w[2] = l /\ new = {w},
         UNCHANGED <<docs, bs, tpg, lun, acl, applied, degraded, pc, granted, wiped, restored, ask>>
  PROVE  Inv'
<1>1. GoodTree(Want) /\ Want' = Want /\ TypeOK /\ TreeInv
  BY WantGood DEF docs, Want, Inv
<1>2. /\ \A n \in new : n \in IQN \X Lun \X (Idx \cup {NoIdx}) /\ n[1] = q /\ n[2] = l
      /\ \A n, k \in new : n = k
      /\ \A n \in new : n[3] # NoIdx => n \in Want.ml
      /\ \A n \in new : \E k \in ml \cup Want.ml : k[1] = q /\ k[2] = l
  BY <1>1 DEF GoodTree, Tree
<1>3. ml' \subseteq IQN \X Lun \X (Idx \cup {NoIdx})
  BY <1>1, <1>2 DEF TypeOK
<1>4. TreeInv'
  BY <1>1, <1>2 DEF TreeInv
<1>5. ASSUME NEW T, Within(T, Want) PROVE Within(T, Want)'
  <2>1. ASSUME NEW n \in ml'
        PROVE  /\ n[3] # NoIdx => n \in T.ml \cup Want.ml
               /\ \E w \in T.ml \cup Want.ml : w[1] = n[1] /\ w[2] = n[2]
    <3>1. CASE n \in ml
      BY <1>5, <3>1 DEF Within
    <3>2. CASE n \in new
      BY <1>2, <1>5, <3>2 DEF Within
    <3> QED
      BY <2>1, <3>1, <3>2
  <2> QED
    BY <1>1, <1>5, <2>1 DEF Within
<1>6. ASSUME Keeps(applied, Want) PROVE Keeps(applied, Want)'
  <2>1. ASSUME NEW n \in applied.ml \cap Want.ml PROVE n \in ml'
    <3>1. n \in ml
      BY <1>6 DEF Keeps
    <3>2. CASE n[1] # q \/ n[2] # l
      BY <3>1, <3>2
    <3>3. CASE n[1] = q /\ n[2] = l
      BY <1>1, <3>1, <3>3 DEF GoodTree
    <3> QED
      BY <3>2, <3>3
  <2> QED
    BY <1>1, <1>6, <2>1 DEF Keeps
<1> QED
  BY <1>1, <1>3, <1>4, <1>5, <1>6, TreeStep DEF TypeOK

LEMMA EnsureMappedLUNStep == ASSUME Inv, NEW m \in Want.ml, EnsureMappedLUN(m) PROVE Inv'
<1> DEFINE cur == {n \in ml : n[1] = m[1] /\ n[2] = m[2]}
           new == IF cur = {<<m[1], m[2], NoIdx>>} THEN {m} ELSE {<<m[1], m[2], NoIdx>>}
<1>1. GoodTree(Want) /\ m \in IQN \X Lun \X Idx
  BY WantGood DEF GoodTree, Tree
<1>2. /\ Reconciling /\ m \notin ml /\ ml' = {n \in ml : n[1] # m[1] \/ n[2] # m[2]} \cup new
      /\ UNCHANGED <<docs, bs, tpg, lun, acl, applied, degraded, pc, granted, wiped, restored, ask>>
  BY DEF EnsureMappedLUN, LunsDone, BackstoresDone
<1>3. \/ new = {m}
      \/ new = {<<m[1], m[2], NoIdx>>}
  OBVIOUS
<1>4. \A w \in Want.ml : w[1] = m[1] /\ w[2] = m[2] => w \notin ml
  BY <1>1, <1>2 DEF GoodTree
<1> HIDE DEF new
<1> QED
  BY <1>1, <1>2, <1>3, <1>4, MlStep

LEMMA RemoveMappedLUNStep == ASSUME Inv, NEW m \in ml, RemoveMappedLUN(m) PROVE Inv'
<1> DEFINE new == IF m[3] = NoIdx THEN {} ELSE {<<m[1], m[2], NoIdx>>}
<1>1. /\ m \in IQN \X Lun \X (Idx \cup {NoIdx})
      /\ \A n \in ml : (n[1] = m[1] /\ n[2] = m[2]) <=> n = m
  BY DEF Inv, TypeOK, TreeInv
<1>2. /\ Reconciling /\ \A w \in Want.ml : w[1] # m[1] \/ w[2] # m[2]
      /\ ml' = (ml \ {m}) \cup new
      /\ UNCHANGED <<docs, bs, tpg, lun, acl, applied, degraded, pc, granted, wiped, restored, ask>>
  BY DEF RemoveMappedLUN, DropMl, AddsDone, LunsDone, BackstoresDone
<1>3. ml' = {n \in ml : n[1] # m[1] \/ n[2] # m[2]} \cup new
  BY <1>1, <1>2
<1>4. \/ new = {}
      \/ new = {<<m[1], m[2], NoIdx>>}
  OBVIOUS
<1> HIDE DEF new
<1> QED
  BY <1>1, <1>2, <1>3, <1>4, MlStep

LEMMA RemoveACLStep == ASSUME Inv, NEW q \in IQN, RemoveACL(q) PROVE Inv'
<1>1. /\ Want' = Want /\ acl' = acl \ {q} /\ Reconciling /\ q \notin Want.acl
      /\ UNCHANGED <<docs, bs, tpg, lun, ml, applied, degraded, pc, granted, wiped, restored, ask>>
  BY DEF RemoveACL, DropAcl, AddsDone, LunsDone, BackstoresDone, docs, Want
<1>2. TreeInv' /\ \A T : Within(T, Want) => Within(T, Want)'
  BY <1>1 DEF Inv, TreeInv, Within
<1>3. Keeps(applied, Want) => Keeps(applied, Want)'
  BY <1>1 DEF Keeps
<1>4. acl' \subseteq IQN
  BY <1>1 DEF Inv, TypeOK
<1> QED
  BY <1>1, <1>2, <1>3, <1>4, TreeStep DEF Inv, TypeOK

LEMMA RemoveBackstoreStep == ASSUME Inv, NEW x \in bs, RemoveBackstore(x) PROVE Inv'
<1>1. /\ Want' = Want /\ bs' = bs \ {x} /\ Reconciling /\ x \notin Want.lun
      /\ UNCHANGED <<docs, tpg, lun, acl, ml, applied, degraded, pc, granted, wiped, restored, ask>>
  BY DEF RemoveBackstore, DropBs, LunsPruned, AclsPruned, AddsDone, LunsDone, BackstoresDone,
         docs, Want
<1>2. TreeInv' /\ \A T : Within(T, Want) => Within(T, Want)'
  BY <1>1 DEF Inv, TreeInv, Within
<1>3. Keeps(applied, Want) => Keeps(applied, Want)'
  BY <1>1 DEF Keeps
<1>4. bs' \subseteq Idx \X Object
  BY <1>1 DEF Inv, TypeOK
<1> QED
  BY <1>1, <1>2, <1>3, <1>4, TreeStep DEF Inv, TypeOK

(***************************************************************************)
(* The end of a reconcile.                                                 *)
(***************************************************************************)

\* A reconcile by delta knows the tree it did not look at: what the cached
\* view and the db agree on is there, and nothing is that neither asks for.
LEMMA DeltaFacts ==
  ASSUME Inv, Reconciling, Incremental
  PROVE  GoodTree(applied) /\ Keeps(applied, Want) /\ Within(applied, Want)
<1>1. applied # NoTree /\ pc = "reconcile" /\ ~restored /\ Keeps(applied, Want)
  BY DEF Inv, ViewInv, Incremental, Reconciling
<1>2. PICK d \in Db : Since(d)
  BY <1>1 DEF Inv, SinceInv
<1> QED
  BY <1>1, <1>2, DesiredGood DEF Since

\* Once the additions are through, everything wanted is there.
LEMMA WantedThere ==
  ASSUME Inv, AddsDone
  PROVE  /\ Want.lun \subseteq bs /\ Want.lun \subseteq lun
         /\ Want.acl \subseteq acl /\ Want.ml \subseteq ml
<1>1. /\ Reconciling /\ AddLun \subseteq bs /\ AddLun \subseteq lun
      /\ AddAcl \subseteq acl /\ AddMl \subseteq ml
  BY DEF AddsDone, LunsDone, BackstoresDone
<1>2. CASE Incremental
  BY <1>1, <1>2, DeltaFacts DEF AddLun, AddAcl, AddMl, Keeps
<1>3. CASE ~Incremental
  BY <1>1, <1>3 DEF AddLun, AddAcl, AddMl
<1> QED
  BY <1>2, <1>3

\* Once the mapped LUNs are pruned, those that are wanted are all there are.
LEMMA OnlyWantedMl == ASSUME Inv, AclsPruned PROVE ml = Want.ml
<1>1. AddsDone /\ DropMl = {} /\ Reconciling
  BY DEF AclsPruned, AddsDone, LunsDone, BackstoresDone
<1>2. Want.ml \subseteq ml
  BY <1>1, WantedThere
<1>3. ASSUME NEW m \in ml PROVE \E w \in Want.ml : w[1] = m[1] /\ w[2] = m[2]
  <2> SUFFICES ASSUME \A w \in Want.ml : ~(w[1] = m[1] /\ w[2] = m[2]) PROVE FALSE
    OBVIOUS
  <2>1. \A w \in Want.ml : <<w[1], w[2]>> # <<m[1], m[2]>>
    OBVIOUS
  <2>2. CASE ~Incremental
    BY <1>1, <2>1, <2>2 DEF DropMl
  <2>3. CASE Incremental
    <3>1. \E w \in applied.ml : w[1] = m[1] /\ w[2] = m[2]
      BY <1>1, <2>3, DeltaFacts DEF Within
    <3>2. \E w \in applied.ml : <<w[1], w[2]>> = <<m[1], m[2]>>
      BY <3>1
    <3> QED
      BY <1>1, <2>1, <3>2 DEF DropMl
  <2> QED
    BY <2>2, <2>3
<1>4. \A m \in ml : m \in Want.ml
  BY <1>2, <1>3 DEF Inv, TreeInv
<1> QED
  BY <1>2, <1>4

LEMMA OnlyWantedLun == ASSUME Inv, LunsPruned PROVE lun = Want.lun
<1>1. AddsDone /\ DropLun = {} /\ Reconciling
  BY DEF LunsPruned, AclsPruned, AddsDone, LunsDone, BackstoresDone
<1>2. Want.lun \subseteq lun
  BY <1>1, WantedThere
<1>3. ASSUME NEW x \in lun PROVE \E w \in Want.lun : w[1] = x[1]
  <2> SUFFICES ASSUME \A w \in Want.lun : w[1] # x[1] PROVE FALSE
    OBVIOUS
  <2>1. CASE ~Incremental
    BY <1>1, <2>1 DEF DropLun
  <2>2. CASE Incremental
    <3>1. \E w \in applied.lun : w[1] = x[1]
      BY <1>1, <2>2, DeltaFacts DEF Within
    <3> QED
      BY <1>1, <3>1 DEF DropLun
  <2> QED
    BY <2>1, <2>2
<1>4. \A x \in lun : x \in Want.lun
  BY <1>2, <1>3 DEF Inv, TreeInv
<1> QED
  BY <1>2, <1>4

\* A reconcile that gets to its end has brought the tree to what the db asks.
LEMMA EndOfReconcile == ASSUME Inv, LunsPruned, DropBs = {} PROVE TreeIs(Want)
<1>1. AddsDone /\ AclsPruned /\ DropAcl = {} /\ Reconciling
  BY DEF LunsPruned, AclsPruned, AddsDone, LunsDone, BackstoresDone
<1>2. lun = Want.lun /\ ml = Want.ml
  BY <1>1, OnlyWantedLun, OnlyWantedMl
<1>3. Want.lun \subseteq bs /\ Want.acl \subseteq acl
  BY <1>1, WantedThere
<1>4. bs \subseteq Want.lun /\ acl \subseteq Want.acl
  <2>1. CASE ~Incremental
    BY <1>1, <2>1 DEF DropBs, DropAcl
  <2>2. CASE Incremental
    BY <1>1, <2>2, DeltaFacts DEF DropBs, DropAcl, Within
  <2> QED
    BY <2>1, <2>2
<1> QED
  BY <1>2, <1>3, <1>4 DEF TreeIs

LEMMA ReconcileOKStep == ASSUME Inv, ReconcileOK PROVE Inv'
<1>1. /\ applied' = Want /\ degraded' = FALSE /\ pc' = "idle" /\ granted' = Grants(db)
      /\ wiped' = FALSE /\ restored' = FALSE /\ UNCHANGED <<docs, tree, ask>>
      /\ TypeOK /\ DocInv /\ TreeInv /\ Want' = Want
  BY DEF ReconcileOK, Inv, Want, docs
<1>2. TreeIs(Want) /\ TreeIs(Want)'
  BY <1>1, EndOfReconcile DEF ReconcileOK, TreeIs, tree
<1>3. TypeOK'
  <2>1. Want \in Tree /\ Grants(db) \subseteq IQN \X Lun \X Object
    BY WantGood DEF GoodTree, Grants
  <2> QED
    BY <1>1, <2>1 DEF TypeOK, docs, tree
<1>4. DocInv' /\ TreeInv'
  BY <1>1 DEF DocInv, TreeInv, docs, tree
<1>5. ViewInv'
  BY <1>1, <1>2 DEF ViewInv
<1>6. Since(db)'
  <2>1. Within(Want, Want)'
    BY <1>1, <1>2 DEF Within, TreeIs
  <2>2. SameIndices(db, db)
    BY <1>1 DEF DocInv, SameIndices, Wf
  <2>3. (Wf(db) /\ SameIndices(db, db) /\ Grants(db) \subseteq granted)'
    BY <1>1, <2>2 DEF DocInv, docs
  <2> QED
    BY <1>1, <2>1, <2>3 DEF Since, Want
<1> QED
  BY <1>1, <1>3, <1>4, <1>5, <1>6 DEF Inv, SinceInv, TypeOK

LEMMA ReconcileFailedStep == ASSUME Inv, ReconcileFailed PROVE Inv'
<1>1. /\ applied' = NoTree /\ UNCHANGED <<docs, tree, granted, wiped, restored, ask>>
      /\ (pc' = "down" /\ degraded' = FALSE) \/ (pc' = "idle" /\ degraded' = TRUE)
      /\ TypeOK /\ Want' = Want
  BY DEF ReconcileFailed, Inv, Want, docs
<1>2. TypeOK'
  BY <1>1 DEF TypeOK, docs, tree
<1>3. DocInv' /\ TreeInv' /\ ViewInv'
  BY <1>1 DEF Inv, DocInv, TreeInv, ViewInv, docs, tree
<1>4. SinceInv'
  BY <1>1 DEF Inv, SinceInv, Since, Within, docs, tree
<1> QED
  BY <1>2, <1>3, <1>4 DEF Inv

(***************************************************************************)
(* The operations.                                                         *)
(***************************************************************************)

\* The backups are the documents that were in force before.
LEMMA LinkBackup ==
  ASSUME Inv, linkBackup
  PROVE  /\ backups' \in Seq(Db) /\ Len(backups') <= MaxBackups
         /\ \A k \in 1..Len(backups') : Wf(backups'[k])
<1> DEFINE s == <<db>> \o backups
           n == IF Len(backups) < MaxBackups THEN Len(backups) + 1 ELSE MaxBackups
<1>1. /\ db \in Db /\ Wf(db) /\ backups \in Seq(Db) /\ Len(backups) \in Nat
      /\ Len(backups) <= MaxBackups /\ MaxBackups \in Nat
      /\ \A k \in 1..Len(backups) : Wf(backups[k])
  BY ExportsAssumption DEF Inv, TypeOK, DocInv
<1>2. /\ s \in Seq(Db) /\ Len(s) = Len(backups) + 1
      /\ \A i \in 1..Len(s) : s[i] = IF i = 1 THEN db ELSE backups[i - 1]
  BY <1>1
<1>3. \A i \in 1..Len(s) : s[i] \in Db /\ Wf(s[i])
  BY <1>1, <1>2
<1>4. n \in Nat /\ n <= Len(s) /\ n <= MaxBackups
  BY <1>1, <1>2
<1>5. backups' = SubSeq(s, 1, n)
  BY DEF linkBackup
<1> HIDE DEF s, n
<1>6. 1 \in Int /\ n \in Int /\ \A i \in 1..n : s[i] \in Db
  BY <1>1, <1>2, <1>3, <1>4
<1>7. /\ SubSeq(s, 1, n) \in Seq(Db)
      /\ Len(SubSeq(s, 1, n)) = IF 1 <= n THEN n - 1 + 1 ELSE 0
      /\ \A i \in 1..n - 1 + 1 : SubSeq(s, 1, n)[i] = s[1 + i - 1]
  BY <1>6, SubSeqProperties
<1>8. Len(backups') = n /\ \A i \in 1..n : backups'[i] = s[i]
  BY <1>4, <1>5, <1>7
<1> QED
  BY <1>1, <1>2, <1>3, <1>4, <1>5, <1>7, <1>8

\* commit: the heal gate makes the document in force the one the tree was last
\* brought to, so the new one is one step from it.
LEMMA CommitStep ==
  ASSUME Inv, NEW d \in Db, Wf(d), SameIndices(db, d), commit(d)
  PROVE  Inv'
<1>1. /\ pc = "idle" /\ ~degraded /\ db' = d /\ granted' = granted \cup Grants(d)
      /\ applied' = (IF tpg THEN applied ELSE NoTree) /\ pc' = "reconcile"
      /\ UNCHANGED <<tree, degraded, wiped, restored, ask>>
  BY DEF commit, checkScope
<1>2. /\ TypeOK /\ DocInv /\ TreeInv /\ Want' = desiredLIO(d)
  BY <1>1 DEF Inv, Want
<1>3. /\ applied = Want /\ (wiped => TreeGone) /\ (~wiped => TreeIs(Want))
  BY <1>1 DEF Inv, ViewInv
<1>4. /\ backups' \in Seq(Db) /\ Len(backups') <= MaxBackups
      /\ \A k \in 1..Len(backups') : Wf(backups'[k])
  BY LinkBackup DEF commit
<1>5. TypeOK'
  <2>1. granted' \subseteq IQN \X Lun \X Object
    BY <1>1, <1>2 DEF TypeOK, Grants
  <2> QED
    BY <1>1, <1>2, <1>4, <2>1 DEF TypeOK, tree
<1>6. DocInv' /\ TreeInv'
  BY <1>1, <1>2, <1>4 DEF DocInv, TreeInv, tree
<1>7. ViewInv'
  <2>1. ASSUME applied' # NoTree PROVE applied' = applied /\ TreeIs(Want)
    BY <1>1, <1>3, <2>1 DEF TreeGone
  <2>2. ASSUME applied' # NoTree PROVE Keeps(applied, Want)'
    BY <1>1, <1>3, <2>1, <2>2 DEF Keeps, TreeIs, tree
  <2>3. applied' # NoTree => ~degraded' /\ ~restored'
    BY <1>1, <2>1 DEF Inv, ViewInv
  <2> QED
    BY <1>1, <2>2, <2>3 DEF ViewInv
<1>8. SinceInv'
  <2>1. PICK e \in Db : e = db
    BY <1>2 DEF TypeOK
  <2>2. PICK T : T = desiredLIO(e)
    OBVIOUS
  <2>3. bs \subseteq T.lun /\ lun \subseteq T.lun /\ acl \subseteq T.acl /\ ml \subseteq T.ml
    BY <1>3, <2>1, <2>2 DEF TreeIs, TreeGone, Want
  <2>4. Within(T, Want)'
    BY <1>1, <2>3 DEF Within, tree
  <2>5. Wf(e) /\ SameIndices(e, d) /\ Grants(e) \subseteq granted'
    BY <1>1, <1>2, <2>1 DEF DocInv
  <2>6. applied' # NoTree => applied' = T
    BY <1>1, <1>3, <2>1, <2>2 DEF Want
  <2>7. Since(e)'
    BY <1>1, <2>2, <2>4, <2>5, <2>6 DEF Since
  <2> QED
    BY <2>7 DEF SinceInv
<1> QED
  BY <1>5, <1>6, <1>7, <1>8 DEF Inv

\* A document whose connections and indices are those in force.
LEMMA SameExports ==
  ASSUME Inv, NEW d \in Db, d.conn = db.conn, d.exp = db.exp
  PROVE  Wf(d) /\ SameIndices(db, d)
BY DEF Inv, DocInv, Wf, SameIndices, Exported

LEMMA BoundType ==
  ASSUME Inv, NEW h \in Host, NEW qs \in SUBSET IQN
  PROVE  Bound(h, qs) \in [IQN -> Host \cup {NoHost}]
BY DEF Inv, TypeOK, Db, Bound

LEMMA CreateHostStep ==
  ASSUME Inv, NEW h \in Host, NEW qs \in SUBSET IQN, CreateHost(h, qs)
  PROVE  Inv'
<1> DEFINE d == [db EXCEPT !.hosts = @ \cup {h}, !.bind = Bound(h, qs)]
<1>1. d \in Db /\ d.conn = db.conn /\ d.exp = db.exp
  BY BoundType DEF Inv, TypeOK, Db
<1>2. commit(d)
  BY DEF CreateHost
<1> HIDE DEF d
<1> QED
  BY <1>1, <1>2, SameExports, CommitStep

LEMMA SetBindingsStep ==
  ASSUME Inv, NEW h \in Host, NEW qs \in SUBSET IQN, SetBindings(h, qs)
  PROVE  Inv'
<1> DEFINE d == [db EXCEPT !.bind = Bound(h, qs)]
<1>1. d \in Db /\ d.conn = db.conn /\ d.exp = db.exp
  BY BoundType DEF Inv, TypeOK, Db
<1>2. commit(d)
  BY DEF SetBindings
<1> HIDE DEF d
<1> QED
  BY <1>1, <1>2, SameExports, CommitStep

LEMMA DeleteHostStep == ASSUME Inv, NEW h \in Host, DeleteHost(h) PROVE Inv'
<1> DEFINE d == [db EXCEPT !.hosts = @ \ {h}, !.bind = Bound(h, {})]
<1>1. d \in Db /\ d.conn = db.conn /\ d.exp = db.exp
  BY BoundType DEF Inv, TypeOK, Db
<1>2. commit(d)
  BY DEF DeleteHost
<1> HIDE DEF d
<1> QED
  BY <1>1, <1>2, SameExports, CommitStep

LEMMA ConnectStep ==
  ASSUME Inv, NEW o \in Object, NEW h \in Host, NEW l \in Lun, Connect(o, h, l)
  PROVE  Inv'
<1> DEFINE i == exportIndex(db, o)
           c == [obj |-> o, host |-> h, lun |-> l]
           d == [db EXCEPT !.conn = @ \cup {c}, !.exp[o] = i]
<1>1. db \in Db /\ Wf(db)
  BY DEF Inv, TypeOK, DocInv
<1>2. /\ i \in Idx /\ i # NoIdx /\ \A p \in Object : db.exp[p] = i => p = o
      /\ db.exp[o] # NoIdx => i = db.exp[o]
  BY <1>1, ExportIndexFresh, ExportsAssumption DEF Idx
<1>3. c \in Conn /\ c.obj = o /\ c.host = h /\ c.lun = l
  BY DEF Conn
<1>4. commit(d) /\ \A e \in db.conn : e.host = h => e.lun # l
  BY DEF Connect
<1> HIDE DEF i, c
<1>5. /\ d \in Db /\ d.conn = db.conn \cup {c} /\ d.exp[o] = i
      /\ \A p \in Object : p # o => d.exp[p] = db.exp[p]
  BY <1>1, <1>2, <1>3 DEF Db
<1> HIDE DEF d
<1>6. SameIndices(db, d)
  BY <1>1, <1>2, <1>5 DEF SameIndices, Wf
<1>7. Wf(d)
  <2>1. ASSUME NEW p \in Exported(d) PROVE d.exp[p] # NoIdx
    <3>1. p = o \/ p \in Exported(db)
      BY <1>3, <1>5 DEF Exported
    <3>2. p \in Object
      BY <1>5 DEF Exported, Db, Conn
    <3> QED
      BY <1>1, <1>2, <1>5, <3>1, <3>2 DEF Wf
  <2>2. ASSUME NEW p \in Object, NEW r \in Object, d.exp[p] # NoIdx, d.exp[p] = d.exp[r]
        PROVE  p = r
    BY <1>1, <1>2, <1>5, <2>2 DEF Wf
  <2>3. ASSUME NEW e \in d.conn, NEW f \in d.conn, e.host = f.host, e.lun = f.lun
        PROVE  e = f
    BY <1>1, <1>3, <1>4, <1>5, <2>3 DEF Wf
  <2> QED
    BY <2>1, <2>2, <2>3 DEF Wf
<1> QED
  BY <1>4, <1>5, <1>6, <1>7, CommitStep

LEMMA DisconnectStep ==
  ASSUME Inv, NEW o \in Object, NEW h \in Host, Disconnect(o, h)
  PROVE  Inv'
<1> DEFINE b == [db EXCEPT !.conn = {c \in @ : ~(c.obj = o /\ c.host = h)}]
           d == pruneExports(b)
<1>1. db \in Db /\ Wf(db)
  BY DEF Inv, TypeOK, DocInv
<1>2. commit(d)
  BY DEF Disconnect
<1>3. b \in Db /\ b.conn \subseteq db.conn /\ b.exp = db.exp
  BY <1>1 DEF Db
<1> HIDE DEF b
<1>4. /\ d \in Db /\ d.conn = b.conn
      /\ \A p \in Object : d.exp[p] = IF p \in Exported(b) THEN b.exp[p] ELSE NoIdx
  BY <1>3 DEF pruneExports, Db
<1> HIDE DEF d
<1>5. \A p \in Object : d.exp[p] # NoIdx => d.exp[p] = db.exp[p]
  BY <1>3, <1>4
<1>6. SameIndices(db, d)
  BY <1>1, <1>5 DEF SameIndices, Wf
<1>7. Wf(d)
  <2>1. ASSUME NEW p \in Exported(d) PROVE d.exp[p] # NoIdx
    <3>1. p \in Exported(b) /\ p \in Exported(db)
      BY <1>3, <1>4 DEF Exported
    <3>2. p \in Object
      BY <1>4 DEF Exported, Db, Conn
    <3> QED
      BY <1>1, <1>3, <1>4, <3>1, <3>2 DEF Wf
  <2>2. \A p, r \in Object : d.exp[p] # NoIdx /\ d.exp[p] = d.exp[r] => p = r
    BY <1>1, <1>5 DEF Wf
  <2>3. \A e, f \in d.conn : e.host = f.host /\ e.lun = f.lun => e = f
    BY <1>1, <1>3, <1>4 DEF Wf
  <2> QED
    BY <2>1, <2>2, <2>3 DEF Wf
<1> QED
  BY <1>2, <1>4, <1>6, <1>7, CommitStep

(***************************************************************************)
(* The start and the environment.                                          *)
(***************************************************************************)

\* The daemon starts or goes, a heal begins: memory changes, and the tree at
\* most by being lost.
LEMMA DaemonStep ==
  ASSUME Inv, UNCHANGED <<docs, granted, restored, ask>>, UNCHANGED tree \/ NoKernel,
         wiped' \in BOOLEAN, degraded' \in BOOLEAN,
         pc' \in {"down", "replay", "reconcile"}, applied' = NoTree
  PROVE  Inv'
<1>1. TypeOK /\ Want' = Want
  BY DEF Inv, Want, docs
<1>2. TypeOK' /\ DocInv' /\ TreeInv'
  BY <1>1 DEF Inv, TypeOK, DocInv, TreeInv, docs, tree, NoKernel
<1>3. ViewInv'
  BY DEF ViewInv
<1>4. SinceInv'
  BY <1>1 DEF Inv, SinceInv, Since, Within, docs, tree, NoKernel
<1> QED
  BY <1>2, <1>3, <1>4 DEF Inv

LEMMA LoseTreeStep == ASSUME Inv, LoseTree PROVE Inv'
<1>1. /\ TypeOK /\ Want' = Want /\ pc = "idle" /\ wiped' = TRUE
      /\ UNCHANGED <<docs, applied, degraded, pc, granted, restored, ask>>
      /\ bs' = {} /\ tpg' = FALSE /\ lun' = {} /\ acl' = {} /\ ml' = {}
  BY DEF LoseTree, NoKernel, Inv, Want, docs
<1>2. TypeOK' /\ DocInv' /\ TreeInv'
  BY <1>1 DEF Inv, TypeOK, DocInv, TreeInv, docs
<1>3. ViewInv'
  BY <1>1 DEF Inv, ViewInv, TreeGone
<1>4. SinceInv'
  BY <1>1 DEF Inv, SinceInv, Since, Within, docs
<1> QED
  BY <1>2, <1>3, <1>4 DEF Inv

LEMMA RestoreBackupStep == ASSUME Inv, RestoreBackup PROVE Inv'
<1>1. PICK k \in 1..Len(backups) :
        db' = backups[k] /\ granted' = granted \cup Grants(backups[k])
  BY DEF RestoreBackup
<1>2. /\ pc = "down" /\ restored' = TRUE /\ TypeOK /\ DocInv
      /\ UNCHANGED <<backups, tree, applied, degraded, pc, wiped, ask>>
  BY DEF RestoreBackup, Inv
<1>3. db' \in Db /\ Wf(db') /\ Grants(db') \subseteq granted'
  BY <1>1, <1>2 DEF TypeOK, DocInv
<1>4. granted' \subseteq IQN \X Lun \X Object
  BY <1>1, <1>2 DEF TypeOK, Grants
<1>5. TypeOK'
  BY <1>2, <1>3, <1>4 DEF TypeOK, tree
<1>6. DocInv' /\ TreeInv'
  BY <1>2, <1>3 DEF Inv, DocInv, TreeInv, tree
<1>7. ViewInv' /\ SinceInv'
  BY <1>2 DEF Inv, ViewInv, SinceInv
<1> QED
  BY <1>5, <1>6, <1>7 DEF Inv

LEMMA InitInv == Init => Inv
<1> SUFFICES ASSUME Init PROVE Inv
  OBVIOUS
<1>1. EmptyDb \in Db /\ EmptyDb.conn = {} /\ \A o \in Object : EmptyDb.exp[o] = NoIdx
  BY DEF EmptyDb, Db
<1>2. Wf(EmptyDb) /\ Grants(EmptyDb) = {} /\ SameIndices(EmptyDb, EmptyDb)
  BY <1>1 DEF Wf, Grants, SameIndices, Exported
<1>3. TypeOK
  <2>1. <<>> \in Seq(Db) /\ Len(<<>>) = 0 /\ 0 <= MaxBackups
    BY ExportsAssumption
  <2> QED
    BY <1>1, <2>1 DEF Init, TypeOK
<1>4. DocInv /\ TreeInv /\ ViewInv
  BY <1>2 DEF Init, DocInv, TreeInv, ViewInv
<1>5. Since(EmptyDb)
  BY <1>2 DEF Init, Since, Within
<1> QED
  BY <1>1, <1>3, <1>4, <1>5 DEF Inv, SinceInv

LEMMA NextInv == ASSUME Inv, [Next]_vars PROVE Inv'
<1>1. CASE UNCHANGED vars
  <2>1. UNCHANGED Want
    BY <1>1 DEF vars, docs, Want
  <2> QED
    BY <1>1, <2>1 DEF vars, docs, tree, Inv, TypeOK, DocInv, TreeInv, ViewInv, SinceInv, Since,
                   Within, Keeps, TreeIs, TreeGone
<1>2. ask[1] \in SUBSET IQN /\ ask[2] \in SUBSET Lun
  BY ExportsAssumption DEF Inv, TypeOK
<1>3. ASSUME NEW h \in Host, NEW qs \in SUBSET ask[1], CreateHost(h, qs) \/ SetBindings(h, qs)
      PROVE  Inv'
  BY <1>2, <1>3, CreateHostStep, SetBindingsStep
<1>4. ASSUME NEW h \in Host, DeleteHost(h) PROVE Inv'
  BY <1>4, DeleteHostStep
<1>5. ASSUME NEW o \in Object, NEW h \in Host, NEW l \in ask[2], Connect(o, h, l) PROVE Inv'
  BY <1>2, <1>5, ConnectStep
<1>6. ASSUME NEW o \in Object, NEW h \in Host, Disconnect(o, h) PROVE Inv'
  BY <1>6, DisconnectStep
<1>7. CASE Heal
  BY <1>7, DaemonStep DEF Heal, Inv, ViewInv, TypeOK
<1>8. ASSUME NEW x \in Want.lun, EnsureBackstore(x) \/ EnsureLUN(x) PROVE Inv'
  BY <1>8, EnsureBackstoreStep, EnsureLUNStep
<1>9. CASE EnsureTPG
  BY <1>9, EnsureTPGStep
<1>10. ASSUME NEW q \in IQN, EnsureACL(q) \/ RemoveACL(q) PROVE Inv'
  BY <1>10, EnsureACLStep, RemoveACLStep
<1>11. ASSUME NEW m \in Want.ml, EnsureMappedLUN(m) PROVE Inv'
  BY <1>11, EnsureMappedLUNStep
<1>12. ASSUME NEW m \in ml, RemoveMappedLUN(m) PROVE Inv'
  BY <1>12, RemoveMappedLUNStep
<1>13. ASSUME NEW x \in lun, RemoveLUN(x) PROVE Inv'
  BY <1>13, RemoveLUNStep
<1>14. ASSUME NEW x \in bs, RemoveBackstore(x) PROVE Inv'
  BY <1>14, RemoveBackstoreStep
<1>15. CASE ReconcileOK \/ ReconcileFailed
  BY <1>15, ReconcileOKStep, ReconcileFailedStep
<1>16. CASE Open
  BY <1>16, DaemonStep DEF Open, Inv, ViewInv, TypeOK
<1>17. CASE Crash
  BY <1>17, DaemonStep DEF Crash, Inv, TypeOK
<1>18. CASE PowerLoss
  BY <1>18, DaemonStep DEF PowerLoss, Inv, TypeOK
<1>19. CASE LoseTree \/ RestoreBackup
  BY <1>19, LoseTreeStep, RestoreBackupStep
<1> QED
  BY <1>1, <1>3, <1>4, <1>5, <1>6, <1>7, <1>8, <1>9, <1>10, <1>11, <1>12, <1>13, <1>14, <1>15,
     <1>16, <1>17, <1>18, <1>19 DEF Next

LEMMA SpecInv == Spec => []Inv
BY InitInv, NextInv, PTL DEF Spec

(***************************************************************************)
(* The properties.                                                         *)
(***************************************************************************)

\* Every variable has its type in every reachable state (appliance/hosts.go,
\* appliance/translate.go): in particular exportIndex always finds an index.
THEOREM TypeCorrect == Spec => []TypeOK
<1>1. Inv => TypeOK
  BY DEF Inv
<1> QED
  BY <1>1, SpecInv, PTL

\* At every instant, half way through a reconcile and after a failed one, an
\* initiator sees only what some db in force since the last success grants it.
THEOREM OnlyGrantedAccess == Spec => []GrantedOnly
<1>1. Inv => GrantedOnly
  <2> SUFFICES ASSUME Inv, ~restored, NEW g \in Access PROVE g \in granted
    BY DEF GrantedOnly
  <2>1. g \in IQN \X Lun \X Object
    BY DEF Access
  <2>2. PICK i \in Idx : <<g[1], g[2], i>> \in ml /\ <<i, g[3]>> \in lun
    BY DEF Access
  <2>3. PICK d \in Db : Since(d)
    BY DEF Inv, SinceInv
  <2>4. db \in Db /\ Wf(db) /\ Grants(db) \subseteq granted
    BY DEF Inv, TypeOK, DocInv
  <2>5. i # NoIdx /\ g[3] # NoObj /\ g = <<g[1], g[2], g[3]>> /\ g[3] \in Object
    BY <2>1, ExportsAssumption DEF Idx
  <2>6. /\ <<g[1], g[2], i>> \in desiredLIO(d).ml \cup desiredLIO(db).ml
        /\ <<i, g[3]>> \in desiredLIO(d).lun \cup desiredLIO(db).lun
    BY <2>2, <2>3, <2>5 DEF Since, Within, Want
  <2>7. /\ SameIndices(d, db) /\ SameIndices(db, d) /\ SameIndices(d, d) /\ SameIndices(db, db)
        /\ Grants(d) \subseteq granted
    BY <2>3, <2>4 DEF Since, SameIndices, Wf
  <2>8. g \in Grants(d) \/ g \in Grants(db)
    BY <2>4, <2>5, <2>6, <2>7, MixedAccess
  <2> QED
    BY <2>4, <2>7, <2>8
<1> QED
  BY <1>1, SpecInv, PTL

\* Sync, and ApplyDelta without looking, leave the kernel as the db asks when
\* they report success.
THEOREM ReconcileConverges == Spec => []Converged
<1>1. Inv => Converged
  BY DEF Inv, ViewInv, Converged, TreeIs
<1> QED
  BY <1>1, SpecInv, PTL

\* prune and applyRemovals never ask the kernel to remove what is referenced.
LEMMA InvNeverBusy == Inv => NeverBusy
<1> SUFFICES ASSUME Inv PROVE NeverBusy
  OBVIOUS
<1>1. ASSUME AclsPruned, NEW x \in DropLun, LunInUse(x[1]) PROVE FALSE
  <2>1. PICK m \in ml : m[3] = x[1]
    BY <1>1 DEF LunInUse
  <2>2. m \in Want.ml
    BY <1>1, OnlyWantedMl
  <2>3. \E w \in Want.lun : w[1] = x[1]
    BY <2>1, <2>2, WantGood DEF GoodTree
  <2> QED
    BY <1>1, <2>3 DEF DropLun
<1>2. ASSUME LunsPruned PROVE DropBs \cap lun = {}
  BY <1>2, OnlyWantedLun DEF DropBs
<1> QED
  BY <1>1, <1>2 DEF NeverBusy

THEOREM RemovalsNeverBusy == Spec => []NeverBusy
BY InvNeverBusy, SpecInv, PTL

\* ensureLUN never changes the backstore of a LUN that a mapped LUN points at,
\* except in the first reconcile over a db the operator put back.
THEOREM NoSwap == Spec => NoSwapUnderInitiator
<1> DEFINE Swapless == restored \/
     \A x \in lun : /\ x[2] # NoObj
                    /\ \E m \in ml : m[3] = x[1] /\ m \in ml'
                    => x \in lun'
<1>1. Inv /\ [Next]_vars => [Swapless]_vars
  <2> SUFFICES ASSUME Inv, Next, ~restored, NEW x \in lun, x[2] # NoObj,
                      NEW m \in ml, m[3] = x[1], m \in ml'
               PROVE  x \in lun'
    OBVIOUS
  <2>1. ASSUME NEW y \in Want.lun, EnsureLUN(y) PROVE x \in lun'
    <3>1. y \notin lun /\ \A z \in lun : z[1] # y[1] => z \in lun'
      BY <2>1 DEF EnsureLUN
    <3>2. x[1] # y[1]
      <4> SUFFICES ASSUME x[1] = y[1] PROVE FALSE
        OBVIOUS
      <4>1. PICK d \in Db : Since(d)
        BY DEF Inv, SinceInv
      <4>2. x \in desiredLIO(d).lun \cup Want.lun
        BY <4>1 DEF Since, Within
      <4>3. db \in Db /\ GoodTree(Want) /\ x \in Idx \X Object /\ y \in Idx \X Object
        BY WantGood, ExportsAssumption DEF Inv, TypeOK, GoodTree, Tree
      <4>4. CASE x \in Want.lun
        BY <3>1, <4>3, <4>4 DEF GoodTree
      <4>5. CASE x \in desiredLIO(d).lun
        <5>1. x[1] = d.exp[x[2]] /\ y[1] = db.exp[y[2]]
          BY <4>5 DEF desiredLIO, Want
        <5>2. x[1] # NoIdx
          BY <4>3, ExportsAssumption DEF Idx
        <5>3. x[2] = y[2]
          BY <4>1, <4>3, <5>1, <5>2 DEF Since, SameIndices
        <5> QED
          BY <3>1, <4>3, <5>3
      <4> QED
        BY <4>2, <4>4, <4>5
    <3> QED
      BY <3>1, <3>2
  <2>2. ASSUME NEW y \in lun, RemoveLUN(y) PROVE x \in lun'
    <3>1. ~LunInUse(y[1]) /\ \A z \in lun : z # y => z \in lun'
      BY <2>2, InvNeverBusy DEF NeverBusy, RemoveLUN
    <3> QED
      BY <3>1 DEF LunInUse
  <2>3. CASE NoKernel
    BY <2>3 DEF NoKernel
  <2>4. CASE UNCHANGED lun
    BY <2>4
  <2> QED
    BY <2>1, <2>2, <2>3, <2>4
    DEF Next, CreateHost, SetBindings, DeleteHost, Connect, Disconnect, commit, Heal,
        EnsureBackstore, EnsureTPG, EnsureACL, RemoveACL, EnsureMappedLUN, RemoveMappedLUN,
        RemoveBackstore, ReconcileOK, ReconcileFailed, Open, Crash, PowerLoss, LoseTree,
        RestoreBackup, tree
<1> QED
  BY <1>1, SpecInv, PTL DEF Spec, NoSwapUnderInitiator
=============================================================================
