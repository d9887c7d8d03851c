--------------------------- MODULE IdentityProofs ---------------------------
(***************************************************************************)
(* The properties of module Identity, proved for every set of machines and *)
(* objects and every number of WWNs.                                       *)
(*                                                                         *)
(* The argument for FabricUnique is one of ownership.  While every db was  *)
(* written by a machine that has an ID, and no rollback has lost one, the  *)
(* machine recorded in a db owns its name and its WWNs, wherever the db    *)
(* was copied to; no WWN has two owners; and a kernel offers only what its *)
(* own machine owns.                                                       *)
(***************************************************************************)
EXTENDS Identity, FiniteSetTheorems, TLAPS

\* A machine has its own ID or none; a daemon that has started has a name.
IdInv ==
  \A m \in Machine : id[m] \in {m, NoId} /\ (pc[m] # "down" => name[m] \in IQN)

\* The name a data root is known by is the one in its db, and a daemon uses
\* the one in its db.
NameInv ==
  ~rolledBack =>
    \A m \in Machine :
      /\ known[m] # NoIQN => disk[m].iqn = known[m]
      /\ pc[m] # "down" => mem[m].iqn = name[m] /\ disk[m].iqn = name[m]

\* A db says who made it, and was named by that machine.
Signed(d) == d = NoDb \/ (d.machine \in Machine /\ d.iqn \in IQN /\ d.iqn.of = d.machine)

SignedInv ==
  \A m \in Machine :
    /\ Signed(disk[m]) /\ Signed(mem[m])
    /\ pc[m] = "down" => mem[m] = NoDb
    /\ pc[m] # "down" => mem[m].machine = m /\ name[m] = mem[m].iqn
    /\ \A q \in kern[m].iqns : q.of = m

\* Machine m may offer the WWN w: its kernel does, or a db it made names it.
Holds(d, m, w) == d.machine = m /\ \E o \in Object : d.wwn[o] = w
Owns(m, w) ==
  \/ w \in kern[m].wwns
  \/ \E k \in Machine : Holds(disk[k], m, w) \/ Holds(mem[k], m, w)

OwnInv ==
  \A m \in Machine, w \in WWN :
    Owns(m, w) => w <= minted /\ \A n \in Machine : Owns(n, w) => n = m

Inv ==
  /\ TypeOK
  /\ IdInv
  /\ NameInv
  /\ ~blind /\ ~rolledBack => SignedInv /\ OwnInv

LEMMA NoDbFacts ==
  /\ NoDb \in Doc /\ NoDb.iqn = NoIQN /\ NoDb.machine = NoId
  /\ \A o \in Object : NoDb.wwn[o] = 0
  /\ NoIQN \notin IQN
  /\ NoTarget \in [iqns: SUBSET IQN, wwns: SUBSET WWN]
  /\ NoTarget.iqns = {} /\ NoTarget.wwns = {}
BY IdentityAssumption DEF NoDb, Doc, NoIQN, IQN, NoTarget

\* The names a start can settle on.
LEMMA SettledFacts ==
  ASSUME TypeOK, IdInv, NEW m \in Machine, NEW flag \in {NoIQN, Stated(m)}
  PROVE  /\ SettledIQN(m, disk[m], flag) \in IQN \cup {NoIQN}
         /\ disk[m].iqn # NoIQN => SettledIQN(m, disk[m], flag) = disk[m].iqn
         /\ disk[m].iqn = NoIQN /\ SettledIQN(m, disk[m], flag) # NoIQN =>
              \/ SettledIQN(m, disk[m], flag).of = m
              \/ SettledIQN(m, disk[m], flag) \in kern[m].iqns
<1>1. LiveTargetIQN(m) \in kern[m].iqns \cup {NoIQN}
  <2>1. Cardinality({}) = 0
    BY FS_EmptySet
  <2> QED
    BY <2>1 DEF LiveTargetIQN
<1>2. disk[m].iqn \in IQN \cup {NoIQN} /\ kern[m].iqns \in SUBSET IQN
  BY DEF TypeOK, Doc
<1>3. Stated(m) \in IQN /\ Stated(m).of = m
  BY DEF Stated, IQN
<1>4. id[m] # NoId => DeriveTargetIQN(id[m]) \in IQN /\ DeriveTargetIQN(id[m]).of = m
  BY DEF IdInv, DeriveTargetIQN, IQN
<1> QED
  BY <1>1, <1>2, <1>3, <1>4 DEF SettledIQN

\* No step gives a WWN a second owner that takes its WWNs from those that the
\* machine owns already, or mints them.
LEMMA OwnKept ==
  ASSUME TypeOK, OwnInv, NEW c \in Machine, minted' \in Nat, minted' >= minted,
         \A m \in Machine, w \in WWN :
            Owns(m, w)' => Owns(m, w) \/ (m = c /\ w > minted /\ w <= minted')
  PROVE  OwnInv'
<1>1. minted \in Nat /\ \A w \in WWN : w \in Nat
  BY IdentityAssumption DEF TypeOK, WWN
<1> SUFFICES ASSUME NEW m \in Machine, NEW w \in WWN, Owns(m, w)'
             PROVE  w <= minted' /\ \A n \in Machine : Owns(n, w)' => n = m
  BY DEF OwnInv
<1> QED
  BY <1>1 DEF OwnInv

LEMMA InitInv == Init => Inv
<1> SUFFICES ASSUME Init PROVE Inv
  OBVIOUS
<1> USE IdentityAssumption, NoDbFacts DEF Init
<1>1. TypeOK
  <2>1. 0 \in 0..MaxWWN /\ id \in [Machine -> Machine \cup {NoId}]
    OBVIOUS
  <2>2. \A d : d \in Doc => [m \in Machine |-> d] \in [Machine -> Doc]
    OBVIOUS
  <2> QED
    BY <2>1, <2>2 DEF TypeOK
<1>2. IdInv /\ NameInv
  BY DEF IdInv, NameInv
<1>3. SignedInv
  BY DEF SignedInv, Signed
<1>4. OwnInv
  <2>1. \A m \in Machine, w \in WWN : ~Owns(m, w)
    BY DEF Owns, Holds, WWN
  <2> QED
    BY <2>1 DEF OwnInv
<1> QED
  BY <1>1, <1>2, <1>3, <1>4 DEF Inv

LEMMA OpenStep ==
  ASSUME Inv, NEW m \in Machine, NEW flag \in {NoIQN, Stated(m)}, Open(m, flag)
  PROVE  Inv'
<1> DEFINE q == SettledIQN(m, disk[m], flag)
           next == [disk[m] EXCEPT !.iqn = q, !.machine = id[m]]
<1> USE DEF daemon
<1>1. TypeOK /\ IdInv /\ disk[m] \in Doc /\ mem[m] \in Doc
  BY DEF Inv, TypeOK
<1>2. /\ q \in IQN \cup {NoIQN} /\ (disk[m].iqn # NoIQN => q = disk[m].iqn)
      /\ disk[m].iqn = NoIQN /\ q # NoIQN => q.of = m \/ q \in kern[m].iqns
  BY <1>1, SettledFacts
<1> HIDE DEF q
<1>3. /\ next \in Doc /\ next.iqn = q /\ next.machine = id[m] /\ next.wwn = disk[m].wwn
  BY <1>1, <1>2 DEF TypeOK, Doc
<1> HIDE DEF next
<1>4. /\ pc[m] = "down" /\ ~IdentityConflict(disk[m].machine, id[m]) /\ q # NoIQN
      /\ disk' = [disk EXCEPT ![m] = next]
      /\ \/ /\ mem' = [mem EXCEPT ![m] = next]
            /\ name' = [name EXCEPT ![m] = q]
            /\ pc' = [pc EXCEPT ![m] = "replay"]
         \/ UNCHANGED daemon
      /\ blind' = (blind \/ id[m] = NoId)
      /\ UNCHANGED <<id, kern, minted, known, rolledBack>>
  BY <1>3 DEF Open, next, q
<1>5. /\ disk'[m] = next /\ \A k \in Machine : k # m => disk'[k] = disk[k]
      /\ \A k \in Machine : k # m => mem'[k] = mem[k] /\ pc'[k] = pc[k] /\ name'[k] = name[k]
      /\ \/ mem'[m] = next /\ name'[m] = q /\ pc'[m] = "replay"
         \/ mem'[m] = mem[m] /\ name'[m] = name[m] /\ pc'[m] = "down"
  BY <1>1, <1>4 DEF TypeOK
<1>6. TypeOK'
  BY <1>1, <1>2, <1>3, <1>4 DEF TypeOK
<1>7. IdInv'
  BY <1>1, <1>2, <1>4, <1>5 DEF IdInv
<1>8. NameInv'
  BY <1>2, <1>3, <1>4, <1>5 DEF Inv, NameInv
<1>9. ASSUME ~blind', ~rolledBack' PROVE SignedInv' /\ OwnInv'
  <2>1. SignedInv /\ OwnInv /\ id[m] = m /\ m # NoId /\ disk[m].machine \in {NoId, m}
    BY <1>1, <1>4, <1>9, IdentityAssumption DEF Inv, IdInv, IdentityConflict, SignedInv, TypeOK, Doc
  <2>2. q \in IQN /\ q.of = m
    BY <1>2, <1>4, <2>1, NoDbFacts, IdentityAssumption DEF SignedInv, Signed
  <2>3. SignedInv'
    BY <1>3, <1>4, <1>5, <2>1, <2>2 DEF SignedInv, Signed
  <2>4. \A n \in Machine, w \in WWN : Holds(next, n, w) => Holds(disk[m], n, w)
    <3>1. \A w \in WWN : w # 0
      BY IdentityAssumption DEF WWN
    <3>2. disk[m].machine = NoId => disk[m] = NoDb
      BY <2>1, IdentityAssumption DEF SignedInv, Signed
    <3> QED
      BY <1>3, <2>1, <3>1, <3>2, NoDbFacts DEF Holds
  <2>5. \A n \in Machine, w \in WWN : Owns(n, w)' => Owns(n, w)
    <3> SUFFICES ASSUME NEW n \in Machine, NEW w \in WWN, Owns(n, w)' PROVE Owns(n, w)
      OBVIOUS
    <3>1. CASE w \in kern'[n].wwns
      BY <1>4, <3>1 DEF Owns
    <3>2. ASSUME NEW k \in Machine, Holds(disk'[k], n, w) \/ Holds(mem'[k], n, w)
          PROVE  Owns(n, w)
      BY <1>5, <2>4, <3>2 DEF Owns
    <3> QED
      BY <3>1, <3>2 DEF Owns, Holds
  <2>6. minted' \in Nat /\ minted' >= minted
    BY <1>1, <1>4, IdentityAssumption DEF TypeOK
  <2> QED
    BY <1>1, <2>1, <2>3, <2>5, <2>6, OwnKept
<1> QED
  BY <1>6, <1>7, <1>8, <1>9 DEF Inv

\* What a reconcile, done or half done, can leave in the kernel.
LEMMA HalfWayFacts ==
  ASSUME Inv, NEW m \in Machine, pc[m] # "down", NEW k \in HalfWay(m, mem[m])
  PROVE  /\ k \in [iqns: SUBSET IQN, wwns: SUBSET WWN]
         /\ k.iqns \subseteq kern[m].iqns \cup {name[m]}
         /\ \A w \in k.wwns : w \in kern[m].wwns \/ \E o \in Object : mem[m].wwn[o] = w
<1>1. /\ mem[m] \in Doc /\ kern[m] \in [iqns: SUBSET IQN, wwns: SUBSET WWN]
      /\ name[m] \in IQN
  BY DEF Inv, TypeOK, IdInv
<1>2. \A w \in Devices(mem[m]) : w \in WWN /\ \E o \in Object : mem[m].wwn[o] = w
  BY <1>1, IdentityAssumption DEF Devices, Recorded, Doc, WWN
<1> QED
  BY <1>1, <1>2 DEF HalfWay

\* The kernel of one machine changes to what a reconcile can leave, and its
\* db at most to what is in memory.
LEMMA KernelStep ==
  ASSUME Inv, NEW m \in Machine, pc[m] # "down", NEW k \in HalfWay(m, mem[m]),
         kern' = [kern EXCEPT ![m] = k], UNCHANGED <<id, minted, blind, rolledBack>>,
         disk' = disk \/ disk' = [disk EXCEPT ![m] = mem[m]],
         mem' = mem \/ mem' = [mem EXCEPT ![m] = NoDb], ~blind, ~rolledBack
  PROVE  /\ \A n \in Machine : \A q \in kern'[n].iqns : q.of = n
         /\ OwnInv'
<1>1. TypeOK /\ SignedInv /\ OwnInv
  BY DEF Inv
<1>2. /\ k \in [iqns: SUBSET IQN, wwns: SUBSET WWN]
      /\ k.iqns \subseteq kern[m].iqns \cup {name[m]}
      /\ \A w \in k.wwns : w \in kern[m].wwns \/ \E o \in Object : mem[m].wwn[o] = w
  BY HalfWayFacts
<1>3. kern'[m] = k /\ \A n \in Machine : n # m => kern'[n] = kern[n]
  BY <1>1 DEF TypeOK
<1>4. mem[m].machine = m /\ name[m].of = m
  BY <1>1, NoDbFacts, IdentityAssumption DEF SignedInv, Signed
<1>5. \A n \in Machine : \A q \in kern'[n].iqns : q.of = n
  BY <1>1, <1>2, <1>3, <1>4 DEF SignedInv
<1>6. \A n \in Machine, w \in WWN : Owns(n, w)' => Owns(n, w)
  <2> SUFFICES ASSUME NEW n \in Machine, NEW w \in WWN, Owns(n, w)' PROVE Owns(n, w)
    OBVIOUS
  <2>1. CASE w \in kern'[n].wwns
    BY <1>2, <1>3, <1>4, <2>1 DEF Owns, Holds
  <2>2. ASSUME NEW j \in Machine, Holds(disk'[j], n, w) \/ Holds(mem'[j], n, w)
        PROVE  Owns(n, w)
    <3>1. /\ mem'[j] = mem[j] \/ mem'[j] = NoDb
          /\ disk'[j] = disk[j] \/ disk'[j] = mem[j]
      BY <1>1 DEF TypeOK
    <3>2. ~Holds(NoDb, n, w)
      BY NoDbFacts, IdentityAssumption DEF Holds
    <3> QED
      BY <2>2, <3>1, <3>2 DEF Owns
  <2> QED
    BY <2>1, <2>2 DEF Owns, Holds
<1>7. minted' \in Nat /\ minted' >= minted
  BY <1>1, IdentityAssumption DEF TypeOK
<1> QED
  BY <1>1, <1>5, <1>6, <1>7, OwnKept

LEMMA ReplayStep == ASSUME Inv, NEW m \in Machine, Replay(m) PROVE Inv'
<1>1. PICK k \in HalfWay(m, mem[m]) :
        /\ kern' = [kern EXCEPT ![m] = k]
        /\ \/ /\ pc' = [pc EXCEPT ![m] = "up"]
              /\ known' = [known EXCEPT ![m] = name[m]]
              /\ UNCHANGED <<mem, name>>
           \/ Exit(m) /\ UNCHANGED known
  BY DEF Replay
<1>2. pc[m] = "replay" /\ UNCHANGED <<id, disk, minted, blind, rolledBack>>
  BY DEF Replay
<1>3. k \in [iqns: SUBSET IQN, wwns: SUBSET WWN] /\ name[m] \in IQN
  BY <1>2, HalfWayFacts DEF Inv, IdInv
<1>4. /\ \A n \in Machine : n # m => /\ pc'[n] = pc[n] /\ known'[n] = known[n]
                                     /\ mem'[n] = mem[n] /\ name'[n] = name[n]
      /\ \/ pc'[m] = "up" /\ known'[m] = name[m] /\ mem'[m] = mem[m] /\ name'[m] = name[m]
         \/ pc'[m] = "down" /\ mem'[m] = NoDb /\ known'[m] = known[m]
  BY <1>1 DEF Inv, TypeOK, Exit
<1>5. TypeOK'
  <2>1. kern' \in [Machine -> [iqns: SUBSET IQN, wwns: SUBSET WWN]]
    BY <1>1, <1>3 DEF Inv, TypeOK
  <2>2. pc' \in [Machine -> {"down", "replay", "up"}]
    BY <1>1 DEF Inv, TypeOK, Exit
  <2>3. mem' \in [Machine -> Doc]
    BY <1>1, NoDbFacts DEF Inv, TypeOK, Exit
  <2>4. name' \in [Machine -> IQN \cup {NoIQN}]
    BY <1>1 DEF Inv, TypeOK, Exit
  <2>5. known' \in [Machine -> IQN \cup {NoIQN}]
    BY <1>1, <1>3 DEF Inv, TypeOK
  <2> QED
    BY <1>2, <2>1, <2>2, <2>3, <2>4, <2>5 DEF Inv, TypeOK
<1>6. IdInv' /\ NameInv'
  BY <1>2, <1>3, <1>4 DEF Inv, IdInv, NameInv
<1>7. ASSUME ~blind', ~rolledBack' PROVE SignedInv' /\ OwnInv'
  <2>1. mem' = mem \/ mem' = [mem EXCEPT ![m] = NoDb]
    BY <1>1 DEF Exit
  <2>2. (\A n \in Machine : \A q \in kern'[n].iqns : q.of = n) /\ OwnInv'
    BY <1>1, <1>2, <1>7, <2>1, KernelStep
  <2>3. SignedInv
    BY <1>2, <1>7 DEF Inv
  <2>4. SignedInv'
    BY <1>2, <1>4, <2>2, <2>3 DEF SignedInv, Signed
  <2> QED
    BY <2>2, <2>4
<1> QED
  BY <1>5, <1>6, <1>7 DEF Inv

\* restoreState loses the identity: nothing but types is claimed after it.
LEMMA RestoreStateStep ==
  ASSUME Inv, NEW m \in Machine, RestoreState(m), minted' \in 0..MaxWWN,
         UNCHANGED <<id, name, pc, kern, known, blind>>
  PROVE  Inv'
<1>1. mem[m] \in Doc
  BY DEF Inv, TypeOK
<1>2. SnapshotState(mem[m]) \in Doc
  BY <1>1 DEF SnapshotState, Doc
<1>3. TypeOK'
  BY <1>2 DEF Inv, TypeOK, RestoreState
<1>4. rolledBack' /\ IdInv'
  BY DEF RestoreState, Inv, IdInv
<1> QED
  BY <1>3, <1>4 DEF Inv, NameInv

\* A write that keeps who and where, and names no WWN that is not the
\* machine's own or newly minted.
LEMMA PersistedStep ==
  ASSUME Inv, NEW m \in Machine, pc[m] = "up", NEW d \in Doc, Persisted(m, d),
         d.iqn = mem[m].iqn, d.machine = mem[m].machine,
         minted' \in 0..MaxWWN, minted' >= minted,
         \A o \in Object : \/ d.wwn[o] \in {mem[m].wwn[o], 0}
                           \/ d.wwn[o] > minted /\ d.wwn[o] <= minted',
         UNCHANGED <<id, name, pc, kern, known, blind>>
  PROVE  Inv'
<1>1. /\ mem'[m] = d /\ disk'[m] = d /\ rolledBack' = rolledBack
      /\ \A k \in Machine : k # m => mem'[k] = mem[k] /\ disk'[k] = disk[k]
  BY DEF Persisted, Inv, TypeOK
<1>2. TypeOK'
  BY DEF Inv, TypeOK, Persisted
<1>3. IdInv' /\ NameInv'
  BY <1>1 DEF Inv, IdInv, NameInv
<1>4. ASSUME ~blind', ~rolledBack' PROVE SignedInv' /\ OwnInv'
  <2>1. SignedInv /\ OwnInv /\ TypeOK
    BY <1>1, <1>4 DEF Inv
  <2>2. SignedInv'
    BY <1>1, <2>1, NoDbFacts, IdentityAssumption DEF SignedInv, Signed
  <2>3. \A n \in Machine, w \in WWN :
           Owns(n, w)' => Owns(n, w) \/ (n = m /\ w > minted /\ w <= minted')
    <3> SUFFICES ASSUME NEW n \in Machine, NEW w \in WWN, Owns(n, w)'
                 PROVE  Owns(n, w) \/ (n = m /\ w > minted /\ w <= minted')
      OBVIOUS
    <3>1. CASE w \in kern'[n].wwns
      BY <3>1 DEF Owns
    <3>2. ASSUME NEW j \in Machine, Holds(disk'[j], n, w) \/ Holds(mem'[j], n, w)
          PROVE  Owns(n, w) \/ (n = m /\ w > minted /\ w <= minted')
      <4>1. CASE j # m
        BY <1>1, <3>2, <4>1 DEF Owns
      <4>2. CASE j = m
        <5>1. PICK o \in Object : d.wwn[o] = w
          BY <1>1, <3>2, <4>2 DEF Holds
        <5>2. n = m /\ mem[m].machine = m /\ w # 0
          BY <1>1, <2>1, <3>2, <4>2, IdentityAssumption DEF Holds, SignedInv, WWN
        <5> QED
          BY <5>1, <5>2 DEF Owns, Holds
      <4> QED
        BY <4>1, <4>2
    <3> QED
      BY <3>1, <3>2 DEF Owns, Holds
  <2>4. minted' \in Nat
    BY IdentityAssumption
  <2> QED
    BY <2>1, <2>2, <2>3, <2>4, OwnKept
<1> QED
  BY <1>2, <1>3, <1>4 DEF Inv

LEMMA CreateStep ==
  ASSUME Inv, NEW m \in Machine, NEW o \in Object, Create(m, o)
  PROVE  Inv'
<1> DEFINE d == [mem[m] EXCEPT !.wwn[o] = minted + 1]
<1>1. minted \in 0..MaxWWN /\ mem[m] \in Doc
  BY DEF Inv, TypeOK
<1>2. minted + 1 \in 0..MaxWWN /\ minted' = minted + 1 /\ pc[m] = "up"
  BY <1>1, IdentityAssumption DEF Create
<1>3. d \in Doc /\ d.iqn = mem[m].iqn /\ d.machine = mem[m].machine
  BY <1>1, <1>2 DEF Doc
<1>4. \A p \in Object : d.wwn[p] = mem[m].wwn[p] \/ d.wwn[p] = minted'
  BY <1>1, <1>2 DEF Doc
<1>5. (Persisted(m, d) \/ RestoreState(m)) /\ UNCHANGED <<id, name, pc, kern, known, blind>>
  BY DEF Create, PersistOnly
<1> HIDE DEF d
<1>6. minted' >= minted /\ minted' > minted /\ minted' <= minted' /\ minted' \in 0..MaxWWN
  BY <1>1, <1>2, IdentityAssumption
<1>7. CASE Persisted(m, d)
  BY <1>2, <1>3, <1>4, <1>5, <1>6, <1>7, PersistedStep
<1>8. CASE RestoreState(m)
  BY <1>5, <1>6, <1>8, RestoreStateStep
<1> QED
  BY <1>5, <1>7, <1>8

LEMMA DeleteStep ==
  ASSUME Inv, NEW m \in Machine, NEW o \in Object, Delete(m, o)
  PROVE  Inv'
<1> DEFINE d == [mem[m] EXCEPT !.wwn[o] = 0]
<1>1. minted \in 0..MaxWWN /\ mem[m] \in Doc
  BY DEF Inv, TypeOK
<1>2. minted' = minted /\ pc[m] = "up" /\ 0 \in 0..MaxWWN
  BY <1>1, IdentityAssumption DEF Delete
<1>3. d \in Doc /\ d.iqn = mem[m].iqn /\ d.machine = mem[m].machine
  BY <1>1, <1>2 DEF Doc
<1>4. \A p \in Object : d.wwn[p] = mem[m].wwn[p] \/ d.wwn[p] = 0
  BY <1>1, <1>2 DEF Doc
<1>5. (Persisted(m, d) \/ RestoreState(m)) /\ UNCHANGED <<id, name, pc, kern, known, blind>>
  BY DEF Delete, PersistOnly
<1> HIDE DEF d
<1>6. minted' >= minted /\ minted' \in 0..MaxWWN
  BY <1>1, <1>2, IdentityAssumption
<1>7. CASE Persisted(m, d)
  BY <1>2, <1>3, <1>4, <1>5, <1>6, <1>7, PersistedStep
<1>8. CASE RestoreState(m)
  BY <1>5, <1>6, <1>8, RestoreStateStep
<1> QED
  BY <1>5, <1>7, <1>8

LEMMA CommitStep == ASSUME Inv, NEW m \in Machine, Commit(m) PROVE Inv'
<1>1. /\ pc[m] = "up" /\ UNCHANGED <<id, name, pc, minted, known, blind>>
      /\ minted \in 0..MaxWWN
  BY DEF Commit, Inv, TypeOK
<1>2. CASE RestoreState(m) /\ UNCHANGED kern
  BY <1>1, <1>2, RestoreStateStep
<1>3. ASSUME Persisted(m, mem[m]), NEW k \in HalfWay(m, mem[m]), kern' = [kern EXCEPT ![m] = k]
      PROVE  Inv'
  <2>1. mem' = mem /\ disk' = [disk EXCEPT ![m] = mem[m]] /\ rolledBack' = rolledBack
    BY <1>3 DEF Persisted, Inv, TypeOK
  <2>2. disk'[m] = mem[m] /\ \A n \in Machine : n # m => disk'[n] = disk[n]
    BY <2>1 DEF Inv, TypeOK
  <2>3. k \in [iqns: SUBSET IQN, wwns: SUBSET WWN]
    BY <1>1, HalfWayFacts
  <2>4. TypeOK'
    <3>1. kern' \in [Machine -> [iqns: SUBSET IQN, wwns: SUBSET WWN]]
      BY <1>3, <2>3 DEF Inv, TypeOK
    <3>2. disk' \in [Machine -> Doc]
      BY <2>1 DEF Inv, TypeOK
    <3> QED
      BY <1>1, <2>1, <3>1, <3>2 DEF Inv, TypeOK
  <2>5. IdInv' /\ NameInv'
    BY <1>1, <2>1, <2>2 DEF Inv, IdInv, NameInv
  <2>6. ASSUME ~blind', ~rolledBack' PROVE SignedInv' /\ OwnInv'
    <3>1. (\A n \in Machine : \A q \in kern'[n].iqns : q.of = n) /\ OwnInv'
      BY <1>1, <1>3, <2>1, <2>6, KernelStep
    <3>2. SignedInv
      BY <1>1, <2>1, <2>6 DEF Inv
    <3>3. SignedInv'
      BY <1>1, <2>1, <2>2, <3>1, <3>2 DEF SignedInv, Signed
    <3> QED
      BY <3>1, <3>3
  <2> QED
    BY <2>4, <2>5, <2>6 DEF Inv
<1> QED
  BY <1>2, <1>3 DEF Commit

LEMMA RecordedFinite ==
  ASSUME NEW d
  PROVE  Cardinality(Recorded(d)) \in Nat
<1>1. Recorded(d) \subseteq Object /\ IsFiniteSet(Object)
  BY IdentityAssumption DEF Recorded
<1>2. IsFiniteSet(Recorded(d))
  BY <1>1, FS_Subset
<1> QED
  BY <1>2, FS_CardinalityType

LEMMA ReinitStep ==
  ASSUME Inv, NEW m \in Machine, NEW flag \in {NoIQN, Stated(m)}, NEW wipe \in BOOLEAN,
         Reinit(m, flag, wipe)
  PROVE  Inv'
<1> DEFINE q == IF flag # NoIQN THEN flag ELSE DeriveTargetIQN(id[m])
           c == Cardinality(Recorded(disk[m]))
<1>1. PICK w \in ReinitWWNs(disk[m], wipe) :
        disk' = [disk EXCEPT ![m] = [iqn |-> q, machine |-> id[m], wwn |-> w]]
  BY DEF Reinit
<1>2. /\ pc[m] = "down" /\ (flag # NoIQN \/ id[m] # NoId)
      /\ wipe \/ minted + c <= MaxWWN
      /\ minted' = IF wipe THEN minted ELSE minted + c
      /\ known' = [known EXCEPT ![m] = NoIQN]
      /\ blind' = (blind \/ id[m] = NoId)
      /\ UNCHANGED <<id, mem, name, pc, kern, rolledBack>>
  BY DEF Reinit, daemon
<1>3. c \in Nat
  BY RecordedFinite
<1>4. q \in IQN /\ q.of = m /\ id[m] \in Machine \cup {NoId} /\ id[m] \in {m, NoId}
  BY <1>2 DEF Inv, IdInv, Stated, IQN, DeriveTargetIQN
<1>5. /\ minted \in 0..MaxWWN /\ minted' \in 0..MaxWWN /\ minted' \in Nat /\ minted' >= minted
      /\ TypeOK
  BY <1>2, <1>3, IdentityAssumption DEF Inv, TypeOK
<1>6. /\ w \in [Object -> 0..MaxWWN]
      /\ \A o \in Object : w[o] = 0 \/ (w[o] > minted /\ w[o] <= minted')
  <2>1. CASE wipe
    BY <1>1, <2>1, IdentityAssumption DEF ReinitWWNs, NoDb
  <2>2. CASE ~wipe
    <3>1. w \in RemintWWNs(disk[m])
      BY <1>1, <2>2 DEF ReinitWWNs
    <3>2. /\ w \in [Object -> 0..MaxWWN]
          /\ \A o \in Object \ Recorded(disk[m]) : w[o] = 0
          /\ \A o \in Recorded(disk[m]) : w[o] \in (minted + 1)..(minted + c)
      BY <3>1 DEF RemintWWNs
    <3> HIDE DEF c
    <3> QED
      BY <1>2, <1>3, <1>5, <2>2, <3>2
  <2> QED
    BY <2>1, <2>2
<1> HIDE DEF q, c
<1> DEFINE d == [iqn |-> q, machine |-> id[m], wwn |-> w]
<1>7. d \in Doc /\ d.iqn = q /\ d.machine = id[m] /\ d.wwn = w
  BY <1>4, <1>6 DEF Doc
<1>8. disk' = [disk EXCEPT ![m] = d]
  BY <1>1
<1> HIDE DEF d
<1>9. /\ disk'[m] = d /\ known'[m] = NoIQN
      /\ \A n \in Machine : n # m => disk'[n] = disk[n] /\ known'[n] = known[n]
  BY <1>2, <1>5, <1>8 DEF TypeOK
<1>10. TypeOK'
  <2>1. disk' \in [Machine -> Doc] /\ known' \in [Machine -> IQN \cup {NoIQN}]
    BY <1>2, <1>5, <1>7, <1>8 DEF TypeOK
  <2> QED
    BY <1>2, <1>5, <2>1 DEF TypeOK
<1>11. IdInv' /\ NameInv'
  BY <1>2, <1>9 DEF Inv, IdInv, NameInv
<1>12. ASSUME ~blind', ~rolledBack' PROVE SignedInv' /\ OwnInv'
  <2>1. SignedInv /\ OwnInv /\ id[m] = m
    BY <1>2, <1>4, <1>12 DEF Inv
  <2>2. SignedInv'
    BY <1>2, <1>4, <1>7, <1>9, <2>1 DEF SignedInv, Signed
  <2>3. \A n \in Machine, v \in WWN :
           Owns(n, v)' => Owns(n, v) \/ (n = m /\ v > minted /\ v <= minted')
    <3> SUFFICES ASSUME NEW n \in Machine, NEW v \in WWN, Owns(n, v)'
                 PROVE  Owns(n, v) \/ (n = m /\ v > minted /\ v <= minted')
      OBVIOUS
    <3>1. CASE v \in kern'[n].wwns
      BY <1>2, <3>1 DEF Owns
    <3>2. ASSUME NEW j \in Machine, Holds(mem'[j], n, v) PROVE Owns(n, v)
      BY <1>2, <3>2 DEF Owns
    <3>3. ASSUME NEW j \in Machine, Holds(disk'[j], n, v)
          PROVE  Owns(n, v) \/ (n = m /\ v > minted /\ v <= minted')
      <4>1. CASE j # m
        BY <1>9, <3>3, <4>1 DEF Owns
      <4>2. CASE j = m
        BY <1>6, <1>7, <1>9, <2>1, <3>3, <4>2, IdentityAssumption DEF Holds, WWN
      <4> QED
        BY <4>1, <4>2
    <3> QED
      BY <3>1, <3>2, <3>3 DEF Owns, Holds
  <2> QED
    BY <1>5, <2>1, <2>2, <2>3, OwnKept
<1> QED
  BY <1>10, <1>11, <1>12 DEF Inv

\* The kernel forgets, a process ends, a db that some machine has is copied to
\* another: none of these makes anybody own anything.
LEMMA ForgetStep ==
  ASSUME Inv, NEW m \in Machine, Exit(m), kern' \in {kern, [kern EXCEPT ![m] = NoTarget]},
         id' \in {id, [id EXCEPT ![m] = m]},
         UNCHANGED <<disk, minted, history>>
  PROVE  Inv'
<1> USE DEF history
<1>1. TypeOK /\ IdInv
  BY DEF Inv
<1>2. /\ mem'[m] = NoDb /\ name'[m] = NoIQN /\ pc'[m] = "down"
      /\ \A n \in Machine : n # m => mem'[n] = mem[n] /\ name'[n] = name[n] /\ pc'[n] = pc[n]
  BY <1>1 DEF TypeOK, Exit
<1>3. \A n \in Machine : kern'[n] = kern[n] \/ kern'[n] = NoTarget
  BY <1>1 DEF TypeOK
<1>4. TypeOK'
  <2>1. kern' \in [Machine -> [iqns: SUBSET IQN, wwns: SUBSET WWN]]
    BY <1>1, NoDbFacts DEF TypeOK
  <2>2. mem' \in [Machine -> Doc]
    BY <1>1, NoDbFacts DEF TypeOK, Exit
  <2>3. name' \in [Machine -> IQN \cup {NoIQN}] /\ pc' \in [Machine -> {"down", "replay", "up"}]
    BY <1>1 DEF TypeOK, Exit
  <2>4. id' \in [Machine -> Machine \cup {NoId}]
    BY <1>1 DEF TypeOK
  <2> QED
    BY <1>1, <2>1, <2>2, <2>3, <2>4 DEF TypeOK
<1>5. IdInv' /\ NameInv'
  <2>1. \A n \in Machine : id'[n] \in {n, NoId}
    BY <1>1 DEF TypeOK, IdInv
  <2> QED
    BY <1>2, <2>1 DEF Inv, IdInv, NameInv
<1>6. ASSUME ~blind', ~rolledBack' PROVE SignedInv' /\ OwnInv'
  <2>1. SignedInv /\ OwnInv
    BY <1>6 DEF Inv
  <2>2. SignedInv'
    BY <1>2, <1>3, <2>1, NoDbFacts DEF SignedInv, Signed
  <2>3. \A n \in Machine, w \in WWN : Owns(n, w)' => Owns(n, w)
    BY <1>2, <1>3, NoDbFacts, IdentityAssumption DEF Owns, Holds
  <2>4. minted' \in Nat /\ minted' >= minted
    BY <1>1, IdentityAssumption DEF TypeOK
  <2> QED
    BY <1>1, <2>1, <2>2, <2>3, <2>4, OwnKept
<1> QED
  BY <1>4, <1>5, <1>6 DEF Inv

LEMMA CopyStep ==
  ASSUME Inv, NEW m \in Machine, NEW n \in Machine, Copy(m, n)
  PROVE  Inv'
<1>1. /\ TypeOK /\ IdInv /\ m # n /\ pc[n] = "down"
      /\ UNCHANGED <<id, mem, name, pc, kern, minted, blind, rolledBack>>
  BY DEF Inv, Copy, daemon
<1>2. /\ disk'[n] = disk[m] /\ known'[n] = NoIQN
      /\ \A k \in Machine : k # n => disk'[k] = disk[k] /\ known'[k] = known[k]
  BY <1>1 DEF TypeOK, Copy
<1>3. TypeOK'
  <2>1. disk' \in [Machine -> Doc] /\ known' \in [Machine -> IQN \cup {NoIQN}]
    BY <1>1 DEF TypeOK, Copy
  <2> QED
    BY <1>1, <2>1 DEF TypeOK
<1>4. IdInv' /\ NameInv'
  BY <1>1, <1>2 DEF Inv, IdInv, NameInv
<1>5. ASSUME ~blind', ~rolledBack' PROVE SignedInv' /\ OwnInv'
  <2>1. SignedInv /\ OwnInv
    BY <1>1, <1>5 DEF Inv
  <2>2. SignedInv'
    BY <1>1, <1>2, <2>1 DEF SignedInv, Signed
  <2>3. \A k \in Machine, w \in WWN : Owns(k, w)' => Owns(k, w)
    BY <1>1, <1>2 DEF Owns, Holds
  <2>4. minted' \in Nat /\ minted' >= minted
    BY <1>1, IdentityAssumption DEF TypeOK
  <2> QED
    BY <1>1, <2>1, <2>2, <2>3, <2>4, OwnKept
<1> QED
  BY <1>3, <1>4, <1>5 DEF Inv

LEMMA NextInv == ASSUME Inv, [Next]_vars PROVE Inv'
<1>1. CASE UNCHANGED vars
  BY <1>1 DEF vars, daemon, history, Inv, TypeOK, IdInv, NameInv, SignedInv, OwnInv, Owns, Holds
<1>2. ASSUME NEW m \in Machine, NEW flag \in {NoIQN, Stated(m)}, Open(m, flag) PROVE Inv'
  BY <1>2, OpenStep
<1>3. ASSUME NEW m \in Machine, NEW flag \in {NoIQN, Stated(m)}, NEW wipe \in BOOLEAN,
             Reinit(m, flag, wipe)
      PROVE  Inv'
  BY <1>3, ReinitStep
<1>4. ASSUME NEW m \in Machine, NEW o \in Object, Create(m, o) PROVE Inv'
  BY <1>4, CreateStep
<1>5. ASSUME NEW m \in Machine, NEW o \in Object, Delete(m, o) PROVE Inv'
  BY <1>5, DeleteStep
<1>6. ASSUME NEW m \in Machine, Commit(m) PROVE Inv'
  BY <1>6, CommitStep
<1>7. ASSUME NEW m \in Machine, Replay(m) PROVE Inv'
  BY <1>7, ReplayStep
<1>8. ASSUME NEW m \in Machine, Stop(m) PROVE Inv'
  <2>1. Exit(m) /\ kern' = kern /\ id' = id /\ UNCHANGED <<disk, minted, history>>
    BY <1>8 DEF Stop
  <2> QED
    BY <2>1, ForgetStep
<1>9. ASSUME NEW m \in Machine, Reboot(m) PROVE Inv'
  <2>1. /\ Exit(m) /\ kern' = [kern EXCEPT ![m] = NoTarget] /\ id' = [id EXCEPT ![m] = m]
        /\ UNCHANGED <<disk, minted, history>>
    BY <1>9 DEF Reboot
  <2> QED
    BY <2>1, ForgetStep
<1>10. ASSUME NEW m \in Machine, NEW n \in Machine, Copy(m, n) PROVE Inv'
  BY <1>10, CopyStep
<1> QED
  BY <1>1, <1>2, <1>3, <1>4, <1>5, <1>6, <1>7, <1>8, <1>9, <1>10 DEF Next

LEMMA SpecInv == Spec => []Inv
<1> QED
  BY InitInv, NextInv, PTL DEF Spec

\* Every variable has its type in every reachable state (appliance/identity.go).
THEOREM TypeCorrect == Spec => []TypeOK
<1>1. Inv => TypeOK
  BY DEF Inv
<1> QED
  BY <1>1, SpecInv, PTL

\* identityConflictError and reinit do what they are for, on any number of
\* machines and through any number of copies: while every db has been written
\* by a machine with an ID and no rollback has lost one, no two machines offer
\* one target name or one WWN.
THEOREM NoTwins == Spec => []FabricUnique
<1>1. Inv => FabricUnique
  <2> SUFFICES ASSUME Inv, ~blind, ~rolledBack, NEW m \in Machine, NEW n \in Machine, m # n
               PROVE  Disjoint(m, n)
    BY DEF FabricUnique
  <2>1. kern[m].iqns \cap kern[n].iqns = {}
    BY DEF Inv, SignedInv
  <2>2. kern[m].wwns \cap kern[n].wwns = {}
    <3> SUFFICES ASSUME NEW w \in kern[m].wwns, w \in kern[n].wwns PROVE FALSE
      OBVIOUS
    <3>1. w \in WWN
      BY DEF Inv, TypeOK
    <3>2. Owns(m, w) /\ Owns(n, w)
      BY DEF Owns
    <3> QED
      BY <3>1, <3>2 DEF Inv, OwnInv
  <2> QED
    BY <2>1, <2>2 DEF Disjoint
<1> QED
  BY <1>1, SpecInv, PTL

\* adoptIdentity never renames a target it has served under before, whatever
\* flag the daemon is started with and whether or not the machine has an ID.
THEOREM NamesKept == Spec => NameKept
<1> DEFINE Kept == \A m \in Machine :
                     /\ ~rolledBack
                     /\ known[m] # NoIQN /\ known'[m] # NoIQN
                     => known'[m] = known[m]
<1>1. Inv /\ [Next]_vars => [Kept]_vars
  <2> SUFFICES ASSUME Inv, Next PROVE Kept
    OBVIOUS
  <2>1. TypeOK
    BY DEF Inv
  <2>2. ASSUME NEW m \in Machine, Replay(m) PROVE Kept
    <3>1. pc[m] = "replay" /\ known' \in {known, [known EXCEPT ![m] = name[m]]}
      BY <2>2 DEF Replay
    <3>2. \A n \in Machine : known'[n] = known[n] \/ (n = m /\ known'[n] = name[m])
      BY <2>1, <3>1 DEF TypeOK
    <3> QED
      BY <3>1, <3>2 DEF Inv, NameInv
  <2>3. ASSUME NEW m \in Machine, known' = [known EXCEPT ![m] = NoIQN] PROVE Kept
    BY <2>1, <2>3 DEF TypeOK
  <2>4. CASE UNCHANGED known
    BY <2>4
  <2> QED
    BY <2>2, <2>3, <2>4
    DEF Next, Open, Reinit, Create, Delete, Commit, Stop, Reboot, Copy, history
<1> QED
  BY <1>1, SpecInv, PTL DEF Spec, NameKept
=============================================================================
