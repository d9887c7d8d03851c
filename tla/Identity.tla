------------------------------ MODULE Identity ------------------------------
(***************************************************************************)
(* What an appliance is called: the target IQN, the machine the db was     *)
(* made on and the WWNs of its objects, on the machines of one fabric whose*)
(* data roots are copied from one to another.  Source:                     *)
(* appliance/identity.go, appliance/reinit.go, and the parts of            *)
(* appliance/appliance.go that carry the identity across a write.          *)
(*                                                                         *)
(* An initiator merges two targets of one IQN, and two devices of one WWN, *)
(* without a word.  The machine ID in the db is what makes a copied data   *)
(* root refuse to start where the original may still be running.           *)
(*                                                                         *)
(* Abstractions.  Bytes and directories, which reinit -wipe sets aside, are *)
(* left to module Objects; connections to module Exports: any recorded     *)
(* object may be served.  A machine's ID is written as the machine, and an *)
(* IQN by what it was made of.  An absent db is one with nothing in it.  A *)
(* write that reaches the file without being proven durable counts as      *)
(* written; power losses are the subject of Objects.                       *)
(***************************************************************************)
EXTENDS Naturals, FiniteSets

CONSTANTS
  Machine,  \* the hosts, each with a machine ID of its own
  NoId,     \* an absent or empty /etc/machine-id
  Object,   \* the UUIDs an appliance can hold
  MaxWWN    \* bound: WWNs minted in one behaviour

ASSUME IdentityAssumption ==
  /\ NoId \notin Machine
  /\ MaxWWN \in Nat
  /\ IsFiniteSet(Object)

VARIABLES
  id,         \* what readMachineID finds on a machine
  disk,       \* appliance.json
  mem,        \* Coordinator.st
  name,       \* Coordinator.cfg.TargetIQN once the start has settled it
  pc,         \* "down", "replay" (identity settled) or "up"
  kern,       \* the targets and the devices the machine's kernel offers
  minted,     \* the WWNs handed out so far
  known,      \* history: the name this data root was last up under
  blind,      \* history: a db was written by a machine without an ID
  rolledBack  \* history: a write failed and memory was rolled back

daemon == <<mem, name, pc>>
history == <<known, blind, rolledBack>>
vars == <<id, disk, daemon, kern, minted, history>>

\* A name derived from a machine ID, or stated by hand: operators do not
\* state one name on two machines.
DeriveTargetIQN(i) == [by |-> "id", of |-> i]
Stated(m) == [by |-> "hand", of |-> m]
NoIQN == [by |-> "none", of |-> NoId]
IQN == [by: {"id", "hand"}, of: Machine]

WWN == 1..MaxWWN
Doc == [iqn: IQN \cup {NoIQN}, machine: Machine \cup {NoId}, wwn: [Object -> 0..MaxWWN]]
NoDb == [iqn |-> NoIQN, machine |-> NoId, wwn |-> [o \in Object |-> 0]]
Recorded(d) == {o \in Object : d.wwn[o] # 0}
NoTarget == [iqns |-> {}, wwns |-> {}]

TypeOK ==
  /\ id \in [Machine -> Machine \cup {NoId}]
  /\ disk \in [Machine -> Doc]
  /\ mem \in [Machine -> Doc]
  /\ name \in [Machine -> IQN \cup {NoIQN}]
  /\ pc \in [Machine -> {"down", "replay", "up"}]
  /\ kern \in [Machine -> [iqns: SUBSET IQN, wwns: SUBSET WWN]]
  /\ minted \in 0..MaxWWN
  /\ known \in [Machine -> IQN \cup {NoIQN}]
  /\ blind \in BOOLEAN /\ rolledBack \in BOOLEAN

Init ==
  /\ id \in {f \in [Machine -> Machine \cup {NoId}] : \A m \in Machine : f[m] \in {m, NoId}}
  /\ disk = [m \in Machine |-> NoDb]
  /\ mem = [m \in Machine |-> NoDb]
  /\ name = [m \in Machine |-> NoIQN]
  /\ pc = [m \in Machine |-> "down"]
  /\ kern = [m \in Machine |-> NoTarget]
  /\ minted = 0
  /\ known = [m \in Machine |-> NoIQN]
  /\ blind = FALSE /\ rolledBack = FALSE

(***************************************************************************)
(* The start.                                                              *)
(***************************************************************************)

\* identityConflictError: the db was made on another machine.
IdentityConflict(recorded, actual) ==
  recorded # NoId /\ actual # NoId /\ recorded # actual

\* liveTargetIQN: the name in the kernel, if there is exactly one.
LiveTargetIQN(m) ==
  IF Cardinality(kern[m].iqns) = 1 THEN CHOOSE q \in kern[m].iqns : TRUE ELSE NoIQN

\* Mutants: the flag wins; a name is derived from an ID that is not there.
FlagFirst(m, d, flag) ==
  IF flag # NoIQN THEN flag
  ELSE IF d.iqn # NoIQN THEN d.iqn
  ELSE IF id[m] # NoId THEN DeriveTargetIQN(id[m]) ELSE NoIQN
DerivedFromNothing(m, d, flag) ==
  IF d.iqn # NoIQN THEN d.iqn
  ELSE IF flag # NoIQN THEN flag ELSE DeriveTargetIQN(id[m])

\* The name adoptIdentity settles on: the record, the flag, the kernel, the
\* machine, in that order; NoIQN when there is nothing to go by.
SettledIQN(m, d, flag) ==
  CASE d.iqn # NoIQN -> d.iqn
    [] d.iqn = NoIQN /\ flag # NoIQN -> flag
    [] d.iqn = NoIQN /\ flag = NoIQN /\ LiveTargetIQN(m) # NoIQN -> LiveTargetIQN(m)
    [] OTHER -> IF id[m] # NoId THEN DeriveTargetIQN(id[m]) ELSE NoIQN

\* Open up to the replay: load, then adoptIdentity, which writes the db when
\* it does not already say who and where this is.  A write that fails, or is
\* not proven durable, ends the start; only the second leaves a trace.
Open(m, flag) ==
  LET next == [disk[m] EXCEPT !.iqn = SettledIQN(m, disk[m], flag), !.machine = id[m]]
  IN  /\ pc[m] = "down"
      /\ ~IdentityConflict(disk[m].machine, id[m])
      /\ next.iqn # NoIQN
      /\ disk' = [disk EXCEPT ![m] = next]
      /\ \/ /\ mem' = [mem EXCEPT ![m] = next]
            /\ name' = [name EXCEPT ![m] = next.iqn]
            /\ pc' = [pc EXCEPT ![m] = "replay"]
         \/ next # disk[m] /\ UNCHANGED daemon
      /\ blind' = (blind \/ id[m] = NoId)
      /\ UNCHANGED <<id, kern, minted, known, rolledBack>>

\* What the kernel may offer once a reconcile to d is done: the target, and
\* the objects that some host is connected to.  A reconcile that stops half
\* way may also leave things out, or things not yet pruned.
Devices(d) == {d.wwn[o] : o \in Recorded(d)}
Reconciled(m, d) == [iqns: {{name[m]}}, wwns: SUBSET Devices(d)]
HalfWay(m, d) == [iqns: SUBSET (kern[m].iqns \cup {name[m]}),
                  wwns: SUBSET (kern[m].wwns \cup Devices(d))]

\* The process ends, and with it what it held in memory.
Exit(m) ==
  /\ pc' = [pc EXCEPT ![m] = "down"]
  /\ mem' = [mem EXCEPT ![m] = NoDb]
  /\ name' = [name EXCEPT ![m] = NoIQN]

\* The startup replay.  If it fails the daemon exits.
Replay(m) ==
  /\ pc[m] = "replay"
  /\ \E k \in HalfWay(m, mem[m]) :
       /\ kern' = [kern EXCEPT ![m] = k]
       /\ \/ /\ k \in Reconciled(m, mem[m])
             /\ pc' = [pc EXCEPT ![m] = "up"]
             /\ known' = [known EXCEPT ![m] = name[m]]
             /\ UNCHANGED <<mem, name>>
          \/ Exit(m) /\ UNCHANGED known
  /\ UNCHANGED <<id, disk, minted, blind, rolledBack>>

(***************************************************************************)
(* Requests.                                                               *)
(***************************************************************************)

\* snapshotState copies every field of the db but these two.
SnapshotState(d) == [d EXCEPT !.iqn = NoIQN, !.machine = NoId]

\* commit and persistOnly: the write succeeds, or it, or the validation before
\* it, fails and restoreState puts the snapshot back.
Persisted(m, next) ==
  /\ mem' = [mem EXCEPT ![m] = next]
  /\ disk' = [disk EXCEPT ![m] = next]
  /\ UNCHANGED rolledBack
RestoreState(m) ==
  /\ mem' = [mem EXCEPT ![m] = SnapshotState(mem[m])]
  /\ rolledBack' = TRUE
  /\ UNCHANGED disk
PersistOnly(m, next) == Persisted(m, next) \/ RestoreState(m)

Create(m, o) ==
  /\ pc[m] = "up" /\ o \notin Recorded(mem[m])
  /\ minted < MaxWWN
  /\ minted' = minted + 1
  /\ PersistOnly(m, [mem[m] EXCEPT !.wwn[o] = minted + 1])
  /\ UNCHANGED <<id, name, pc, kern, known, blind>>

\* Refused while the object is connected.
Delete(m, o) ==
  /\ pc[m] = "up" /\ o \in Recorded(mem[m])
  /\ mem[m].wwn[o] \notin kern[m].wwns
  /\ PersistOnly(m, [mem[m] EXCEPT !.wwn[o] = 0])
  /\ UNCHANGED <<id, name, pc, kern, minted, known, blind>>

\* Any request that changes hosts, connections or portals: commit writes the
\* db, identity and all, and reconciles.
Commit(m) ==
  /\ pc[m] = "up"
  /\ \/ /\ Persisted(m, mem[m])
        /\ \E k \in HalfWay(m, mem[m]) : kern' = [kern EXCEPT ![m] = k]
     \/ RestoreState(m) /\ UNCHANGED kern
  /\ UNCHANGED <<id, name, pc, minted, known, blind>>

(***************************************************************************)
(* reinit: run by an operator under the host lock, so with the daemon down.*)
(***************************************************************************)

\* Mutant: the objects keep the WWNs they were copied with.
KeepWWNs(d) == {d.wwn}

\* remintWWNs: the ways to give each object a WWN nobody had before.
RemintWWNs(d) ==
  {w \in [Object -> 0..MaxWWN] :
     /\ \A o \in Object \ Recorded(d) : w[o] = 0
     /\ \A o \in Recorded(d) :
          w[o] \in (minted + 1)..(minted + Cardinality(Recorded(d)))
     /\ \A o, p \in Recorded(d) : w[o] = w[p] => o = p}

ReinitWWNs(d, wipe) == IF wipe THEN {NoDb.wwn} ELSE RemintWWNs(d)

\* A reinit whose write fails changes nothing.  One that is not proven durable
\* counts as done.
Reinit(m, flag, wipe) ==
  /\ pc[m] = "down"
  /\ flag # NoIQN \/ id[m] # NoId
  /\ wipe \/ minted + Cardinality(Recorded(disk[m])) <= MaxWWN
  /\ \E w \in ReinitWWNs(disk[m], wipe) :
       disk' = [disk EXCEPT ![m] =
         [iqn |-> IF flag # NoIQN THEN flag ELSE DeriveTargetIQN(id[m]),
          machine |-> id[m], wwn |-> w]]
  /\ minted' = IF wipe THEN minted ELSE minted + Cardinality(Recorded(disk[m]))
  /\ known' = [known EXCEPT ![m] = NoIQN]
  /\ blind' = (blind \/ id[m] = NoId)
  /\ UNCHANGED <<id, daemon, kern, rolledBack>>

(***************************************************************************)
(* The machines.                                                           *)
(***************************************************************************)

\* The daemon stops or crashes; the kernel goes on serving.
Stop(m) ==
  /\ pc[m] # "down" /\ Exit(m)
  /\ UNCHANGED <<id, disk, kern, minted, history>>

\* The machine restarts, with an ID if it had none.
Reboot(m) ==
  /\ Exit(m)
  /\ kern' = [kern EXCEPT ![m] = NoTarget]
  /\ id' = [id EXCEPT ![m] = m]
  /\ UNCHANGED <<disk, minted, history>>

\* An operator copies the data root of m over that of n.
Copy(m, n) ==
  /\ m # n /\ pc[n] = "down"
  /\ disk' = [disk EXCEPT ![n] = disk[m]]
  /\ known' = [known EXCEPT ![n] = NoIQN]
  /\ UNCHANGED <<id, daemon, kern, minted, blind, rolledBack>>

Next ==
  \E m \in Machine :
    \/ \E flag \in {NoIQN, Stated(m)} :
         \/ Open(m, flag)
         \/ \E wipe \in BOOLEAN : Reinit(m, flag, wipe)
    \/ \E o \in Object : Create(m, o) \/ Delete(m, o)
    \/ Commit(m) \/ Replay(m) \/ Stop(m) \/ Reboot(m)
    \/ \E n \in Machine : Copy(m, n)

Spec == Init /\ [][Next]_vars

(***************************************************************************)
(* Properties.                                                             *)
(***************************************************************************)

Disjoint(m, n) ==
  kern[m].iqns \cap kern[n].iqns = {} /\ kern[m].wwns \cap kern[n].wwns = {}

\* However data roots are copied, started, renamed and copied back, no two
\* machines of the fabric offer one IQN or one WWN: identityConflictError
\* stops the copy, and reinit gives it a name and WWNs of its own.  Machines
\* without an ID are out of the mechanism's reach; so is a db that lost its
\* identity to a rollback (CloneDetected).
FabricUnique ==
  ~blind /\ ~rolledBack => \A m, n \in Machine : m # n => Disjoint(m, n)

\* identity.go says of identity that it "is recorded, not recomputed": a copy
\* is refused whatever the appliance went through before it was copied.
CloneDetected == ~blind => \A m, n \in Machine : m # n => Disjoint(m, n)

\* Restarting never renames a target, whatever flags it is started with and
\* whether or not the machine has an ID: only reinit does.
NameKept ==
  [][\A m \in Machine :
       /\ ~rolledBack
       /\ known[m] # NoIQN /\ known'[m] # NoIQN
       => known'[m] = known[m]]_vars
=============================================================================
