---------------------------- MODULE PortalsProofs ----------------------------
(***************************************************************************)
(* The safety properties of module Portals, for every set of portals, of   *)
(* portals other programs hold, and every number of mishaps.               *)
(***************************************************************************)
EXTENDS Portals, TLAPS

\* While the daemon runs it holds a list that passed validation, and the file
\* holds the same one.
RecordInv ==
  /\ disk # {} => Valid(disk)
  /\ pc # "down" => Valid(mem) /\ mem = disk
  /\ want # {} => Valid(want)
  /\ pc = "persist" => want # {}

\* No error is outstanding only if the kernel listens as the record says.  A
\* target of a former name does not outlive the first reconcile that succeeds.
IdleInv ==
  /\ pc = "idle" /\ ~degraded => live = mem
  /\ pc = "persist" => ~degraded /\ live = mem
  /\ pc \in Phase <=> why # "none"
  /\ former # {} => pc = "down" \/ why = "replay"

\* What the first phase removed was in the way of something.
PruneInv ==
  pc = "prune" => /\ live \subseteq seen
                  /\ \A p \in seen \ live : PortalConflictsWithAny(p, mem, seen)

\* In the second phase nothing bound is in the way of what is still missing.
ApplyInv ==
  pc = "apply" =>
    \A q \in live, d \in mem \ live :
      q.port = d.port => ~IsUnspecified(d.ip) /\ ~WildcardCovers(q.ip, d.ip)

SweepInv == pc = "sweep" => mem \subseteq live

IInv == TypeOK /\ RecordInv /\ IdleInv /\ PruneInv /\ ApplyInv /\ SweepInv /\ BindsAccepted

\* Two portals of one address and port are one portal.
LEMMA SameEndpoint ==
  ASSUME NEW p \in Portal, NEW q \in Portal, p.ip = q.ip, p.port = q.port
  PROVE  p = q
<1>1. p = [ip |-> p.ip, port |-> p.port] /\ q = [ip |-> q.ip, port |-> q.port]
  BY PortalsAssumption
<1>2. [ip |-> p.ip, port |-> p.port] = [ip |-> q.ip, port |-> q.port]
  OBVIOUS
<1> QED
  BY <1>1, <1>2, Zenon

\* What a failure, a crash or a reboot leaves of the count.
LEMMA MishapType == ASSUME TypeOK, Mishap PROVE mishaps' \in 0..MaxMishaps
BY PortalsAssumption DEF TypeOK, Mishap

LEMMA InitIInv == Init => IInv
<1> SUFFICES ASSUME Init PROVE IInv
  OBVIOUS
<1>1. TypeOK
  <2>1. mishaps \in 0..MaxMishaps
    BY PortalsAssumption DEF Init
  <2> QED
    BY <2>1 DEF Init, TypeOK, Phase
<1>2. RecordInv /\ IdleInv
  BY DEF Init, RecordInv, IdleInv, Phase
<1>3. PruneInv /\ ApplyInv /\ SweepInv
  BY DEF Init, PruneInv, ApplyInv, SweepInv
<1>4. BindsAccepted
  BY DEF Init, BindsAccepted
<1> QED
  BY <1>1, <1>2, <1>3, <1>4 DEF IInv

\* A list that passed validation names at most one wildcard on a port, and
\* nothing that wildcard covers.
LEMMA ValidFacts ==
  ASSUME NEW list \in SUBSET Portal, Valid(list),
         NEW p \in list, NEW d \in list, p # d, p.port = d.port
  PROVE  /\ ~WildcardCovers(p.ip, d.ip)
         /\ ~(IsUnspecified(p.ip) /\ IsUnspecified(d.ip))
<1>1. p.ip # d.ip
  BY SameEndpoint
<1>2. ~WildcardCovers(p.ip, d.ip) /\ ~WildcardCovers(d.ip, p.ip)
  BY <1>1 DEF Valid, CheckPortalOverlap
<1> QED
  BY <1>1, <1>2 DEF WildcardCovers, IsUnspecified

\* Once nothing bound conflicts any more, everything missing can be bound.
LEMMA PruneDone ==
  ASSUME IInv, pc = "prune", \A p \in live : ~PortalConflictsWithAny(p, mem, seen),
         NEW q \in live, NEW d \in mem \ live, q.port = d.port
  PROVE  ~IsUnspecified(d.ip) /\ ~WildcardCovers(q.ip, d.ip)
<1>1. Valid(mem) /\ mem \subseteq Portal /\ live \subseteq Portal
  BY DEF IInv, RecordInv, TypeOK
<1>2. CASE q \in mem
  <2>1. q # d /\ ~BlockedWildcardOnPort(q, mem, seen)
    BY <1>2 DEF PortalConflictsWithAny
  <2>2. ~WildcardCovers(q.ip, d.ip) /\ ~(IsUnspecified(q.ip) /\ IsUnspecified(d.ip))
    BY <1>1, <1>2, <2>1, ValidFacts
  <2>3. ASSUME IsUnspecified(d.ip) PROVE d \in seen
    BY <2>1, <2>2, <2>3 DEF BlockedWildcardOnPort
  <2>4. ASSUME d \in seen, IsUnspecified(d.ip) PROVE FALSE
    BY <2>4 DEF IInv, PruneInv, PortalConflictsWithAny, BlockedWildcardOnPort
  <2> QED
    BY <2>2, <2>3, <2>4
<1>3. CASE q \notin mem
  BY <1>3 DEF PortalConflictsWithAny, WildcardPrecludes, WildcardCovers, IsUnspecified
<1> QED
  BY <1>2, <1>3

\* Nothing of ours is in the way of the next portal ensurePortal binds.
LEMMA NextBinds ==
  ASSUME IInv, pc = "apply", NEW p \in PortalApplyOrder(mem \ live), ~Blocked(p)
  PROVE  ~KernelRefuses(p, live)
<1> SUFFICES ASSUME NEW q \in live, p.port = q.port,
                    SamePort(p, q) \/ (p.ip = Any4 /\ ~Is4(q.ip))
             PROVE  FALSE
  BY DEF KernelRefuses, SamePort
<1>1. p \in mem \ live /\ p \in Portal /\ q \in Portal
  BY DEF PortalApplyOrder, IInv, TypeOK
<1>2. ~IsUnspecified(p.ip) /\ ~WildcardCovers(q.ip, p.ip)
  BY <1>1 DEF IInv, ApplyInv
<1>3. p.ip # q.ip
  BY <1>1, SameEndpoint
<1> QED
  BY <1>2, <1>3 DEF SamePort, WildcardCovers, IsUnspecified

LEMMA PruneStep == ASSUME IInv, PruneConflicting PROVE IInv'
<1>1. TypeOK' /\ RecordInv' /\ IdleInv' /\ SweepInv' /\ BindsAccepted'
  BY DEF PruneConflicting, IInv, TypeOK, RecordInv, IdleInv, SweepInv, BindsAccepted, Phase
<1>2. PruneInv'
  BY DEF PruneConflicting, IInv, PruneInv
<1>3. ApplyInv'
  BY PruneDone DEF PruneConflicting, ApplyInv
<1> QED
  BY <1>1, <1>2, <1>3 DEF IInv

\* A reconcile that fails keeps the invariant, whatever it had bound.
LEMMA FailedKeeps ==
  ASSUME IInv, pc \in Phase, ReconcileFailed, mishaps' \in 0..MaxMishaps,
         UNCHANGED <<disk, live, former, selfBlocked>>
  PROVE  IInv'
<1>1. CASE Exit
  <2>1. TypeOK'
    BY <1>1 DEF Exit, IInv, TypeOK
  <2>2. RecordInv' /\ IdleInv' /\ PruneInv' /\ ApplyInv' /\ SweepInv' /\ BindsAccepted'
    BY <1>1 DEF Exit, IInv, RecordInv, IdleInv, PruneInv, ApplyInv, SweepInv,
                BindsAccepted, Phase
  <2> QED
    BY <2>1, <2>2 DEF IInv
<1>2. CASE why # "replay" /\ ~Exit
  <2>1. degraded' = TRUE /\ pc' = "idle" /\ why' = "none" /\ want' = {} /\ seen' = {}
        /\ mem' = mem /\ answer' \in {"unchanged", "recorded"}
    BY <1>2 DEF ReconcileFailed
  <2>2. TypeOK'
    BY <2>1 DEF IInv, TypeOK
  <2>3. RecordInv' /\ IdleInv' /\ PruneInv' /\ ApplyInv' /\ SweepInv' /\ BindsAccepted'
    <3>1. former = {}
      BY <1>2 DEF IInv, IdleInv, Phase
    <3> QED
      BY <2>1, <3>1 DEF IInv, RecordInv, IdleInv, PruneInv, ApplyInv, SweepInv,
                        BindsAccepted, Phase
  <2> QED
    BY <2>2, <2>3 DEF IInv
<1> QED
  BY <1>1, <1>2 DEF ReconcileFailed

LEMMA EnsureStep == ASSUME IInv, EnsurePortal PROVE IInv'
<1>1. PICK p \in PortalApplyOrder(mem \ live) :
        \/ /\ ~KernelRefuses(p, live) /\ ~FormerBlocks(p)
           /\ live' = live \cup {p}
           /\ UNCHANGED <<mem, pc, why, want, seen, degraded, answer, selfBlocked>>
        \/ /\ KernelRefuses(p, live) \/ FormerBlocks(p)
           /\ selfBlocked' = (selfBlocked \/ (KernelRefuses(p, live) /\ ~Blocked(p)))
           /\ ReconcileFailed
           /\ UNCHANGED live
  BY DEF EnsurePortal
<1>2. p \in mem /\ p \notin live /\ mem \subseteq Portal /\ live \subseteq Portal
      /\ Valid(mem) /\ pc = "apply" /\ UNCHANGED <<disk, former, mishaps>>
  BY DEF PortalApplyOrder, IInv, TypeOK, RecordInv, EnsurePortal
<1>3. CASE ~KernelRefuses(p, live) /\ ~FormerBlocks(p)
  <2>1. live' = live \cup {p}
        /\ UNCHANGED <<mem, disk, former, pc, why, want, seen, degraded, answer, selfBlocked, mishaps>>
    BY <1>1, <1>2, <1>3
  <2>2. TypeOK' /\ RecordInv' /\ IdleInv' /\ SweepInv' /\ PruneInv' /\ BindsAccepted'
    BY <1>2, <2>1 DEF IInv, TypeOK, RecordInv, IdleInv, SweepInv, PruneInv, BindsAccepted, Phase
  <2>3. ASSUME NEW q \in live', NEW d \in (mem \ live)', q.port = d.port
        PROVE  ~IsUnspecified(d.ip) /\ ~WildcardCovers(q.ip, d.ip)
    <3>1. d \in mem \ live /\ d # p
      BY <2>1
    <3>2. CASE q \in live
      BY <1>2, <2>3, <3>1, <3>2 DEF IInv, ApplyInv
    <3>3. CASE q = p
      <4>1. ~WildcardCovers(p.ip, d.ip) /\ ~(IsUnspecified(p.ip) /\ IsUnspecified(d.ip))
        BY <1>2, <2>3, <3>1, <3>3, ValidFacts
      <4>2. IsUnspecified(p.ip) \/ ~IsUnspecified(d.ip)
        BY <3>1 DEF PortalApplyOrder
      <4> QED
        BY <3>3, <4>1, <4>2
    <3> QED
      BY <2>1, <3>2, <3>3
  <2> QED
    BY <2>2, <2>3 DEF IInv, ApplyInv
<1>4. CASE KernelRefuses(p, live) \/ FormerBlocks(p)
  <2>1. KernelRefuses(p, live) => Blocked(p)
    BY <1>2, NextBinds
  <2>2. selfBlocked' = (selfBlocked \/ (KernelRefuses(p, live) /\ ~Blocked(p)))
        /\ ReconcileFailed /\ live' = live
    BY <1>1, <1>4
  <2>3. selfBlocked' = selfBlocked
    BY <2>1, <2>2, Zenon DEF IInv, TypeOK
  <2> QED
    BY <1>2, <2>2, <2>3, FailedKeeps DEF IInv, TypeOK
<1> QED
  BY <1>3, <1>4

LEMMA NextIInv == IInv /\ [Next]_vars => IInv'
<1> SUFFICES ASSUME IInv, [Next]_vars PROVE IInv'
  OBVIOUS
<1> USE DEF IInv, TypeOK, RecordInv, IdleInv, SweepInv, PruneInv, ApplyInv, BindsAccepted, Phase
<1>1. CASE PruneConflicting \/ EnsurePortal
  BY <1>1, PruneStep, EnsureStep
<1>2. CASE ApplyDone
  BY <1>2 DEF ApplyDone
<1>3. CASE PrunePortals
  BY <1>3 DEF PrunePortals
<1>4. CASE ReconcileDone
  BY <1>4 DEF ReconcileDone
<1>5. CASE ConfigfsFails
  BY <1>5, MishapType, FailedKeeps DEF ConfigfsFails
<1>6. ASSUME NEW list \in ValidLists, Open(list) PROVE IInv'
  BY <1>6 DEF Open, BeginReconcile, AdoptPortals, ValidLists, Valid
<1>7. ASSUME NEW list \in ValidLists, SetPortals(list) PROVE IInv'
  BY <1>7 DEF SetPortals, BeginReconcile, ValidLists, Valid
<1>8. CASE OtherRequest
  <2>1. TypeOK' /\ BindsAccepted'
    BY <1>8, MishapType DEF OtherRequest, BeginReconcile
  <2>2. RecordInv' /\ IdleInv' /\ PruneInv' /\ ApplyInv' /\ SweepInv'
    BY <1>8 DEF OtherRequest, BeginReconcile, Valid
  <2> QED
    BY <2>1, <2>2
<1>9. CASE Persist
  BY <1>9, MishapType DEF Persist, BeginReconcile
<1>10. CASE Crash \/ Reboot
  <2>1. Exit /\ mishaps' \in 0..MaxMishaps /\ disk' = disk /\ selfBlocked' = selfBlocked
        /\ (live' = live \/ live' = {}) /\ (former' = former \/ former' = {})
    BY <1>10, MishapType DEF Crash, Reboot
  <2>2. TypeOK'
    BY <2>1 DEF Exit
  <2>3. RecordInv' /\ IdleInv' /\ PruneInv' /\ ApplyInv' /\ SweepInv' /\ BindsAccepted'
    BY <2>1 DEF Exit
  <2> QED
    BY <2>2, <2>3
<1>11. CASE Reinit
  BY <1>11, MishapType DEF Reinit
<1>12. CASE RemoveTarget
  BY <1>12 DEF RemoveTarget
<1>13. CASE UNCHANGED vars
  BY <1>13 DEF vars
<1> QED
  BY <1>1, <1>2, <1>3, <1>4, <1>5, <1>6, <1>7, <1>8, <1>9, <1>10, <1>11, <1>12, <1>13
     DEF Next, SyncStep

LEMMA Inductive == Spec => []IInv
<1>1. IInv /\ [Next]_vars => IInv'
  BY NextIInv
<1> QED
  BY <1>1, InitIInv, PTL DEF Spec

\* Every variable keeps its type in every behaviour.
THEOREM TypeCorrect == Spec => []TypeOK
<1>1. IInv => TypeOK
  BY DEF IInv
<1> QED
  BY <1>1, Inductive, PTL

\* pruneConflictingPortals and portalApplyOrder suffice, for any portals and
\* whatever an earlier reconcile left bound: the kernel never refuses a portal
\* because of another one of the target's own.
THEOREM AddsBind == Spec => []BindsAccepted
<1>1. IInv => BindsAccepted
  BY DEF IInv
<1> QED
  BY <1>1, Inductive, PTL

\* When nothing is in progress and no error is outstanding, the kernel listens
\* on exactly the recorded portals, and has no target of a former name.
THEOREM ListensAsRecorded == Spec => []Converged
<1>1. IInv => Converged
  BY DEF IInv, Converged, IdleInv, RecordInv, Phase
<1> QED
  BY <1>1, Inductive, PTL

\* A reconcile that has nothing to change changes nothing on the way.
THEOREM SteadyState == Spec => NoFlap
<1> DEFINE A == (pc \in Phase /\ seen = mem /\ live = mem /\ pc' # "down") => live' = live
<1>1. IInv /\ [Next]_vars => [A]_vars
  <2> SUFFICES ASSUME IInv, Next, pc \in Phase, seen = mem, live = mem, pc' # "down"
               PROVE  live' = live
    BY DEF vars
  <2>1. \A p \in live : ~PortalConflictsWithAny(p, mem, seen)
    BY DEF PortalConflictsWithAny, BlockedWildcardOnPort
  <2>2. PortalApplyOrder(mem \ live) = {}
    BY DEF PortalApplyOrder
  <2>3. pc \notin {"idle", "persist", "down"}
    BY DEF Phase
  <2> QED
    BY <2>1, <2>2, <2>3
       DEF Next, SyncStep, PruneConflicting, EnsurePortal, ApplyDone, PrunePortals, RemoveTarget,
           ReconcileDone, ConfigfsFails, Crash, Reboot, Reinit, Exit, Open, SetPortals,
           OtherRequest, Persist
<1> QED
  BY <1>1, Inductive, PTL DEF Spec, NoFlap
=============================================================================
