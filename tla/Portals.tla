------------------------------ MODULE Portals ------------------------------
(***************************************************************************)
(* The addresses the target listens on: the recorded list, the -portals    *)
(* flag, and the listening sockets the kernel holds.  Source:              *)
(* SetPortals in appliance/ops.go, adoptPortals and checkPortalOverlap in  *)
(* appliance/appliance.go, and the portal steps of Sync in lio/sync.go and *)
(* lio/iscsi.go.                                                           *)
(*                                                                         *)
(* Everything else the reconciler manages is added before it is removed.   *)
(* Portals cannot be: a wildcard does not bind while another address holds *)
(* its port, and the kernel refuses some pairs in one order only.  A list  *)
(* the kernel refuses ends the start, and the service manager starts the   *)
(* daemon again.                                                           *)
(*                                                                         *)
(* Abstractions.  A list without duplicates is a set.  A write that is not *)
(* proven durable counts as written.  What else a reconcile does is        *)
(* present only in that it may fail.  The targets of the names the         *)
(* appliance had before are one set of portals.                            *)
(***************************************************************************)
EXTENDS Naturals

CONSTANTS
  Addr4, Addr6, \* the specific addresses of each family
  Any4, Any6,   \* 0.0.0.0 and ::
  Portal,       \* the portals an operator may list: an address and a port
  Taken,        \* portals another program on the host has bound
  MaxMishaps    \* bound: failures, crashes and reboots in one behaviour

ASSUME PortalsAssumption ==
  /\ Addr4 \cap Addr6 = {} /\ Any4 # Any6
  /\ {Any4, Any6} \cap (Addr4 \cup Addr6) = {}
  /\ \A p \in Portal : p = [ip |-> p.ip, port |-> p.port]
  /\ \A p \in Portal : p.ip \in Addr4 \cup Addr6 \cup {Any4, Any6}
  /\ Taken \subseteq Portal
  /\ MaxMishaps \in Nat

VARIABLES
  mem,      \* Coordinator.st.Portals
  disk,     \* the recorded list, {} when none is recorded
  live,     \* the portals the kernel has bound for the target of the recorded name
  former,   \* those it has bound for targets of the names before
  pc,       \* "down", "idle", "persist", or a phase of Sync
  why,      \* what the reconcile in progress is part of
  want,     \* the list the request in progress asks for
  seen,     \* the portals Sync found before it removed any
  degraded, \* Coordinator.lastReconcileErr # nil
  answer,   \* what the last SetPortals was told
  selfBlocked, \* history: the kernel refused a portal because of another of ours
  mishaps   \* how much has gone wrong so far

vars == <<mem, disk, live, former, pc, why, want, seen, degraded, answer, selfBlocked, mishaps>>

IsUnspecified(ip) == ip \in {Any4, Any6}
Is4(ip) == ip \in Addr4 \cup {Any4}

\* wildcardCovers: does binding w preclude binding other?
WildcardCovers(w, other) == w = Any6 \/ (w = Any4 /\ Is4(other))

\* Config.Validate and checkPortalOverlap.
CheckPortalOverlap(list) ==
  \A w, p \in list : w.port = p.port /\ w.ip # p.ip => ~WildcardCovers(w.ip, p.ip)
Valid(list) == list # {} /\ CheckPortalOverlap(list)
ValidLists == {list \in SUBSET Portal : Valid(list)}

Phase == {"prune", "apply", "sweep"}

TypeOK ==
  /\ mem \subseteq Portal /\ disk \subseteq Portal
  /\ live \subseteq Portal /\ former \subseteq Portal
  /\ pc \in {"down", "idle", "persist"} \cup Phase
  /\ why \in {"none", "replay", "heal", "commit"}
  /\ want \subseteq Portal /\ seen \subseteq Portal
  /\ degraded \in BOOLEAN
  /\ answer \in {"none", "ok", "unchanged", "recorded"}
  /\ selfBlocked \in BOOLEAN
  /\ mishaps \in 0..MaxMishaps

Init ==
  /\ mem = {} /\ disk = {} /\ live = {} /\ former = {}
  /\ pc = "down" /\ why = "none" /\ want = {} /\ seen = {}
  /\ degraded = FALSE /\ answer = "none" /\ selfBlocked = FALSE /\ mishaps = 0

Mishap == mishaps < MaxMishaps /\ mishaps' = mishaps + 1

(***************************************************************************)
(* Sync, as far as portals go.                                             *)
(***************************************************************************)

\* Mutant of the next: the wildcard counts as pending although it is bound.
PendingWildcardAlways(p, desired, alive) ==
  /\ ~IsUnspecified(p.ip)
  /\ \E d \in desired : d.port = p.port /\ IsUnspecified(d.ip)

\* blockedWildcardOnPort: p stands in the way of a desired wildcard.
BlockedWildcardOnPort(p, desired, alive) ==
  /\ ~IsUnspecified(p.ip)
  /\ \E d \in desired : d.port = p.port /\ IsUnspecified(d.ip) /\ d \notin alive

\* wildcardPrecludes: wider than WildcardCovers, because of LIO's own check.
WildcardPrecludes(w, other) == IsUnspecified(w)

\* Mutant of the next: a portal that is itself desired is never in the way.
OnlyUndesiredConflicts(p, desired, alive) ==
  /\ p \notin desired
  /\ \E d \in desired : /\ d.port = p.port
                        /\ WildcardPrecludes(p.ip, d.ip) \/ WildcardPrecludes(d.ip, p.ip)

\* portalConflictsWithAny: must p go before all of desired can bind?
PortalConflictsWithAny(p, desired, alive) ==
  \/ p \in desired /\ BlockedWildcardOnPort(p, desired, alive)
  \/ /\ p \notin desired
     /\ \E d \in desired :
          /\ d.port = p.port
          /\ WildcardPrecludes(p.ip, d.ip) \/ WildcardPrecludes(d.ip, p.ip)

\* The socket layer lets only one of the two have the port.
SamePort(p, q) ==
  /\ p.port = q.port
  /\ p.ip = q.ip \/ WildcardCovers(p.ip, q.ip) \/ WildcardCovers(q.ip, p.ip)

\* Another program stands in the way of p, or of none of a list.
Blocked(p) == \E q \in Taken : SamePort(p, q)
Bindable(list) == list # {} /\ \A p \in list : ~Blocked(p)

\* Does the kernel refuse to bind p beside what is bound?  Either the socket
\* layer does, or LIO takes 0.0.0.0 for a duplicate of any IPv6 portal.
KernelRefuses(p, alive) ==
  \/ Blocked(p)
  \/ \E q \in alive : \/ SamePort(p, q)
                      \/ p.port = q.port /\ p.ip = Any4 /\ ~Is4(q.ip)

\* A target of a former name stands in the way of p.  LIO's own check is for
\* one target, and targets share the socket of an address both list; the
\* socket layer refuses every other overlap.
FormerBlocks(p) == \E q \in former : q # p /\ SamePort(p, q)

\* Mutant of the next: in the order the operator wrote them.
AnyOrder(missing) == missing

\* portalApplyOrder: every wildcard before every specific address.
PortalApplyOrder(missing) ==
  {p \in missing : IsUnspecified(p.ip) \/ \A q \in missing : ~IsUnspecified(q.ip)}

BeginReconcile(reason) ==
  /\ pc' = "prune" /\ why' = reason /\ seen' = live

\* The process ends; the kernel keeps what it has.
Exit ==
  /\ pc' = "down" /\ why' = "none" /\ mem' = {} /\ want' = {} /\ seen' = {}
  /\ degraded' = FALSE /\ answer' = "none"

\* Mutant of the next: the failure after a change is only answered.
FailureForgotten ==
  \/ why = "replay" /\ Exit
  \/ /\ why # "replay"
     /\ answer' = IF why = "heal" THEN "unchanged" ELSE "recorded"
     /\ pc' = "idle" /\ why' = "none" /\ want' = {} /\ seen' = {}
     /\ UNCHANGED <<mem, degraded>>

\* A reconcile that fails leaves the appliance degraded.  At startup it ends
\* the process; before a change it rejects the change; after one the change
\* stays recorded.
ReconcileFailed ==
  \/ why = "replay" /\ Exit
  \/ /\ why # "replay"
     /\ answer' = IF why = "heal" THEN "unchanged" ELSE "recorded"
     /\ degraded' = TRUE
     /\ pc' = "idle" /\ why' = "none" /\ want' = {} /\ seen' = {}
     /\ UNCHANGED mem

\* pruneConflictingPortals.  It looks at the target of the recorded name only;
\* any other target goes as a whole, once everything desired is there.
PruneConflicting ==
  /\ pc = "prune"
  /\ \/ \E p \in live :
          /\ PortalConflictsWithAny(p, mem, seen)
          /\ live' = live \ {p} /\ UNCHANGED pc
     \/ /\ \A p \in live : ~PortalConflictsWithAny(p, mem, seen)
        /\ pc' = "apply" /\ UNCHANGED live
  /\ UNCHANGED <<mem, disk, former, why, want, seen, degraded, answer, selfBlocked, mishaps>>

\* ensurePortal: bound, or the reconcile ends with the kernel's refusal.
EnsurePortal ==
  /\ pc = "apply"
  /\ \E p \in PortalApplyOrder(mem \ live) :
       \/ /\ ~KernelRefuses(p, live) /\ ~FormerBlocks(p)
          /\ live' = live \cup {p}
          /\ UNCHANGED <<mem, pc, why, want, seen, degraded, answer, selfBlocked>>
       \/ /\ KernelRefuses(p, live) \/ FormerBlocks(p)
          /\ selfBlocked' = (selfBlocked \/ (KernelRefuses(p, live) /\ ~Blocked(p)))
          /\ ReconcileFailed
          /\ UNCHANGED live
  /\ UNCHANGED <<disk, former, mishaps>>

ApplyDone ==
  /\ pc = "apply" /\ mem \subseteq live
  /\ pc' = "sweep"
  /\ UNCHANGED <<mem, disk, live, former, why, want, seen, degraded, answer, selfBlocked, mishaps>>

\* prunePortals: what is not desired goes last.
PrunePortals ==
  /\ pc = "sweep"
  /\ \E p \in live \ mem : live' = live \ {p}
  /\ UNCHANGED <<mem, disk, former, pc, why, want, seen, degraded, answer, selfBlocked, mishaps>>

\* removeTarget, with its portals one by one: a target of another name goes.
RemoveTarget ==
  /\ pc = "sweep"
  /\ \E p \in former : former' = former \ {p}
  /\ UNCHANGED <<mem, disk, live, pc, why, want, seen, degraded, answer, selfBlocked, mishaps>>

\* setReconcileOK, and back to the caller: the start is over, the change may
\* be written, or the change has been made.
ReconcileDone ==
  /\ pc = "sweep" /\ live \subseteq mem /\ former = {}
  /\ degraded' = FALSE
  /\ pc' = IF why = "heal" /\ want # mem THEN "persist" ELSE "idle"
  /\ answer' = IF why = "commit" THEN "ok" ELSE answer
  /\ want' = IF why = "heal" THEN want ELSE {}
  /\ why' = "none" /\ seen' = {}
  /\ UNCHANGED <<mem, disk, live, former, selfBlocked, mishaps>>

\* Any configfs call may fail.
ConfigfsFails ==
  /\ pc \in Phase /\ Mishap /\ ReconcileFailed
  /\ UNCHANGED <<disk, live, former, selfBlocked>>

(***************************************************************************)
(* The start, and the requests.                                            *)
(***************************************************************************)

\* Mutant of the next: the flag is recorded without its default port.
AdoptUnparsed(flag) == IF disk = {} THEN {[p EXCEPT !.port = 0] : p \in flag} ELSE disk

\* adoptPortals: the record wins; without one the flag becomes the record.
AdoptPortals(flag) == IF disk = {} THEN flag ELSE disk

Open(flag) ==
  /\ pc = "down"
  /\ mem' = AdoptPortals(flag) /\ disk' = AdoptPortals(flag)
  /\ BeginReconcile("replay")
  /\ UNCHANGED <<live, former, want, degraded, answer, selfBlocked, mishaps>>

\* SetPortals up to the write.  A list that is not valid is refused; the one
\* already recorded is answered at once, whatever the kernel has of it.
\* commit heals a degraded appliance first.
SetPortals(list) ==
  /\ pc = "idle"
  /\ Valid(list)
  /\ \/ /\ list = mem
        /\ answer' = "ok"
        /\ UNCHANGED <<pc, why, want, seen>>
     \/ /\ list # mem
        /\ want' = list /\ answer' = "none"
        /\ IF degraded THEN BeginReconcile("heal")
                       ELSE pc' = "persist" /\ UNCHANGED <<why, seen>>
  /\ UNCHANGED <<mem, disk, live, former, degraded, selfBlocked, mishaps>>

\* Any other request.  Its reconcile is incremental and leaves the portals
\* alone, or fails; a degraded appliance is healed first.
OtherRequest ==
  /\ pc = "idle"
  /\ \/ /\ degraded
        /\ want' = mem /\ BeginReconcile("heal")
        /\ UNCHANGED <<degraded, mishaps>>
     \/ /\ ~degraded
        /\ Mishap /\ degraded' = TRUE
        /\ UNCHANGED <<pc, why, want, seen>>
  /\ answer' = "none"
  /\ UNCHANGED <<mem, disk, live, former, selfBlocked>>

\* persist, then reconcile; a write that fails rolls the list back.
Persist ==
  /\ pc = "persist"
  /\ \/ /\ mem' = want /\ disk' = want
        /\ BeginReconcile("commit")
        /\ UNCHANGED <<want, answer, mishaps>>
     \/ /\ Mishap
        /\ pc' = "idle" /\ want' = {} /\ answer' = "unchanged"
        /\ UNCHANGED <<mem, disk, why, seen>>
  /\ UNCHANGED <<live, former, degraded, selfBlocked>>

\* The daemon dies or is stopped.
Crash ==
  /\ pc # "down" /\ Mishap /\ Exit
  /\ UNCHANGED <<disk, live, former, selfBlocked>>

Reboot ==
  /\ Mishap /\ Exit /\ live' = {} /\ former' = {}
  /\ UNCHANGED <<disk, selfBlocked>>

\* Reinit clears the recorded list: portals belong to the machine.  It does
\* not touch the kernel.  The name it records may be the one before, or any
\* other, of which the kernel may still have a target from earlier.
Reinit ==
  /\ pc = "down" /\ Mishap
  /\ disk' = {}
  /\ \/ UNCHANGED <<live, former>>
     \/ \E back \in SUBSET former : \E others \in SUBSET former :
          /\ back \cup others = former
          /\ live' = back /\ former' = others \cup live
  /\ UNCHANGED <<mem, pc, why, want, seen, degraded, answer, selfBlocked>>

SyncStep == PruneConflicting \/ EnsurePortal \/ ApplyDone \/ PrunePortals
            \/ RemoveTarget \/ ReconcileDone

Next ==
  \/ \E list \in ValidLists : Open(list) \/ SetPortals(list)
  \/ OtherRequest \/ Persist
  \/ SyncStep \/ ConfigfsFails
  \/ Crash \/ Reboot \/ Reinit

\* The service manager starts the daemon again whenever it exits, and a
\* reconcile goes on until it ends.
Fairness ==
  /\ WF_vars(\E list \in ValidLists : Open(list))
  /\ WF_vars(SyncStep) /\ WF_vars(Persist)

Spec == Init /\ [][Next]_vars /\ Fairness

(***************************************************************************)
(* Properties.                                                             *)
(***************************************************************************)

\* From whatever set an interrupted change, a crash or a new record left in
\* the kernel, Sync never binds a portal at a moment when the kernel refuses it
\* because of another portal of the same target.
BindsAccepted == ~selfBlocked

\* Whenever nothing is in progress and no error is outstanding, the kernel
\* listens on exactly the recorded list, under the recorded name alone.
Converged == pc = "idle" /\ ~degraded => live = mem /\ mem = disk /\ former = {}

\* A reconcile that finds the kernel as the record asks unbinds nothing, not
\* even for an instant: portals do not flap under ordinary requests.
NoFlap ==
  [][(pc \in Phase /\ seen = mem /\ live = mem /\ pc' # "down") => live' = live]_vars

\* No recorded list makes the daemon exit at every start: unless another
\* program, or a target of a former name, holds one of its ports, or the
\* record is cleared, the daemon comes up.
NoCrashLoop ==
  pc = "down" /\ Bindable(disk) /\ (\A p \in disk : ~FormerBlocks(p))
    ~> pc = "idle" \/ disk = {}

\* What pruneConflictingPortals says of a target it passes over: it is going
\* away, and the ordinary prune handles it.
OrdinaryPruneHandles ==
  pc = "prune" /\ former # {} /\ Bindable(mem) ~> former = {} \/ disk = {}
=============================================================================
