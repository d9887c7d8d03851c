# Verification of glitr

glitr turns a Linux host into an iSCSI appliance. A daemon, `applianced`, keeps
a JSON document of volumes, snapshots, hosts and connections, keeps one sparse
file per object, and drives the kernel's LIO target through configfs until it
presents what the document asks for. This directory holds TLA+ models of the
daemon's core, their TLC configurations, and TLAPS proofs.

Names in the modules are the source's names; `PROJECT.json` maps each
definition to the lines it stands for.

## The system

| part | source | state | operations | talks to |
|---|---|---|---|---|
| object lifecycle | `appliance/objects.go`, `storage/` | object records, one directory per object | Create, Clone, Rename, Resize, Delete | commit machinery, store |
| record db | `appliance/appliance.go`, `backup.go` | `st` in memory, `appliance.json`, its hard-linked backups | load, validateLoaded, persist, commit, persistOnly, healIfDegraded, adoptStorage | every operation |
| hosts and connections | `appliance/hosts.go` | hosts, IQN bindings, connections, export indices | CreateHost, RenameHost, SetBindings, DeleteHost, Connect, Disconnect | commit |
| translation, reconcile | `appliance/translate.go` | the cached view `applied`, `lastReconcileErr` | desiredLIO, reconcile (incremental, full) | LIO reconciler |
| LIO reconciler | `lio/` | none; the kernel's tree is the state | Sync, Diff, ApplyDelta, ensure*, remove*, prune* | configfs |
| reservations | `appliance/clearpr.go`, `aptpl.go`, `lio/prstate.go` | `prClearing`, `withheld`, the kernel's saved records | ClearReservation, replay of saved records | reconcile, initiators |
| fencing checks | `lio/aptplcheck.go`, `stranded.go`, `isid.go`, `backstore.go` | none; attribute reads | verifyAPTPL, StrandedReservations, RecheckPR | health, initiators |
| identity, reinit | `appliance/identity.go`, `reinit.go` | target IQN, machine id in the db | adoptIdentity, Reinit | load, persist |
| portals | `appliance/ops.go`, `lio/sync.go` | portal list in the db, `np/` in configfs | SetPortals, adoptPortals, conflict pruning | commit |
| health | `appliance/appliance.go`, `events.go` | facts under `healthMu`, the verdict logged last | publishReconcile, publishPRCheck, HealthSnapshot, noteHealth | REST, log |
| REST and client | `appliance/rest.go`, `errcode.go`, `applianceclient/` | none; requests in flight | one route per operation | the operations above |
| CLI, shell, logging, setup, saveconfig, SCSI tools | the rest | none that matters here | parsing, output | the operations above |

One mutex, `Coordinator.mu`, serialises the operations of the daemon. What is
hard lies elsewhere: a write that fails before or after its rename; a
reconcile that stops half way and undoes nothing; a crash or a power loss
between any two steps; an operator who restores an older db; a cached belief
about a tree that has changed; initiators who act on the kernel between any two
configfs calls; answers that are lost and requests that are repeated; `/health`,
which reads without the mutex. `PROJECT.json`
lists these hazards at their lines, each with the properties aimed at it.

## Modules

**`Objects`** (checked by `MCObjects`, proved in `ObjectsProofs`) follows one
object's record, bytes and backstore. `mem`, `disk`, `durable` and `backup` are
four copies of the db document: in memory, as the file system shows it, as a
power loss is sure to leave it, and the newest backup. `loc`, `size` and `synced`
are the store: a truncate can succeed and its sync fail, and a power loss may
take what was not synced. `served` is the size of the live backstore. An operation in flight is
`pc` and `op`: it passes the heal gate (`Heal`), grows the file (`Grow`), writes
the document (`PersistOK`, `PersistNotDurable`, `PersistFailed`), and ends in
`Unlink`, `UndoCreate` or `Reconcile`. `AfterPersist` is the difference between
`commit` and `persistOnly`. The environment crashes, loses power, loses the db
or restores a backup. `unproven` is a history: `store.Resize` returns at once
when the file has the length asked for, which an earlier attempt whose sync
failed may have left, and the properties about bytes (`Backed`) except exactly
that length. Hosts are abstracted to the set `conn` of connected
objects. Repeated creates (`matchExisting`) and block sizes are in `Requests`.

**`Catalogue`** is what the record db promises without that machinery: a
catalogue `cat` that changes by one whole operation at a time, the version
`safe` a power loss may fall back to, and the backup `kept`.
**`ObjectsRefinement`** maps `Objects` onto it: the catalogue is the document on
disk, so an operation takes effect with the rename of `persist`. That the map is
a refinement (`ImplementsCatalogue`) says that no operation is lost by one
computed from an older document in memory, in particular after a write that is
visible and not proven durable.

**`Exports`** (checked by `MCExports`, proved in `ExportsProofs`) follows who may reach what. The kernel
tree has its four layers `bs`, `lun`, `acl`, `ml`; each configfs call of an
`ensure*` or `remove*` function is a step, including the moment between mkdir
and symlink. `AddLun`, `AddAcl`, `AddMl` and the `Drop*` sets say what a full
(`Sync`) and an incremental (`Diff`, `ApplyDelta`) reconcile will touch;
`BackstoresDone` to `LunsPruned` are the phases in the order of the code. The
db is the document that memory and file share, since a write that fails before
its rename changes neither. `commit` is the code's `commit` without its wait for
the heal, which is the action `Heal`. Every object is ready; portals are in
`Portals`, attributes in `Health`, host names in `Requests`.

**`Reservations`** (checked by `MCReservations`, proved in `ReservationsProofs`) follows SCSI-3 persistent
reservations. Initiators issue PR OUT (`PROut`) at any moment they can reach
the object; the kernel rewrites the saved record each time; a power loss can
tear that rewrite. A restore is one step per saved record (`LoadAPTPL`) and the
enable after the last (`Restored`, `EnableBackstore`); a pass that stops between
them leaves an object directory that the next resumes or removes (`Present`).
`ClearReservation` is the three-phase operation with every
error path: `prune`, `DiscardOK`/`DiscardFailed`, `rebuild`, `VerifyCleared`,
and `recover` with its verdict. `PRState` is two reads with initiators between
them. Types of the ALL REGISTRANTS kind and session ids are in `Fencing`, keys
are left out, every PR OUT asks for APTPL, and the kernel's rules (a registration
binds with its mapped LUN and dies with it, a record that binds late does not
displace a holder) are taken from the comments in the source and are external.

**`Fencing`** (checked by `MCFencing`, proved in `FencingProofs`) follows the two checks whose findings
`/health` shows: `verifyAPTPL` (does a saved reservation still protect its
volume?) and `StrandedReservations` (can its holder still address it?). A check
is a sequence of attribute reads, one action each (`ReadVisible` to
`ReadLapsedHolder`), every one of which may fail; the mutex keeps operators out
of it and initiators not, who log in, log out, move activity between sessions
and send PR OUT between any two reads. A second volume is there because LUN
numbers and export indices are used again, so that a saved record may name what
belongs to another volume by now (`Exported`). The kernel renders one of an
initiator's sessions (`shown`), which is why the code compares two counts
(`Blind`) before it believes a mismatch. The type of a reservation is read after
its holder and on a best-effort basis; a report that rests on a read that failed
is called `guessed` in the model, and only there.

**`Health`** (checked by `MCHealth`, proved in `HealthProofs`) follows what `/health` and the log say
beside what is so. A reconcile is its steps over the backstores: `Make`,
`Enable`, `WriteAttrs` for a new one, `Tune` for an enabled one, then `Wire`,
the `Walk`s, `Publish`, and the note in the log. `dev` has the attributes by
their kind: `geo`, which the kernel refuses to change under a LUN, and `wce`,
which must follow the mode the file was opened in. `pub` are the fields under
`healthMu`, published at once; every state of the model is one a monitor can
read. Kills, reboots and starts with another `-write-back` come at every step;
a legacy export stands for a tree an earlier release left behind. `ModeShown`
says whether the kernel's info line names the mode, as it always does so far; the
code writes what is asked for when it does not.

**`Requests`** (checked by `MCRequests`, proved in `RequestsProofs`) follows calls, attempts and answers.
`opCtx` drops a request's cancellation, so an attempt that reached the daemon
is carried out, late and unobserved if need be: `Takes` lets every call be
carried out again at any later time. The handlers are one action each up to
their first effect, then `Gate`, `Look` (the holder that will lose the device),
`Persist`, `Unlink`, `Apply`. A clear is here for what it does to presentation:
it takes its object out, and when it fails half-way leaves it in `prClearing` or
`withheld`, which `Desired` excludes from what the db maps (`Mapped`, `Out`). `holder` and `Reserve` are the initiators. `ans`
is the answer a step writes; `born`, `told` and `owed` are the history the
properties need. `Repertoire` and `Deployed` in the `.cfg` are the requests of a
behaviour and the db it begins with.

**`Identity`** (checked by `MCIdentity`, proved in `IdentityProofs`) follows what appliances are called, on
several machines of one fabric. Per machine: the machine ID `id`, the identity
part of the file `disk` and of memory `mem` (target IQN, machine ID, WWNs), the
settled `name`, and in `kern` the IQNs and WWNs its kernel offers. `Open` is
load and `adoptIdentity` with its order of preference (`SettledIQN`) and its
refusal (`IdentityConflict`); `Replay` is the startup reconcile; `Create`,
`Delete` and `Commit` stand for every later write, and `RestoreState` for its
rollback to `SnapshotState`. `Reinit` is the offline command with `-adopt` and
`-wipe`, which the host lock keeps apart from the daemon. The environment stops
daemons, reboots machines and copies data roots (`Copy`). An IQN is written by
what it was made of, since derived IQNs differ exactly when machine IDs do.

**`Portals`** (checked by `MCPortals`, proved in `PortalsProofs`) follows the
listening sockets: the recorded list `mem`/`disk`, the bound set `live` of the
target of the recorded name, and `former`, what targets of earlier names still
have bound after a `Reinit` that renamed. A
`Sync` is its three portal phases, one configfs call per step: unbind what
conflicts (`PruneConflicting`, decided on the set `seen` at its start), bind
what is missing, wildcards first (`EnsurePortal`), unbind what is not wanted
(`PrunePortals`), remove the targets of other names (`RemoveTarget`), which the
first phase passes over. Two targets share the socket of an address that both
list; every other overlap is refused (`FormerBlocks`). `why` is the caller it returns to: the startup replay, the
heal before a change, or the change. `KernelRefuses` is the kernel's rule as
the comments of `lio/sync.go` measured it: sockets that cannot share a port, and
LIO taking 0.0.0.0 for a duplicate of any IPv6 portal, which makes some pairs
bindable in one order only. `Taken` are the ports other programs hold.

`MC*.tla` only add symmetry sets, the constraints of `MCObjects`, `MCIdentity` and
`MCReservations`, and the portals, requests and dbs of their instances; all
other values are in the `.cfg` files.

## Runs

| run | shows | bounds |
|---|---|---|
| `objects` | no owed byte is lost (`OwedDataKept`), acknowledged means durable, ready means bytes, the kernel never serves a deleted or shorter file, every db on disk loads, a healthy daemon serves exactly its exports; `Objects` implements `Catalogue` | 2 objects, 2 names, 2 sizes; a length that was not synced on 1 object |
| `objects_resize` | violation: `HealthyMatchesDb` | 2 objects, 2 names, 2 sizes |
| `exports` | at every instant initiators see only what they were granted (`GrantedOnly`); success means the tree is exactly the desired one (`Converged`), also when an older db meets a live tree; no removal is wedged (`NeverBusy`); no backstore is swapped under a mapped LUN (`NoSwapUnderInitiator`) | 2 objects, 2 hosts, 2 backups; 2 IQNs at 1 LUN or 1 IQN at 2 LUNs |
| `reservations` | a fence nobody dropped is in effect whenever another initiator can reach the object (`FenceKept`); a cleared one does not come back (`ClearSticks`); no connected object is absent without a signal; the answer of a clear is true; a withheld object stays absent whatever happens to others | 1 object and 2 initiators, or 2 objects and 1 initiator |
| `reservations_power_loss` | violation: `ClearedForGood` when an unsynced unlink can be undone | 1 object, 2 initiators |
| `fencing` | what is called stranded is, and a strand is reported or called undecided (`StrandExact`); a reservation that is not in effect is reported (`LossReported`); no alarm without a cause in the exports that exist (`AlarmHasCause`) | 2 initiators, 2 session ids, 2 LUNs, 6 events |
| `health` | `/health` shows exactly the attributes that are not as desired (`DriftExact`); no LUN appears before its geometry (`GeometryBeforeExport`); no exported device comes to hide a cache (`CacheStaysDeclared`); the log catches up with `/health` (`LogCatchesUp`) | 2 volumes, one legacy, 6 events |
| `requests` | a create may be replayed (`CreateReplaySafe`); a success is in effect unless the appliance is degraded or names the object as withheld (`SuccessInEffect`); a reservation a change took away is in the warning of its answer (`FenceLossTold`) | 3 calls, 4 attempts, 2 reservations |
| `identity` | no two machines offer one IQN or one WWN (`FabricUnique`); no restart renames a target (`NameKept`) | 2 machines, 1 object, 2 WWNs |
| `identity_rollback` | violation: `CloneDetected` | same |
| `portals` | the target's own portals never block each other (`BindsAccepted`); success means exactly the recorded list is bound (`Converged`); a reconcile with nothing to do unbinds nothing (`NoFlap`); the daemon comes up unless another program or a target of a former name is in the way (`NoCrashLoop`) | both wildcards and one address of each family on a port, one held portal, 4 mishaps |
| `portals_rename` | violation: `OrdinaryPruneHandles` | same, 2 mishaps |

Why the bounds are enough. Two objects are needed for one to take over another's
name, export index or LUN, and two sizes for a grow; a third object plays no
part that the second cannot. Two backups give a restored db in which the same
index belongs to the other object; the code keeps ten. Two initiators give a
holder and one that is fenced. In `exports` two initiators matter where one
takes over a LUN from the other, two LUNs where one initiator sees two objects;
a behaviour has one or the other. `reservations` needs two initiators for a
fence and two objects for a withheld one beside another (`Focus`). In
`fencing` six events are enough for a registration, a reservation, two session
changes, a disconnect and the reuse of its LUN; in `health` for a failure, a
crash, a restart, a change and a clear. Four attempts of three calls are a
request, its repeat and two others between or after them. In `objects` the link of a backup always
succeeds (`LinkCanFail = FALSE`), and a second object is minted only while every
length is synced (`Focus`): the sync of a grow fails on one object, whose grow is
then repeated, or its record restored, or the power lost. The proofs cover both
values of `LinkCanFail`, and unsynced lengths on any number of objects. `UnlinkDurable`
says whether an unlink without a directory sync survives a power loss: the code
does not sync, so `reservations` assumes the luck that
`reservations_power_loss` shows is needed.

In `identity`, `MaxWWN = 2` lets one machine create the object and the other
re-mint its copy of it, or each create one. Its constraint stops at a rolled-back write: after one, both
`FabricUnique` and `NameKept` say nothing, and `identity_rollback` explores what
follows. Machines without a machine ID are in the model, but `FabricUnique` is
not claimed once one of them wrote a db (`blind`): the code warns that it cannot
detect a copy then. In `portals` the two ports of the instance do not interact,
one port has every pair of addresses that conflicts, and four mishaps (a failed
call, a failed write, a crash, a reboot, a reinit) are enough to leave any mixture of
two lists bound, to rename the target over it, and to interrupt the repair. In
`reservations` a second record is what makes a restore stop half way, so the
behaviours with two initiators are the ones that matter for it.

Fairness is assumed in two modules; all others state safety only: an operation
may stop between any two steps. `Portals` assumes that a daemon that exited is
started again (the source names `Restart=on-failure`), that a reconcile which
is running goes on until it ends (nothing in `Sync` waits for anyone), and that
a request which passed its gate writes. It does not assume that a call succeeds; a
call fails only `MaxMishaps` times. `Health` assumes the same of a reconcile
and of the start, and that the ticker of `RecheckPR` finds the mutex free again
and again, which holds as operations end. It presumes that the ticker runs: with
`-pr-recheck-interval 0` (logged as `config.pr_check_disabled`) the log
catches up only with the next operation, and `LogCatchesUp` is not claimed.

## Findings

1. `objects_resize`: a Resize whose record is written but not proven durable
   leaves the kernel at the old size with no error outstanding, and its retry
   returns at once.
2. `reservations_power_loss`: the saved record's unlink is never synced, so a
   reservation reported as cleared can return after a power loss.
3. `identity_rollback`: `snapshotState` leaves out the target IQN and the
   machine ID, so one failed write followed by one that succeeds erases both
   from the file, and a copy of that data root is no longer refused elsewhere.
4. `portals_rename`: the first portal phase leaves the portals of a target of
   another name to the ordinary prune, which runs only when the new target's
   portals are bound. After a reinit that renames, with the old target still in
   the kernel, a list that goes from a wildcard to an address or back is refused
   by the appliance's own old socket at every start, until a reboot.

Met on the way, and stated by no run of its own:

- After an operator restores an older backup over a live tree, the startup
  reconcile re-points a TPG LUN under a mapped LUN, which the comments in
  `lio/iscsi.go` rule out. `GrantedOnly` and `NoSwapUnderInitiator` except that
  first reconcile (`restored`); `Converged` and `NeverBusy` do not.
- After the kernel refused a list of portals, `SetPortals` advises to set a
  working one (`ops.go:354`). The heal before every change reconciles the list
  that failed, so the advice is accepted only once the address is free.
- The comment on `prClearing` says it never outlives a call, while the return
  after a failed discard leaves it set; `AbsentIsReported` shows that this is
  reported.
- A repeated connect, disconnect or `SetPortals` answers success from the
  record. While the appliance is degraded the kernel need not agree;
  `SuccessInEffect` says what is left.
- A create path that dies between `control` and `enable` and is resumed without
  `-write-back` may enable a device that is buffered and then writes
  `emulate_write_cache` 0, if the kernel keeps `fd_buffered_io`. The device was
  not exported before, so `CacheStaysDeclared` does not speak of it.
- The warning of a disconnect says the reservation is released also when the
  write failed and was rolled back; a reservation taken after the handler looked
  is released without a warning (`unseen` in `Requests`).
- `store.Resize` returns at once when the file has the length asked for. When
  an earlier attempt truncated it and could not sync, the retry records a
  capacity, durably, over a length that a power loss may still take, and
  `adoptStorage` looks for the file and not at its length. No comment claims
  otherwise; `OwedDataKept`, `ReadyHasBytes` and `ServedHasBytes` except that one
  length (`unproven`) and hold for every other.
- A connect of an object that a failed clear left withheld answers success and
  presents nothing, while the appliance is not degraded. `/health` names the
  object; `SuccessInEffect` excepts it.
- A delete whose record is written and not proven durable returns
  (`objects.go:389`) before `releaseHold`, and its repeat finds no object: until
  a restart `/health` goes on naming as withheld an object that is gone. The
  comment there says "A deleted object cannot still be withheld"
  (`objects.go:393`).
- The comment of `fenceLossWarning` says "An unreadable holder simply yields no
  warning" (`ops.go:139`). `fenceLossWarningFor` does warn, and says why
  (`ops.go:190`): the comment is out of date. The model follows the code, and
  `FenceLossTold` would fail on the comment's behaviour.
- `Create` fills in the default block size (`objects.go:117`) before it compares
  the request with the object that has its name (`objects.go:245`), so the
  repeated create of a copy of a 4096-byte object is refused with a conflict. The
  client documents that `BlockSize` is ignored for a copy and that a create is
  safe to retry (`client.go:457-473`). `CreateReplaySafe` excepts a caller who did
  not get the block size that counts as asked for.
- A reservation whose type cannot be read is taken for one that is not ALL
  REGISTRANTS (`aptplcheck.go:520`) and may be reported as stranded, while the
  comment says that the failure "loses detail rather than inverting the answer".
  `StrandExact` claims of such a report (`guessed`) only that the holder shows
  another session.
- The session counts are compared (`stranded.go:207`) before the holder's session
  is read (`stranded.go:238`). A login of the holder in between makes the check
  report a strand that was none at any moment of it, until the next check, where
  the report calls these "PROVEN" (`stranded.go:81`). `StrandExact` speaks of
  checks during which nobody acted.

## Proofs

Every safety property of every passing run, invariant or action property, is
also a theorem: it holds for all values of the constants that satisfy the named
assumptions, not only for those of the `.cfg` files. So is the refinement. The
assumptions keep the markers for "none" apart from the values, the bounds natural
numbers, and some sets finite; the two that say more are named below. In
each module the properties are not inductive alone; the conjunction that is was
checked with TLC before it was proved. An action has a lemma of its own, with a
step per conjunct it can disturb; the temporal theorems combine the lemmas by
PTL.

### Objects

`ObjectsProofs` proves, for any sets of objects and names, any size bound and
either value of `LinkCanFail` and of `SyncCanFail`, all seven invariants of run `objects`. The only
assumption is `ObjectsAssumption`. The inductive invariant is
`FullInv == IInv /\ LengthInv /\ PresentInv`:

- `DocsInv`: memory, the file, its durable version and the backup each load
  (`ValidateLoaded`), name only minted objects, and give a record a capacity
  exactly when the object is recorded;
- `OpInv`: what the operation in flight has established. The document it is
  about to write differs from memory only in its own object; a create or a
  resize that reaches `persist` has a file in `objects/` at least as long as
  the record; a delete that reaches `persist` is not served; an `undo` or an
  `unlink` only drops a file that nothing records, serves or has acknowledged;
- `AckInv`: unless the operator restored the backup or lost the file, what was
  acknowledged is in the file and its durable version, and in memory while the
  daemon is up. This is why an answer may follow the rename and not precede it;
- `ServeInv`: while the appliance is not degraded the kernel serves exactly what
  memory exports. It is what a delete's check for connections rests on;
- `LengthInv`: a file still in `objects/` is long enough for every one of the
  four documents that records it, by what was synced of it or by a length that a
  grow found (`Backed`). No power loss takes what was synced, and a document
  naming a size is written only after the grow to it returned, so even a restored
  backup serves no object past its end but for that one case;
- `PresentInv`: a document that is not there is empty, and memory's is there.

`RefinesCatalogue` is the refinement of `Catalogue`. It needs three facts more
(`RefInv`): what is not recorded is blank; a running daemon's memory and the file
show the same catalogue (`SameInv`, which a rollback past a visible write would
break); and the document an operation carries is memory with exactly the change
it was accepted for (`MadeInv`). The two persists map to the operation
(`PersistRefines`), every other step to a start, a power loss, an operator's
doing or a stutter (`OtherRefines`).

### Portals

`PortalsProofs` proves all the safety properties of run `portals`, for any set
of addresses and portals, any ports held by others and any number of mishaps,
from `PortalsAssumption`. The heart is `BindsAccepted`. Its argument runs through
the phases: what the first phase removed was in conflict (`PruneInv`), so a
wildcard that was bound at the start and is wanted still is; once nothing
bound conflicts, nothing bound is in the way of anything missing (`ApplyInv`,
lemma `PruneDone`), because a valid list has at most one wildcard on a port and
nothing that it covers (`ValidFacts`); binding wildcards first keeps it so
(`EnsureStep`); so a refusal is always another program's doing (`NextBinds`).
`RecordInv` (what is recorded is valid), `IdleInv` (also: a target of a former
name is there only until the first reconcile that succeeds) and `SweepInv` carry
the rest. `BindsAccepted` speaks of the portals of one target: that a target of a
former name can refuse them is finding 4, not a theorem.
`NoCrashLoop` is a liveness property and stays with TLC.

### Exports

`ExportsProofs`: any finite set of objects, any hosts, initiators and LUNs.
Success is easy to say and hard to keep, since a reconcile may stop anywhere any
number of times. The gate in `commit` makes it provable: between two successes
at most one document follows the one the tree was last brought to. `SinceInv`
says that there is a document `d`, that of the last success, such that the
kernel holds nothing but what `d` or the db asks for (`Within`), and that no
export index stands for one object in `d` and another in the db; `GrantedOnly`
and `NoSwapUnderInitiator` follow. `ViewInv` says when the cached view may be
believed, on which the incremental reconcile rests. That a free index exists is
a pigeonhole argument (`FreeIndex`): `ExportsAssumption` asks for as many
indices as there are objects, and no more are ever needed.

### Reservations

`ReservationsProofs`: any objects and hosts. `FenceInv` follows a reservation
to wherever it is while it is not in effect: on file, in the record given back
to the backstore, and in the kernel as soon as its holder is mapped. `LoadedInv`
is what makes a restore that stopped half way safe to resume: a directory that is
not enabled has the owed record with its holder or not at all, so the enable,
which waits for every record of the file, finds the reservation whole. `StepInv`
says what each step of `ClearReservation` relies on, `GoneInv` that a record
which was proven gone is nowhere. `ClearStays` has `UnlinkDurable` for its
hypothesis, since without it the claim is false (`reservations_power_loss`);
the other theorems hold for either value.

### Identity

`IdentityProofs`: any machines and objects, any number of WWNs. The argument is
one of ownership (`OwnInv`): the machine recorded in a db owns the WWNs in it
wherever the db was copied to, no WWN has two owners, and a kernel offers what
its own machine owns. `SignedInv` says the same of names. Both stand while no
machine without an ID wrote a db and no rollback has lost one, which is what
`FabricUnique` excepts.

### Health

`HealthProofs`: any volumes. What `/health` shows is exact because a reconcile
visits, in full or by delta, every volume that may not be as desired: `VisitInv`
is what is known of those it is through with, `ViewInv` of those the cached view
vouches for, `FoundInv` and `PubInv` of what was found and published.
`GeometryFirst` and `CacheDeclared` are action properties of the same invariant;
`CacheDeclared` has `ModeShown` for its hypothesis.

### Fencing

`FencingProofs`: any finite sets of initiators and session identifiers, any LUNs,
either reservation type. `RecordInv` relates the three places of a registration (live, dormant,
in the saved file) to each other and to the exports; it is what makes a
difference between file and kernel mean a loss. `CheckInv` is what a check in
flight knows after each of its reads, as long as nobody has acted since it
began: that the type was read (`chk.sure`) is part of it, and a verdict without
it is only proved to be a mismatch. That all sessions are rendered when two counts agree is an argument about
cardinalities, which is why the sets are assumed finite.

### Requests

`RequestsProofs`: any objects, hosts, names, initiators and LUNs, any number of
calls, attempts and reservations. `DeployedAssumption` says that a behaviour
begins with a db that `validateLoaded` accepts. `PlanInv` says how the db that a
handler is about to write differs from the one there is, by the kind of request
(`Planned`): which requests leave the mapped LUNs alone, which only add, and
which may take away. On it rest `RecordInv` (an object is what its create asked
for until it is deleted, so a repeat finds itself), `TreeInv` (the kernel
presents the db, less what is being cleared or withheld, unless the appliance is
degraded, and never an object to an
initiator at two LUNs), `HoldInv` (nothing withheld is in the kernel, and what
`prClearing` still names between operations is withheld or deleted) and `FenceInv` (a reservation that the db does not
present any more was warned of, or is about to be, or came after the look). The
one-LUN clause is what makes a reconcile that stops half way harmless: a holder
it deprives is one that the whole reconcile would deprive (`PresentStep`).

### Left to TLC

The liveness properties `NoCrashLoop` and `LogCatchesUp`, and the four
violations. Liveness and ENABLED are out of the prover's reach, and so are
inductions over data, which no property here needs.

## Plan

1. Liveness left to state, for TLC: a degraded appliance whose kernel answers
   heals.
2. Abstract specifications worth having beside `Catalogue`: what `Exports`
   promises of access (a grant takes effect, and ends, at one moment), with the
   invariant of `ExportsProofs` as the start of a proof.

## Not modelled

Read-only routes and calls, parsing, command line, the `lish` shell, logging,
host setup, `saveconfig`, SCSI encoding and the configfs accessors: they keep no
state that the properties above speak of, or are pure conversion. Discovery of
trees that glitr did not make, and schema versions, are refused or handled
before any state changes. The drain of a clean shutdown is not a step of its
own: the models let every step of a handler be its last.
