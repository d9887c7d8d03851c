------------------------------ MODULE Requests ------------------------------
(***************************************************************************)
(* Requests and answers: what a caller may conclude from an answer when    *)
(* answers get lost, requests are sent again, an attempt nobody waits for  *)
(* any more is carried out late, and other callers rename, delete and      *)
(* create in between.  Source: appliance/rest.go, applianceclient/         *)
(* client.go, the handlers of appliance/objects.go and appliance/hosts.go, *)
(* appliance/errcode.go, fenceLossWarningFor in appliance/ops.go, the      *)
(* steps of appliance/clearpr.go that take an object out and put it back.  *)
(*                                                                         *)
(* opCtx drops the cancellation of a request, so every attempt that        *)
(* reached the daemon waits for Coordinator.mu and is carried out, in any  *)
(* order, whether or not its caller still listens.  Nothing is to be seen  *)
(* of an attempt before it has the mutex: an attempt is one step, which    *)
(* may come at any time after the first.  Initiators act between any two   *)
(* steps of a handler.                                                     *)
(*                                                                         *)
(* Abstractions.  One kind of object, always ready; its bytes and size are *)
(* the subject of module Objects, the kernel tree behind "presented" that  *)
(* of Exports.  A reservation is a SCSI-3 one of a type that is released,  *)
(* not handed on, with its holder.  Syntactically invalid requests, which  *)
(* are refused before the lock, are left out; so are the read-only ones.   *)
(* What ClearReservation answers about the fence it drops, and the saved   *)
(* record it discards, are the subject of module Reservations.             *)
(***************************************************************************)
EXTENDS Naturals, FiniteSets

CONSTANTS
  Object, Host,        \* the UUIDs that can be minted
  OName, HName, Iqn, Lun,
  None,                \* no name, no reference, no UUID, no LUN, no initiator
  MaxCalls,            \* bound: calls
  MaxAttempts,         \* bound: attempts of all calls together
  MaxFences,           \* bound: reservations taken
  Repertoire,          \* sets of requests; one of them is asked in a behaviour
  Deployed             \* the dbs a behaviour begins with

ASSUME RequestsAssumption ==
  /\ MaxCalls \in Nat /\ MaxAttempts \in Nat /\ MaxFences \in Nat
  /\ None \notin Object \cup Host \cup OName \cup HName \cup Iqn \cup Lun

VARIABLES
  db,        \* Coordinator.st, and appliance.json
  shown,     \* kernel: mapped LUNs, as <<object, initiator, LUN>>
  holder,    \* kernel: who holds the reservation
  degraded,  \* Coordinator.lastReconcileErr # nil
  prClearing,\* Coordinator.prClearing
  withheld,  \* Coordinator.withheld, which /health shows
  pc, op,    \* the handler that holds the mutex
  ask,       \* the requests of this behaviour
  call,      \* the calls made so far
  attempts,  \* how many attempts were carried out
  ans,       \* the answer this step has written
  minted,    \* history: the UUIDs handed out
  born,      \* history: the call that wrote the record of an object
  created,   \* history: how often an object was answered with 201
  fences,    \* history: how many reservations were taken
  unseen,    \* history: reservations taken after the handler that looked
  told,      \* history: objects whose reservation somebody was warned of
  owed       \* history: reservations released without a warning

db1 == <<db, degraded>>
kernel == <<shown, holder>>
wire == <<ask, call, attempts>>
births == <<minted, born, created>>
fence == <<fences, unseen, told, owed>>
hold == <<prClearing, withheld>>
vars == <<db1, kernel, hold, pc, op, wire, ans, births, fence>>

Call == 1..MaxCalls
BlockSize == {512, 4096}
DefaultBlockSize == 512

ObjRecord == [name: OName \cup {None}, blk: BlockSize, src: Object \cup {None}]
HostRecord == [name: HName \cup {None}, iqns: SUBSET Iqn]
NoObject == [name |-> None, blk |-> DefaultBlockSize, src |-> None]
NoHost == [name |-> None, iqns |-> {}]
Db == [obj: [Object -> ObjRecord], host: [Host -> HostRecord],
       conn: [Object \X Host -> Lun \cup {None}]]
EmptyDb == [obj |-> [o \in Object |-> NoObject], host |-> [h \in Host |-> NoHost],
            conn |-> [c \in Object \X Host |-> None]]

ORef == OName \cup Object
HRef == HName \cup Host
Request ==
  [kind: {"create"}, name: OName, blk: BlockSize \cup {0}, src: ORef \cup {None}]
    \cup [kind: {"rename"}, ref: ORef, name: OName]
    \cup [kind: {"delete"}, ref: ORef]
    \cup [kind: {"connect"}, ref: ORef, host: HRef, lun: Lun]
    \cup [kind: {"disconnect"}, ref: ORef, host: HRef]
    \cup [kind: {"createHost"}, name: HName, iqns: SUBSET Iqn]
    \cup [kind: {"renameHost"}, ref: HRef, name: HName]
    \cup [kind: {"setBindings", "addBindings", "removeBindings"}, ref: HRef, iqns: SUBSET Iqn]
    \cup [kind: {"deleteHost"}, ref: HRef]
    \cup [kind: {"clear"}, ref: ORef]
NoRequest == [kind |-> "none"]

Status == {"created", "ok", "refused", "failed"}
NoAnswer == [call |-> 0, status |-> "refused", obj |-> None]

\* look: the holder is about to be read; gate: healIfDegraded; the last three
\* are ClearReservation's.
PC == {"down", "idle", "look", "gate", "persist", "unlink", "apply",
       "prune", "discard", "restore"}
NoOp == [call |-> 0, obj |-> None, next |-> EmptyDb, looked |-> FALSE, warn |-> {},
         durable |-> TRUE]

Recorded(o) == db.obj[o].name # None
Known(h) == db.host[h].name # None
Req == call[op.call]

\* objectByName and hostByName.
ObjectsByName(n) == {o \in Object : db.obj[o].name = n}
HostsByName(n) == {h \in Host : db.host[h].name = n}

\* resolveObject, resolveHost: by name, falling back to a UUID; at most one.
ResolveObject(ref) ==
  IF ref \in OName THEN ObjectsByName(ref) ELSE {o \in {ref} \cap Object : Recorded(o)}
ResolveHost(ref) ==
  IF ref \in HName THEN HostsByName(ref) ELSE {h \in {ref} \cap Host : Known(h)}

Connections(d) == {c \in Object \X Host : d.conn[c] # None}

\* The mapped LUNs that the db asks for: one for every initiator of a
\* connected host.
Mapped(d) ==
  UNION {{<<c[1], q, d.conn[c]>> : q \in d.host[c[2]].iqns} : c \in Connections(d)}

\* The object being cleared, and those that a failed clear left withheld.
Out == withheld \cup {prClearing}

\* desiredLIO: what the db asks for, without the objects that are kept out.
Desired(d, out) == {m \in Mapped(d) : m[1] \notin out}

\* The object is mapped to the initiator.
Reaches(tree, o, q) == \E l \in Lun : <<o, q, l>> \in tree

\* validateLoaded, which mirrors what the handlers enforce: names are unique,
\* an initiator belongs to one host, a connection is between an object and a
\* host that exist, a host has at a LUN one object.
WellFormed(d) ==
  /\ d \in Db
  /\ \A o, p \in Object : d.obj[o].name # None /\ d.obj[o].name = d.obj[p].name => o = p
  /\ \A g, h \in Host : d.host[g].name # None /\ d.host[g].name = d.host[h].name => g = h
  /\ \A g, h \in Host : g # h => d.host[g].iqns \cap d.host[h].iqns = {}
  /\ \A c \in Connections(d) : d.obj[c[1]].name # None /\ d.host[c[2]].name # None
  /\ \A c, e \in Connections(d) : c[2] = e[2] /\ d.conn[c] = d.conn[e] => c = e

ASSUME DeployedAssumption ==
  (\A d \in Deployed : WellFormed(d)) /\ (\A asked \in Repertoire : asked \subseteq Request)

TypeOK ==
  /\ WellFormed(db)
  /\ shown \subseteq Object \X Iqn \X Lun
  /\ \A o \in Object : holder[o] # None => Reaches(shown, o, holder[o])
  /\ degraded \in BOOLEAN /\ pc \in PC
  /\ prClearing \in Object \cup {None} /\ withheld \subseteq Object
  /\ op.next \in Db /\ op.warn \subseteq Object /\ op.obj \in Object \cup {None}
  /\ ask \subseteq Request /\ \A k \in Call : call[k] \in ask \cup {NoRequest}
  /\ attempts \in 0..MaxAttempts
  /\ ans.status \in Status /\ minted \subseteq Object \cup Host
  /\ told \subseteq Object /\ owed \subseteq Object /\ unseen \subseteq Object

Init ==
  /\ db \in Deployed /\ shown = Mapped(db)
  /\ prClearing = None /\ withheld = {}
  /\ holder = [o \in Object |-> None] /\ degraded = FALSE
  /\ pc = "idle" /\ op = NoOp
  /\ ask \in Repertoire /\ call = [k \in Call |-> NoRequest]
  /\ attempts = 0
  /\ ans = NoAnswer
  /\ minted = {o \in Object : Recorded(o)} \cup {h \in Host : Known(h)}
  /\ born = [o \in Object |-> 0] /\ created = [o \in Object |-> 0]
  /\ fences = 0 /\ unseen = {} /\ told = {} /\ owed = {}

(***************************************************************************)
(* Initiators and the kernel (external).                                   *)
(***************************************************************************)

\* A reservation taken after the handler that withdraws the device has looked
\* cannot be in what that handler says.
Reserve(o, q) ==
  /\ fences < MaxFences
  /\ Reaches(shown, o, q) /\ holder[o] = None
  /\ holder' = [holder EXCEPT ![o] = q]
  /\ fences' = fences + 1
  /\ unseen' = IF /\ Reaches(Mapped(db), o, q)
                  /\ op.looked => Reaches(Mapped(op.next), o, q)
               THEN unseen \ {o} ELSE unseen \cup {o}
  /\ told' = told \ {o}
  /\ ans' = NoAnswer
  /\ UNCHANGED <<db1, shown, hold, pc, op, wire, births, owed>>

\* core_scsi3_free_pr_reg_from_nacl: a holder that loses its mapped LUN loses
\* its reservation.  Nobody has to be warned of the one that a clear is about.
Presents(tree, warned) ==
  LET lost == {o \in Object : holder[o] # None /\ ~Reaches(tree, o, holder[o])}
  IN /\ shown' = tree
     /\ holder' = [o \in Object |-> IF o \in lost THEN None ELSE holder[o]]
     /\ told' = told \cup warned
     /\ owed' = (owed \cup (lost \ (unseen \cup told \cup {prClearing}))) \ warned

\* warned: the objects that the answer of this step warns about.
ReconcileOK(warned) == Presents(Desired(db, Out), warned) /\ degraded' = FALSE

\* A reconcile stops anywhere and undoes nothing.
ReconcileFailed(warned) ==
  /\ LET want == Desired(db, Out) IN
     \E done \in SUBSET ((shown \ want) \cup (want \ shown)) :
       Presents((shown \ done) \cup (done \ shown), warned)
  /\ degraded' = TRUE

(***************************************************************************)
(* The end of a handler.                                                   *)
(***************************************************************************)

\* Mutant of Warns: respond in the place of respondWithWarning.
WarnsOnSuccess(status) == status \in {"ok", "created"}

\* respondWithWarning: the warning rides on both paths.
Warns(status) == TRUE

\* createdCode: 201 when this call made it, 200 when it was there.
CreatedCode(made) == IF made THEN "created" ELSE "ok"

Answers(k, status, o) ==
  /\ ans' = [call |-> k, status |-> status, obj |-> o]
  /\ created' = IF status = "created" /\ call'[k].kind = "create"
                THEN [created EXCEPT ![o] = @ + 1] ELSE created
  /\ pc' = "idle" /\ op' = NoOp

Warned(status) == IF Warns(status) THEN op.warn ELSE {}

\* An attempt gets the mutex: the first of call k, or one sent again because
\* the caller had no answer, or none that says what was done.
Takes(k, r) ==
  /\ pc = "idle" /\ attempts < MaxAttempts
  /\ \/ call[k] = r
     \/ call[k] = NoRequest /\ \A j \in 1..(k - 1) : call[j] # NoRequest
  /\ call' = [call EXCEPT ![k] = r] /\ attempts' = attempts + 1
  /\ UNCHANGED ask

\* A handler that returns before it has changed anything.
Returns(k, status, o) ==
  /\ UNCHANGED <<db1, kernel, hold, minted, born, fence>>
  /\ Answers(k, status, o)

\* A handler that goes on: with healIfDegraded, a look at the holder, or
\* straight to the record.
Begins(step, k, o, next) ==
  /\ pc' = step
  /\ op' = [NoOp EXCEPT !.call = k, !.obj = o, !.next = next]
  /\ ans' = NoAnswer
  /\ UNCHANGED <<db1, kernel, hold, created, fence>>

(***************************************************************************)
(* The handlers up to the first step that changes something.               *)
(***************************************************************************)

\* Mutant of MatchExisting: the source is resolved before it is compared.
MatchResolving(e, r, blk) ==
  /\ db.obj[e].blk = blk
  /\ r.src = None \/ db.obj[e].src \in ResolveObject(r.src)

\* matchExisting: does the request describe the object that has its name?  A
\* UUID is compared on its own, for the source may have been deleted since.
MatchExisting(e, r, blk) ==
  /\ db.obj[e].blk = blk
  /\ r.src \in {None, db.obj[e].src} \/ db.obj[e].src \in ResolveObject(r.src)

\* Create fills in the default before it compares or copies anything.
Filled(blk) == IF blk = 0 THEN DefaultBlockSize ELSE blk

\* Coordinator.Create, an object of that name being there.
CreateAgain(k, r) ==
  /\ r.kind = "create" /\ Takes(k, r)
  /\ \E e \in ObjectsByName(r.name) :
       IF MatchExisting(e, r, Filled(r.blk)) THEN Returns(k, CreatedCode(FALSE), e)
                                             ELSE Returns(k, "refused", e)

\* Coordinator.Create: no such source, bytes that cannot be staged, or bytes
\* staged and a record to be written.  A copy has the geometry of its source.
Create(k, r) ==
  LET src == ResolveObject(r.src)
  IN
  /\ r.kind = "create" /\ Takes(k, r)
  /\ ObjectsByName(r.name) = {}
  /\ IF r.src # None /\ src = {} THEN Returns(k, "refused", None)
     ELSE \/ Returns(k, "failed", None)
          \/ \E o \in Object \ minted :
               /\ minted' = minted \cup {o}
               /\ born' = [born EXCEPT ![o] = k]
               /\ Begins("persist", k, o,
                    [db EXCEPT !.obj[o] =
                       [name |-> r.name,
                        blk |-> IF src = {} THEN Filled(r.blk)
                                ELSE db.obj[CHOOSE s \in src : TRUE].blk,
                        src |-> IF src = {} THEN None ELSE CHOOSE s \in src : TRUE]])

\* Refuses what it cannot resolve; the handler proper has its object.
WithObject(k, r, Handler(_)) ==
  LET found == ResolveObject(r.ref) IN
  /\ Takes(k, r)
  /\ IF found = {} THEN Returns(k, "refused", None) ELSE \E o \in found : Handler(o)

WithHost(k, ref, Handler(_)) ==
  LET found == ResolveHost(ref) IN
  IF found = {} THEN Returns(k, "refused", None) ELSE \E h \in found : Handler(h)

Rename(k, r) ==
  LET n == r.name
      Handler(o) ==
        IF db.obj[o].name = n THEN Returns(k, "ok", o)
        ELSE IF ObjectsByName(n) # {} THEN Returns(k, "refused", o)
        ELSE Begins("persist", k, o, [db EXCEPT !.obj[o].name = n])
             /\ UNCHANGED <<minted, born>>
  IN r.kind = "rename" /\ WithObject(k, r, Handler)

Delete(k, r) ==
  LET Handler(o) ==
        IF \E c \in Connections(db) : c[1] = o THEN Returns(k, "refused", o)
        ELSE Begins("gate", k, o, [db EXCEPT !.obj[o] = NoObject])
             /\ UNCHANGED <<minted, born>>
  IN r.kind = "delete" /\ WithObject(k, r, Handler)

\* Safe to retry at the same LUN.  Connected at another LUN, or another object
\* at that LUN, is a conflict.
Connect(k, r) ==
  LET l == r.lun
      Handler(o) == WithHost(k, r.host, LAMBDA h :
        IF db.conn[<<o, h>>] = l THEN Returns(k, CreatedCode(FALSE), o)
        ELSE IF db.conn[<<o, h>>] # None \/ \E p \in Object : db.conn[<<p, h>>] = l
             THEN Returns(k, "refused", o)
        ELSE Begins("gate", k, o, [db EXCEPT !.conn[<<o, h>>] = l])
             /\ UNCHANGED <<minted, born>>)
  IN r.kind = "connect" /\ WithObject(k, r, Handler)

\* Already disconnected is a success.
Disconnect(k, r) ==
  LET Handler(o) == WithHost(k, r.host, LAMBDA h :
        IF db.conn[<<o, h>>] = None THEN Returns(k, "ok", o)
        ELSE Begins("gate", k, o, [db EXCEPT !.conn[<<o, h>>] = None])
             /\ UNCHANGED <<minted, born>>)
  IN r.kind = "disconnect" /\ WithObject(k, r, Handler)

\* checkIQNs: none of them belongs to another host.
CheckIQNs(iqns, except) == \A h \in Host \ {except} : db.host[h].iqns \cap iqns = {}

\* The name taken by a host with the same bindings is a success.
CreateHost(k, r) ==
  /\ r.kind = "createHost" /\ Takes(k, r)
  /\ IF HostsByName(r.name) # {}
     THEN \E h \in HostsByName(r.name) :
            Returns(k, IF db.host[h].iqns = r.iqns THEN CreatedCode(FALSE) ELSE "refused", None)
     ELSE IF ~CheckIQNs(r.iqns, None) THEN Returns(k, "refused", None)
     ELSE \E h \in Host \ minted :
            /\ minted' = minted \cup {h}
            /\ Begins("gate", k, None,
                 [db EXCEPT !.host[h] = [name |-> r.name, iqns |-> r.iqns]])
            /\ UNCHANGED born

RenameHost(k, r) ==
  LET n == r.name
      Handler(h) ==
        IF db.host[h].name = n THEN Returns(k, "ok", None)
        ELSE IF HostsByName(n) # {} THEN Returns(k, "refused", None)
        ELSE Begins("persist", k, None, [db EXCEPT !.host[h].name = n])
             /\ UNCHANGED <<minted, born>>
  IN r.kind = "renameHost" /\ Takes(k, r) /\ WithHost(k, r.ref, Handler)

\* One entry point for three requests; never returns early on no change.
SetBindings(k, r) ==
  LET Bound(h) == CASE r.kind = "setBindings" -> r.iqns
                    [] r.kind = "addBindings" -> db.host[h].iqns \cup r.iqns
                    [] OTHER -> db.host[h].iqns \ r.iqns
      Handler(h) ==
        IF ~CheckIQNs(Bound(h), h) THEN Returns(k, "refused", None)
        ELSE Begins("look", k, None, [db EXCEPT !.host[h].iqns = Bound(h)])
             /\ UNCHANGED <<minted, born>>
  IN /\ r.kind \in {"setBindings", "addBindings", "removeBindings"}
     /\ Takes(k, r) /\ WithHost(k, r.ref, Handler)

\* Mutant of HasConnections: a host is never refused.
NeverConnected(h) == FALSE

\* connectionsOfHost.
HasConnections(h) == \E c \in Connections(db) : c[2] = h

DeleteHost(k, r) ==
  LET Handler(h) ==
        IF HasConnections(h) THEN Returns(k, "refused", None)
        ELSE Begins("gate", k, None, [db EXCEPT !.host[h] = NoHost])
             /\ UNCHANGED <<minted, born>>
  IN r.kind = "deleteHost" /\ Takes(k, r) /\ WithHost(k, r.ref, Handler)

\* ClearReservation, confirmed: of an object that is there, connected or not.
ClearReservation(k, r) ==
  LET Handler(o) == Begins("gate", k, o, db) /\ UNCHANGED <<minted, born>>
  IN r.kind = "clear" /\ WithObject(k, r, Handler)

Handle(k, r) ==
  \/ CreateAgain(k, r) \/ Create(k, r) \/ Rename(k, r) \/ Delete(k, r)
  \/ Connect(k, r) \/ Disconnect(k, r)
  \/ CreateHost(k, r) \/ RenameHost(k, r) \/ SetBindings(k, r) \/ DeleteHost(k, r)
  \/ ClearReservation(k, r)

(***************************************************************************)
(* The steps that follow, the mutex held.                                  *)
(***************************************************************************)

AfterGate(kind) ==
  CASE kind = "disconnect" -> "look" [] kind = "clear" -> "prune" [] OTHER -> "persist"

\* healIfDegraded, at the beginning of commit.  Disconnect calls it before it
\* looks at the holder, SetBindings has looked by then; ClearReservation goes
\* on to withhold its object.
Gate ==
  /\ pc = "gate"
  /\ UNCHANGED <<db, wire, withheld, minted, born, fences, unseen>>
  /\ \/ /\ IF degraded THEN ReconcileOK({}) ELSE UNCHANGED <<degraded, kernel, told, owed>>
        /\ pc' = AfterGate(Req.kind)
        /\ prClearing' = IF Req.kind = "clear" THEN op.obj ELSE prClearing
        /\ ans' = NoAnswer
        /\ UNCHANGED <<op, created>>
     \/ /\ degraded /\ ReconcileFailed({}) /\ Answers(op.call, "failed", op.obj)
        /\ UNCHANGED prClearing

\* Who is about to lose the device: fenceLossWarning(For), which finds no
\* backstore to read for an object that is withheld.
Losing == {p \in Object \X Iqn : /\ Reaches(Desired(db, Out), p[1], p[2])
                                  /\ ~Reaches(Desired(op.next, Out), p[1], p[2])}

\* The holder is read, device by device; one that cannot be read is warned
\* about too.
Look ==
  /\ pc = "look"
  /\ LET held == {o \in Object : <<o, holder[o]>> \in Losing} IN
     /\ \E unread \in SUBSET {p[1] : p \in Losing} :
          op' = [op EXCEPT !.looked = TRUE, !.warn = held \cup unread]
     /\ unseen' = unseen \ held
  /\ pc' = IF Req.kind = "disconnect" THEN "persist" ELSE "gate"
  /\ ans' = NoAnswer
  /\ UNCHANGED <<db1, kernel, hold, wire, births, fences, told, owed>>

\* What makes the answer of a success: only a create and a connect tell a
\* thing made from a thing found.
Success == IF Req.kind \in {"create", "connect", "createHost"} THEN CreatedCode(TRUE) ELSE "ok"

\* Mutant of AfterPersist: the error of the sync is returned at once.
AfterPersistAtOnce(kind, durable) ==
  CASE kind \in {"create", "rename", "renameHost"} \/ ~durable -> "answer"
    [] kind = "delete" -> "unlink"
    [] OTHER -> "apply"

\* commit reconciles also what is written and not proven durable; the callers
\* of persistOnly are done, Delete when the record is durably gone.
AfterPersist(kind, durable) ==
  CASE kind \in {"create", "rename", "renameHost"} -> "answer"
    [] kind = "delete" -> IF durable THEN "unlink" ELSE "answer"
    [] OTHER -> "apply"

Persist(durable) ==
  /\ pc = "persist"
  /\ db' = op.next
  /\ UNCHANGED <<degraded, kernel, hold, wire, minted, born, fence>>
  /\ LET step == AfterPersist(Req.kind, durable) IN
     \/ step = "answer" /\ Answers(op.call, IF durable THEN Success ELSE "failed", op.obj)
     \/ /\ step # "answer" /\ pc' = step
        /\ op' = [op EXCEPT !.durable = durable]
        /\ ans' = NoAnswer /\ UNCHANGED created

\* Any failure before the rename: restoreState.
PersistFailed ==
  /\ pc = "persist"
  /\ UNCHANGED <<db1, kernel, hold, wire, minted, born, fence>>
  /\ Answers(op.call, "failed", op.obj)

\* The record of a Delete is gone: releaseHold; an error of the store is the
\* answer.
Unlink ==
  /\ pc = "unlink"
  /\ withheld' = withheld \ {op.obj}
  /\ UNCHANGED <<db1, kernel, prClearing, wire, minted, born, fence>>
  /\ \E status \in {"ok", "failed"} : Answers(op.call, status, op.obj)

\* The reconcile commit ends with, then the answer.
Apply ==
  /\ pc = "apply"
  /\ UNCHANGED <<db, hold, wire, minted, born, fences, unseen>>
  /\ \/ LET status == IF op.durable THEN Success ELSE "failed" IN
        ReconcileOK(Warned(status)) /\ Answers(op.call, status, op.obj)
     \/ ReconcileFailed(Warned("failed")) /\ Answers(op.call, "failed", op.obj)

(***************************************************************************)
(* ClearReservation, once healed.                                          *)
(***************************************************************************)

\* Phase 1: a reconcile without the object.  If it fails, recoverFromFailedPrune
\* puts the object back.
Prune ==
  /\ pc = "prune"
  /\ \/ ReconcileOK({}) /\ pc' = "discard" /\ UNCHANGED prClearing
     \/ ReconcileFailed({}) /\ pc' = "restore" /\ prClearing' = None
  /\ ans' = NoAnswer
  /\ UNCHANGED <<db, withheld, op, wire, births, fences, unseen>>

\* Phase 2: the saved record is proven gone, or the object is held back and
\* prClearing keeps naming it.
Discard ==
  /\ pc = "discard"
  /\ UNCHANGED <<db1, kernel, wire, minted, born, fence>>
  /\ \/ /\ withheld' = withheld \ {op.obj} /\ prClearing' = None
        /\ pc' = "restore" /\ ans' = NoAnswer
        /\ UNCHANGED <<op, created>>
     \/ /\ withheld' = withheld \cup {op.obj} /\ UNCHANGED prClearing
        /\ Answers(op.call, "failed", op.obj)

\* Phase 3, and the reconcile after a prune that failed.
Restore ==
  /\ pc = "restore"
  /\ UNCHANGED <<db, hold, wire, minted, born, fences, unseen>>
  /\ \/ ReconcileOK({}) /\ \E status \in {"ok", "failed"} : Answers(op.call, status, op.obj)
     \/ ReconcileFailed({}) /\ Answers(op.call, "failed", op.obj)

(***************************************************************************)
(* The daemon dies, the kernel's tree does not.  What a handler was about  *)
(* to warn of is in the log: logFenceReleased comes before the record.     *)
(***************************************************************************)

Crash ==
  /\ pc # "down"
  /\ pc' = "down" /\ op' = NoOp /\ degraded' = FALSE
  /\ prClearing' = None /\ withheld' = {}
  /\ ans' = NoAnswer
  /\ told' = told \cup (IF pc = "apply" THEN op.warn ELSE {})
  /\ UNCHANGED <<db, kernel, wire, births, fences, unseen, owed>>

\* Open returns once the replay has succeeded.
Open ==
  /\ pc = "down"
  /\ ReconcileOK({})
  /\ pc' = "idle" /\ ans' = NoAnswer
  /\ UNCHANGED <<db, hold, op, wire, births, fences, unseen>>

Next ==
  \/ \E k \in Call, r \in ask : Handle(k, r)
  \/ \E o \in Object, q \in Iqn : Reserve(o, q)
  \/ Look \/ Gate \/ \E durable \in BOOLEAN : Persist(durable)
  \/ PersistFailed \/ Unlink \/ Apply
  \/ Prune \/ Discard \/ Restore
  \/ Crash \/ Open

Spec == Init /\ [][Next]_vars

(***************************************************************************)
(* Properties.                                                             *)
(***************************************************************************)

\* The answer being written is to a request of this kind.
To(kind) == ans.call # 0 /\ call[ans.call].kind = kind
Succeeded == ans.status \in {"created", "ok"}

\* The record that has the name a create asked for was written by an attempt
\* of that same call.
OwnRecord == ans.obj # None /\ born[ans.obj] = ans.call

\* "safe to replay": an object is answered with 201 at most once, and a create
\* that is sent again, after its first attempt was carried out, is not turned
\* away as a conflict: its source may have been renamed, deleted, or replaced
\* by another of that name if the caller gave the UUID.  For a caller that
\* asked for the block size it got (Create, matchExisting, createdCode): the
\* default that Create fills in is compared with what a copy inherited.
CreateReplaySafe ==
  /\ \A o \in Object : created[o] <= 1
  /\ LET r == call[ans.call] IN
     To("create") /\ ans.status = "refused" /\ OwnRecord =>
       \/ r.src \in OName /\ ObjectsByName(r.src) # {db.obj[ans.obj].src}
       \/ Filled(r.blk) # db.obj[ans.obj].blk

\* A success, that of a repeat included which runs no reconcile of its own,
\* means that the device is there, or gone, for every initiator of the host,
\* unless the appliance says that it is degraded, or a connect is of an object
\* that /health names as withheld (Connect, Disconnect, commit, desiredLIO).
SuccessInEffect ==
  ~degraded /\ Succeeded =>
    LET r == call[ans.call] IN
    /\ To("connect") /\ ans.obj \notin withheld =>
         \A h \in ResolveHost(r.host) : \A q \in db.host[h].iqns : <<ans.obj, q, r.lun>> \in shown
    /\ To("disconnect") =>
         \A h \in ResolveHost(r.host) : \A q \in db.host[h].iqns : ~Reaches(shown, ans.obj, q)

\* A reservation that was there when the handler looked, and that its change
\* takes away, is in the warning of its answer, whatever failed after the
\* record was written; also when it is a later heal that takes it away
\* (fenceLossWarningFor, respondWithWarning, Error.Warning).  A holder that
\* cannot be read is warned of, as fenceLossWarningFor does; the comment of
\* fenceLossWarning says that it "simply yields no warning".
FenceLossTold == pc = "idle" => owed = {}
=============================================================================
