--------------------------- MODULE RequestsProofs ---------------------------
(***************************************************************************)
(* The safety properties of module Requests, for every set of objects,     *)
(* hosts, initiators and LUNs, every number of calls and of attempts.      *)
(*                                                                         *)
(* PlanInv says how the db that a handler is about to write differs from   *)
(* the one there is.  Four invariants across operations rest on it: an     *)
(* object still is what its create has asked for (RecordInv); the kernel   *)
(* presents the db unless the appliance knows better, and never an object  *)
(* to an initiator at two LUNs (TreeInv); an object is kept out only by    *)
(* the clear in flight or by a hold, and then is out (HoldInv); a          *)
(* reservation that the db does not present any more is accounted for      *)
(* (FenceInv).                                                             *)
(***************************************************************************)
EXTENDS Requests, TLAPS

(***************************************************************************)
(* The invariant.                                                          *)
(***************************************************************************)

Op == [call: Call \cup {0}, obj: Object \cup {None}, next: Db, looked: BOOLEAN,
       warn: SUBSET Object, durable: BOOLEAN]
Answer == [call: Call \cup {0}, status: Status, obj: Object \cup {None}]

Typed ==
  /\ TypeOK
  /\ holder \in [Object -> Iqn \cup {None}] /\ op \in Op /\ ans \in Answer
  /\ call \in [Call -> ask \cup {NoRequest}]
  /\ born \in [Object -> Call \cup {0}] /\ created \in [Object -> Nat]
  /\ fences \in Nat

\* The requests by what they do to the mapped LUNs: nothing, or add to them,
\* or take some away.
Still == {"create", "rename", "renameHost", "delete", "clear"}
Bindings == {"setBindings", "addBindings", "removeBindings"}
Lossy == Bindings \cup {"disconnect"}
Kinds == Still \cup Lossy \cup {"connect", "createHost", "deleteHost"}

\* Resolving a host in db d.
ResolvedIn(d, ref) ==
  IF ref \in HName THEN {h \in Host : d.host[h].name = ref}
  ELSE {h \in {ref} \cap Host : d.host[h].name # None}

\* A mapped LUN of a tree, and where an object is connected to a host.
Shows(tree, o, q, l) == <<o, q, l>> \in tree
At(d, o, h) == d.conn[<<o, h>>]

\* Two trees never have an object at two LUNs of one initiator.
OneLun(tree, other) ==
  \A o \in Object, q \in Iqn, l, m \in Lun : Shows(tree, o, q, l) /\ Shows(other, o, q, m) => l = m

\* What an object was created as, it is until it is deleted: db d, the UUIDs m
\* that were minted, the calls b that the objects were born of, the calls c.
Made(d, m, b, c) ==
  /\ \A o \in Object : d.obj[o].name # None => o \in m
  /\ \A h \in Host : d.host[h].name # None => h \in m
  /\ \A o \in Object : d.obj[o].name # None /\ b[o] # 0 =>
       /\ c[b[o]].src = None => d.obj[o].src = None /\ d.obj[o].blk = Filled(c[b[o]].blk)
       /\ c[b[o]].src \in Object \ OName => d.obj[o].src = c[b[o]].src

RecordInv ==
  /\ Made(db, minted, born, call) /\ Made(op.next, minted, born, call)
  /\ \A o \in Object : born[o] # 0 => o \in minted /\ call[born[o]].kind = "create"
  /\ \A o \in Object : created[o] <= 1 /\ (o \notin minted => created[o] = 0)

\* The handler that holds the mutex.
Busy == pc \notin {"idle", "down"}

StepInv ==
  /\ ~Busy => op = NoOp
  /\ Busy => op.call # 0 /\ call[op.call] # NoRequest
  /\ pc = "look" => Req.kind \in Lossy
  /\ pc = "gate" => Req.kind \in Kinds \ {"create", "rename", "renameHost"}
  /\ pc = "gate" /\ Req.kind \in Bindings => op.looked
  /\ pc = "persist" /\ Req.kind \in Lossy => op.looked
  /\ pc = "persist" => Req.kind # "clear"
  /\ pc = "unlink" => Req.kind = "delete"
  /\ pc \in {"prune", "discard", "restore"} => Req.kind = "clear"
  /\ pc = "discard" => ~degraded
  /\ pc = "apply" => Req.kind \in Kinds \ Still
  /\ Busy /\ Req.kind = "create" =>
       pc = "persist" /\ op.obj \in Object \cap minted /\ created[op.obj] = 0
  /\ pc \in {"unlink", "apply"} => db = op.next
  /\ pc = "persist" /\ Req.kind \in Kinds \ Still => ~degraded
  /\ pc = "look" /\ Req.kind = "disconnect" => ~degraded

\* Request r, about object o, replaces db d by e.
Planned(d, e, r, o) ==
  /\ OneLun(Mapped(d), Mapped(e))
  /\ r.kind \in Still => Mapped(e) = Mapped(d)
  /\ r.kind \notin Lossy => Mapped(d) \subseteq Mapped(e)
  /\ r.kind \in {"connect", "disconnect", "delete", "clear"} => o \in Object
  /\ r.kind = "delete" => e.obj[o].name = None
  /\ r.kind = "clear" => e = d /\ d.obj[o].name # None
  /\ r.kind = "connect" => \A h \in ResolvedIn(e, r.host) : At(e, o, h) = r.lun
  /\ r.kind = "disconnect" => \A h \in ResolvedIn(e, r.host) : At(e, o, h) = None

PlanInv == WellFormed(op.next) /\ (Busy => Planned(db, op.next, Req, op.obj))

TreeInv ==
  /\ pc \notin {"down", "apply", "prune", "restore"} /\ ~degraded => shown = Desired(db, Out)
  /\ OneLun(shown, Mapped(db))

\* A withheld object is not in the kernel.  What prClearing names is being
\* cleared, or is withheld, or was deleted since.
Absent == \A o \in withheld, q \in Iqn : ~Reaches(shown, o, q)
Gone(d) == prClearing \in Object => d.obj[prClearing].name = None

HoldInv ==
  /\ Absent
  /\ withheld \subseteq minted /\ prClearing \in minted \cup {None}
  /\ pc \in {"prune", "discard"} => prClearing = op.obj
  /\ pc \notin {"prune", "discard"} =>
       prClearing \in withheld \cup {None} \/ (Gone(db) /\ Gone(op.next))

\* Object o has a reservation that the presentation tree would release.
Releases(tree, o) == holder[o] # None /\ ~Reaches(tree, o, holder[o])

FenceInv ==
  /\ owed = {}
  /\ \A o \in Object : Releases(Mapped(db), o) =>
       o \in unseen \cup told \/ (pc = "apply" /\ o \in op.warn)
  /\ op.looked => \A o \in Object :
       Releases(Mapped(op.next), o) /\ ~Releases(Mapped(db), o) => o \in op.warn \cup unseen

AnswerInv == CreateReplaySafe /\ SuccessInEffect

Inv ==
  Typed /\ RecordInv /\ StepInv /\ PlanInv /\ TreeInv /\ HoldInv /\ FenceInv /\ AnswerInv

(***************************************************************************)
(* The requests.                                                           *)
(***************************************************************************)

LEMMA RequestIs ==
  ASSUME NEW r \in Request
  PROVE  /\ r.kind \in Kinds /\ r # NoRequest
         /\ r.kind = "create" => r.name \in OName /\ r.blk \in BlockSize \cup {0} /\ r.src \in ORef \cup {None}
         /\ r.kind = "rename" => r.name \in OName
         /\ r.kind = "connect" => r.lun \in Lun
         /\ r.kind \in {"createHost", "renameHost"} => r.name \in HName
         /\ r.kind \in {"createHost"} \cup Bindings => r.iqns \in SUBSET Iqn
<1>1. CASE r \in [kind: {"create"}, name: OName, blk: BlockSize \cup {0}, src: ORef \cup {None}]
  BY <1>1 DEF Kinds, Still, Lossy, Bindings, NoRequest
<1>2. CASE r \in [kind: {"rename"}, ref: ORef, name: OName]
  BY <1>2 DEF Kinds, Still, Lossy, Bindings, NoRequest
<1>3. CASE r \in [kind: {"delete"}, ref: ORef]
  BY <1>3 DEF Kinds, Still, Lossy, Bindings, NoRequest
<1>4. CASE r \in [kind: {"connect"}, ref: ORef, host: HRef, lun: Lun]
  BY <1>4 DEF Kinds, Still, Lossy, Bindings, NoRequest
<1>5. CASE r \in [kind: {"disconnect"}, ref: ORef, host: HRef]
  BY <1>5 DEF Kinds, Still, Lossy, Bindings, NoRequest
<1>6. CASE r \in [kind: {"createHost"}, name: HName, iqns: SUBSET Iqn]
  BY <1>6 DEF Kinds, Still, Lossy, Bindings, NoRequest
<1>7. CASE r \in [kind: {"renameHost"}, ref: HRef, name: HName]
  BY <1>7 DEF Kinds, Still, Lossy, Bindings, NoRequest
<1>8. CASE r \in [kind: {"setBindings", "addBindings", "removeBindings"}, ref: HRef,
                  iqns: SUBSET Iqn]
  BY <1>8 DEF Kinds, Still, Lossy, Bindings, NoRequest
<1>9. CASE r \in [kind: {"deleteHost"}, ref: HRef]
  BY <1>9 DEF Kinds, Still, Lossy, Bindings, NoRequest
<1>10. CASE r \in [kind: {"clear"}, ref: ORef]
  BY <1>10 DEF Kinds, Still, Lossy, Bindings, NoRequest
<1> QED
  BY <1>1, <1>2, <1>3, <1>4, <1>5, <1>6, <1>7, <1>8, <1>9, <1>10 DEF Request

\* What is resolved is there, and is one.
LEMMA ResolvedObject ==
  ASSUME WellFormed(db), NEW ref
  PROVE  /\ \A o \in ResolveObject(ref) : o \in Object /\ Recorded(o)
         /\ ref \notin OName => ResolveObject(ref) \subseteq {ref}
         /\ ref = None => ResolveObject(ref) = {}
BY RequestsAssumption DEF ResolveObject, ObjectsByName, Recorded

LEMMA ResolvedHost ==
  ASSUME WellFormed(db), NEW ref
  PROVE  /\ \A h \in ResolveHost(ref) : h \in Host /\ Known(h)
         /\ \A g, h \in ResolveHost(ref) : g = h
         /\ ResolvedIn(db, ref) = ResolveHost(ref)
BY RequestsAssumption DEF ResolveHost, HostsByName, Known, ResolvedIn, WellFormed

(***************************************************************************)
(* What a db presents.                                                     *)
(***************************************************************************)

LEMMA MappedMember ==
  ASSUME NEW d \in Db
  PROVE  /\ Mapped(d) \subseteq Object \X Iqn \X Lun
         /\ \A o \in Object, q \in Iqn, l \in Lun :
              Shows(Mapped(d), o, q, l) <=>
                \E h \in Host : At(d, o, h) = l /\ q \in d.host[h].iqns
         /\ \A o \in Object, h \in Host : At(d, o, h) \in Lun <=> At(d, o, h) # None
<1>1. /\ d.conn \in [Object \X Host -> Lun \cup {None}] /\ d.host \in [Host -> HostRecord]
      /\ None \notin Lun
  BY RequestsAssumption DEF Db
<1>2. ASSUME NEW o, NEW q, NEW l, <<o, q, l>> \in Mapped(d)
      PROVE  \E h \in Host : /\ o \in Object /\ q \in Iqn /\ l \in Lun
                             /\ d.conn[<<o, h>>] = l /\ q \in d.host[h].iqns
  <2>1. PICK c \in Connections(d) : <<o, q, l>> \in {<<c[1], p, d.conn[c]>> : p \in d.host[c[2]].iqns}
    BY <1>2 DEF Mapped
  <2>2. o = c[1] /\ l = d.conn[c] /\ q \in d.host[c[2]].iqns
    BY <2>1
  <2>3. c \in Object \X Host /\ d.conn[c] # None
    BY DEF Connections
  <2>4. c = <<c[1], c[2]>> /\ c[1] \in Object /\ c[2] \in Host
    BY <2>3
  <2>5. d.conn[c] \in Lun
    BY <1>1, <2>3
  <2>6. d.host[c[2]].iqns \subseteq Iqn
    BY <1>1, <2>4 DEF HostRecord
  <2> QED
    BY <2>2, <2>4, <2>5, <2>6
<1>3. ASSUME NEW o \in Object, NEW q \in Iqn, NEW h \in Host, d.conn[<<o, h>>] \in Lun,
             q \in d.host[h].iqns
      PROVE  <<o, q, d.conn[<<o, h>>]>> \in Mapped(d)
  <2> DEFINE c == <<o, h>>
  <2>1. c \in Connections(d) /\ c[1] = o /\ c[2] = h
    BY <1>1, <1>3 DEF Connections
  <2>2. <<o, q, d.conn[c]>> \in {<<c[1], p, d.conn[c]>> : p \in d.host[c[2]].iqns}
    BY <1>3, <2>1
  <2> HIDE DEF c
  <2>3. <<o, q, d.conn[c]>> \in Mapped(d)
    BY <2>1, <2>2 DEF Mapped
  <2> QED
    BY <2>3 DEF c
<1>4. ASSUME NEW t \in Mapped(d) PROVE t \in Object \X Iqn \X Lun
  <2>1. PICK c \in Connections(d) : t \in {<<c[1], p, d.conn[c]>> : p \in d.host[c[2]].iqns}
    BY DEF Mapped
  <2>2. PICK p \in d.host[c[2]].iqns : t = <<c[1], p, d.conn[c]>>
    BY <2>1
  <2> QED
    BY <1>2, <2>2
<1>5. ASSUME NEW o \in Object, NEW q \in Iqn, NEW l \in Lun
      PROVE  Shows(Mapped(d), o, q, l) <=> \E h \in Host : At(d, o, h) = l /\ q \in d.host[h].iqns
  <2>1. ASSUME <<o, q, l>> \in Mapped(d)
        PROVE  \E h \in Host : d.conn[<<o, h>>] = l /\ q \in d.host[h].iqns
    BY <1>2, <2>1
  <2>2. ASSUME NEW h \in Host, d.conn[<<o, h>>] = l, q \in d.host[h].iqns
        PROVE  <<o, q, l>> \in Mapped(d)
    BY <1>3, <2>2
  <2> QED
    BY <2>1, <2>2 DEF Shows, At
<1>6. ASSUME NEW o \in Object, NEW h \in Host PROVE At(d, o, h) \in Lun <=> At(d, o, h) # None
  BY <1>1 DEF At
<1> QED
  BY <1>4, <1>5, <1>6

LEMMA ShownFrom ==
  \A d \in Db : \A o \in Object, q \in Iqn, l \in Lun :
    Shows(Mapped(d), o, q, l) => \E h \in Host : At(d, o, h) = l /\ q \in d.host[h].iqns
BY MappedMember

LEMMA ReachesShows ==
  \A tree, o, q : Reaches(tree, o, q) <=> \E l \in Lun : Shows(tree, o, q, l)
BY DEF Reaches, Shows

LEMMA MappedReaches ==
  ASSUME NEW d \in Db, NEW o \in Object, NEW q \in Iqn
  PROVE  Reaches(Mapped(d), o, q) <=>
           \E h \in Host : At(d, o, h) # None /\ q \in d.host[h].iqns
BY MappedMember, ReachesShows

\* Trees are compared by their mapped LUNs.
LEMMA TreesCompared ==
  ASSUME NEW S \in SUBSET (Object \X Iqn \X Lun), NEW T,
         \A o \in Object, q \in Iqn, l \in Lun : Shows(S, o, q, l) => Shows(T, o, q, l)
  PROVE  S \subseteq T
<1> SUFFICES ASSUME NEW t \in S PROVE t \in T
  OBVIOUS
<1>1. t = <<t[1], t[2], t[3]>> /\ t[1] \in Object /\ t[2] \in Iqn /\ t[3] \in Lun
  OBVIOUS
<1>2. Shows(S, t[1], t[2], t[3])
  BY <1>1 DEF Shows
<1>3. Shows(T, t[1], t[2], t[3])
  BY <1>1, <1>2
<1> QED
  BY <1>1, <1>3 DEF Shows

\* What is presented of a db, the objects kept out left aside.
LEMMA DesiredIs ==
  ASSUME NEW d, NEW out
  PROVE  /\ Desired(d, out) \subseteq Mapped(d)
         /\ \A o, q, l : Shows(Desired(d, out), o, q, l) <=> Shows(Mapped(d), o, q, l) /\ o \notin out
<1>1. ASSUME NEW o, NEW q, NEW l
      PROVE  <<o, q, l>> \in Desired(d, out) <=> <<o, q, l>> \in Mapped(d) /\ o \notin out
  BY DEF Desired
<1> QED
  BY <1>1 DEF Desired, Shows

LEMMA DesiredSubset ==
  ASSUME NEW d \in Db, NEW out
  PROVE  Desired(d, out) \subseteq Object \X Iqn \X Lun
BY DesiredIs, MappedMember

LEMMA DesiredSame ==
  ASSUME NEW d, NEW e, Mapped(d) = Mapped(e), NEW out, NEW other,
         \A m \in Mapped(d) : m[1] \in out <=> m[1] \in other
  PROVE  Desired(d, out) = Desired(e, other)
BY DEF Desired

\* Two dbs with the same connections, and the same initiators where there are
\* connections.
LEMMA SameMapped ==
  ASSUME NEW d \in Db, NEW e \in Db,
         \A o \in Object, h \in Host : At(d, o, h) = At(e, o, h),
         \A o \in Object, h \in Host : At(d, o, h) # None => d.host[h].iqns = e.host[h].iqns
  PROVE  Mapped(d) = Mapped(e)
<1>1. \A o \in Object, q \in Iqn, l \in Lun :
        Shows(Mapped(d), o, q, l) <=> Shows(Mapped(e), o, q, l)
  BY MappedMember
<1>2. Mapped(d) \subseteq Object \X Iqn \X Lun /\ Mapped(e) \subseteq Object \X Iqn \X Lun
  BY MappedMember
<1>3. Mapped(d) \subseteq Mapped(e) /\ Mapped(e) \subseteq Mapped(d)
  BY <1>1, <1>2, TreesCompared
<1> QED
  BY <1>3

\* An initiator belongs to one host, so it has an object at one LUN.
LEMMA MappedOneLun ==
  ASSUME NEW d, WellFormed(d)
  PROVE  OneLun(Mapped(d), Mapped(d))
<1>1. d \in Db /\ \A g, h \in Host : g # h => d.host[g].iqns \cap d.host[h].iqns = {}
  BY DEF WellFormed
<1> QED
  BY <1>1, MappedMember DEF OneLun

\* A well-formed db, connection by connection.
Consistent(d) ==
  /\ d \in Db
  /\ \A o, p \in Object : d.obj[o].name # None /\ d.obj[o].name = d.obj[p].name => o = p
  /\ \A g, h \in Host : d.host[g].name # None /\ d.host[g].name = d.host[h].name => g = h
  /\ \A g, h \in Host : g # h => d.host[g].iqns \cap d.host[h].iqns = {}
  /\ \A o \in Object, h \in Host : At(d, o, h) # None => d.obj[o].name # None /\ d.host[h].name # None
  /\ \A o, p \in Object, h \in Host : At(d, o, h) # None /\ At(d, o, h) = At(d, p, h) => o = p

LEMMA WellFormedIs ==
  ASSUME NEW d
  PROVE  WellFormed(d) <=> Consistent(d)
<1>1. ASSUME WellFormed(d) PROVE Consistent(d)
  <2>1. ASSUME NEW o \in Object, NEW h \in Host, At(d, o, h) # None
        PROVE  d.obj[o].name # None /\ d.host[h].name # None
    <3> DEFINE c == <<o, h>>
    <3>1. c \in Connections(d) /\ c[1] = o /\ c[2] = h
      BY <2>1 DEF Connections, At
    <3> HIDE DEF c
    <3> QED
      BY <1>1, <3>1 DEF WellFormed
  <2>2. ASSUME NEW o \in Object, NEW p \in Object, NEW h \in Host, At(d, o, h) # None,
               At(d, o, h) = At(d, p, h)
        PROVE  o = p
    <3> DEFINE c == <<o, h>>
               e == <<p, h>>
    <3>1. /\ c \in Connections(d) /\ c[1] = o /\ c[2] = h
          /\ e \in Connections(d) /\ e[1] = p /\ e[2] = h /\ d.conn[c] = d.conn[e]
      BY <2>2 DEF Connections, At
    <3> HIDE DEF c, e
    <3>2. c = e
      BY <1>1, <3>1 DEF WellFormed
    <3> QED
      BY <3>1, <3>2
  <2> QED
    BY <1>1, <2>1, <2>2 DEF WellFormed, Consistent
<1>2. ASSUME Consistent(d) PROVE WellFormed(d)
  <2>1. ASSUME NEW c \in Connections(d)
        PROVE  /\ c = <<c[1], c[2]>> /\ c[1] \in Object /\ c[2] \in Host
               /\ At(d, c[1], c[2]) = d.conn[c] /\ d.conn[c] # None
    BY DEF Connections, At
  <2>2. ASSUME NEW c \in Connections(d) PROVE d.obj[c[1]].name # None /\ d.host[c[2]].name # None
    BY <1>2, <2>1 DEF Consistent
  <2>3. ASSUME NEW c \in Connections(d), NEW e \in Connections(d), c[2] = e[2], d.conn[c] = d.conn[e]
        PROVE  c = e
    <3>1. At(d, c[1], c[2]) # None /\ At(d, c[1], c[2]) = At(d, e[1], c[2])
      BY <2>1, <2>3
    <3>2. c[1] = e[1]
      BY <1>2, <2>1, <3>1 DEF Consistent
    <3> QED
      BY <2>1, <2>3, <3>2
  <2> QED
    BY <1>2, <2>2, <2>3 DEF WellFormed, Consistent
<1> QED
  BY <1>1, <1>2

\* An object without a record is mapped nowhere.
LEMMA Unmapped ==
  ASSUME NEW d, WellFormed(d), NEW o \in Object, d.obj[o].name = None
  PROVE  \A m \in Mapped(d) : m[1] # o
<1>1. d \in Db /\ Consistent(d)
  BY WellFormedIs DEF Consistent
<1> SUFFICES ASSUME NEW m \in Mapped(d), m[1] = o PROVE FALSE
  OBVIOUS
<1>2. m = <<m[1], m[2], m[3]>> /\ m[2] \in Iqn /\ m[3] \in Lun
  BY <1>1, MappedMember
<1>3. Shows(Mapped(d), o, m[2], m[3])
  BY <1>2 DEF Shows
<1>4. PICK h \in Host : At(d, o, h) = m[3]
  BY <1>1, <1>2, <1>3, MappedMember
<1>5. At(d, o, h) # None
  BY <1>1, <1>2, <1>4, RequestsAssumption
<1> QED
  BY <1>1, <1>5 DEF Consistent

(***************************************************************************)
(* The changes that the handlers make to the db.                           *)
(***************************************************************************)

\* Db e is d with one record, or one connection, replaced.
ObjectSet(d, e, o, rec) ==
  /\ e \in Db /\ e.host = d.host /\ e.conn = d.conn
  /\ \A p \in Object : e.obj[p] = IF p = o THEN rec ELSE d.obj[p]
HostSet(d, e, h, rec) ==
  /\ e \in Db /\ e.obj = d.obj /\ e.conn = d.conn
  /\ \A g \in Host : e.host[g] = IF g = h THEN rec ELSE d.host[g]
LinkSet(d, e, o, h, l) ==
  /\ e \in Db /\ e.obj = d.obj /\ e.host = d.host
  /\ \A p \in Object, g \in Host : At(e, p, g) = IF p = o /\ g = h THEN l ELSE At(d, p, g)

LEMMA RecordsSet ==
  ASSUME NEW d \in Db
  PROVE  /\ \A o \in Object, rec \in ObjRecord : ObjectSet(d, [d EXCEPT !.obj[o] = rec], o, rec)
         /\ \A h \in Host, rec \in HostRecord : HostSet(d, [d EXCEPT !.host[h] = rec], h, rec)
<1>1. ASSUME NEW o \in Object, NEW rec \in ObjRecord
      PROVE  ObjectSet(d, [d EXCEPT !.obj[o] = rec], o, rec)
  BY DEF Db, ObjectSet
<1>2. ASSUME NEW h \in Host, NEW rec \in HostRecord
      PROVE  HostSet(d, [d EXCEPT !.host[h] = rec], h, rec)
  BY DEF Db, HostSet
<1> QED
  BY <1>1, <1>2

\* A record of an object: made, renamed or removed.
LEMMA ObjectChange ==
  ASSUME NEW d, WellFormed(d), NEW o \in Object, NEW rec \in ObjRecord,
         NEW e, ObjectSet(d, e, o, rec),
         rec.name = None => \A h \in Host : At(d, o, h) = None,
         rec.name # None => \A p \in Object : p # o => d.obj[p].name # rec.name
  PROVE  /\ WellFormed(e) /\ Mapped(e) = Mapped(d)
         /\ e.host = d.host
         /\ \A p \in Object : e.obj[p] = IF p = o THEN rec ELSE d.obj[p]
<1>1. Consistent(d) /\ d \in Db
  BY WellFormedIs DEF Consistent
<1>2. /\ e \in Db /\ e.host = d.host /\ e.conn = d.conn
      /\ \A p \in Object : e.obj[p] = IF p = o THEN rec ELSE d.obj[p]
  BY DEF ObjectSet
<1>3. \A p \in Object, h \in Host : At(e, p, h) = At(d, p, h)
  BY <1>2 DEF At
<1>4. Consistent(e)
  <2>1. \A p, q \in Object : e.obj[p].name # None /\ e.obj[p].name = e.obj[q].name => p = q
    BY <1>1, <1>2 DEF Consistent
  <2>2. \A p \in Object, h \in Host : At(e, p, h) # None => e.obj[p].name # None /\ e.host[h].name # None
    BY <1>1, <1>2, <1>3 DEF Consistent
  <2> QED
    BY <1>1, <1>2, <1>3, <2>1, <2>2 DEF Consistent
<1> QED
  BY <1>1, <1>2, <1>3, <1>4, WellFormedIs, SameMapped

\* A record of a host: made, renamed, bound otherwise or removed.
LEMMA HostChange ==
  ASSUME NEW d, WellFormed(d), NEW h \in Host, NEW rec \in HostRecord,
         NEW e, HostSet(d, e, h, rec),
         rec.name = None => \A o \in Object : At(d, o, h) = None,
         rec.name # None => \A g \in Host : g # h => d.host[g].name # rec.name,
         \A g \in Host : g # h => d.host[g].iqns \cap rec.iqns = {}
  PROVE  /\ WellFormed(e) /\ OneLun(Mapped(d), Mapped(e))
         /\ e.obj = d.obj
         /\ \A g \in Host : e.host[g] = IF g = h THEN rec ELSE d.host[g]
         /\ (\A o \in Object : At(d, o, h) = None) \/ rec.iqns = d.host[h].iqns
              => Mapped(e) = Mapped(d)
<1>1. Consistent(d) /\ d \in Db
  BY WellFormedIs DEF Consistent
<1>2. /\ e \in Db /\ e.obj = d.obj /\ e.conn = d.conn
      /\ \A g \in Host : e.host[g] = IF g = h THEN rec ELSE d.host[g]
  BY DEF HostSet
<1>3. \A o \in Object, g \in Host : At(e, o, g) = At(d, o, g)
  BY <1>2 DEF At
<1>4. Consistent(e)
  <2>1. \A f, g \in Host : e.host[f].name # None /\ e.host[f].name = e.host[g].name => f = g
    BY <1>1, <1>2 DEF Consistent
  <2>2. \A f, g \in Host : f # g => e.host[f].iqns \cap e.host[g].iqns = {}
    BY <1>1, <1>2 DEF Consistent
  <2>3. \A o \in Object, g \in Host : At(e, o, g) # None => e.obj[o].name # None /\ e.host[g].name # None
    BY <1>1, <1>2, <1>3 DEF Consistent
  <2> QED
    BY <1>1, <1>2, <1>3, <2>1, <2>2, <2>3 DEF Consistent
<1>5. OneLun(Mapped(d), Mapped(e))
  <2> SUFFICES ASSUME NEW o \in Object, NEW q \in Iqn, NEW l \in Lun, NEW m \in Lun,
                      Shows(Mapped(d), o, q, l), Shows(Mapped(e), o, q, m)
               PROVE  l = m
    BY DEF OneLun
  <2>1. PICK f \in Host : At(d, o, f) = l /\ q \in d.host[f].iqns
    BY <1>1, ShownFrom
  <2>2. PICK g \in Host : At(e, o, g) = m /\ q \in e.host[g].iqns
    <3>1. e \in Db
      BY <1>2
    <3> HIDE <1>2
    <3> QED
      BY <3>1, ShownFrom
  <2>3. f = g
    BY <1>1, <1>2, <2>1, <2>2 DEF Consistent
  <2> QED
    BY <1>3, <2>1, <2>2, <2>3
<1>6. (\A o \in Object : At(d, o, h) = None) \/ rec.iqns = d.host[h].iqns => Mapped(e) = Mapped(d)
  <2>1. ASSUME (\A o \in Object : At(d, o, h) = None) \/ rec.iqns = d.host[h].iqns,
               NEW o \in Object, NEW g \in Host, At(e, o, g) # None
        PROVE  e.host[g].iqns = d.host[g].iqns
    BY <1>2, <1>3, <2>1
  <2>2. e \in Db /\ d \in Db
    BY <1>1, <1>2
  <2> HIDE <1>2
  <2> QED
    BY <1>3, <2>1, <2>2, SameMapped
<1> QED
  BY <1>2, <1>4, <1>5, <1>6, WellFormedIs

LEMMA ConnectionSet ==
  ASSUME NEW d \in Db, NEW o \in Object, NEW h \in Host, NEW l \in Lun \cup {None},
         NEW e, e = [d EXCEPT !.conn[<<o, h>>] = l]
  PROVE  LinkSet(d, e, o, h, l)
<1>1. /\ e \in Db /\ e.obj = d.obj /\ e.host = d.host
      /\ e.conn = [d.conn EXCEPT ![<<o, h>>] = l] /\ d.conn \in [Object \X Host -> Lun \cup {None}]
  BY DEF Db
<1>2. ASSUME NEW p \in Object, NEW g \in Host
      PROVE  e.conn[<<p, g>>] = IF p = o /\ g = h THEN l ELSE d.conn[<<p, g>>]
  BY <1>1
<1> QED
  BY <1>1, <1>2 DEF At, LinkSet

\* A connection made where there is none and the LUN is free, or removed.
LEMMA ConnectionChange ==
  ASSUME NEW d, WellFormed(d), NEW o \in Object, NEW h \in Host, NEW l \in Lun \cup {None},
         NEW e, LinkSet(d, e, o, h, l),
         l # None => /\ At(d, o, h) = None /\ d.obj[o].name # None /\ d.host[h].name # None
                     /\ \A p \in Object : At(d, p, h) # l
  PROVE  /\ WellFormed(e) /\ OneLun(Mapped(d), Mapped(e))
         /\ e.obj = d.obj /\ e.host = d.host /\ At(e, o, h) = l
         /\ l # None => Mapped(d) \subseteq Mapped(e)
<1>1. Consistent(d) /\ d \in Db /\ None \notin Lun
  BY WellFormedIs, RequestsAssumption DEF Consistent
<1>2. e \in Db /\ e.obj = d.obj /\ e.host = d.host
  BY DEF LinkSet
<1>3. \A p \in Object, g \in Host : At(e, p, g) = IF p = o /\ g = h THEN l ELSE At(d, p, g)
  BY DEF LinkSet
<1>4. Consistent(e)
  <2>1. \A p \in Object, g \in Host : At(e, p, g) # None => e.obj[p].name # None /\ e.host[g].name # None
    BY <1>1, <1>2, <1>3 DEF Consistent
  <2>2. \A p, q \in Object, g \in Host : At(e, p, g) # None /\ At(e, p, g) = At(e, q, g) => p = q
    BY <1>1, <1>3 DEF Consistent
  <2> QED
    BY <1>1, <1>2, <2>1, <2>2 DEF Consistent
<1>5. OneLun(Mapped(d), Mapped(e))
  <2> SUFFICES ASSUME NEW p \in Object, NEW q \in Iqn, NEW k \in Lun, NEW m \in Lun,
                      Shows(Mapped(d), p, q, k), Shows(Mapped(e), p, q, m)
               PROVE  k = m
    BY DEF OneLun
  <2>1. PICK f \in Host : At(d, p, f) = k /\ q \in d.host[f].iqns
    BY <1>1, ShownFrom
  <2>2. PICK g \in Host : At(e, p, g) = m /\ q \in e.host[g].iqns
    <3>1. e \in Db
      BY <1>2
    <3> HIDE <1>2
    <3> QED
      BY <3>1, ShownFrom
  <2>3. f = g
    BY <1>1, <1>2, <2>1, <2>2 DEF Consistent
  <2> QED
    BY <1>1, <1>3, <2>1, <2>2, <2>3
<1>6. ASSUME l # None PROVE Mapped(d) \subseteq Mapped(e)
  <2>1. \A p \in Object, q \in Iqn, m \in Lun : Shows(Mapped(d), p, q, m) => Shows(Mapped(e), p, q, m)
    <3> SUFFICES ASSUME NEW p \in Object, NEW q \in Iqn, NEW m \in Lun, Shows(Mapped(d), p, q, m)
                 PROVE  Shows(Mapped(e), p, q, m)
      OBVIOUS
    <3>1. PICK g \in Host : At(d, p, g) = m /\ q \in d.host[g].iqns
      BY <1>1, MappedMember
    <3>2. At(e, p, g) = m /\ q \in e.host[g].iqns
      BY <1>1, <1>2, <1>3, <1>6, <3>1
    <3> QED
      BY <1>2, <3>2, MappedMember
  <2> QED
    BY <1>1, <2>1, MappedMember, TreesCompared
<1> QED
  BY <1>2, <1>3, <1>4, <1>5, <1>6, WellFormedIs

(***************************************************************************)
(* Steps that answer, and steps that do not.                               *)
(***************************************************************************)

LEMMA NothingTyped ==
  /\ WellFormed(EmptyDb) /\ \A m, b, c : Made(EmptyDb, m, b, c)
  /\ NoOp \in Op /\ NoOp.call = 0 /\ NoOp.obj = None /\ NoOp.next = EmptyDb
  /\ NoOp.looked = FALSE /\ NoOp.warn = {}
  /\ NoAnswer \in Answer /\ NoAnswer.call = 0 /\ NoAnswer.status = "refused"
<1>1. /\ EmptyDb \in Db
      /\ \A o \in Object : EmptyDb.obj[o] = NoObject
      /\ \A h \in Host : EmptyDb.host[h] = NoHost
      /\ \A c \in Object \X Host : EmptyDb.conn[c] = None
  BY DEF EmptyDb, Db, ObjRecord, HostRecord, NoObject, NoHost, BlockSize, DefaultBlockSize
<1>2. NoObject.name = None /\ NoHost.name = None /\ NoHost.iqns = {}
  BY DEF NoObject, NoHost
<1>3. Connections(EmptyDb) = {}
  BY <1>1 DEF Connections
<1>4. WellFormed(EmptyDb)
  BY <1>1, <1>2, <1>3 DEF WellFormed
<1>5. \A m, b, c : Made(EmptyDb, m, b, c)
  BY <1>1, <1>2 DEF Made
<1> HIDE DEF EmptyDb
<1>6. /\ NoOp \in Op /\ NoOp.call = 0 /\ NoOp.obj = None /\ NoOp.next = EmptyDb
      /\ NoOp.looked = FALSE /\ NoOp.warn = {}
  BY <1>1 DEF NoOp, Op
<1>7. NoAnswer \in Answer /\ NoAnswer.call = 0 /\ NoAnswer.status = "refused"
  BY DEF NoAnswer, Answer, Status
<1> QED
  BY <1>4, <1>5, <1>6, <1>7

LEMMA MadeStays ==
  ASSUME NEW d, NEW m, NEW b, NEW c, NEW m2, NEW b2, NEW c2,
         Made(d, m, b, c), m \subseteq m2,
         \A o \in Object : o \in m => b2[o] = b[o] /\ (b[o] # 0 => c2[b[o]] = c[b[o]])
  PROVE  Made(d, m2, b2, c2)
BY DEF Made

\* The mutex is free: the handler has answered, or the daemon has died.
LEMMA FreeStep ==
  ASSUME Typed', Made(db', minted', born', call'),
         \A o \in Object : born'[o] # 0 => o \in minted' /\ call'[born'[o]].kind = "create",
         \A o \in Object : created'[o] <= 1 /\ (o \notin minted' => created'[o] = 0),
         pc' \in {"idle", "down"}, op' = NoOp, TreeInv', HoldInv', AnswerInv',
         owed' = {},
         \A o \in Object : Releases(Mapped(db), o)' => o \in unseen' \cup told'
  PROVE  Inv'
<1>1. RecordInv'
  BY NothingTyped DEF RecordInv
<1>2. StepInv' /\ PlanInv'
  BY NothingTyped DEF StepInv, PlanInv, Busy
<1>3. FenceInv'
  BY NothingTyped DEF FenceInv
<1> QED
  BY <1>1, <1>2, <1>3 DEF Inv

\* A step that answers nothing says nothing.
LEMMA NoAnswerStep ==
  ASSUME ans' = NoAnswer, RecordInv'
  PROVE  AnswerInv'
<1>1. ans'.call = 0 /\ ans'.status = "refused"
  BY NothingTyped
<1>2. SuccessInEffect'
  BY <1>1 DEF SuccessInEffect, Succeeded
<1>3. CreateReplaySafe'
  BY <1>1 DEF CreateReplaySafe, To, RecordInv
<1> QED
  BY <1>2, <1>3 DEF AnswerInv

LEMMA TakesIs ==
  ASSUME Inv, NEW k \in Call, NEW r \in ask, Takes(k, r)
  PROVE  /\ pc = "idle" /\ op = NoOp /\ r \in Request /\ k # 0
         /\ call' \in [Call -> ask \cup {NoRequest}] /\ call'[k] = r
         /\ \A j \in Call : call[j] # NoRequest => call'[j] = call[j]
         /\ attempts' \in 0..MaxAttempts /\ ask' = ask
<1>1. /\ ask \subseteq Request /\ call \in [Call -> ask \cup {NoRequest}]
      /\ attempts \in 0..MaxAttempts /\ StepInv
  BY DEF Inv, Typed, TypeOK
<1>2. /\ pc = "idle" /\ attempts < MaxAttempts /\ (call[k] = r \/ call[k] = NoRequest)
      /\ call' = [call EXCEPT ![k] = r] /\ attempts' = attempts + 1 /\ ask' = ask
  BY DEF Takes
<1>3. op = NoOp
  BY <1>1, <1>2 DEF StepInv, Busy
<1>4. k # 0
  BY DEF Call
<1>5. attempts' \in 0..MaxAttempts
  BY <1>1, <1>2, RequestsAssumption
<1> QED
  BY <1>1, <1>2, <1>3, <1>4, <1>5

\* The calls are not forgotten, so neither is what an object was made for.
LEMMA CallsKept ==
  ASSUME Inv, NEW d, Made(d, minted, born, call),
         \A j \in Call : call[j] # NoRequest => call'[j] = call[j],
         minted \subseteq minted', \A o \in Object : o \in minted => born'[o] = born[o]
  PROVE  /\ Made(d, minted', born', call')
         /\ \A o \in Object : o \in minted /\ born[o] # 0 => call'[born[o]].kind = "create"
<1>1. ASSUME NEW o \in Object, born[o] # 0
      PROVE  call'[born[o]] = call[born[o]] /\ call[born[o]].kind = "create"
  <2>1. born[o] \in Call /\ call[born[o]].kind = "create"
    BY <1>1 DEF Inv, Typed, RecordInv
  <2>2. call[born[o]] # NoRequest
    BY <2>1 DEF NoRequest
  <2> QED
    BY <2>1, <2>2
<1>2. Made(d, minted', born', call')
  BY <1>1, MadeStays
<1> QED
  BY <1>1, <1>2

LEMMA ReturnStep ==
  ASSUME Inv, NEW k \in Call, NEW r \in ask, Takes(k, r),
         NEW status \in {"ok", "refused", "failed"}, NEW o \in Object \cup {None},
         Returns(k, status, o),
         r.kind = "create" /\ status = "refused" /\ o # None /\ born[o] = k =>
           \/ r.src \in OName /\ ObjectsByName(r.src) # {db.obj[o].src}
           \/ Filled(r.blk) # db.obj[o].blk,
         ~degraded /\ status = "ok" /\ r.kind = "connect" /\ o \notin withheld =>
           \A h \in ResolveHost(r.host) : \A q \in db.host[h].iqns : <<o, q, r.lun>> \in shown,
         ~degraded /\ status = "ok" /\ r.kind = "disconnect" =>
           \A h \in ResolveHost(r.host) : \A q \in db.host[h].iqns : ~Reaches(shown, o, q)
  PROVE  Inv'
<1>1. /\ pc = "idle" /\ op = NoOp /\ r \in Request /\ k # 0
      /\ call' \in [Call -> ask \cup {NoRequest}] /\ call'[k] = r
      /\ \A j \in Call : call[j] # NoRequest => call'[j] = call[j]
      /\ attempts' \in 0..MaxAttempts /\ ask' = ask
  BY TakesIs
<1>2. /\ UNCHANGED <<db, degraded, shown, holder, prClearing, withheld, minted, born, fences,
                     unseen, told, owed>>
      /\ ans' = [call |-> k, status |-> status, obj |-> o]
      /\ created' = created /\ pc' = "idle" /\ op' = NoOp
  BY DEF Returns, Answers, db1, kernel, hold, fence
<1>3. ans' \in Answer /\ ans'.call = k /\ ans'.status = status /\ ans'.obj = o
  BY <1>2 DEF Answer, Status
<1>4. Typed'
  <2>1. TypeOK /\ Typed
    BY DEF Inv, Typed
  <2>2. TypeOK'
    BY <1>1, <1>2, <1>3, <2>1, NothingTyped DEF TypeOK, PC, Op, Answer
  <2> QED
    BY <1>1, <1>2, <1>3, <2>1, <2>2, NothingTyped DEF Typed
<1>5. RecordInv /\ TreeInv /\ HoldInv /\ FenceInv
  BY DEF Inv
<1>6. /\ Made(db', minted', born', call')
      /\ \A p \in Object : born'[p] # 0 => p \in minted' /\ call'[born'[p]].kind = "create"
      /\ \A p \in Object : created'[p] <= 1 /\ (p \notin minted' => created'[p] = 0)
  BY <1>1, <1>2, <1>5, CallsKept DEF RecordInv
<1>7. TreeInv' /\ HoldInv'
  BY <1>1, <1>2, <1>5 DEF TreeInv, Out, HoldInv, Absent, Gone
<1>8. owed' = {} /\ \A p \in Object : Releases(Mapped(db), p)' => p \in unseen' \cup told'
  BY <1>1, <1>2, <1>5 DEF FenceInv, Releases
<1>9. CreateReplaySafe'
  <2>1. \A n : ObjectsByName(n)' = ObjectsByName(n)
    BY <1>2 DEF ObjectsByName
  <2> QED
    BY <1>1, <1>2, <1>3, <1>6, <2>1 DEF CreateReplaySafe, To, OwnRecord
<1>10. SuccessInEffect'
  <2>1. \A ref : ResolveHost(ref)' = ResolveHost(ref)
    BY <1>2 DEF ResolveHost, HostsByName, Known
  <2> QED
    BY <1>1, <1>2, <1>3, <2>1 DEF SuccessInEffect, To, Succeeded
<1> QED
  BY <1>2, <1>4, <1>6, <1>7, <1>8, <1>9, <1>10, FreeStep DEF AnswerInv

\* The handlers by their first step.
FirstStep(kind) ==
  IF kind \in {"create", "rename", "renameHost"} THEN "persist"
  ELSE IF kind \in Bindings THEN "look" ELSE "gate"

LEMMA BeginStep ==
  ASSUME Inv, NEW k \in Call, NEW r \in ask, Takes(k, r),
         NEW o \in Object \cup {None}, NEW next,
         Begins(FirstStep(r.kind), k, o, next),
         WellFormed(next), Planned(db, next, r, o),
         minted \subseteq minted', minted' \subseteq Object \cup Host,
         born' \in [Object -> Call \cup {0}],
         \A p \in Object : p \in minted => born'[p] = born[p],
         \A p \in Object : born'[p] # 0 => p \in minted' /\ call'[born'[p]].kind = "create",
         Made(next, minted', born', call'),
         \A p \in Object : p \in minted /\ next.obj[p].name # None => db.obj[p].name # None,
         r.kind = "create" => o \in Object \cap minted' /\ created[o] = 0
  PROVE  Inv'
<1>1. /\ pc = "idle" /\ op = NoOp /\ r \in Request /\ k # 0
      /\ call' \in [Call -> ask \cup {NoRequest}] /\ call'[k] = r
      /\ \A j \in Call : call[j] # NoRequest => call'[j] = call[j]
      /\ attempts' \in 0..MaxAttempts /\ ask' = ask
  BY TakesIs
<1>2. /\ UNCHANGED <<db, degraded, shown, holder, prClearing, withheld, created, fences, unseen,
                     told, owed>>
      /\ pc' = FirstStep(r.kind) /\ ans' = NoAnswer
      /\ op' = [NoOp EXCEPT !.call = k, !.obj = o, !.next = next]
  BY DEF Begins, db1, kernel, hold, fence
<1>3. /\ op' \in Op /\ op'.call = k /\ op'.obj = o /\ op'.next = next
      /\ op'.looked = FALSE /\ op'.warn = {}
  BY <1>2, NothingTyped DEF Op, WellFormed
<1>4. r.kind \in Kinds /\ r # NoRequest /\ FirstStep(r.kind) \in {"persist", "look", "gate"}
  BY <1>1, RequestIs DEF FirstStep
<1>5. Typed'
  <2>1. TypeOK /\ Typed
    BY DEF Inv, Typed
  <2>2. TypeOK'
    BY <1>1, <1>2, <1>3, <1>4, <2>1, NothingTyped DEF TypeOK, PC, Op, Answer
  <2> QED
    BY <1>1, <1>2, <1>3, <2>1, <2>2, NothingTyped DEF Typed
<1>6. RecordInv /\ TreeInv /\ HoldInv /\ FenceInv
  BY DEF Inv
<1>7. RecordInv'
  <2>1. Made(db', minted', born', call')
    BY <1>1, <1>2, <1>6, CallsKept DEF RecordInv
  <2> QED
    BY <1>2, <1>3, <1>6, <2>1 DEF RecordInv
<1>8. Req' = r
  BY <1>1, <1>3 DEF Req
<1>9. StepInv'
  BY <1>1, <1>2, <1>3, <1>4, <1>8
  DEF StepInv, Busy, FirstStep, Kinds, Still, Lossy, Bindings
<1>10. PlanInv'
  BY <1>2, <1>3, <1>8 DEF PlanInv
<1>11. TreeInv' /\ HoldInv'
  <2>1. TreeInv'
    BY <1>1, <1>2, <1>4, <1>6 DEF TreeInv, Out
  <2>2. Absent' /\ withheld' \subseteq minted' /\ prClearing' \in minted' \cup {None}
    BY <1>2, <1>6 DEF HoldInv, Absent
  <2>3. prClearing' \in withheld' \cup {None} \/ (Gone(db)' /\ Gone(op.next)')
    BY <1>1, <1>2, <1>3, <1>6 DEF HoldInv, Gone
  <2> QED
    BY <1>2, <1>4, <2>1, <2>2, <2>3 DEF HoldInv
<1>12. FenceInv'
  BY <1>1, <1>2, <1>3, <1>4, <1>6 DEF FenceInv, Releases
<1> QED
  BY <1>2, <1>5, <1>7, <1>9, <1>10, <1>11, <1>12, NoAnswerStep DEF Inv

(***************************************************************************)
(* The handlers.                                                           *)
(***************************************************************************)

\* A handler that mints nothing, and whose db has the objects and hosts of the
\* old one, or fewer.
LEMMA BeginPlain ==
  ASSUME Inv, NEW k \in Call, NEW r \in ask, Takes(k, r), r.kind # "create",
         NEW o \in Object \cup {None}, NEW next,
         Begins(FirstStep(r.kind), k, o, next), UNCHANGED <<minted, born>>,
         WellFormed(next), Planned(db, next, r, o),
         \A p \in Object : next.obj[p].name # None =>
           /\ db.obj[p].name # None
           /\ next.obj[p].src = db.obj[p].src /\ next.obj[p].blk = db.obj[p].blk,
         \A h \in Host : next.host[h].name # None => db.host[h].name # None
  PROVE  Inv'
<1>1. /\ Typed /\ RecordInv /\ minted \subseteq Object \cup Host
      /\ born \in [Object -> Call \cup {0}]
  BY DEF Inv, Typed, TypeOK
<1>2. \A j \in Call : call[j] # NoRequest => call'[j] = call[j]
  BY TakesIs
<1>3. Made(next, minted, born, call)
  BY <1>1 DEF RecordInv, Made
<1>4. /\ Made(next, minted', born', call')
      /\ \A p \in Object : born'[p] # 0 => p \in minted' /\ call'[born'[p]].kind = "create"
  BY <1>1, <1>2, <1>3, CallsKept DEF RecordInv
<1> QED
  BY <1>1, <1>4, BeginStep

LEMMA PlannedStill ==
  ASSUME NEW d, NEW e, NEW r, NEW o, WellFormed(d), Mapped(e) = Mapped(d),
         r.kind \notin {"connect", "disconnect"},
         r.kind = "delete" => o \in Object /\ e.obj[o].name = None,
         r.kind = "clear" => o \in Object /\ e = d /\ d.obj[o].name # None
  PROVE  Planned(d, e, r, o)
BY MappedOneLun DEF Planned

LEMMA CreateAgainStep == ASSUME Inv, NEW k \in Call, NEW r \in ask, CreateAgain(k, r) PROVE Inv'
<1>1. PICK e \in ObjectsByName(r.name) :
        /\ r.kind = "create" /\ Takes(k, r)
        /\ \/ Returns(k, "ok", e)
           \/ ~MatchExisting(e, r, Filled(r.blk)) /\ Returns(k, "refused", e)
  BY DEF CreateAgain, CreatedCode
<1>2. /\ WellFormed(db) /\ RecordInv /\ r \in Request /\ call'[k] = r /\ k # 0
      /\ \A j \in Call : call[j] # NoRequest => call'[j] = call[j]
  BY <1>1, TakesIs DEF Inv, Typed, TypeOK
<1>3. e \in Object /\ r.name \in OName /\ db.obj[e].name # None /\ r.src \in OName \cup Object \cup {None}
  BY <1>1, <1>2, RequestIs, RequestsAssumption DEF ObjectsByName, ORef
<1>4. CASE Returns(k, "ok", e)
  BY <1>1, <1>3, <1>4, ReturnStep
<1>5. CASE ~MatchExisting(e, r, Filled(r.blk)) /\ Returns(k, "refused", e)
  <2>1. ASSUME born[e] = k
        PROVE  \/ r.src \in OName /\ ObjectsByName(r.src) # {db.obj[e].src}
               \/ Filled(r.blk) # db.obj[e].blk
    <3> SUFFICES ASSUME Filled(r.blk) = db.obj[e].blk
                 PROVE  r.src \in OName /\ ObjectsByName(r.src) # {db.obj[e].src}
      OBVIOUS
    <3>1. r.src \notin {None, db.obj[e].src} /\ db.obj[e].src \notin ResolveObject(r.src)
      BY <1>5 DEF MatchExisting
    <3>2. call[k] = r
      <4>1. call[k].kind = "create"
        BY <1>2, <1>3, <2>1 DEF RecordInv
      <4> QED
        BY <1>2, <4>1 DEF NoRequest
    <3>3. r.src \in Object \ OName => db.obj[e].src = r.src
      BY <1>2, <1>3, <2>1, <3>2 DEF RecordInv, Made
    <3>4. r.src \in OName
      BY <1>3, <3>1, <3>3
    <3> QED
      BY <3>1, <3>4 DEF ResolveObject
  <2> QED
    BY <1>1, <1>3, <1>5, <2>1, ReturnStep
<1> QED
  BY <1>1, <1>4, <1>5

LEMMA CreateStep == ASSUME Inv, NEW k \in Call, NEW r \in ask, Create(k, r) PROVE Inv'
<1> DEFINE src == ResolveObject(r.src)
           s == CHOOSE x \in src : TRUE
           rec == [name |-> r.name,
                   blk |-> IF src = {} THEN Filled(r.blk) ELSE db.obj[s].blk,
                   src |-> IF src = {} THEN None ELSE s]
<1>1. /\ r.kind = "create" /\ Takes(k, r) /\ ObjectsByName(r.name) = {}
      /\ \/ Returns(k, "refused", None)
         \/ Returns(k, "failed", None)
         \/ /\ r.src = None \/ src # {}
            /\ \E o \in Object \ minted :
                 /\ minted' = minted \cup {o} /\ born' = [born EXCEPT ![o] = k]
                 /\ Begins("persist", k, o, [db EXCEPT !.obj[o] = rec])
  BY DEF Create
<1>2. /\ WellFormed(db) /\ db \in Db /\ RecordInv /\ r \in Request /\ call'[k] = r /\ k # 0
      /\ \A j \in Call : call[j] # NoRequest => call'[j] = call[j]
      /\ minted \subseteq Object \cup Host /\ born \in [Object -> Call \cup {0}]
  BY <1>1, TakesIs DEF Inv, Typed, TypeOK, WellFormed
<1>3. /\ r.name \in OName /\ r.blk \in BlockSize \cup {0} /\ r.src \in ORef \cup {None}
      /\ r.name # None
  BY <1>1, <1>2, RequestIs, RequestsAssumption
<1>4. CASE Returns(k, "refused", None) \/ Returns(k, "failed", None)
  BY <1>1, <1>4, ReturnStep
<1>5. ASSUME r.src = None \/ src # {}, NEW o \in Object \ minted,
             minted' = minted \cup {o}, born' = [born EXCEPT ![o] = k],
             Begins("persist", k, o, [db EXCEPT !.obj[o] = rec])
      PROVE  Inv'
  <2>1. src # {} => s \in src /\ s \in Object /\ db.obj[s] \in ObjRecord
    BY <1>2, ResolvedObject DEF Db
  <2>2. rec \in ObjRecord /\ rec.name = r.name
    BY <1>3, <2>1 DEF ObjRecord, Filled, BlockSize, DefaultBlockSize
  <2>3. /\ r.src = None => rec.src = None /\ rec.blk = Filled(r.blk)
        /\ r.src \in Object \ OName => rec.src = r.src
    <3>1. r.src = None => src = {}
      BY <1>2, ResolvedObject
    <3>2. ASSUME r.src \in Object \ OName PROVE src # {} /\ s = r.src
      BY <1>2, <1>5, <2>1, <3>2, ResolvedObject, RequestsAssumption
    <3> QED
      BY <3>1, <3>2
  <2> HIDE DEF src, s, rec
  <2> DEFINE next == [db EXCEPT !.obj[o] = rec]
  <2>4. \A p \in Object : p # o => db.obj[p].name # rec.name
    BY <1>1, <2>2 DEF ObjectsByName
  <2>5. /\ WellFormed(next) /\ Mapped(next) = Mapped(db) /\ next.host = db.host
        /\ \A p \in Object : next.obj[p] = IF p = o THEN rec ELSE db.obj[p]
    <3>1. ObjectSet(db, next, o, rec)
      BY <1>2, <2>2, RecordsSet
    <3> HIDE DEF next
    <3> QED
      BY <1>2, <1>3, <2>2, <2>4, <3>1, ObjectChange
  <2> HIDE DEF next
  <2>6. Planned(db, next, r, o)
    BY <1>1, <1>2, <2>5, PlannedStill
  <2>7. /\ born' \in [Object -> Call \cup {0}] /\ born'[o] = k
        /\ \A p \in Object : p # o => born'[p] = born[p]
    BY <1>2, <1>5
  <2>8. /\ Made(db, minted', born', call')
        /\ \A p \in Object : p \in minted /\ born[p] # 0 => call'[born[p]].kind = "create"
    BY <1>2, <1>5, <2>7, CallsKept DEF RecordInv
  <2>9. Made(next, minted', born', call')
    BY <1>2, <1>5, <2>3, <2>5, <2>7, <2>8 DEF Made
  <2>10. \A p \in Object : born'[p] # 0 => p \in minted' /\ call'[born'[p]].kind = "create"
    BY <1>1, <1>2, <1>5, <2>7, <2>8 DEF RecordInv
  <2>11. Begins(FirstStep(r.kind), k, o, next)
    BY <1>1, <1>5 DEF FirstStep, next
  <2>12. created[o] = 0 /\ o \in Object \cap minted'
    BY <1>2, <1>5 DEF RecordInv
  <2>13. minted \subseteq minted' /\ minted' \subseteq Object \cup Host
    BY <1>2, <1>5
  <2>14. \A p \in Object : p \in minted => born'[p] = born[p]
    BY <1>5, <2>7
  <2>15. \A p \in Object : p \in minted /\ next.obj[p].name # None => db.obj[p].name # None
    BY <1>5, <2>5
  <2> QED
    BY <1>1, <1>5, <2>5, <2>6, <2>7, <2>9, <2>10, <2>11, <2>12, <2>13, <2>14, <2>15, BeginStep
<1> QED
  BY <1>1, <1>4, <1>5

LEMMA RenameStep == ASSUME Inv, NEW k \in Call, NEW r \in ask, Rename(k, r) PROVE Inv'
<1>1. /\ r.kind = "rename" /\ Takes(k, r)
      /\ \/ Returns(k, "refused", None)
         \/ \E o \in ResolveObject(r.ref) :
              \/ Returns(k, "ok", o) \/ Returns(k, "refused", o)
              \/ /\ ObjectsByName(r.name) = {}
                 /\ Begins("persist", k, o, [db EXCEPT !.obj[o].name = r.name])
                 /\ UNCHANGED <<minted, born>>
  BY DEF Rename, WithObject
<1>2. WellFormed(db) /\ db \in Db /\ r \in Request
  BY <1>1, TakesIs DEF Inv, Typed, TypeOK, WellFormed
<1>3. r.name \in OName /\ r.name # None
  BY <1>1, <1>2, RequestIs, RequestsAssumption
<1>4. CASE Returns(k, "refused", None)
  BY <1>1, <1>4, ReturnStep
<1>5. ASSUME NEW o \in ResolveObject(r.ref), Returns(k, "ok", o) \/ Returns(k, "refused", o)
      PROVE  Inv'
  BY <1>1, <1>2, <1>5, ResolvedObject, ReturnStep
<1>6. ASSUME NEW o \in ResolveObject(r.ref), ObjectsByName(r.name) = {},
             Begins("persist", k, o, [db EXCEPT !.obj[o].name = r.name]),
             UNCHANGED <<minted, born>>
      PROVE  Inv'
  <2> DEFINE rec == [db.obj[o] EXCEPT !.name = r.name]
             next == [db EXCEPT !.obj[o] = rec]
  <2>1. o \in Object /\ db.obj[o] \in ObjRecord /\ db.obj[o].name # None
    BY <1>2, ResolvedObject DEF Db, Recorded
  <2>2. /\ rec \in ObjRecord /\ rec.name = r.name /\ rec.src = db.obj[o].src
        /\ rec.blk = db.obj[o].blk
    BY <1>3, <2>1 DEF ObjRecord
  <2>3. Begins(FirstStep(r.kind), k, o, next)
    BY <1>1, <1>6 DEF FirstStep
  <2> HIDE DEF rec
  <2>4. \A p \in Object : p # o => db.obj[p].name # rec.name
    BY <1>6, <2>2 DEF ObjectsByName
  <2>5. /\ WellFormed(next) /\ Mapped(next) = Mapped(db) /\ next.host = db.host
        /\ \A p \in Object : next.obj[p] = IF p = o THEN rec ELSE db.obj[p]
    <3>1. ObjectSet(db, next, o, rec)
      BY <1>2, <2>1, <2>2, RecordsSet
    <3> HIDE DEF next
    <3> QED
      BY <1>2, <1>3, <2>1, <2>2, <2>4, <3>1, ObjectChange
  <2> HIDE DEF next
  <2>6. Planned(db, next, r, o)
    BY <1>1, <1>2, <2>5, PlannedStill
  <2> QED
    BY <1>1, <1>6, <2>1, <2>2, <2>3, <2>5, <2>6, BeginPlain
<1> QED
  BY <1>1, <1>4, <1>5, <1>6

LEMMA DeleteStep == ASSUME Inv, NEW k \in Call, NEW r \in ask, Delete(k, r) PROVE Inv'
<1>1. /\ r.kind = "delete" /\ Takes(k, r)
      /\ \/ Returns(k, "refused", None)
         \/ \E o \in ResolveObject(r.ref) :
              \/ Returns(k, "refused", o)
              \/ /\ ~\E c \in Connections(db) : c[1] = o
                 /\ Begins("gate", k, o, [db EXCEPT !.obj[o] = NoObject])
                 /\ UNCHANGED <<minted, born>>
  BY DEF Delete, WithObject
<1>2. WellFormed(db) /\ db \in Db /\ r \in Request
  BY <1>1, TakesIs DEF Inv, Typed, TypeOK, WellFormed
<1>3. CASE Returns(k, "refused", None)
  BY <1>1, <1>3, ReturnStep
<1>4. ASSUME NEW o \in ResolveObject(r.ref), Returns(k, "refused", o)
      PROVE  Inv'
  BY <1>1, <1>2, <1>4, ResolvedObject, ReturnStep
<1>5. ASSUME NEW o \in ResolveObject(r.ref), ~\E c \in Connections(db) : c[1] = o,
             Begins("gate", k, o, [db EXCEPT !.obj[o] = NoObject]),
             UNCHANGED <<minted, born>>
      PROVE  Inv'
  <2> DEFINE next == [db EXCEPT !.obj[o] = NoObject]
  <2>1. o \in Object
    BY <1>2, ResolvedObject
  <2>2. NoObject \in ObjRecord /\ NoObject.name = None
    BY DEF ObjRecord, NoObject, BlockSize, DefaultBlockSize
  <2>3. ASSUME NEW h \in Host PROVE At(db, o, h) = None
    <3> DEFINE c == <<o, h>>
    <3>1. c \in Object \X Host /\ c[1] = o
      BY <2>1
    <3>2. db.conn[c] = None
      BY <1>5, <3>1 DEF Connections
    <3> QED
      BY <3>2 DEF At
  <2>4. Begins(FirstStep(r.kind), k, o, next)
    BY <1>1, <1>5 DEF FirstStep, Bindings
  <2>5. /\ WellFormed(next) /\ Mapped(next) = Mapped(db) /\ next.host = db.host
        /\ \A p \in Object : next.obj[p] = IF p = o THEN NoObject ELSE db.obj[p]
    <3>1. ObjectSet(db, next, o, NoObject)
      BY <1>2, <2>1, <2>2, RecordsSet
    <3> HIDE DEF next
    <3> QED
      BY <1>2, <2>1, <2>2, <2>3, <3>1, ObjectChange
  <2> HIDE DEF next
  <2>6. Planned(db, next, r, o)
    BY <1>1, <1>2, <2>1, <2>2, <2>5, PlannedStill
  <2> QED
    BY <1>1, <1>5, <2>1, <2>2, <2>4, <2>5, <2>6, BeginPlain
<1> QED
  BY <1>1, <1>3, <1>4, <1>5

\* What a connection means for the initiators of its host, once it is
\* presented.
LEMMA LinkPresented ==
  ASSUME NEW d, WellFormed(d), NEW o \in Object, NEW h \in Host
  PROVE  /\ At(d, o, h) \in Lun => /\ d.obj[o].name # None
                                  /\ \A q \in d.host[h].iqns : <<o, q, At(d, o, h)>> \in Mapped(d)
         /\ At(d, o, h) = None => \A q \in d.host[h].iqns : ~Reaches(Mapped(d), o, q)
<1>1. d \in Db /\ Consistent(d) /\ d.host[h].iqns \subseteq Iqn
  BY WellFormedIs DEF Consistent, Db, HostRecord
<1>2. ASSUME At(d, o, h) \in Lun, NEW q \in d.host[h].iqns
      PROVE  <<o, q, At(d, o, h)>> \in Mapped(d)
  <2>1. Shows(Mapped(d), o, q, At(d, o, h))
    BY <1>1, <1>2, MappedMember
  <2> QED
    BY <2>1 DEF Shows
<1>3. ASSUME At(d, o, h) = None, NEW q \in d.host[h].iqns
      PROVE  ~Reaches(Mapped(d), o, q)
  <2> SUFFICES ASSUME Reaches(Mapped(d), o, q) PROVE FALSE
    OBVIOUS
  <2>1. PICK g \in Host : At(d, o, g) # None /\ q \in d.host[g].iqns
    BY <1>1, MappedReaches
  <2> QED
    BY <1>1, <1>3, <2>1 DEF Consistent
<1>4. At(d, o, h) \in Lun => d.obj[o].name # None
  BY <1>1, RequestsAssumption DEF Consistent
<1> QED
  BY <1>2, <1>3, <1>4

\* The same of what is presented: an object that is connected, recorded and
\* not withheld is there; one that is not connected is not.
LEMMA LinkShown ==
  ASSUME NEW d, WellFormed(d), NEW o \in Object, NEW h \in Host, NEW w, NEW p, NEW out,
         out = w \cup {p}, p \in w \cup {None} \/ (p \in Object => d.obj[p].name = None)
  PROVE  /\ At(d, o, h) \in Lun /\ o \notin w =>
              \A q \in d.host[h].iqns : <<o, q, At(d, o, h)>> \in Desired(d, out)
         /\ At(d, o, h) = None => \A q \in d.host[h].iqns : ~Reaches(Desired(d, out), o, q)
<1>1. ASSUME At(d, o, h) \in Lun, o \notin w, NEW q \in d.host[h].iqns
      PROVE  <<o, q, At(d, o, h)>> \in Desired(d, out)
  <2>1. o \notin out
    BY <1>1, LinkPresented, RequestsAssumption
  <2>2. Shows(Mapped(d), o, q, At(d, o, h))
    BY <1>1, LinkPresented DEF Shows
  <2> QED
    BY <2>1, <2>2, DesiredIs DEF Shows
<1>2. ASSUME At(d, o, h) = None, NEW q \in d.host[h].iqns
      PROVE  ~Reaches(Desired(d, out), o, q)
  <2>1. ~Reaches(Mapped(d), o, q)
    BY <1>2, LinkPresented
  <2> QED
    BY <2>1, DesiredIs, ReachesShows
<1> QED
  BY <1>1, <1>2

LEMMA ConnectStep == ASSUME Inv, NEW k \in Call, NEW r \in ask, Connect(k, r) PROVE Inv'
<1>1. /\ r.kind = "connect" /\ Takes(k, r)
      /\ \/ Returns(k, "refused", None)
         \/ \E o \in ResolveObject(r.ref), h \in ResolveHost(r.host) :
              \/ Returns(k, "refused", o)
              \/ At(db, o, h) = r.lun /\ Returns(k, "ok", o)
              \/ /\ At(db, o, h) = None /\ \A p \in Object : At(db, p, h) # r.lun
                 /\ Begins("gate", k, o, [db EXCEPT !.conn[<<o, h>>] = r.lun])
                 /\ UNCHANGED <<minted, born>>
  BY DEF Connect, WithObject, WithHost, CreatedCode, At
<1>2. /\ WellFormed(db) /\ db \in Db /\ r \in Request /\ TreeInv /\ HoldInv /\ pc = "idle"
  BY <1>1, TakesIs DEF Inv, Typed, TypeOK, WellFormed
<1>3. r.lun \in Lun /\ r.lun # None
  BY <1>1, <1>2, RequestIs, RequestsAssumption
<1>4. CASE Returns(k, "refused", None)
  BY <1>1, <1>4, ReturnStep
<1>5. ASSUME NEW o \in ResolveObject(r.ref), NEW h \in ResolveHost(r.host)
      PROVE  /\ o \in Object /\ h \in Host /\ db.obj[o].name # None /\ db.host[h].name # None
             /\ \A g \in ResolveHost(r.host) : g = h
  BY <1>2, ResolvedObject, ResolvedHost DEF Recorded, Known
<1>6. ASSUME NEW o \in ResolveObject(r.ref), NEW h \in ResolveHost(r.host), Returns(k, "refused", o)
      PROVE  Inv'
  BY <1>1, <1>5, <1>6, ReturnStep
<1>7. ASSUME NEW o \in ResolveObject(r.ref), NEW h \in ResolveHost(r.host),
             At(db, o, h) = r.lun, Returns(k, "ok", o)
      PROVE  Inv'
  <2>1. ~degraded /\ o \notin withheld => \A q \in db.host[h].iqns : <<o, q, r.lun>> \in shown
    <3>1. prClearing \in withheld \cup {None} \/ (prClearing \in Object => db.obj[prClearing].name = None)
      BY <1>2 DEF HoldInv, Gone
    <3>2. ~degraded => shown = Desired(db, Out)
      BY <1>2 DEF TreeInv
    <3> QED
      BY <1>2, <1>3, <1>5, <1>7, <3>1, <3>2, LinkShown DEF Out
  <2> QED
    BY <1>1, <1>5, <1>7, <2>1, ReturnStep
<1>8. ASSUME NEW o \in ResolveObject(r.ref), NEW h \in ResolveHost(r.host),
             At(db, o, h) = None, \A p \in Object : At(db, p, h) # r.lun,
             Begins("gate", k, o, [db EXCEPT !.conn[<<o, h>>] = r.lun]),
             UNCHANGED <<minted, born>>
      PROVE  Inv'
  <2> DEFINE next == [db EXCEPT !.conn[<<o, h>>] = r.lun]
  <2>1. LinkSet(db, next, o, h, r.lun)
    BY <1>2, <1>3, <1>5, ConnectionSet
  <2>2. Begins(FirstStep(r.kind), k, o, next)
    BY <1>1, <1>8 DEF FirstStep, Bindings
  <2> HIDE DEF next
  <2>3. /\ WellFormed(next) /\ OneLun(Mapped(db), Mapped(next))
        /\ next.obj = db.obj /\ next.host = db.host /\ At(next, o, h) = r.lun
        /\ Mapped(db) \subseteq Mapped(next)
    BY <1>2, <1>3, <1>5, <1>8, <2>1, ConnectionChange
  <2>4. ResolvedIn(next, r.host) = ResolveHost(r.host)
    <3>1. ResolvedIn(next, r.host) = ResolvedIn(db, r.host)
      BY <2>3 DEF ResolvedIn
    <3> QED
      BY <1>2, <3>1, ResolvedHost
  <2>5. Planned(db, next, r, o)
    BY <1>1, <1>5, <2>3, <2>4 DEF Planned, Still
  <2> QED
    BY <1>1, <1>5, <1>8, <2>2, <2>3, <2>5, BeginPlain
<1> QED
  BY <1>1, <1>4, <1>6, <1>7, <1>8

LEMMA DisconnectStep == ASSUME Inv, NEW k \in Call, NEW r \in ask, Disconnect(k, r) PROVE Inv'
<1>1. /\ r.kind = "disconnect" /\ Takes(k, r)
      /\ \/ Returns(k, "refused", None)
         \/ \E o \in ResolveObject(r.ref), h \in ResolveHost(r.host) :
              \/ At(db, o, h) = None /\ Returns(k, "ok", o)
              \/ /\ Begins("gate", k, o, [db EXCEPT !.conn[<<o, h>>] = None])
                 /\ UNCHANGED <<minted, born>>
  BY DEF Disconnect, WithObject, WithHost, At
<1>2. /\ WellFormed(db) /\ db \in Db /\ TreeInv /\ HoldInv /\ pc = "idle"
  BY <1>1, TakesIs DEF Inv, Typed, TypeOK, WellFormed
<1>3. CASE Returns(k, "refused", None)
  BY <1>1, <1>3, ReturnStep
<1>4. ASSUME NEW o \in ResolveObject(r.ref), NEW h \in ResolveHost(r.host)
      PROVE  /\ o \in Object /\ h \in Host
             /\ \A g \in ResolveHost(r.host) : g = h
  BY <1>2, ResolvedObject, ResolvedHost
<1>5. ASSUME NEW o \in ResolveObject(r.ref), NEW h \in ResolveHost(r.host),
             At(db, o, h) = None, Returns(k, "ok", o)
      PROVE  Inv'
  <2>1. ~degraded => \A q \in db.host[h].iqns : ~Reaches(shown, o, q)
    <3>1. prClearing \in withheld \cup {None} \/ (prClearing \in Object => db.obj[prClearing].name = None)
      BY <1>2 DEF HoldInv, Gone
    <3>2. ~degraded => shown = Desired(db, Out)
      BY <1>2 DEF TreeInv
    <3> QED
      BY <1>2, <1>4, <1>5, <3>1, <3>2, LinkShown DEF Out
  <2> QED
    BY <1>1, <1>4, <1>5, <2>1, ReturnStep
<1>6. ASSUME NEW o \in ResolveObject(r.ref), NEW h \in ResolveHost(r.host),
             Begins("gate", k, o, [db EXCEPT !.conn[<<o, h>>] = None]),
             UNCHANGED <<minted, born>>
      PROVE  Inv'
  <2> DEFINE next == [db EXCEPT !.conn[<<o, h>>] = None]
  <2>1. LinkSet(db, next, o, h, None)
    BY <1>2, <1>4, ConnectionSet
  <2>2. Begins(FirstStep(r.kind), k, o, next)
    BY <1>1, <1>6 DEF FirstStep, Bindings
  <2> HIDE DEF next
  <2>3. /\ WellFormed(next) /\ OneLun(Mapped(db), Mapped(next))
        /\ next.obj = db.obj /\ next.host = db.host /\ At(next, o, h) = None
    BY <1>2, <1>4, <2>1, ConnectionChange
  <2>4. ResolvedIn(next, r.host) = ResolveHost(r.host)
    <3>1. ResolvedIn(next, r.host) = ResolvedIn(db, r.host)
      BY <2>3 DEF ResolvedIn
    <3> QED
      BY <1>2, <3>1, ResolvedHost
  <2>5. Planned(db, next, r, o)
    BY <1>1, <1>4, <2>3, <2>4 DEF Planned, Still, Lossy
  <2> QED
    BY <1>1, <1>4, <1>6, <2>2, <2>3, <2>5, BeginPlain
<1> QED
  BY <1>1, <1>3, <1>5, <1>6

\* A host that is made is connected to nothing.
LEMMA CreateHostStep == ASSUME Inv, NEW k \in Call, NEW r \in ask, CreateHost(k, r) PROVE Inv'
<1> DEFINE rec == [name |-> r.name, iqns |-> r.iqns]
<1>1. /\ r.kind = "createHost" /\ Takes(k, r)
      /\ \/ Returns(k, "refused", None) \/ Returns(k, "ok", None)
         \/ /\ HostsByName(r.name) = {} /\ CheckIQNs(r.iqns, None)
            /\ \E h \in Host \ minted :
                 /\ minted' = minted \cup {h}
                 /\ Begins("gate", k, None, [db EXCEPT !.host[h] = rec])
                 /\ UNCHANGED born
  BY DEF CreateHost, CreatedCode
<1>2. /\ WellFormed(db) /\ db \in Db /\ RecordInv /\ r \in Request /\ call'[k] = r
      /\ \A j \in Call : call[j] # NoRequest => call'[j] = call[j]
      /\ minted \subseteq Object \cup Host /\ born \in [Object -> Call \cup {0}]
  BY <1>1, TakesIs DEF Inv, Typed, TypeOK, WellFormed
<1>3. r.name \in HName /\ r.iqns \subseteq Iqn /\ r.name # None
  BY <1>1, <1>2, RequestIs, RequestsAssumption
<1>4. CASE Returns(k, "refused", None) \/ Returns(k, "ok", None)
  BY <1>1, <1>4, ReturnStep
<1>5. ASSUME HostsByName(r.name) = {}, CheckIQNs(r.iqns, None),
             NEW h \in Host \ minted, minted' = minted \cup {h}, UNCHANGED born,
             Begins("gate", k, None, [db EXCEPT !.host[h] = rec])
      PROVE  Inv'
  <2> DEFINE next == [db EXCEPT !.host[h] = rec]
  <2>1. rec \in HostRecord /\ rec.name = r.name /\ rec.iqns = r.iqns
    BY <1>3 DEF HostRecord
  <2> HIDE DEF rec
  <2>2. HostSet(db, next, h, rec)
    BY <1>2, <2>1, RecordsSet
  <2>3. Begins(FirstStep(r.kind), k, None, next)
    BY <1>1, <1>5 DEF FirstStep, Bindings
  <2> HIDE DEF next
  <2>4. /\ \A g \in Host : g # h => db.host[g].name # rec.name
        /\ \A g \in Host : db.host[g].iqns \cap rec.iqns = {}
    BY <1>5, <2>1, RequestsAssumption DEF HostsByName, CheckIQNs
  <2>5. \A o \in Object : At(db, o, h) = None
    <3>1. db.host[h].name = None
      BY <1>2, <1>5 DEF RecordInv, Made
    <3> QED
      BY <1>2, <3>1, WellFormedIs DEF Consistent
  <2>6. /\ WellFormed(next) /\ next.obj = db.obj /\ Mapped(next) = Mapped(db)
        /\ \A g \in Host : next.host[g] = IF g = h THEN rec ELSE db.host[g]
    BY <1>2, <1>3, <2>1, <2>2, <2>4, <2>5, HostChange
  <2>7. Planned(db, next, r, None)
    BY <1>1, <1>2, <2>6, PlannedStill
  <2>8. /\ Made(db, minted', born', call')
        /\ \A p \in Object : p \in minted /\ born[p] # 0 => call'[born[p]].kind = "create"
    BY <1>2, <1>5, CallsKept DEF RecordInv
  <2>9. Made(next, minted', born', call')
    BY <1>5, <2>6, <2>8 DEF Made
  <2>10. \A p \in Object : born'[p] # 0 => p \in minted' /\ call'[born'[p]].kind = "create"
    BY <1>2, <1>5, <2>8 DEF RecordInv
  <2>11. minted \subseteq minted' /\ minted' \subseteq Object \cup Host
    BY <1>2, <1>5
  <2>12. \A p \in Object : p \in minted /\ next.obj[p].name # None => db.obj[p].name # None
    BY <2>6
  <2> QED
    BY <1>1, <1>2, <1>5, <2>3, <2>6, <2>7, <2>9, <2>10, <2>11, <2>12, BeginStep
<1> QED
  BY <1>1, <1>4, <1>5

LEMMA RenameHostStep == ASSUME Inv, NEW k \in Call, NEW r \in ask, RenameHost(k, r) PROVE Inv'
<1>1. /\ r.kind = "renameHost" /\ Takes(k, r)
      /\ \/ Returns(k, "refused", None) \/ Returns(k, "ok", None)
         \/ /\ HostsByName(r.name) = {}
            /\ \E h \in ResolveHost(r.ref) :
                 /\ Begins("persist", k, None, [db EXCEPT !.host[h].name = r.name])
                 /\ UNCHANGED <<minted, born>>
  BY DEF RenameHost, WithHost
<1>2. WellFormed(db) /\ db \in Db /\ r \in Request
  BY <1>1, TakesIs DEF Inv, Typed, TypeOK, WellFormed
<1>3. r.name \in HName /\ r.name # None
  BY <1>1, <1>2, RequestIs, RequestsAssumption
<1>4. CASE Returns(k, "refused", None) \/ Returns(k, "ok", None)
  BY <1>1, <1>4, ReturnStep
<1>5. ASSUME HostsByName(r.name) = {}, NEW h \in ResolveHost(r.ref),
             Begins("persist", k, None, [db EXCEPT !.host[h].name = r.name]),
             UNCHANGED <<minted, born>>
      PROVE  Inv'
  <2> DEFINE rec == [db.host[h] EXCEPT !.name = r.name]
             next == [db EXCEPT !.host[h] = rec]
  <2>1. h \in Host /\ db.host[h] \in HostRecord /\ db.host[h].name # None
    BY <1>2, ResolvedHost DEF Db, Known
  <2>2. rec \in HostRecord /\ rec.name = r.name /\ rec.iqns = db.host[h].iqns
    BY <1>3, <2>1 DEF HostRecord
  <2>3. Begins(FirstStep(r.kind), k, None, next)
    BY <1>1, <1>5 DEF FirstStep
  <2> HIDE DEF rec
  <2>4. HostSet(db, next, h, rec)
    BY <1>2, <2>1, <2>2, RecordsSet
  <2> HIDE DEF next
  <2>5. /\ \A g \in Host : g # h => db.host[g].name # rec.name
        /\ \A g \in Host : g # h => db.host[g].iqns \cap rec.iqns = {}
    BY <1>2, <1>5, <2>1, <2>2, WellFormedIs DEF HostsByName, Consistent
  <2>6. /\ WellFormed(next) /\ next.obj = db.obj /\ Mapped(next) = Mapped(db)
        /\ \A g \in Host : next.host[g] = IF g = h THEN rec ELSE db.host[g]
    BY <1>2, <1>3, <2>1, <2>2, <2>4, <2>5, HostChange
  <2>7. Planned(db, next, r, None)
    BY <1>1, <1>2, <2>6, PlannedStill
  <2> QED
    BY <1>1, <1>5, <2>1, <2>3, <2>6, <2>7, BeginPlain
<1> QED
  BY <1>1, <1>4, <1>5

LEMMA SetBindingsStep == ASSUME Inv, NEW k \in Call, NEW r \in ask, SetBindings(k, r) PROVE Inv'
<1>1. /\ r.kind \in Bindings /\ Takes(k, r)
      /\ \/ Returns(k, "refused", None)
         \/ \E h \in ResolveHost(r.ref) :
            \E to \in {r.iqns, db.host[h].iqns \cup r.iqns, db.host[h].iqns \ r.iqns} :
                 /\ CheckIQNs(to, h)
                 /\ Begins("look", k, None, [db EXCEPT !.host[h].iqns = to])
                 /\ UNCHANGED <<minted, born>>
  BY DEF SetBindings, WithHost, Bindings
<1>2. WellFormed(db) /\ db \in Db /\ r \in Request
  BY <1>1, TakesIs DEF Inv, Typed, TypeOK, WellFormed
<1>3. r.iqns \subseteq Iqn
  BY <1>1, <1>2, RequestIs
<1>4. CASE Returns(k, "refused", None)
  BY <1>1, <1>4, ReturnStep DEF Bindings
<1>5. ASSUME NEW h \in ResolveHost(r.ref),
             NEW to \in {r.iqns, db.host[h].iqns \cup r.iqns, db.host[h].iqns \ r.iqns},
             CheckIQNs(to, h), Begins("look", k, None, [db EXCEPT !.host[h].iqns = to]),
             UNCHANGED <<minted, born>>
      PROVE  Inv'
  <2> DEFINE rec == [db.host[h] EXCEPT !.iqns = to]
             next == [db EXCEPT !.host[h] = rec]
  <2>1. /\ h \in Host /\ db.host[h] \in HostRecord /\ db.host[h].name # None
        /\ to \subseteq Iqn
    BY <1>2, <1>3, <1>5, ResolvedHost DEF Db, Known, HostRecord
  <2>2. rec \in HostRecord /\ rec.name = db.host[h].name /\ rec.iqns = to
    BY <2>1 DEF HostRecord
  <2>3. Begins(FirstStep(r.kind), k, None, next)
    BY <1>1, <1>5 DEF FirstStep, Bindings
  <2> HIDE DEF rec
  <2>4. HostSet(db, next, h, rec)
    BY <1>2, <2>1, <2>2, RecordsSet
  <2> HIDE DEF next
  <2>5. /\ \A g \in Host : g # h => db.host[g].name # rec.name
        /\ \A g \in Host : g # h => db.host[g].iqns \cap rec.iqns = {}
    BY <1>2, <1>5, <2>1, <2>2, WellFormedIs DEF CheckIQNs, Consistent
  <2>6. /\ WellFormed(next) /\ next.obj = db.obj /\ OneLun(Mapped(db), Mapped(next))
        /\ \A g \in Host : next.host[g] = IF g = h THEN rec ELSE db.host[g]
    BY <1>2, <2>1, <2>2, <2>4, <2>5, HostChange
  <2>7. Planned(db, next, r, None)
    BY <1>1, <2>6 DEF Planned, Still, Lossy, Bindings
  <2>8. r.kind # "create"
    BY <1>1 DEF Bindings
  <2> QED
    BY <1>1, <1>5, <2>1, <2>3, <2>6, <2>7, <2>8, BeginPlain
<1> QED
  BY <1>1, <1>4, <1>5

LEMMA DeleteHostStep == ASSUME Inv, NEW k \in Call, NEW r \in ask, DeleteHost(k, r) PROVE Inv'
<1>1. /\ r.kind = "deleteHost" /\ Takes(k, r)
      /\ \/ Returns(k, "refused", None)
         \/ \E h \in ResolveHost(r.ref) :
              /\ ~HasConnections(h)
              /\ Begins("gate", k, None, [db EXCEPT !.host[h] = NoHost])
              /\ UNCHANGED <<minted, born>>
  BY DEF DeleteHost, WithHost
<1>2. WellFormed(db) /\ db \in Db /\ r \in Request
  BY <1>1, TakesIs DEF Inv, Typed, TypeOK, WellFormed
<1>3. CASE Returns(k, "refused", None)
  BY <1>1, <1>3, ReturnStep
<1>4. ASSUME NEW h \in ResolveHost(r.ref), ~HasConnections(h),
             Begins("gate", k, None, [db EXCEPT !.host[h] = NoHost]),
             UNCHANGED <<minted, born>>
      PROVE  Inv'
  <2> DEFINE next == [db EXCEPT !.host[h] = NoHost]
  <2>1. h \in Host
    BY <1>2, ResolvedHost
  <2>2. NoHost \in HostRecord /\ NoHost.name = None /\ NoHost.iqns = {}
    BY DEF HostRecord, NoHost
  <2>3. ASSUME NEW o \in Object PROVE At(db, o, h) = None
    <3> DEFINE c == <<o, h>>
    <3>1. c \in Object \X Host /\ c[2] = h
      BY <2>1
    <3>2. db.conn[c] = None
      BY <1>4, <3>1 DEF Connections, HasConnections
    <3> QED
      BY <3>2 DEF At
  <2>4. Begins(FirstStep(r.kind), k, None, next)
    BY <1>1, <1>4 DEF FirstStep, Bindings
  <2>5. HostSet(db, next, h, NoHost)
    BY <1>2, <2>1, <2>2, RecordsSet
  <2> HIDE DEF next
  <2>6. /\ WellFormed(next) /\ next.obj = db.obj /\ Mapped(next) = Mapped(db)
        /\ \A g \in Host : next.host[g] = IF g = h THEN NoHost ELSE db.host[g]
    BY <1>2, <2>1, <2>2, <2>3, <2>5, HostChange
  <2>7. Planned(db, next, r, None)
    BY <1>1, <1>2, <2>6, PlannedStill
  <2> QED
    BY <1>1, <1>4, <2>1, <2>2, <2>4, <2>6, <2>7, BeginPlain
<1> QED
  BY <1>1, <1>3, <1>4

LEMMA ClearStep == ASSUME Inv, NEW k \in Call, NEW r \in ask, ClearReservation(k, r) PROVE Inv'
<1>1. /\ r.kind = "clear" /\ Takes(k, r)
      /\ \/ Returns(k, "refused", None)
         \/ \E o \in ResolveObject(r.ref) :
              Begins("gate", k, o, db) /\ UNCHANGED <<minted, born>>
  BY DEF ClearReservation, WithObject
<1>2. WellFormed(db)
  BY DEF Inv, Typed, TypeOK
<1>3. CASE Returns(k, "refused", None)
  BY <1>1, <1>3, ReturnStep
<1>4. ASSUME NEW o \in ResolveObject(r.ref), Begins("gate", k, o, db), UNCHANGED <<minted, born>>
      PROVE  Inv'
  <2>1. o \in Object /\ db.obj[o].name # None
    BY <1>2, ResolvedObject DEF Recorded
  <2>2. Planned(db, db, r, o)
    BY <1>1, <1>2, <2>1, PlannedStill
  <2>3. Begins(FirstStep(r.kind), k, o, db)
    BY <1>1, <1>4 DEF FirstStep, Bindings
  <2> QED
    BY <1>1, <1>2, <1>4, <2>1, <2>2, <2>3, BeginPlain
<1> QED
  BY <1>1, <1>3, <1>4

LEMMA HandleStep == ASSUME Inv, NEW k \in Call, NEW r \in ask, Handle(k, r) PROVE Inv'
BY CreateAgainStep, CreateStep, RenameStep, DeleteStep, ConnectStep, DisconnectStep,
   CreateHostStep, RenameHostStep, SetBindingsStep, DeleteHostStep, ClearStep DEF Handle

(***************************************************************************)
(* A reconcile, finished or not.                                           *)
(***************************************************************************)

\* A holder that a reconcile deprives of its LUN is one that the db does not
\* present, at no other LUN either, since there is at most one; or it is that
\* of the object being cleared.
LEMMA PresentStep ==
  ASSUME Typed, OneLun(shown, Mapped(db)), Absent, owed = {}, NEW tree,
         NEW warned \in SUBSET Object, Presents(tree, warned),
         shown \cap Desired(db, Out) \subseteq tree, tree \subseteq shown \cup Desired(db, Out),
         \A o \in Object : Releases(Mapped(db), o) => o \in unseen \cup told \cup warned
  PROVE  /\ shown' = tree /\ tree \subseteq Object \X Iqn \X Lun /\ OneLun(tree, Mapped(db))
         /\ holder' \in [Object -> Iqn \cup {None}]
         /\ \A o \in Object : holder'[o] # None => holder'[o] = holder[o] /\ Reaches(tree, o, holder[o])
         /\ told' = told \cup warned /\ told' \subseteq Object /\ owed' = {}
         /\ \A o \in withheld, q \in Iqn : ~Reaches(tree, o, q)
<1> DEFINE lost == {o \in Object : Releases(tree, o)}
<1>1. /\ shown' = tree
      /\ holder' = [o \in Object |-> IF o \in lost THEN None ELSE holder[o]]
      /\ told' = told \cup warned
      /\ owed' = (owed \cup (lost \ (unseen \cup told \cup {prClearing}))) \ warned
  BY DEF Presents, Releases
<1>2. /\ WellFormed(db) /\ db \in Db /\ shown \subseteq Object \X Iqn \X Lun /\ told \subseteq Object
      /\ holder \in [Object -> Iqn \cup {None}]
      /\ \A o \in Object : holder[o] # None => Reaches(shown, o, holder[o])
  BY DEF Typed, TypeOK, WellFormed
<1>3. tree \subseteq Object \X Iqn \X Lun
  BY <1>2, DesiredSubset
<1>4. /\ \A o, q, l : Shows(tree, o, q, l) =>
           Shows(shown, o, q, l) \/ (Shows(Mapped(db), o, q, l) /\ o \notin Out)
      /\ \A o, q, l : Shows(shown, o, q, l) /\ Shows(Mapped(db), o, q, l) /\ o \notin Out
                        => Shows(tree, o, q, l)
  <2>1. /\ \A o, q, l : Shows(tree, o, q, l) =>
             Shows(shown, o, q, l) \/ Shows(Desired(db, Out), o, q, l)
        /\ \A o, q, l : Shows(shown, o, q, l) /\ Shows(Desired(db, Out), o, q, l)
                          => Shows(tree, o, q, l)
    BY DEF Shows
  <2> QED
    BY <2>1, DesiredIs
<1>5. OneLun(tree, Mapped(db))
  BY <1>2, <1>4, MappedOneLun DEF OneLun
<1>6. ASSUME NEW o \in lost, o # prClearing PROVE Releases(Mapped(db), o)
  <2>1. /\ holder[o] \in Iqn /\ ~Reaches(tree, o, holder[o]) /\ Reaches(shown, o, holder[o])
        /\ holder[o] # None /\ o \in Object
    BY <1>2 DEF Releases
  <2>2. PICK l \in Lun : Shows(shown, o, holder[o], l)
    BY <2>1, ReachesShows
  <2>3. ~Shows(Mapped(db), o, holder[o], l)
    <3>1. o \notin Out
      BY <1>6, <2>1 DEF Absent, Out
    <3> QED
      BY <1>4, <2>1, <2>2, <3>1, ReachesShows
  <2>4. \A m \in Lun : Shows(Mapped(db), o, holder[o], m) => m = l
    BY <2>1, <2>2 DEF OneLun
  <2>5. ~Reaches(Mapped(db), o, holder[o])
    BY <2>3, <2>4, ReachesShows
  <2> QED
    BY <2>1, <2>5 DEF Releases
<1>7. owed' = {}
  BY <1>1, <1>6
<1>8. \A o \in Object : holder'[o] # None => holder'[o] = holder[o] /\ Reaches(tree, o, holder[o])
  BY <1>1 DEF Releases
<1>9. holder' \in [Object -> Iqn \cup {None}]
  BY <1>1, <1>2
<1>10. ASSUME NEW o \in withheld, NEW q \in Iqn PROVE ~Reaches(tree, o, q)
  BY <1>4, ReachesShows DEF Absent, Out
<1> QED
  BY <1>1, <1>2, <1>3, <1>5, <1>7, <1>8, <1>9, <1>10

LEMMA ReconcileStep ==
  ASSUME Typed, OneLun(shown, Mapped(db)), Absent, owed = {}, NEW warned \in SUBSET Object,
         ReconcileOK(warned) \/ ReconcileFailed(warned), UNCHANGED <<db, unseen>>,
         \A o \in Object : Releases(Mapped(db), o) => o \in unseen \cup told \cup warned
  PROVE  /\ shown' \subseteq Object \X Iqn \X Lun /\ OneLun(shown', Mapped(db'))
         /\ holder' \in [Object -> Iqn \cup {None}]
         /\ \A o \in Object : holder'[o] # None => holder'[o] = holder[o] /\ Reaches(shown', o, holder'[o])
         /\ told' \subseteq Object /\ owed' = {} /\ degraded' \in BOOLEAN
         /\ ~degraded' => shown' = Desired(db', Out)
         /\ \A o \in withheld, q \in Iqn : ~Reaches(shown', o, q)
         /\ \A o \in Object : Releases(Mapped(db), o)' => o \in unseen' \cup told'
<1> DEFINE want == Desired(db, Out)
<1>1. PICK tree : /\ Presents(tree, warned) /\ degraded' \in BOOLEAN
                  /\ shown \cap want \subseteq tree /\ tree \subseteq shown \cup want
                  /\ ~degraded' => tree = want
  <2>1. CASE ReconcileOK(warned)
    BY <2>1 DEF ReconcileOK
  <2>2. CASE ReconcileFailed(warned)
    <3>1. PICK done \in SUBSET ((shown \ want) \cup (want \ shown)) :
            Presents((shown \ done) \cup (done \ shown), warned)
      BY <2>2 DEF ReconcileFailed
    <3>2. degraded' = TRUE
      BY <2>2 DEF ReconcileFailed
    <3> DEFINE tree == (shown \ done) \cup (done \ shown)
    <3>3. shown \cap want \subseteq tree /\ tree \subseteq shown \cup want
      OBVIOUS
    <3> QED
      BY <3>1, <3>2, <3>3
  <2> QED
    BY <2>1, <2>2
<1>2. /\ shown' = tree /\ tree \subseteq Object \X Iqn \X Lun /\ OneLun(tree, Mapped(db))
      /\ holder' \in [Object -> Iqn \cup {None}]
      /\ \A o \in Object : holder'[o] # None => holder'[o] = holder[o] /\ Reaches(tree, o, holder[o])
      /\ told' = told \cup warned /\ told' \subseteq Object /\ owed' = {}
      /\ \A o \in withheld, q \in Iqn : ~Reaches(tree, o, q)
  BY <1>1, PresentStep
<1>3. ASSUME NEW o \in Object, Releases(Mapped(db), o)' PROVE o \in unseen' \cup told'
  BY <1>2, <1>3 DEF Releases
<1> QED
  BY <1>1, <1>2, <1>3

(***************************************************************************)
(* The steps that follow, the mutex held.                                  *)
(***************************************************************************)

LEMMA BusyIs ==
  ASSUME Inv, Busy
  PROVE  /\ op.call \in Call /\ op.call # 0 /\ Req \in Request /\ Req # NoRequest
         /\ Req.kind \in Kinds /\ Req = call[op.call] /\ op \in Op
<1>1. /\ op \in Op /\ call \in [Call -> ask \cup {NoRequest}] /\ ask \subseteq Request
      /\ op.call # 0 /\ call[op.call] # NoRequest
  BY DEF Inv, Typed, TypeOK, StepInv
<1>2. op.call \in Call
  BY <1>1 DEF Op
<1>3. Req \in Request /\ Req = call[op.call]
  BY <1>1, <1>2 DEF Req
<1> QED
  BY <1>1, <1>2, <1>3, RequestIs

\* The handler goes on, answers, or has written its db; the hold is as it was.
LEMMA HoldStays ==
  ASSUME Inv, {pc, pc'} \cap {"prune", "discard"} = {},
         UNCHANGED <<prClearing, withheld, minted>>,
         \A o \in withheld, q \in Iqn : ~Reaches(shown', o, q),
         db' \in {db, op.next}, op'.next \in {op.next, EmptyDb}
  PROVE  HoldInv'
<1>1. HoldInv /\ prClearing \in Object \cup {None}
  BY DEF Inv, Typed, TypeOK
<1>2. \A o \in Object : EmptyDb.obj[o].name = None
  BY DEF EmptyDb, NoObject
<1>3. Absent' /\ withheld' \subseteq minted' /\ prClearing' \in minted' \cup {None}
  BY <1>1 DEF HoldInv, Absent
<1>4. prClearing' \in withheld' \cup {None} \/ (Gone(db)' /\ Gone(op.next)')
  <2>1. prClearing \in withheld \cup {None} \/ (Gone(db) /\ Gone(op.next))
    BY <1>1 DEF HoldInv
  <2> HIDE DEF EmptyDb
  <2> QED
    BY <1>2, <2>1 DEF Gone
<1> QED
  BY <1>3, <1>4 DEF HoldInv

\* The handler answers.
LEMMA EndStep ==
  ASSUME Inv, Busy, NEW status \in {"ok", "created", "failed"},
         Answers(op.call, status, op.obj), UNCHANGED <<wire, minted, born>>,
         WellFormed(db'), Made(db', minted, born, call),
         shown' \subseteq Object \X Iqn \X Lun /\ OneLun(shown', Mapped(db')),
         holder' \in [Object -> Iqn \cup {None}],
         \A o \in Object : holder'[o] # None => Reaches(shown', o, holder'[o]),
         degraded' \in BOOLEAN, ~degraded' => shown' = Desired(db', Out'),
         prClearing' \in Object \cup {None}, withheld' \subseteq Object, HoldInv',
         told' \subseteq Object, unseen' \subseteq Object, fences' \in Nat, owed' = {},
         \A o \in Object : Releases(Mapped(db), o)' => o \in unseen' \cup told',
         status # "failed" /\ Req.kind \in {"connect", "disconnect"} => db' = op.next
  PROVE  Inv'
<1>1. /\ op.call \in Call /\ op.call # 0 /\ Req \in Request /\ Req # NoRequest
      /\ Req.kind \in Kinds /\ Req = call[op.call] /\ op \in Op
  BY BusyIs
<1>2. Typed /\ TypeOK /\ RecordInv /\ StepInv /\ PlanInv
  BY DEF Inv, Typed
<1>3. /\ ask' = ask /\ call' = call /\ attempts' = attempts /\ minted' = minted /\ born' = born
      /\ pc' = "idle" /\ op' = NoOp /\ ans' = [call |-> op.call, status |-> status, obj |-> op.obj]
      /\ created' = IF status = "created" /\ Req.kind = "create"
                    THEN [created EXCEPT ![op.obj] = @ + 1] ELSE created
  BY <1>1 DEF wire, Answers
<1>4. ans' \in Answer /\ ans'.call = op.call /\ ans'.status = status /\ ans'.obj = op.obj
  BY <1>1, <1>3 DEF Answer, Status, Op
<1>5. /\ created' \in [Object -> Nat]
      /\ \A o \in Object : created'[o] <= 1 /\ (o \notin minted' => created'[o] = 0)
  <2>1. /\ created \in [Object -> Nat]
        /\ \A o \in Object : created[o] <= 1 /\ (o \notin minted => created[o] = 0)
    BY <1>2 DEF Typed, RecordInv
  <2>2. CASE status = "created" /\ Req.kind = "create"
    <3>1. op.obj \in Object \cap minted /\ created[op.obj] = 0
      BY <1>2, <2>2 DEF StepInv
    <3> QED
      BY <1>3, <2>1, <2>2, <3>1
  <2>3. CASE ~(status = "created" /\ Req.kind = "create")
    BY <1>3, <2>1, <2>3
  <2> QED
    BY <2>2, <2>3
<1>6. Typed'
  <2>1. TypeOK'
    BY <1>2, <1>3, <1>4, NothingTyped DEF TypeOK, PC, Op, Answer
  <2> QED
    BY <1>2, <1>3, <1>4, <1>5, <2>1, NothingTyped DEF Typed
<1>7. \A o \in Object : born'[o] # 0 => o \in minted' /\ call'[born'[o]].kind = "create"
  BY <1>2, <1>3 DEF RecordInv
<1>8. TreeInv'
  BY <1>3 DEF TreeInv
<1>9. CreateReplaySafe'
  BY <1>4, <1>5 DEF CreateReplaySafe
<1>10. SuccessInEffect'
  <2> SUFFICES ASSUME ~degraded', status # "failed"
               PROVE  /\ Req.kind = "connect" /\ op.obj \notin withheld' =>
                         \A h \in ResolvedIn(db', Req.host) :
                           \A q \in db'.host[h].iqns : <<op.obj, q, Req.lun>> \in shown'
                      /\ Req.kind = "disconnect" => \A h \in ResolvedIn(db', Req.host) :
                           \A q \in db'.host[h].iqns : ~Reaches(shown', op.obj, q)
    <3>1. \A ref : ResolveHost(ref)' = ResolvedIn(db', ref)
      BY DEF ResolveHost, HostsByName, Known, ResolvedIn
    <3> QED
      BY <1>1, <1>3, <1>4, <3>1 DEF SuccessInEffect, Succeeded, To
  <2>1. /\ shown' = Desired(db', Out') /\ Out' = withheld' \cup {prClearing'}
        /\ \/ prClearing' \in withheld' \cup {None}
           \/ prClearing' \in Object => db'.obj[prClearing'].name = None
    BY <1>3 DEF HoldInv, Gone, Out
  <2>2. \A h \in ResolvedIn(db', Req.host) : h \in Host
    BY DEF ResolvedIn
  <2>3. CASE Req.kind = "connect" /\ op.obj \notin withheld'
    <3>1. db' = op.next /\ Req.lun \in Lun
      BY <1>1, <2>3, RequestIs
    <3>2. op.obj \in Object /\ \A h \in ResolvedIn(db', Req.host) : At(db', op.obj, h) = Req.lun
      BY <1>2, <2>3, <3>1 DEF PlanInv, Planned
    <3>3. ASSUME NEW h \in ResolvedIn(db', Req.host), NEW q \in db'.host[h].iqns
          PROVE  <<op.obj, q, Req.lun>> \in shown'
      <4>1. h \in Host /\ At(db', op.obj, h) = Req.lun /\ At(db', op.obj, h) \in Lun
        BY <2>2, <3>1, <3>2
      <4>2. <<op.obj, q, At(db', op.obj, h)>> \in Desired(db', Out')
        BY <2>1, <2>3, <3>2, <4>1, LinkShown
      <4> QED
        BY <2>1, <4>1, <4>2
    <3> QED
      BY <2>3, <3>3
  <2>4. CASE Req.kind = "disconnect"
    <3>1. op.obj \in Object /\ \A h \in ResolvedIn(db', Req.host) : At(db', op.obj, h) = None
      BY <1>2, <2>4 DEF PlanInv, Planned
    <3>2. ASSUME NEW h \in ResolvedIn(db', Req.host), NEW q \in db'.host[h].iqns
          PROVE  ~Reaches(shown', op.obj, q)
      BY <2>1, <2>2, <3>1, LinkShown
    <3> QED
      BY <2>4, <3>2
  <2> QED
    BY <2>3, <2>4
<1> QED
  BY <1>3, <1>5, <1>6, <1>7, <1>8, <1>9, <1>10, FreeStep DEF AnswerInv

\* The invariant, part by part, of a step that answers nothing.
LEMMA GoOn ==
  ASSUME ans' = NoAnswer, Typed', RecordInv', StepInv', PlanInv', TreeInv', HoldInv', FenceInv'
  PROVE  Inv'
BY NoAnswerStep DEF Inv

LEMMA ReserveStep == ASSUME Inv, NEW o \in Object, NEW q \in Iqn, Reserve(o, q) PROVE Inv'
<1>1. /\ Reaches(shown, o, q) /\ holder' = [holder EXCEPT ![o] = q] /\ fences' = fences + 1
      /\ unseen' = IF /\ Reaches(Mapped(db), o, q)
                      /\ op.looked => Reaches(Mapped(op.next), o, q)
                   THEN unseen \ {o} ELSE unseen \cup {o}
      /\ told' = told \ {o} /\ ans' = NoAnswer
      /\ UNCHANGED <<db, degraded, shown, prClearing, withheld, pc, op, ask, call, attempts,
                     minted, born, created, owed>>
  BY DEF Reserve, db1, hold, wire, births
<1>2. Typed /\ TypeOK /\ RecordInv /\ StepInv /\ PlanInv /\ TreeInv /\ HoldInv /\ FenceInv
  BY DEF Inv, Typed
<1>3. /\ holder \in [Object -> Iqn \cup {None}] /\ holder' \in [Object -> Iqn \cup {None}]
      /\ holder'[o] = q /\ \A p \in Object : p # o => holder'[p] = holder[p]
  BY <1>1, <1>2 DEF Typed
<1>4. Typed'
  <2>1. \A p \in Object : holder'[p] # None => Reaches(shown, p, holder'[p])
    BY <1>1, <1>2, <1>3 DEF TypeOK
  <2>2. told' \subseteq Object /\ unseen' \subseteq Object /\ fences' \in Nat
    BY <1>1, <1>2 DEF Typed, TypeOK
  <2>3. TypeOK'
    BY <1>1, <1>2, <2>1, <2>2, NothingTyped DEF TypeOK, Answer
  <2> QED
    BY <1>1, <1>2, <1>3, <2>2, <2>3, NothingTyped DEF Typed
<1>5. RecordInv'
  BY <1>1, <1>2 DEF RecordInv
<1>6. Req' = Req /\ Busy' = Busy
  BY <1>1 DEF Req, Busy
<1>7. StepInv' /\ PlanInv'
  BY <1>1, <1>2, <1>6 DEF StepInv, PlanInv
<1>8. TreeInv' /\ HoldInv'
  BY <1>1, <1>2 DEF TreeInv, Out, HoldInv, Absent, Gone
<1>9. FenceInv'
  <2>1. ASSUME NEW p \in Object, Releases(Mapped(db), p)'
        PROVE  p \in unseen' \cup told' \/ (pc' = "apply" /\ p \in op'.warn)
    <3>1. CASE p = o
      BY <1>1, <1>3, <2>1, <3>1 DEF Releases
    <3>2. CASE p # o
      BY <1>1, <1>2, <1>3, <2>1, <3>2 DEF Releases, FenceInv
    <3> QED
      BY <3>1, <3>2
  <2>2. ASSUME op'.looked, NEW p \in Object, Releases(Mapped(op.next), p)',
               ~Releases(Mapped(db), p)'
        PROVE  p \in op'.warn \cup unseen'
    <3>1. CASE p = o
      BY <1>1, <1>3, <2>2, <3>1 DEF Releases
    <3>2. CASE p # o
      BY <1>1, <1>2, <1>3, <2>2, <3>2 DEF Releases, FenceInv
    <3> QED
      BY <3>1, <3>2
  <2>3. owed' = {}
    BY <1>1, <1>2 DEF FenceInv
  <2> QED
    BY <2>1, <2>2, <2>3 DEF FenceInv
<1> QED
  BY <1>1, <1>4, <1>5, <1>7, <1>8, <1>9, GoOn

LEMMA LookStep == ASSUME Inv, Look PROVE Inv'
<1> DEFINE held == {o \in Object : <<o, holder[o]>> \in Losing}
<1>1. PICK unread \in SUBSET {p[1] : p \in Losing} :
        op' = [op EXCEPT !.looked = TRUE, !.warn = held \cup unread]
  BY DEF Look
<1>2. /\ pc = "look" /\ unseen' = unseen \ held
      /\ pc' = IF Req.kind = "disconnect" THEN "persist" ELSE "gate"
      /\ ans' = NoAnswer
      /\ UNCHANGED <<db, degraded, shown, holder, ask, call, attempts, minted, born, created,
                     fences, told, owed, prClearing, withheld>>
  BY DEF Look, db1, kernel, hold, wire, births
<1>3. Typed /\ TypeOK /\ RecordInv /\ StepInv /\ PlanInv /\ TreeInv /\ HoldInv /\ FenceInv
  BY DEF Inv, Typed
<1>4. Busy /\ Busy' /\ op \in Op /\ Req.kind \in Lossy
  BY <1>2, <1>3 DEF Busy, Typed, StepInv
<1>5. held \cup unread \subseteq Object
  BY DEF Losing
<1>6. /\ op' \in Op /\ op'.call = op.call /\ op'.obj = op.obj /\ op'.next = op.next
      /\ op'.looked = TRUE /\ op'.warn = held \cup unread
  <2> HIDE DEF held
  <2> QED
    BY <1>1, <1>4, <1>5 DEF Op
<1>7. Req' = Req
  BY <1>2, <1>6 DEF Req
<1>8. Typed'
  <2>1. TypeOK'
    BY <1>2, <1>3, <1>6, NothingTyped DEF TypeOK, PC, Op, Answer
  <2> QED
    BY <1>2, <1>3, <1>6, <2>1, NothingTyped DEF Typed
<1>9. RecordInv'
  BY <1>2, <1>3, <1>6 DEF RecordInv
<1>10. StepInv'
  BY <1>2, <1>3, <1>4, <1>6, <1>7 DEF StepInv, Busy, Kinds, Still, Lossy, Bindings
<1>11. PlanInv'
  BY <1>2, <1>3, <1>4, <1>6, <1>7 DEF PlanInv
<1>12. TreeInv'
  BY <1>2, <1>3 DEF TreeInv, Out
<1>13. FenceInv'
  <2>1. ASSUME NEW o \in Object, holder[o] # None
        PROVE  <<o, holder[o]>> \in Losing <=>
                 Reaches(Mapped(db), o, holder[o]) /\ ~Reaches(Mapped(op.next), o, holder[o])
    <3>1. holder[o] \in Iqn /\ Reaches(shown, o, holder[o]) /\ WellFormed(db)
      BY <1>3, <2>1 DEF Typed, TypeOK
    <3>2. <<o, holder[o]>> \in Losing <=> /\ Reaches(Desired(db, Out), o, holder[o])
                                          /\ ~Reaches(Desired(op.next, Out), o, holder[o])
      BY <3>1 DEF Losing
    <3>3. \A d : Reaches(Desired(d, Out), o, holder[o]) <=>
                   Reaches(Mapped(d), o, holder[o]) /\ o \notin Out
      BY DesiredIs, ReachesShows
    <3>4. o \notin withheld
      BY <1>3, <3>1 DEF HoldInv, Absent
    <3>5. ASSUME o = prClearing PROVE ~Reaches(Mapped(db), o, holder[o])
      <4>1. db.obj[o].name = None
        BY <1>2, <1>3, <3>4, <3>5, RequestsAssumption DEF HoldInv, Gone
      <4> QED
        BY <3>1, <4>1, Unmapped DEF Reaches
    <3> QED
      BY <3>2, <3>3, <3>4, <3>5 DEF Out
  <2>2. ASSUME NEW o \in Object, Releases(Mapped(db), o)' PROVE o \in unseen' \cup told'
    <3>1. holder[o] # None /\ ~Reaches(Mapped(db), o, holder[o])
      BY <1>2, <2>2 DEF Releases
    <3>2. o \in unseen \cup told
      BY <1>2, <1>3, <3>1 DEF FenceInv, Releases
    <3>3. o \notin held
      BY <2>1, <3>1
    <3> QED
      BY <1>2, <3>2, <3>3
  <2>3. ASSUME NEW o \in Object, Releases(Mapped(op.next), o)', ~Releases(Mapped(db), o)'
        PROVE  o \in op'.warn \cup unseen'
    <3>1. /\ holder[o] # None /\ Reaches(Mapped(db), o, holder[o])
          /\ ~Reaches(Mapped(op.next), o, holder[o])
      BY <1>2, <1>6, <2>3 DEF Releases
    <3> QED
      BY <1>6, <2>1, <3>1
  <2> QED
    BY <1>2, <1>3, <2>2, <2>3 DEF FenceInv
<1>14. HoldInv'
  BY <1>2, <1>3, <1>6, HoldStays DEF HoldInv, Absent
<1> QED
  BY <1>2, <1>8, <1>9, <1>10, <1>11, <1>12, <1>13, <1>14, GoOn

LEMMA GateStep == ASSUME Inv, Gate PROVE Inv'
<1>1. pc = "gate" /\ UNCHANGED <<db, ask, call, attempts, minted, born, fences, unseen, withheld>>
  BY DEF Gate, wire
<1>2. Typed /\ TypeOK /\ RecordInv /\ StepInv /\ PlanInv /\ TreeInv /\ HoldInv /\ FenceInv
  BY DEF Inv, Typed
<1>3. /\ Busy /\ OneLun(shown, Mapped(db)) /\ owed = {} /\ Req.kind \in Kinds /\ WellFormed(db)
      /\ Absent /\ prClearing \in Object \cup {None} /\ withheld \subseteq Object
      /\ \A o \in Object : Releases(Mapped(db), o) => o \in unseen \cup told \cup {}
  BY <1>1, <1>2, BusyIs DEF Busy, TreeInv, HoldInv, FenceInv, TypeOK
<1>4. CASE ~(/\ degraded /\ ReconcileFailed({}) /\ Answers(op.call, "failed", op.obj)
             /\ UNCHANGED prClearing)
  <2>1. /\ IF degraded THEN ReconcileOK({}) ELSE UNCHANGED <<degraded, kernel, told, owed>>
        /\ pc' = AfterGate(Req.kind)
        /\ prClearing' = IF Req.kind = "clear" THEN op.obj ELSE prClearing
        /\ ans' = NoAnswer /\ op' = op /\ created' = created
    BY <1>4 DEF Gate
  <2>2. /\ shown' \subseteq Object \X Iqn \X Lun /\ OneLun(shown', Mapped(db'))
        /\ holder' \in [Object -> Iqn \cup {None}]
        /\ \A o \in Object : holder'[o] # None => holder'[o] = holder[o] /\ Reaches(shown', o, holder'[o])
        /\ told' \subseteq Object /\ owed' = {} /\ degraded' = FALSE
        /\ shown' = Desired(db', Out)
        /\ \A o \in withheld, q \in Iqn : ~Reaches(shown', o, q)
        /\ \A o \in Object : Releases(Mapped(db), o)' => o \in unseen' \cup told'
    <3>1. CASE degraded
      <4>1. ReconcileOK({}) /\ degraded' = FALSE
        BY <2>1, <3>1 DEF ReconcileOK
      <4> QED
        BY <1>1, <1>2, <1>3, <4>1, ReconcileStep
    <3>2. CASE ~degraded
      <4>1. UNCHANGED <<degraded, shown, holder, told, owed>>
        BY <2>1, <3>2 DEF kernel
      <4>2. degraded' = FALSE
        BY <1>2, <3>2, <4>1 DEF TypeOK
      <4>3. \A o \in Object : Releases(Mapped(db), o)' <=> Releases(Mapped(db), o)
        BY <1>1, <4>1 DEF Releases
      <4> QED
        BY <1>1, <1>2, <1>3, <3>2, <4>1, <4>2, <4>3 DEF TreeInv, Absent, Typed, TypeOK
    <3> QED
      BY <3>1, <3>2
  <2>10. op.obj \in Object \cup {None} /\ (Req.kind = "clear" => op.obj \in Object \cap minted)
    BY <1>1, <1>2, <1>3 DEF TypeOK, PlanInv, Planned, RecordInv, Made
  <2>3. Typed'
    <3>2. prClearing' \in Object \cup {None} /\ withheld' \subseteq Object
      BY <1>1, <1>3, <2>1, <2>10
    <3>1. TypeOK'
      BY <1>1, <1>2, <2>1, <2>2, <3>2, NothingTyped DEF TypeOK, PC, Answer, AfterGate
    <3> QED
      BY <1>1, <1>2, <2>1, <2>2, <3>1, NothingTyped DEF Typed
  <2>4. RecordInv'
    BY <1>1, <1>2, <2>1 DEF RecordInv
  <2>5. Req' = Req /\ Busy'
    BY <1>1, <2>1 DEF Req, Busy, AfterGate
  <2>6. StepInv'
    BY <1>1, <1>2, <1>3, <2>1, <2>2, <2>5 DEF StepInv, AfterGate, Kinds, Still, Lossy, Bindings
  <2>7. PlanInv'
    BY <1>1, <1>2, <1>3, <2>1, <2>5 DEF PlanInv
  <2>8. TreeInv'
    <3>1. CASE Req.kind = "clear"
      BY <2>1, <2>2, <3>1 DEF TreeInv, AfterGate
    <3>2. CASE Req.kind # "clear"
      <4>1. Out' = Out
        BY <1>1, <2>1, <3>2 DEF Out
      <4> QED
        BY <2>1, <2>2, <4>1 DEF TreeInv
    <3> QED
      BY <3>1, <3>2
  <2>11. HoldInv'
    <3>1. CASE Req.kind = "clear"
      <4>1. pc' = "prune" /\ prClearing' = op.obj
        BY <2>1, <3>1 DEF AfterGate
      <4> QED
        BY <1>1, <1>2, <2>1, <2>2, <2>10, <3>1, <4>1 DEF HoldInv, Absent
    <3>2. CASE Req.kind # "clear"
      <4>1. pc' \in {"look", "persist"} /\ prClearing' = prClearing
        BY <2>1, <3>2 DEF AfterGate
      <4> QED
        BY <1>1, <2>1, <2>2, <4>1, HoldStays
    <3> QED
      BY <3>1, <3>2
  <2>9. FenceInv'
    <3>1. ASSUME op.looked, NEW o \in Object, Releases(Mapped(op.next), o)',
                 ~Releases(Mapped(db), o)'
          PROVE  o \in op.warn \cup unseen
      BY <1>1, <1>2, <2>1, <2>2, <3>1 DEF FenceInv, Releases
    <3> QED
      BY <1>1, <2>1, <2>2, <3>1 DEF FenceInv
  <2> QED
    BY <2>1, <2>3, <2>4, <2>6, <2>7, <2>8, <2>9, <2>11, GoOn
<1>5. CASE /\ degraded /\ ReconcileFailed({}) /\ Answers(op.call, "failed", op.obj)
           /\ UNCHANGED prClearing
  <2>1. /\ shown' \subseteq Object \X Iqn \X Lun /\ OneLun(shown', Mapped(db'))
        /\ holder' \in [Object -> Iqn \cup {None}]
        /\ \A o \in Object : holder'[o] # None => holder'[o] = holder[o] /\ Reaches(shown', o, holder'[o])
        /\ told' \subseteq Object /\ owed' = {} /\ degraded' \in BOOLEAN
        /\ ~degraded' => shown' = Desired(db', Out)
        /\ \A o \in withheld, q \in Iqn : ~Reaches(shown', o, q)
        /\ \A o \in Object : Releases(Mapped(db), o)' => o \in unseen' \cup told'
    BY <1>1, <1>2, <1>3, <1>5, ReconcileStep
  <2>2. /\ Made(db', minted, born, call) /\ WellFormed(db') /\ unseen' \subseteq Object
        /\ fences' \in Nat
    BY <1>1, <1>2, <1>3 DEF RecordInv, Typed, TypeOK
  <2>3. Out' = Out /\ pc' = "idle" /\ op'.next = EmptyDb
    BY <1>1, <1>5, NothingTyped DEF Out, Answers
  <2>4. HoldInv'
    BY <1>1, <1>5, <2>1, <2>3, HoldStays
  <2> QED
    BY <1>1, <1>3, <1>5, <2>1, <2>2, <2>3, <2>4, EndStep DEF wire
<1> QED
  BY <1>4, <1>5

\* The record is replaced: what the kernel presents is now behind it, unless
\* the answer comes at once, and then the db presents what it did.
LEMMA PersistStep == ASSUME Inv, NEW durable \in BOOLEAN, Persist(durable) PROVE Inv'
<1> DEFINE step == AfterPersist(Req.kind, durable)
<1>1. /\ pc = "persist" /\ db' = op.next
      /\ UNCHANGED <<degraded, shown, holder, ask, call, attempts, minted, born,
                     fences, unseen, told, owed, prClearing, withheld>>
      /\ \/ step = "answer" /\ Answers(op.call, IF durable THEN Success ELSE "failed", op.obj)
         \/ /\ step # "answer" /\ pc' = step /\ op' = [op EXCEPT !.durable = durable]
            /\ ans' = NoAnswer /\ created' = created
  BY DEF Persist, kernel, hold, wire, fence
<1>2. Typed /\ TypeOK /\ RecordInv /\ StepInv /\ PlanInv /\ TreeInv /\ HoldInv /\ FenceInv
  BY DEF Inv, Typed
<1>3. Busy /\ op \in Op /\ Req.kind \in Kinds
  BY <1>1, BusyIs DEF Busy
<1>4. /\ WellFormed(db) /\ WellFormed(op.next) /\ Planned(db, op.next, Req, op.obj)
      /\ db \in Db /\ op.next \in Db /\ Made(op.next, minted, born, call)
  BY <1>2, <1>3 DEF TypeOK, PlanInv, WellFormed, RecordInv
<1>5. /\ step \in {"answer", "unlink", "apply"}
      /\ step = "answer" => Req.kind \in Still
      /\ step = "unlink" => Req.kind = "delete"
      /\ step = "apply" => Req.kind \in Kinds \ Still
  BY <1>1, <1>2, <1>3 DEF AfterPersist, Still, StepInv
<1>6. ASSUME Req.kind \in Still
      PROVE  /\ ~degraded => shown = Desired(op.next, Out)
             /\ OneLun(shown, Mapped(op.next))
             /\ \A o \in Object : Releases(Mapped(op.next), o) => o \in unseen \cup told
  <2>1. Mapped(op.next) = Mapped(db)
    BY <1>4, <1>6 DEF Planned
  <2>2. Desired(op.next, Out) = Desired(db, Out)
    BY <2>1, DesiredSame
  <2> QED
    BY <1>1, <1>2, <2>1, <2>2 DEF TreeInv, FenceInv
<1>10. /\ Out' = Out /\ \A o \in withheld, q \in Iqn : ~Reaches(shown', o, q)
       /\ prClearing' \in Object \cup {None} /\ withheld' \subseteq Object
  BY <1>1, <1>2 DEF Out, HoldInv, Absent, TypeOK
<1>7. \A o : Releases(Mapped(db), o)' <=> Releases(Mapped(op.next), o)
  BY <1>1 DEF Releases
<1>8. CASE step = "answer" /\ Answers(op.call, IF durable THEN Success ELSE "failed", op.obj)
  <2>1. PICK status \in {"ok", "created", "failed"} : Answers(op.call, status, op.obj)
    BY <1>8 DEF Success, CreatedCode
  <2>2. Req.kind \notin {"connect", "disconnect"} /\ Req.kind \in Still
    BY <1>5, <1>8 DEF Still
  <2>3. /\ shown' \subseteq Object \X Iqn \X Lun /\ OneLun(shown', Mapped(db'))
        /\ holder' \in [Object -> Iqn \cup {None}]
        /\ \A o \in Object : holder'[o] # None => Reaches(shown', o, holder'[o])
        /\ told' \subseteq Object /\ unseen' \subseteq Object /\ owed' = {} /\ fences' \in Nat
        /\ degraded' \in BOOLEAN
        /\ ~degraded' => shown' = Desired(db', Out')
    BY <1>1, <1>2, <1>6, <1>10, <2>2 DEF Typed, TypeOK, FenceInv
  <2>4. \A o \in Object : Releases(Mapped(db), o)' => o \in unseen' \cup told'
    BY <1>1, <1>6, <1>7, <2>2
  <2>5. HoldInv'
    <3>1. pc' = "idle" /\ op'.next = EmptyDb
      BY <2>1, NothingTyped DEF Answers
    <3> QED
      BY <1>1, <1>10, <3>1, HoldStays
  <2> QED
    BY <1>1, <1>3, <1>4, <1>10, <2>1, <2>2, <2>3, <2>4, <2>5, EndStep DEF wire
<1>9. CASE /\ step # "answer" /\ pc' = step /\ op' = [op EXCEPT !.durable = durable]
           /\ ans' = NoAnswer /\ created' = created
  <2>1. /\ op' \in Op /\ op'.call = op.call /\ op'.obj = op.obj /\ op'.next = op.next
        /\ op'.looked = op.looked /\ op'.warn = op.warn
    BY <1>3, <1>9 DEF Op
  <2>2. Req' = Req /\ Busy' /\ pc' \in {"unlink", "apply"}
    BY <1>1, <1>5, <1>9, <2>1 DEF Req, Busy
  <2>3. Typed'
    <3>1. TypeOK'
      BY <1>1, <1>2, <1>4, <1>9, <2>1, <2>2, NothingTyped DEF TypeOK, PC, Op, Answer
    <3> QED
      BY <1>1, <1>2, <1>9, <2>1, <3>1, NothingTyped DEF Typed
  <2>4. RecordInv'
    BY <1>1, <1>2, <1>9, <2>1 DEF RecordInv
  <2>5. StepInv'
    BY <1>1, <1>2, <1>5, <1>9, <2>1, <2>2 DEF StepInv, Busy, Still
  <2>6. PlanInv'
    <3>1. Planned(op.next, op.next, Req, op.obj)
      BY <1>4, MappedOneLun DEF Planned
    <3> QED
      BY <1>1, <1>4, <2>1, <2>2, <3>1 DEF PlanInv
  <2>7. Req.kind \in Kinds \ Still => shown \subseteq Mapped(db)
    BY <1>1, <1>2, DesiredIs DEF StepInv, TreeInv
  <2>8. TreeInv'
    <3>1. CASE Req.kind \in Still
      BY <1>1, <1>6, <1>10, <3>1 DEF TreeInv
    <3>2. CASE Req.kind \in Kinds \ Still
      <4>1. pc' = "apply"
        BY <1>5, <1>9, <3>2 DEF Still
      <4> QED
        BY <1>1, <1>4, <2>7, <3>2, <4>1 DEF TreeInv, Planned, OneLun, Shows
    <3> QED
      BY <1>3, <3>1, <3>2
  <2>9. ASSUME NEW o \in Object, Releases(Mapped(op.next), o)
        PROVE  o \in unseen \cup told \/ (pc' = "apply" /\ o \in op.warn)
    <3>1. CASE Releases(Mapped(db), o)
      BY <1>1, <1>2, <3>1 DEF FenceInv
    <3>2. CASE ~Releases(Mapped(db), o) /\ Req.kind \in Lossy
      <4>1. op.looked
        BY <1>1, <1>2, <3>2 DEF StepInv
      <4>2. pc' = "apply"
        BY <1>5, <1>9, <3>2 DEF Still, Lossy, Bindings
      <4> QED
        BY <1>2, <2>9, <3>2, <4>1, <4>2 DEF FenceInv
    <3>3. CASE ~Releases(Mapped(db), o) /\ Req.kind \notin Lossy
      <4>1. Mapped(db) \subseteq Mapped(op.next)
        BY <1>4, <3>3 DEF Planned
      <4> QED
        BY <2>9, <3>3, <4>1 DEF Releases, Reaches
    <3> QED
      BY <3>1, <3>2, <3>3
  <2>10. FenceInv'
    <3>1. \A o : Releases(Mapped(op.next), o)' <=> Releases(Mapped(op.next), o)
      BY <1>1, <2>1 DEF Releases
    <3> QED
      BY <1>1, <1>2, <1>7, <2>1, <2>9, <3>1 DEF FenceInv
  <2>11. HoldInv'
    BY <1>1, <1>10, <2>1, <2>2, HoldStays
  <2> QED
    BY <1>9, <2>3, <2>4, <2>5, <2>6, <2>8, <2>10, <2>11, GoOn
<1> QED
  BY <1>1, <1>8, <1>9

\* A handler gives up, or is done, and the db and the kernel are as they were.
LEMMA EndUnchanged ==
  ASSUME Inv, Busy, pc \notin {"apply", "prune", "restore"},
         NEW status \in {"ok", "created", "failed"},
         UNCHANGED <<db1, kernel, wire, minted, born, fence>>,
         Answers(op.call, status, op.obj),
         status # "failed" => Req.kind \notin {"connect", "disconnect"},
         prClearing' \in Object \cup {None}, withheld' \subseteq Object, HoldInv',
         \A m \in Mapped(db) : m[1] \in Out <=> m[1] \in Out'
  PROVE  Inv'
<1>1. UNCHANGED <<db, degraded, shown, holder, fences, unseen, told, owed>>
  BY DEF db1, kernel, fence
<1>2. Typed /\ TypeOK /\ RecordInv /\ TreeInv /\ FenceInv
  BY DEF Inv, Typed
<1>3. /\ WellFormed(db') /\ Made(db', minted, born, call)
      /\ shown' \subseteq Object \X Iqn \X Lun /\ OneLun(shown', Mapped(db'))
      /\ holder' \in [Object -> Iqn \cup {None}]
      /\ \A o \in Object : holder'[o] # None => Reaches(shown', o, holder'[o])
      /\ told' \subseteq Object /\ unseen' \subseteq Object /\ fences' \in Nat /\ owed' = {}
      /\ degraded' \in BOOLEAN
  BY <1>1, <1>2 DEF Typed, TypeOK, RecordInv, TreeInv, FenceInv
<1>4. ~degraded' => shown' = Desired(db', Out')
  <2>1. Desired(db, Out) = Desired(db, Out')
    BY DesiredSame
  <2> QED
    BY <1>1, <1>2, <2>1 DEF TreeInv, Busy
<1>5. \A o \in Object : Releases(Mapped(db), o)' => o \in unseen' \cup told'
  BY <1>1, <1>2 DEF FenceInv, Releases
<1> QED
  BY <1>3, <1>4, <1>5, EndStep

LEMMA PersistFailedStep == ASSUME Inv, PersistFailed PROVE Inv'
<1>1. /\ pc = "persist" /\ Busy /\ Answers(op.call, "failed", op.obj)
      /\ UNCHANGED <<db1, kernel, wire, minted, born, fence>>
      /\ UNCHANGED <<db, shown, prClearing, withheld>>
  BY DEF PersistFailed, Busy, db1, kernel, hold
<1>2. /\ HoldInv /\ prClearing \in Object \cup {None} /\ withheld \subseteq Object
      /\ Out' = Out /\ pc' = "idle" /\ op'.next = EmptyDb
  BY <1>1, NothingTyped DEF Inv, Typed, TypeOK, Out, Answers
<1>3. HoldInv'
  BY <1>1, <1>2, HoldStays DEF HoldInv, Absent
<1> QED
  BY <1>1, <1>2, <1>3, EndUnchanged

\* The record of a deleted object presents nothing, so nothing comes back when
\* the hold is released.
LEMMA UnlinkStep == ASSUME Inv, Unlink PROVE Inv'
<1>1. PICK status \in {"ok", "failed"} : Answers(op.call, status, op.obj)
  BY DEF Unlink
<1>2. /\ pc = "unlink" /\ Busy /\ withheld' = withheld \ {op.obj} /\ prClearing' = prClearing
      /\ UNCHANGED <<db1, kernel, wire, minted, born, fence>>
      /\ UNCHANGED <<db, shown, minted>>
  BY DEF Unlink, Busy, db1, kernel
<1>3. Typed /\ TypeOK /\ StepInv /\ PlanInv /\ HoldInv
  BY DEF Inv, Typed
<1>4. Req.kind = "delete" /\ db = op.next /\ WellFormed(db)
  BY <1>2, <1>3 DEF StepInv, TypeOK
<1>5. op.obj \in Object /\ db.obj[op.obj].name = None
  BY <1>2, <1>3, <1>4 DEF PlanInv, Planned
<1>6. \A m \in Mapped(db) : m[1] \in Out <=> m[1] \in Out'
  <2>1. \A m \in Mapped(db) : m[1] # op.obj
    BY <1>4, <1>5, Unmapped
  <2> QED
    BY <1>2, <2>1 DEF Out
<1>7. prClearing' \in Object \cup {None} /\ withheld' \subseteq Object
  BY <1>2, <1>3 DEF TypeOK
<1>8. HoldInv'
  <2>1. \A o \in Object : EmptyDb.obj[o].name = None
    BY DEF EmptyDb, NoObject
  <2>2. pc' = "idle" /\ op'.next = EmptyDb
    BY <1>1, NothingTyped DEF Answers
  <2> HIDE DEF EmptyDb
  <2>3. Absent' /\ withheld' \subseteq minted' /\ prClearing' \in minted' \cup {None}
    BY <1>2, <1>3 DEF HoldInv, Absent
  <2>4. prClearing' \in withheld' \cup {None} \/ (Gone(db)' /\ Gone(op.next)')
    <3>1. prClearing \in withheld \cup {None} \/ Gone(db)
      BY <1>2, <1>3 DEF HoldInv
    <3> QED
      BY <1>2, <1>5, <2>1, <2>2, <3>1 DEF Gone
  <2> QED
    BY <2>2, <2>3, <2>4 DEF HoldInv
<1> QED
  BY <1>1, <1>2, <1>4, <1>6, <1>7, <1>8, EndUnchanged

\* A reconcile, and the answer with it.
LEMMA EndReconcile ==
  ASSUME Inv, Busy, pc \notin {"prune", "discard"}, NEW warned \in SUBSET Object,
         NEW status \in {"ok", "created", "failed"},
         ReconcileOK(warned) \/ ReconcileFailed(warned), Answers(op.call, status, op.obj),
         UNCHANGED <<db, prClearing, withheld, wire, minted, born, fences, unseen>>,
         pc = "apply" => warned = op.warn,
         status # "failed" /\ Req.kind \in {"connect", "disconnect"} => db = op.next
  PROVE  Inv'
<1>1. Typed /\ TypeOK /\ RecordInv /\ StepInv /\ TreeInv /\ HoldInv /\ FenceInv
  BY DEF Inv, Typed
<1>2. /\ OneLun(shown, Mapped(db)) /\ Absent /\ owed = {}
      /\ \A o \in Object : Releases(Mapped(db), o) => o \in unseen \cup told \cup warned
  BY <1>1 DEF TreeInv, HoldInv, FenceInv
<1>3. /\ shown' \subseteq Object \X Iqn \X Lun /\ OneLun(shown', Mapped(db'))
      /\ holder' \in [Object -> Iqn \cup {None}]
      /\ \A o \in Object : holder'[o] # None => holder'[o] = holder[o] /\ Reaches(shown', o, holder'[o])
      /\ told' \subseteq Object /\ owed' = {} /\ degraded' \in BOOLEAN
      /\ ~degraded' => shown' = Desired(db', Out)
      /\ \A o \in withheld, q \in Iqn : ~Reaches(shown', o, q)
      /\ \A o \in Object : Releases(Mapped(db), o)' => o \in unseen' \cup told'
  BY <1>1, <1>2, ReconcileStep
<1>4. /\ WellFormed(db') /\ Made(db', minted, born, call) /\ unseen' \subseteq Object
      /\ fences' \in Nat /\ prClearing' \in Object \cup {None} /\ withheld' \subseteq Object
      /\ Out' = Out
  BY <1>1 DEF Typed, TypeOK, RecordInv, Out
<1>5. HoldInv'
  <2>1. pc' = "idle" /\ op'.next = EmptyDb
    BY NothingTyped DEF Answers
  <2> QED
    BY <1>3, <2>1, HoldStays
<1> QED
  BY <1>3, <1>4, <1>5, EndStep

LEMMA ApplyStep == ASSUME Inv, Apply PROVE Inv'
<1>1. /\ pc = "apply" /\ Busy
      /\ UNCHANGED <<db, prClearing, withheld, wire, minted, born, fences, unseen>>
      /\ \E status \in {"ok", "created", "failed"} :
           /\ ReconcileOK(op.warn) \/ ReconcileFailed(op.warn)
           /\ Answers(op.call, status, op.obj)
  BY DEF Apply, Busy, Warned, Warns, Success, CreatedCode, hold
<1>2. PICK status \in {"ok", "created", "failed"} :
        /\ ReconcileOK(op.warn) \/ ReconcileFailed(op.warn)
        /\ Answers(op.call, status, op.obj)
  BY <1>1
<1>3. op.warn \in SUBSET Object /\ db = op.next
  BY <1>1 DEF Inv, Typed, TypeOK, StepInv
<1> QED
  BY <1>1, <1>2, <1>3, EndReconcile

(***************************************************************************)
(* The steps of a clear.                                                   *)
(***************************************************************************)

LEMMA RestoreStep == ASSUME Inv, Restore PROVE Inv'
<1>1. /\ pc = "restore" /\ Busy
      /\ UNCHANGED <<db, prClearing, withheld, wire, minted, born, fences, unseen>>
      /\ \E status \in {"ok", "created", "failed"} :
           /\ ReconcileOK({}) \/ ReconcileFailed({})
           /\ Answers(op.call, status, op.obj)
  BY DEF Restore, Busy, hold
<1>2. PICK status \in {"ok", "created", "failed"} :
        /\ ReconcileOK({}) \/ ReconcileFailed({})
        /\ Answers(op.call, status, op.obj)
  BY <1>1
<1>3. Req.kind = "clear"
  BY <1>1 DEF Inv, StepInv
<1> QED
  BY <1>1, <1>2, <1>3, EndReconcile

\* The step of a clear that changes neither the db nor what the handler is.
LEMMA ClearGoesOn ==
  ASSUME Inv, pc \in {"prune", "discard"}, pc' \in {"discard", "restore"}, ans' = NoAnswer,
         UNCHANGED <<db, op, ask, call, attempts, minted, born, created, fences, unseen>>,
         shown' \subseteq Object \X Iqn \X Lun /\ OneLun(shown', Mapped(db')),
         holder' \in [Object -> Iqn \cup {None}],
         \A o \in Object : holder'[o] # None => holder'[o] = holder[o] /\ Reaches(shown', o, holder'[o]),
         told' \subseteq Object, owed' = {}, degraded' \in BOOLEAN,
         pc' = "discard" => ~degraded' /\ shown' = Desired(db', Out'),
         prClearing' \in {None, op.obj}, withheld' \subseteq Object, HoldInv',
         \A o \in Object : Releases(Mapped(db), o)' => o \in unseen' \cup told'
  PROVE  Inv'
<1>1. Typed /\ TypeOK /\ RecordInv /\ StepInv /\ PlanInv /\ FenceInv
  BY DEF Inv, Typed
<1>2. Typed'
  <2>1. prClearing' \in Object \cup {None}
    BY <1>1 DEF TypeOK
  <2>2. TypeOK'
    BY <1>1, <2>1, NothingTyped DEF TypeOK, PC, Answer
  <2> QED
    BY <1>1, <2>2, NothingTyped DEF Typed
<1>3. RecordInv'
  BY <1>1 DEF RecordInv
<1>4. Req' = Req /\ Busy /\ Busy' /\ Req.kind = "clear"
  BY <1>1 DEF Req, Busy, StepInv
<1>5. StepInv' /\ PlanInv'
  BY <1>1, <1>4 DEF StepInv, PlanInv, Lossy, Bindings
<1>6. TreeInv'
  BY DEF TreeInv
<1>7. FenceInv'
  <2>1. ASSUME op.looked, NEW o \in Object, Releases(Mapped(op.next), o)', ~Releases(Mapped(db), o)'
        PROVE  o \in op.warn \cup unseen
    BY <1>1, <2>1 DEF FenceInv, Releases
  <2> QED
    BY <2>1 DEF FenceInv
<1> QED
  BY <1>2, <1>3, <1>5, <1>6, <1>7, GoOn

LEMMA PruneStep == ASSUME Inv, Prune PROVE Inv'
<1>1. /\ pc = "prune" /\ ans' = NoAnswer
      /\ UNCHANGED <<db, withheld, op, ask, call, attempts, minted, born, created, fences, unseen>>
      /\ \/ ReconcileOK({}) /\ pc' = "discard" /\ prClearing' = prClearing
         \/ ReconcileFailed({}) /\ pc' = "restore" /\ prClearing' = None
  BY DEF Prune, wire, births
<1>2. Typed /\ TypeOK /\ StepInv /\ TreeInv /\ HoldInv /\ FenceInv
  BY DEF Inv, Typed
<1>3. /\ OneLun(shown, Mapped(db)) /\ Absent /\ owed = {} /\ prClearing = op.obj
      /\ withheld \subseteq Object
      /\ \A o \in Object : Releases(Mapped(db), o) => o \in unseen \cup told \cup {}
  BY <1>1, <1>2 DEF TreeInv, HoldInv, FenceInv, TypeOK
<1>4. /\ shown' \subseteq Object \X Iqn \X Lun /\ OneLun(shown', Mapped(db'))
      /\ holder' \in [Object -> Iqn \cup {None}]
      /\ \A o \in Object : holder'[o] # None => holder'[o] = holder[o] /\ Reaches(shown', o, holder'[o])
      /\ told' \subseteq Object /\ owed' = {} /\ degraded' \in BOOLEAN
      /\ ~degraded' => shown' = Desired(db', Out)
      /\ \A o \in withheld, q \in Iqn : ~Reaches(shown', o, q)
      /\ \A o \in Object : Releases(Mapped(db), o)' => o \in unseen' \cup told'
  BY <1>1, <1>2, <1>3, ReconcileStep
<1>5. HoldInv'
  BY <1>1, <1>2, <1>3, <1>4 DEF HoldInv, Absent
<1>6. pc' = "discard" => ~degraded' /\ shown' = Desired(db', Out')
  <2>1. pc' = "discard" => ~degraded' /\ Out' = Out
    BY <1>1 DEF ReconcileOK, Out
  <2> QED
    BY <1>4, <2>1
<1>7. prClearing' \in {None, op.obj} /\ pc' \in {"discard", "restore"} /\ withheld' \subseteq Object
  BY <1>1, <1>3
<1> QED
  BY <1>1, <1>4, <1>5, <1>6, <1>7, ClearGoesOn

\* The object is out when it is held back: that is what phase 1 was for.
LEMMA DiscardStep == ASSUME Inv, Discard PROVE Inv'
<1>1. /\ pc = "discard" /\ Busy
      /\ UNCHANGED <<db1, kernel, wire, minted, born, fence>>
      /\ UNCHANGED <<db, degraded, shown, holder, ask, call, attempts, fences, unseen, told, owed>>
  BY DEF Discard, Busy, db1, kernel, wire, fence
<1>2. Typed /\ TypeOK /\ RecordInv /\ StepInv /\ PlanInv /\ TreeInv /\ HoldInv /\ FenceInv
  BY DEF Inv, Typed
<1>3. /\ Req.kind = "clear" /\ ~degraded /\ shown = Desired(db, Out) /\ prClearing = op.obj
      /\ withheld \subseteq Object /\ op.obj \in Object /\ op.obj \in minted
  BY <1>1, <1>2, RequestsAssumption DEF StepInv, TreeInv, HoldInv, PlanInv, Planned, TypeOK
<1>4. CASE /\ withheld' = withheld \ {op.obj} /\ prClearing' = None
           /\ pc' = "restore" /\ ans' = NoAnswer /\ op' = op /\ created' = created
  <2>1. HoldInv'
    BY <1>1, <1>2, <1>4 DEF HoldInv, Absent
  <2>2. /\ shown' \subseteq Object \X Iqn \X Lun /\ OneLun(shown', Mapped(db'))
        /\ holder' \in [Object -> Iqn \cup {None}]
        /\ \A o \in Object : holder'[o] # None => holder'[o] = holder[o] /\ Reaches(shown', o, holder'[o])
        /\ told' \subseteq Object /\ owed' = {} /\ degraded' \in BOOLEAN
    BY <1>1, <1>2 DEF Typed, TypeOK, TreeInv, FenceInv
  <2>3. \A o \in Object : Releases(Mapped(db), o)' => o \in unseen' \cup told'
    BY <1>1, <1>2 DEF FenceInv, Releases
  <2>4. withheld' \subseteq Object
    BY <1>3, <1>4
  <2> QED
    BY <1>1, <1>4, <2>1, <2>2, <2>3, <2>4, ClearGoesOn
<1>5. CASE /\ withheld' = withheld \cup {op.obj} /\ prClearing' = prClearing
           /\ Answers(op.call, "failed", op.obj)
  <2>1. Out' = Out
    BY <1>3, <1>5 DEF Out
  <2>2. pc' = "idle"
    BY <1>5 DEF Answers
  <2>3. Absent'
    <3> SUFFICES ASSUME NEW o \in withheld', NEW q \in Iqn, Reaches(shown, o, q) PROVE FALSE
      BY <1>1 DEF Absent
    <3>1. o \in Out
      BY <1>3, <1>5 DEF Out
    <3> QED
      BY <1>3, <3>1, DesiredIs, ReachesShows
  <2>4. HoldInv'
    BY <1>1, <1>2, <1>3, <1>5, <2>2, <2>3 DEF HoldInv
  <2>5. prClearing' \in Object \cup {None} /\ withheld' \subseteq Object
    BY <1>3, <1>5
  <2> QED
    BY <1>1, <1>3, <1>5, <2>1, <2>4, <2>5, EndUnchanged
<1> QED
  BY <1>4, <1>5 DEF Discard

(***************************************************************************)
(* The daemon dies and comes back.                                         *)
(***************************************************************************)

LEMMA CrashStep == ASSUME Inv, Crash PROVE Inv'
<1>1. /\ pc' = "down" /\ op' = NoOp /\ degraded' = FALSE /\ ans' = NoAnswer
      /\ prClearing' = None /\ withheld' = {}
      /\ told' = told \cup (IF pc = "apply" THEN op.warn ELSE {})
      /\ UNCHANGED <<db, shown, holder, ask, call, attempts, minted, born, created,
                     fences, unseen, owed>>
  BY DEF Crash, kernel, wire, births
<1>2. Typed /\ TypeOK /\ RecordInv /\ TreeInv /\ FenceInv
  BY DEF Inv, Typed
<1>3. Typed'
  <2>1. TypeOK'
    BY <1>1, <1>2, NothingTyped DEF TypeOK, PC, Op, Answer
  <2> QED
    BY <1>1, <1>2, <2>1, NothingTyped DEF Typed
<1>4. RecordInv'
  BY <1>1, <1>2, NothingTyped DEF RecordInv
<1>5. TreeInv' /\ HoldInv'
  BY <1>1, <1>2 DEF TreeInv, HoldInv, Absent
<1>6. owed' = {} /\ \A o \in Object : Releases(Mapped(db), o)' => o \in unseen' \cup told'
  BY <1>1, <1>2 DEF FenceInv, Releases
<1> QED
  BY <1>1, <1>3, <1>4, <1>5, <1>6, FreeStep, NoAnswerStep DEF RecordInv

LEMMA OpenStep == ASSUME Inv, Open PROVE Inv'
<1>1. /\ pc = "down" /\ ReconcileOK({}) /\ pc' = "idle" /\ ans' = NoAnswer
      /\ UNCHANGED <<db, op, ask, call, attempts, minted, born, created, fences, unseen,
                     prClearing, withheld>>
  BY DEF Open, wire, births, hold
<1>2. Typed /\ TypeOK /\ RecordInv /\ StepInv /\ TreeInv /\ HoldInv /\ FenceInv
  BY DEF Inv, Typed
<1>3. op' = NoOp
  BY <1>1, <1>2 DEF StepInv, Busy
<1>4. /\ OneLun(shown, Mapped(db)) /\ Absent /\ owed = {}
      /\ \A o \in Object : Releases(Mapped(db), o) => o \in unseen \cup told \cup {}
  BY <1>1, <1>2 DEF TreeInv, HoldInv, FenceInv
<1>5. /\ shown' \subseteq Object \X Iqn \X Lun /\ OneLun(shown', Mapped(db'))
      /\ holder' \in [Object -> Iqn \cup {None}]
      /\ \A o \in Object : holder'[o] # None => holder'[o] = holder[o] /\ Reaches(shown', o, holder'[o])
      /\ told' \subseteq Object /\ owed' = {} /\ degraded' \in BOOLEAN
      /\ ~degraded' => shown' = Desired(db', Out)
      /\ \A o \in withheld, q \in Iqn : ~Reaches(shown', o, q)
      /\ \A o \in Object : Releases(Mapped(db), o)' => o \in unseen' \cup told'
  BY <1>1, <1>2, <1>4, ReconcileStep
<1>6. Typed'
  <2>1. TypeOK'
    BY <1>1, <1>2, <1>5, NothingTyped DEF TypeOK, PC, Answer
  <2> QED
    BY <1>1, <1>2, <1>5, <2>1, NothingTyped DEF Typed
<1>7. RecordInv'
  BY <1>1, <1>2 DEF RecordInv
<1>8. TreeInv'
  <2>1. Out' = Out
    BY <1>1 DEF Out
  <2> QED
    BY <1>5, <2>1 DEF TreeInv
<1>9. HoldInv'
  BY <1>1, <1>5, HoldStays
<1> QED
  BY <1>1, <1>3, <1>5, <1>6, <1>7, <1>8, <1>9, FreeStep, NoAnswerStep DEF RecordInv

(***************************************************************************)
(* The theorems.                                                           *)
(***************************************************************************)

LEMMA InitInv == Init => Inv
<1> SUFFICES ASSUME Init PROVE Inv
  OBVIOUS
<1>1. /\ WellFormed(db) /\ db \in Db /\ shown = Mapped(db) /\ degraded = FALSE
      /\ holder = [o \in Object |-> None] /\ pc = "idle" /\ op = NoOp
      /\ ask \subseteq Request /\ call = [k \in Call |-> NoRequest] /\ attempts = 0
      /\ ans = NoAnswer /\ fences = 0 /\ unseen = {} /\ told = {} /\ owed = {}
      /\ minted = {o \in Object : Recorded(o)} \cup {h \in Host : Known(h)}
      /\ born = [o \in Object |-> 0] /\ created = [o \in Object |-> 0]
      /\ prClearing = None /\ withheld = {}
  BY DeployedAssumption DEF Init, WellFormed
<1>2. OneLun(shown, Mapped(db)) /\ shown \subseteq Object \X Iqn \X Lun
  BY <1>1, MappedOneLun, MappedMember
<1>3. Typed
  <2>1. attempts \in 0..MaxAttempts /\ minted \subseteq Object \cup Host
    BY <1>1, RequestsAssumption
  <2>2. op.next \in Db /\ op.warn \subseteq Object /\ op.obj \in Object \cup {None}
    BY <1>1, NothingTyped DEF WellFormed
  <2>3. ans.status \in Status /\ pc \in PC
    BY <1>1, NothingTyped DEF Status, PC
  <2>4. \A o \in Object : holder[o] # None => Reaches(shown, o, holder[o])
    BY <1>1
  <2>5. \A k \in Call : call[k] \in ask \cup {NoRequest}
    BY <1>1
  <2>6. TypeOK
    BY <1>1, <1>2, <2>1, <2>2, <2>3, <2>4, <2>5 DEF TypeOK
  <2> QED
    BY <1>1, <2>6, NothingTyped DEF Typed
<1>4. Made(db, minted, born, call)
  BY <1>1 DEF Made, Recorded, Known
<1>5. RecordInv
  BY <1>1, <1>4, NothingTyped DEF RecordInv
<1>6. StepInv /\ PlanInv
  BY <1>1, NothingTyped DEF StepInv, PlanInv, Busy
<1>7. TreeInv /\ HoldInv
  <2>1. \A m \in Mapped(db) : m[1] \notin Out
    <3>1. \A m \in Mapped(db) : m[1] \in Object
      BY <1>1, <1>2
    <3> QED
      BY <1>1, <3>1, RequestsAssumption DEF Out
  <2>2. Desired(db, Out) = Mapped(db)
    BY <2>1 DEF Desired
  <2> QED
    BY <1>1, <1>2, <2>2 DEF TreeInv, HoldInv, Absent
<1>8. FenceInv
  BY <1>1, NothingTyped DEF FenceInv, Releases
<1>9. AnswerInv
  BY <1>1, <1>5, NothingTyped DEF AnswerInv, CreateReplaySafe, SuccessInEffect, Succeeded, To, RecordInv
<1> QED
  BY <1>3, <1>5, <1>6, <1>7, <1>8, <1>9 DEF Inv

LEMMA StutterStep == ASSUME Inv, UNCHANGED vars PROVE Inv'
<1>1. UNCHANGED <<db, degraded, shown, holder, pc, op, ask, call, attempts, ans, minted, born,
                  created, fences, unseen, told, owed, prClearing, withheld>>
  BY DEF vars, db1, kernel, hold, wire, births, fence
<1>2. Typed' /\ RecordInv'
  BY <1>1 DEF Inv, Typed, TypeOK, RecordInv
<1>3. Req' = Req /\ Busy' = Busy
  BY <1>1 DEF Req, Busy
<1>4. StepInv' /\ PlanInv' /\ TreeInv' /\ HoldInv'
  BY <1>1, <1>3 DEF Inv, StepInv, PlanInv, TreeInv, Out, HoldInv, Absent, Gone
<1>5. FenceInv'
  BY <1>1 DEF Inv, FenceInv, Releases
<1>6. AnswerInv'
  BY <1>1 DEF Inv, AnswerInv, CreateReplaySafe, SuccessInEffect, Succeeded, To, OwnRecord,
              ObjectsByName, ResolveHost, HostsByName, Known
<1> QED
  BY <1>2, <1>4, <1>5, <1>6 DEF Inv

LEMMA NextInv == Inv /\ [Next]_vars => Inv'
BY HandleStep, ReserveStep, LookStep, GateStep, PersistStep, PersistFailedStep, UnlinkStep,
   ApplyStep, PruneStep, DiscardStep, RestoreStep, CrashStep, OpenStep, StutterStep DEF Next

\* The invariant holds in every state.
LEMMA SpecInv == Spec => []Inv
BY InitInv, NextInv, PTL DEF Spec

\* Names stay unique, initiators belong to one host, connections are between
\* what exists, and a reservation has a holder that sees the device, whatever
\* attempts are carried out in whatever order: the checks of Create, Rename,
\* Connect, CreateHost, SetBindings and the deletes leave no db that
\* validateLoaded refuses at the next start.
THEOREM TypeCorrect == Spec => []TypeOK
<1>1. Inv => TypeOK
  BY DEF Inv, Typed
<1> QED
  BY <1>1, SpecInv, PTL

\* A create can be sent again: no second 201, and no conflict with the object
\* that its own first attempt has made, for as long as that object is there
\* (Create, matchExisting, createdCode).
THEOREM CreateReplays == Spec => []CreateReplaySafe
<1>1. Inv => CreateReplaySafe
  BY DEF Inv, AnswerInv
<1> QED
  BY <1>1, SpecInv, PTL

\* A success of Connect or Disconnect is in effect at every initiator of the
\* host, unless the appliance says that it is degraded, or /health that the
\* object is withheld, as it is after a clear that failed half-way (commit,
\* healIfDegraded, desiredLIO, holdBack, releaseHold).
THEOREM SuccessTakesEffect == Spec => []SuccessInEffect
<1>1. Inv => SuccessInEffect
  BY DEF Inv, AnswerInv
<1> QED
  BY <1>1, SpecInv, PTL

\* A reservation that a change takes away, and that was there when its handler
\* looked, was warned of: on success, on failure, in the log of a daemon that
\* died, and when a later reconcile takes it away (fenceLossWarningFor,
\* respondWithWarning, logFenceReleased).
THEOREM FenceLossAnnounced == Spec => []FenceLossTold
<1>1. Inv => FenceLossTold
  BY DEF Inv, FenceInv, FenceLossTold
<1> QED
  BY <1>1, SpecInv, PTL
=============================================================================
