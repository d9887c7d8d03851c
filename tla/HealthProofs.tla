--------------------------- MODULE HealthProofs ---------------------------
(***************************************************************************)
(* The safety properties of module Health, for every set of volumes.       *)
(*                                                                         *)
(* A reconcile visits, in full or by delta, exactly the volumes that may   *)
(* not be as desired; the invariant says what is known of the ones it is   *)
(* through with (VisitInv), of the ones the cached view vouches for        *)
(* (ViewInv), and of what was found when the outcome is published          *)
(* (FoundInv, PubInv).                                                     *)
(***************************************************************************)
EXTENDS Health, TLAPS

Visiting == {"ensure", "enable", "write"}

\* The operation in flight.
OpInv ==
  /\ pc = "idle" => op.kind = "none"
  /\ pc # "idle" => op.kind # "none"
  /\ op.kind \in {"heal", "recover"} /\ pc \in Visiting \cup {"walk", "publish"} => pub.err
  /\ pc \in {"enable", "write"} => op.cur \in op.todo /\ op.cur \notin exported
  /\ pc = "write" => dev[op.cur].st = "on"
  /\ pc = "discard" => ~pub.err /\ op.kind = "clear" /\ pub.clearing \in Vol
  /\ op.kind = "clear" => pub.clearing \in Vol
  /\ up = "down" => pc = "idle"
  /\ up = "starting" => op.kind = "replay"

\* A volume that is wanted and not to be visited any more is enabled, and has
\* its geometry unless it is exported without it.  A full pass has reported
\* exactly what is left of those.
VisitInv ==
  pc \in Visiting =>
    /\ op.todo \subseteq Desired
    /\ \A v \in Desired \ op.todo : dev[v].st = "on" /\ (v \in exported \/ dev[v].geo)
    /\ op.full => \A v \in Vol, a \in Attr :
                    <<v, a>> \in op.drift <=>
                      v \in Desired \ op.todo /\ <<v, a>> \in Mismatch(v)
    /\ ~op.full => applied.known

\* Outside of the reconcile that replaces it, the cached view is what the
\* kernel exports.
ViewInv ==
  /\ applied.known /\ pc \notin {"walk", "publish"} => exported = applied.in
  /\ pc \in {"walk", "publish"} => exported = Desired

\* What the walks find is exact.
FoundInv ==
  /\ pc = "walk" /\ op.full => op.drift = Drifted(Vol)
  /\ pc = "publish" => op.drift = Drifted(Vol \ op.unread)

\* So is what is published, until a reconcile changes the kernel again.
PubInv ==
  up # "down" /\ ~pub.err /\ pc \in {"idle", "note", "discard"} =>
    pub.drift = Drifted(Vol \ pub.unread)

Inv == TypeOK /\ OpInv /\ VisitInv /\ ViewInv /\ FoundInv /\ PubInv

(***************************************************************************)
(* The operators.                                                          *)
(***************************************************************************)

LEMMA NothingTyped ==
  /\ NoDevice \in Device /\ NoDevice.st = "none"
  /\ NoView \in View /\ NoView.known = FALSE
  /\ NoOp \in Op /\ NoOp.kind = "none"
  /\ NoHealth \in Published /\ NoHealth.err = FALSE
  /\ NotNoted \in Note
BY HealthAssumption
DEF NoDevice, Device, NoView, View, NoOp, Op, Kind, NoHealth, Published, NotNoted, Note

\* The pairs of a drift.
LEMMA DriftedMember ==
  /\ \A S, v, a : <<v, a>> \in Drifted(S) <=> v \in S \cap exported /\ <<v, a>> \in Mismatch(v)
  /\ \A S, v, a : <<v, a>> \in Drifted(S)' <=>
                    v \in S \cap exported' /\ <<v, a>> \in Mismatch(v)'
<1>1. ASSUME NEW S, NEW v, NEW a
      PROVE  <<v, a>> \in Drifted(S) <=> v \in S \cap exported /\ <<v, a>> \in Mismatch(v)
  <2>1. ASSUME NEW w, <<v, a>> \in Mismatch(w) PROVE v = w
    BY <2>1 DEF Mismatch
  <2> QED
    BY <2>1 DEF Drifted
<1>2. ASSUME NEW S, NEW v, NEW a
      PROVE  <<v, a>> \in Drifted(S)' <=> v \in S \cap exported' /\ <<v, a>> \in Mismatch(v)'
  <2>1. ASSUME NEW w, <<v, a>> \in Mismatch(w)' PROVE v = w
    BY <2>1 DEF Mismatch
  <2> QED
    BY <2>1 DEF Drifted
<1> QED
  BY <1>1, <1>2

LEMMA DriftedType ==
  /\ TypeOK => \A S : Drifted(S) \subseteq Vol \X Attr
  /\ TypeOK' => \A S : Drifted(S)' \subseteq Vol \X Attr
<1>1. TypeOK => exported \subseteq Vol
  BY DEF TypeOK
<1>2. TypeOK' => exported' \subseteq Vol
  BY DEF TypeOK
<1>3. \A v : Mismatch(v) \subseteq {v} \X Attr
  BY DEF Mismatch
<1>4. \A v : Mismatch(v)' \subseteq {v} \X Attr
  BY DEF Mismatch
<1>5. TypeOK => \A S : Drifted(S) \subseteq Vol \X Attr
  BY <1>1, <1>3 DEF Drifted
<1>6. TypeOK' => \A S : Drifted(S)' \subseteq Vol \X Attr
  BY <1>2, <1>4 DEF Drifted
<1> QED
  BY <1>5, <1>6

\* The device that a step leaves of another.
LEMMA TunedDevice ==
  ASSUME TypeOK, NEW v \in Vol, NEW keys
  PROVE  /\ Tuned(v, keys) \in Device /\ Tuned(v, keys).st = dev[v].st
         /\ Tuned(v, keys).buf = dev[v].buf
         /\ Tuned(v, keys).geo <=> (dev[v].geo \/ ("geo" \in keys /\ GeoWritable(v)))
         /\ Tuned(v, keys).wce = IF "wce" \in keys THEN WriteCache(v) ELSE dev[v].wce
BY HealthAssumption DEF TypeOK, Tuned, Device, WriteCache

LEMMA WrittenDevice ==
  ASSUME TypeOK, NEW v \in Vol, NEW keys
  PROVE  /\ Written(v, keys) \in Device /\ Written(v, keys).st = dev[v].st
         /\ Written(v, keys).geo <=> (dev[v].geo \/ "geo" \in keys)
         /\ Written(v, keys).wce = IF "wce" \in keys THEN wb ELSE dev[v].wce
BY DEF TypeOK, Written, Device

(***************************************************************************)
(* The steps of a reconcile.                                               *)
(***************************************************************************)

\* A step that fails leaves nothing to know but that it failed.
LEMMA FailsStep ==
  ASSUME Inv, pc \in Visiting, Fails, UNCHANGED Running, dev' \in [Vol -> Device],
         exported' \subseteq {v \in Vol : dev'[v].st = "on"}
  PROVE  Inv'
<1> USE DEF Running
<1>1. /\ applied' = NoView /\ pc' = "note" /\ events' \in 0..MaxEvents
      /\ pub' = [pub EXCEPT !.err = TRUE]
      /\ op' = [op EXCEPT !.todo = {}, !.cur = NoVol, !.drift = {}]
  BY HealthAssumption DEF Fails, Event, Inv, TypeOK
<1>2. /\ pub' \in Published /\ pub'.err = TRUE /\ pub'.clearing = pub.clearing
      /\ op' \in Op /\ op'.kind = op.kind
  BY <1>1 DEF Inv, TypeOK, Published, Op
<1>3. TypeOK'
  BY <1>1, <1>2, NothingTyped DEF Inv, TypeOK, PC
<1>4. OpInv'
  BY <1>1, <1>2 DEF Inv, OpInv, Visiting
<1>5. VisitInv' /\ ViewInv' /\ FoundInv' /\ PubInv'
  BY <1>1, <1>2, NothingTyped DEF VisitInv, ViewInv, FoundInv, PubInv, Visiting
<1> QED
  BY <1>3, <1>4, <1>5 DEF Inv

\* A step on one volume that is still to be visited.  It stays that, or it is
\* as it should be, and its drift, if any, is reported.
LEMMA VolumeStep ==
  ASSUME Inv, pc \in Visiting, NEW v \in op.todo, NEW dv \in Device,
         dev' = [dev EXCEPT ![v] = dv], v \in exported => dv.st = "on",
         pc' \in Visiting, op' \in Op, op'.kind = op.kind, op'.full = op.full,
         op'.drift \in SUBSET (Vol \X Attr),
         \/ op'.todo = op.todo /\ op'.drift = op.drift
         \/ /\ op'.todo = op.todo \ {v}
            /\ dv.st = "on" /\ (v \in exported \/ dv.geo)
            /\ \A w \in Vol, a \in Attr :
                 <<w, a>> \in op'.drift <=>
                   <<w, a>> \in op.drift \/ (w = v /\ <<w, a>> \in Mismatch(w)'),
         pc' \in {"enable", "write"} => op'.cur = v /\ v \in op'.todo /\ v \notin exported,
         pc' = "write" => dv.st = "on",
         UNCHANGED <<applied, pub, events, exported, Running>>
  PROVE  Inv'
<1> USE DEF Running
<1>1. TypeOK /\ v \in Vol /\ Desired' = Desired
  BY DEF Inv, TypeOK, Op, Desired
<1>2. dev'[v] = dv /\ \A w \in Vol : w # v => dev'[w] = dev[w] /\ Mismatch(w)' = Mismatch(w)
  BY <1>1 DEF TypeOK, Mismatch
<1>3. TypeOK'
  <2>1. dev' \in [Vol -> Device]
    BY <1>1 DEF TypeOK
  <2>2. exported' \subseteq {w \in Vol : dev'[w].st = "on"}
    BY <1>1, <1>2 DEF TypeOK
  <2> QED
    BY <1>1, <2>1, <2>2 DEF TypeOK, Visiting, PC
<1>4. OpInv'
  BY <1>2 DEF Inv, OpInv, Visiting
<1>5. VisitInv'
  <2>1. op'.todo \subseteq Desired'
    BY <1>1 DEF Inv, VisitInv
  <2>2. \A w \in Desired' \ op'.todo : dev'[w].st = "on" /\ (w \in exported' \/ dev'[w].geo)
    BY <1>1, <1>2 DEF Inv, VisitInv, TypeOK, Desired
  <2>3. ASSUME op'.full, NEW w \in Vol, NEW a \in Attr
        PROVE  <<w, a>> \in op'.drift <=> w \in Desired' \ op'.todo /\ <<w, a>> \in Mismatch(w)'
    BY <1>1, <1>2, <2>3 DEF Inv, VisitInv
  <2>4. ~op'.full => applied'.known
    BY DEF Inv, VisitInv
  <2> QED
    BY <2>1, <2>2, <2>3, <2>4 DEF VisitInv
<1>6. ViewInv' /\ FoundInv' /\ PubInv'
  BY DEF Inv, ViewInv, FoundInv, PubInv, Visiting
<1> QED
  BY <1>3, <1>4, <1>5, <1>6 DEF Inv

LEMMA TuneStep == ASSUME Inv, NEW v \in Vol, Tune(v) PROVE Inv'
<1>1. /\ pc = "ensure" /\ pc \in Visiting /\ v \in op.todo /\ dev[v].st = "on" /\ TypeOK
      /\ UNCHANGED <<exported, Running>>
  BY DEF Tune, Inv, Visiting
<1>2. ASSUME NEW keys, dev' = [dev EXCEPT ![v] = Tuned(v, keys)], Fails PROVE Inv'
  <2>1. dev' \in [Vol -> Device] /\ \A w \in Vol : dev'[w].st = dev[w].st
    BY <1>1, <1>2, TunedDevice DEF TypeOK
  <2> QED
    BY <1>1, <1>2, <2>1, FailsStep DEF TypeOK
<1>3. ASSUME dev' = [dev EXCEPT ![v] = Tuned(v, Attr)],
             Proceeds("ensure", [op EXCEPT !.todo = @ \ {v}, !.drift = @ \cup TuneDrift(v)])
      PROVE  Inv'
  <2>1. PICK dv \in Device : dv = Tuned(v, Attr)
    BY <1>1, TunedDevice
  <2>2. /\ dev' = [dev EXCEPT ![v] = dv] /\ dv.st = "on"
        /\ dv.geo <=> (dev[v].geo \/ v \notin exported)
        /\ dv.wce = WriteCache(v)
    BY <1>1, <1>3, <2>1, TunedDevice DEF Attr, GeoWritable
  <2>3. \A a : <<v, a>> \in TuneDrift(v) <=>
                 \/ a = "geo" /\ ~dev[v].geo /\ v \in exported
                 \/ a = "wce" /\ WriteCache(v) # wb
    BY DEF TuneDrift, Attr, GeoWritable
  <2>4. \A d \in TuneDrift(v) : \E a \in Attr : d = <<v, a>>
    BY DEF TuneDrift
  <2>5. \A w, a : <<w, a>> \in TuneDrift(v) => w = v /\ a \in Attr
    BY <2>4
  <2>6. TuneDrift(v) \subseteq Vol \X Attr
    BY <2>4
  <2>7. /\ op' \in Op /\ op'.kind = op.kind /\ op'.full = op.full
        /\ op'.drift = op.drift \cup TuneDrift(v) /\ op'.todo = op.todo \ {v} /\ pc' = "ensure"
        /\ UNCHANGED <<applied, pub, events>>
    BY <1>1, <1>3, <2>6 DEF TypeOK, Op, Proceeds
  <2>8. dev'[v] = dv /\ wb' = wb
    BY <1>1, <2>2 DEF TypeOK, Running
  <2>9. \A a : <<v, a>> \in Mismatch(v)' <=> <<v, a>> \in TuneDrift(v)
    <3>1. \A a : <<v, a>> \in Mismatch(v)' <=> \/ a = "geo" /\ ~dv.geo
                                               \/ a = "wce" /\ dv.wce # wb
      BY <2>8 DEF Mismatch, Attr
    <3> QED
      BY <2>2, <2>3, <3>1
  <2>10. \A w \in Vol, a \in Attr :
           <<w, a>> \in op'.drift <=>
             <<w, a>> \in op.drift \/ (w = v /\ <<w, a>> \in Mismatch(w)')
    <3> SUFFICES ASSUME NEW w \in Vol, NEW a \in Attr
                 PROVE  <<w, a>> \in op'.drift <=>
                          <<w, a>> \in op.drift \/ (w = v /\ <<w, a>> \in Mismatch(w)')
      OBVIOUS
    <3>1. CASE w # v
      BY <2>5, <2>7, <3>1
    <3>2. CASE w = v
      BY <2>7, <2>9, <3>2
    <3> QED
      BY <3>1, <3>2
  <2>11. v \in exported \/ dv.geo
    BY <2>2
  <2>12. op'.drift \in SUBSET (Vol \X Attr) /\ pc' \in Visiting /\ pc' \notin {"enable", "write"}
    BY <2>7 DEF Op, Visiting
  <2> QED
    BY <1>1, <2>2, <2>7, <2>10, <2>11, <2>12, VolumeStep
<1> QED
  BY <1>2, <1>3 DEF Tune, Retuned

LEMMA MakeStep == ASSUME Inv, NEW v \in Vol, Make(v) PROVE Inv'
<1>1. /\ pc = "ensure" /\ pc \in Visiting /\ v \in op.todo /\ dev[v].st # "on" /\ TypeOK
      /\ UNCHANGED <<exported, Running>> /\ v \notin exported
  BY DEF Make, Inv, Visiting, TypeOK
<1>2. CASE Fails /\ UNCHANGED dev
  BY <1>1, <1>2, FailsStep DEF TypeOK
<1> DEFINE dv == [NoDevice EXCEPT !.st = "made", !.buf = @ \/ dev[v].buf \/ wb]
<1>3. ASSUME dev' = [dev EXCEPT ![v] = dv], Proceeds("enable", [op EXCEPT !.cur = v])
      PROVE  Inv'
  <2>1. dv \in Device
    BY <1>1, NothingTyped DEF Device, TypeOK
  <2> HIDE DEF dv
  <2>2. /\ op' \in Op /\ op'.kind = op.kind /\ op'.full = op.full /\ op'.drift = op.drift
        /\ op'.todo = op.todo /\ op'.cur = v /\ pc' = "enable" /\ UNCHANGED <<applied, pub, events>>
        /\ op'.drift \in SUBSET (Vol \X Attr)
    BY <1>1, <1>3 DEF TypeOK, Op, Proceeds
  <2> QED
    BY <1>1, <1>3, <2>1, <2>2, VolumeStep DEF Visiting
<1> QED
  BY <1>2, <1>3 DEF Make

LEMMA EnableStep == ASSUME Inv, Enable PROVE Inv'
<1>1. /\ pc = "enable" /\ pc \in Visiting /\ op.cur \in op.todo /\ op.cur \notin exported /\ TypeOK
      /\ UNCHANGED <<exported, Running>> /\ op.cur \in Vol
  BY DEF Enable, Inv, OpInv, Visiting, TypeOK, Op
<1>2. CASE Fails /\ UNCHANGED dev
  BY <1>1, <1>2, FailsStep DEF TypeOK
<1>3. ASSUME dev' = [dev EXCEPT ![op.cur].st = "on", ![op.cur].wce = dev[op.cur].buf],
             Proceeds("write", op)
      PROVE  Inv'
  <2> DEFINE dv == [dev[op.cur] EXCEPT !.st = "on", !.wce = dev[op.cur].buf]
  <2>1. dv \in Device /\ dv.st = "on"
    <3>1. \A d \in Device : /\ [d EXCEPT !.st = "on", !.wce = d.buf] \in Device
                             /\ [d EXCEPT !.st = "on", !.wce = d.buf].st = "on"
      BY DEF Device
    <3>2. dev[op.cur] \in Device
      BY <1>1 DEF TypeOK
    <3> QED
      BY <3>1, <3>2
  <2>2. dev' = [dev EXCEPT ![op.cur] = dv]
    BY <1>1, <1>3 DEF TypeOK
  <2> HIDE DEF dv
  <2>3. op' = op /\ pc' = "write" /\ UNCHANGED <<applied, pub, events>>
        /\ op.drift \in SUBSET (Vol \X Attr) /\ op \in Op
    BY <1>1, <1>3 DEF TypeOK, Op, Proceeds
  <2> QED
    BY <1>1, <2>1, <2>2, <2>3, VolumeStep DEF Visiting
<1> QED
  BY <1>2, <1>3 DEF Enable

LEMMA WriteAttrsStep == ASSUME Inv, WriteAttrs PROVE Inv'
<1>1. /\ pc = "write" /\ pc \in Visiting /\ op.cur \in op.todo /\ op.cur \notin exported /\ TypeOK
      /\ UNCHANGED <<exported, Running>> /\ op.cur \in Vol /\ dev[op.cur].st = "on"
  BY DEF WriteAttrs, Inv, OpInv, Visiting, TypeOK, Op
<1>2. ASSUME NEW keys, dev' = [dev EXCEPT ![op.cur] = Written(op.cur, keys)], Fails PROVE Inv'
  <2>1. dev' \in [Vol -> Device] /\ \A w \in Vol : dev'[w].st = dev[w].st
    BY <1>1, <1>2, WrittenDevice DEF TypeOK
  <2> QED
    BY <1>1, <1>2, <2>1, FailsStep DEF TypeOK
<1>3. ASSUME dev' = [dev EXCEPT ![op.cur] = Written(op.cur, Attr)],
             Proceeds("ensure", [op EXCEPT !.todo = @ \ {op.cur}, !.cur = NoVol])
      PROVE  Inv'
  <2>1. PICK v \in Vol : v = op.cur
    BY <1>1
  <2>2. PICK dv \in Device : dv = Written(v, Attr)
    BY <1>1, WrittenDevice
  <2>3. dev' = [dev EXCEPT ![v] = dv] /\ dv.st = "on" /\ dv.geo /\ dv.wce = wb
    BY <1>1, <1>3, <2>1, <2>2, WrittenDevice DEF Attr
  <2>4. /\ op' \in Op /\ op'.kind = op.kind /\ op'.full = op.full /\ op'.drift = op.drift
        /\ op'.todo = op.todo \ {v} /\ pc' = "ensure" /\ UNCHANGED <<applied, pub, events>>
        /\ op'.drift \in SUBSET (Vol \X Attr)
    BY <1>1, <1>3, <2>1 DEF TypeOK, Op, Proceeds
  <2>5. dev'[v] = dv /\ wb' = wb
    BY <1>1, <2>3 DEF TypeOK, Running
  <2>6. \A a : <<v, a>> \notin Mismatch(v)'
    BY <2>3, <2>5 DEF Mismatch, Attr
  <2>7. \A w \in Vol, a \in Attr :
          <<w, a>> \in op'.drift <=>
            <<w, a>> \in op.drift \/ (w = v /\ <<w, a>> \in Mismatch(w)')
    BY <2>4, <2>6
  <2> QED
    BY <1>1, <2>1, <2>3, <2>4, <2>7, VolumeStep DEF Visiting
<1> QED
  BY <1>2, <1>3 DEF WriteAttrs

LEMMA WireStep == ASSUME Inv, Wire PROVE Inv'
<1>1. /\ pc = "ensure" /\ pc \in Visiting /\ op.todo = {} /\ TypeOK /\ UNCHANGED Running
      /\ Desired \subseteq Vol /\ \A v \in Desired : dev[v].st = "on"
  BY DEF Wire, Inv, VisitInv, Visiting, TypeOK, Desired
<1>2. ASSUME NEW lost, exported' = (exported \cup Desired) \ lost, Fails, UNCHANGED dev PROVE Inv'
  <2>1. exported' \subseteq {v \in Vol : dev'[v].st = "on"} /\ dev' \in [Vol -> Device]
    BY <1>1, <1>2 DEF TypeOK
  <2> QED
    BY <1>1, <1>2, <2>1, FailsStep
<1>3. ASSUME exported' = (exported \cup Desired) \ Gone(Desired), dev' = Pruned(Desired),
             pc' = "walk", pub' = pub, UNCHANGED <<op, applied, events>>
      PROVE  Inv'
  <2>1. Desired' = Desired /\ wb' = wb /\ UNCHANGED <<up, withheld, prClearing>>
    BY <1>1 DEF Running, Desired
  <2>2. exported' = Desired
    <3>1. CASE op.full
      BY <1>1, <1>3, <3>1 DEF Gone, TypeOK
    <3>2. CASE ~op.full
      <4>1. exported = applied.in
        BY <1>1, <3>2 DEF Inv, VisitInv, ViewInv, Visiting
      <4> QED
        BY <1>3, <3>2, <4>1 DEF Gone
    <3> QED
      BY <3>1, <3>2
  <2>3. Desired \cap Gone(Desired) = {}
    BY DEF Gone
  <2>4. \A v \in Desired : dev'[v] = dev[v]
    BY <1>1, <1>3, <2>3 DEF Pruned
  <2>5. dev' \in [Vol -> Device]
    BY <1>1, <1>3, NothingTyped DEF Pruned, TypeOK
  <2>6. TypeOK'
    BY <1>1, <1>3, <2>1, <2>2, <2>4, <2>5 DEF TypeOK, PC, Running
  <2>7. OpInv' /\ VisitInv' /\ ViewInv' /\ PubInv'
    BY <1>1, <1>3, <2>1, <2>2 DEF Inv, OpInv, VisitInv, ViewInv, PubInv, Visiting
  <2>8. FoundInv'
    <3> SUFFICES ASSUME op.full PROVE op.drift = Drifted(Vol)'
      BY <1>3 DEF FoundInv
    <3>1. \A v \in Desired : Mismatch(v)' = Mismatch(v)
      BY <2>1, <2>4 DEF Mismatch
    <3>2. \A v \in Vol, a \in Attr : <<v, a>> \in op.drift <=> v \in Desired /\ <<v, a>> \in Mismatch(v)
      BY <1>1 DEF Inv, VisitInv
    <3>3. \A v \in Vol, a \in Attr :
            <<v, a>> \in Drifted(Vol)' <=> v \in exported' /\ <<v, a>> \in Mismatch(v)'
      BY DriftedMember
    <3>4. Drifted(Vol)' \in SUBSET (Vol \X Attr)
      BY <2>6, DriftedType
    <3>5. op.drift \in SUBSET (Vol \X Attr)
      BY <1>1 DEF TypeOK, Op
    <3>6. \A v \in Vol, a \in Attr : <<v, a>> \in op.drift <=> <<v, a>> \in Drifted(Vol)'
      BY <2>2, <3>1, <3>2, <3>3
    <3> QED
      BY <3>4, <3>5, <3>6
  <2> QED
    BY <2>6, <2>7, <2>8 DEF Inv
<1> QED
  BY <1>2, <1>3 DEF Wire, BeforeWalks

LEMMA WalkStep == ASSUME Inv, Walk PROVE Inv'
<1>1. PICK unread \in SUBSET {v \in Desired : ~op.full /\ v \in exported} :
        /\ pc' = "publish"
        /\ op' = [op EXCEPT !.drift = Drift(unread), !.unread = unread, !.unbound = unbound]
        /\ IF unread = {} THEN UNCHANGED events ELSE Event
  BY DEF Walk
<1>2. /\ pc = "walk" /\ TypeOK /\ exported = Desired
      /\ UNCHANGED <<conn, wb, kernel, up, applied, withheld, prClearing, pub, noted>>
  BY DEF Walk, Inv, ViewInv
<1>3. unread \subseteq Vol /\ (op.full => unread = {})
  BY <1>2 DEF TypeOK
<1>4. Drift(unread) = Drifted(Vol \ unread)
  <2>1. CASE op.full
    <3>1. Vol \ unread = Vol
      BY <1>3, <2>1
    <3> QED
      BY <1>2, <2>1, <3>1 DEF Drift, Inv, FoundInv
  <2>2. CASE ~op.full
    <3>1. (Desired \ unread) \cap exported = (Vol \ unread) \cap exported
      BY <1>2 DEF TypeOK
    <3> QED
      BY <2>2, <3>1 DEF Drift, Drifted
  <2> QED
    BY <2>1, <2>2
<1>5. Drift(unread) \in SUBSET (Vol \X Attr)
  BY <1>2, <1>4, DriftedType
<1>6. /\ op' \in Op /\ op'.drift = Drift(unread) /\ op'.unread = unread /\ op'.kind = op.kind
  BY <1>1, <1>2, <1>3, <1>5 DEF TypeOK, Op
<1>7. events' \in 0..MaxEvents
  BY <1>1, <1>2, HealthAssumption DEF TypeOK, Event
<1>8. TypeOK'
  BY <1>1, <1>2, <1>6, <1>7 DEF TypeOK, kernel, PC
<1>9. Drifted(Vol \ unread)' = Drifted(Vol \ unread)
  BY <1>2 DEF Drifted, Mismatch, kernel
<1>10. FoundInv'
  BY <1>1, <1>4, <1>6, <1>9 DEF FoundInv
<1>11. OpInv' /\ VisitInv' /\ ViewInv' /\ PubInv'
  BY <1>1, <1>2, <1>6 DEF Inv, OpInv, VisitInv, ViewInv, PubInv, Visiting, kernel, Desired
<1> QED
  BY <1>8, <1>10, <1>11 DEF Inv

LEMMA PublishStep == ASSUME Inv, Publish PROVE Inv'
<1>1. /\ pc = "publish" /\ pc' = "note" /\ TypeOK /\ exported = Desired
      /\ applied' = AppliedView
      /\ pub' = [pub EXCEPT !.err = FALSE, !.drift = op.drift, !.unread = op.unread,
                            !.unbound = op.unbound]
      /\ UNCHANGED <<conn, wb, kernel, up, withheld, prClearing, op, noted, events>>
  BY DEF Publish, DriftNow, Inv, ViewInv
<1>2. /\ pub' \in Published /\ pub'.drift = op.drift /\ pub'.unread = op.unread
      /\ pub'.clearing = pub.clearing
  BY <1>1 DEF TypeOK, Op, Published
<1>3. applied' \in View /\ applied'.in = Desired
  <2>1. \A d \in op.drift : d[1] \in Vol
    BY <1>1 DEF TypeOK, Op
  <2>2. {d[1] : d \in op.drift} \subseteq Vol /\ Desired \subseteq Vol
    BY <1>1, <2>1 DEF TypeOK, Desired
  <2> QED
    BY <1>1, <2>2 DEF AppliedView, View
<1>4. TypeOK'
  BY <1>1, <1>2, <1>3 DEF TypeOK, kernel, PC
<1>5. PubInv'
  <2>1. Drifted(Vol \ op.unread)' = Drifted(Vol \ op.unread)
    BY <1>1 DEF Drifted, Mismatch, kernel
  <2> QED
    BY <1>1, <1>2, <2>1 DEF Inv, FoundInv, PubInv
<1>6. OpInv' /\ VisitInv' /\ ViewInv' /\ FoundInv'
  BY <1>1, <1>2, <1>3 DEF Inv, OpInv, VisitInv, ViewInv, FoundInv, Visiting, kernel
<1> QED
  BY <1>4, <1>5, <1>6 DEF Inv

(***************************************************************************)
(* The operations.                                                         *)
(***************************************************************************)

\* A reconcile begins: what it leaves out, the cached view vouches for.
LEMMA BeginStep ==
  ASSUME Inv, pc \notin {"walk", "publish"}, NEW kind \in Kind \ {"none", "replay"}, NEW want,
         Begin(kind, want), want = Desired', up = "up", up' = "up",
         UNCHANGED <<wb, kernel, applied>>,
         conn' \subseteq Vol, withheld' \subseteq Vol, prClearing' \in Vol \cup {NoVol},
         pub' \in Published, noted' \in Note, events' \in 0..MaxEvents,
         kind \in {"heal", "recover"} => pub'.err, kind = "clear" => pub'.clearing \in Vol
  PROVE  Inv'
<1>1. TypeOK /\ want \subseteq Vol
  BY DEF Inv, Desired
<1>2. PICK full \in {TRUE, ~applied.known} :
        /\ pc' = "ensure"
        /\ op' = [NoOp EXCEPT !.kind = kind, !.full = full,
                              !.todo = IF full THEN want ELSE Changed(want)]
  BY DEF Begin
<1>3. full \in BOOLEAN /\ (~full => applied.known)
  BY <1>1, <1>2 DEF TypeOK, View
<1>4. NoOp.drift = {} /\ NoOp \in Op
  BY NothingTyped DEF NoOp
<1>5. Changed(want) \subseteq want
  BY DEF Changed
<1>6. /\ op' \in Op /\ op'.kind = kind /\ op'.full = full /\ op'.drift = {}
      /\ op'.todo = (IF full THEN want ELSE Changed(want))
  BY <1>1, <1>2, <1>3, <1>4, <1>5 DEF Op
<1>7. TypeOK'
  BY <1>1, <1>2, <1>6 DEF TypeOK, kernel, PC
<1>8. OpInv'
  BY <1>2, <1>6 DEF OpInv, Visiting, Kind
<1>9. VisitInv'
  <2>1. ASSUME NEW v \in Desired' \ op'.todo PROVE dev'[v].st = "on" /\ v \in exported'
    <3>1. ~full /\ v \in applied.in
      BY <1>6, <2>1 DEF Changed
    <3>2. v \in exported
      BY <1>3, <3>1 DEF Inv, ViewInv
    <3> QED
      BY <1>1, <3>2 DEF TypeOK, kernel
  <2>2. full => Desired' \ op'.todo = {}
    BY <1>6
  <2>3. op'.todo \subseteq Desired' /\ (~op'.full => applied'.known)
    BY <1>3, <1>5, <1>6
  <2>4. op'.full => \A v \in Vol, a \in Attr :
          <<v, a>> \in op'.drift <=> v \in Desired' \ op'.todo /\ <<v, a>> \in Mismatch(v)'
    BY <1>6, <2>2
  <2> QED
    BY <2>1, <2>3, <2>4 DEF VisitInv
<1>10. ViewInv' /\ FoundInv' /\ PubInv'
  BY <1>2 DEF Inv, ViewInv, FoundInv, PubInv, kernel
<1> QED
  BY <1>7, <1>8, <1>9, <1>10 DEF Inv

LEMMA EventType == ASSUME Inv, Event PROVE events' \in 0..MaxEvents
BY HealthAssumption DEF Inv, TypeOK, Event

LEMMA ShownType ==
  /\ TypeOK => Shown \in Note
  /\ TypeOK' => Shown' \in Note
BY DEF Shown, Note, Status, Conditions

\* Memory changes outside of a reconcile and nothing of what the drift is
\* about.
LEMMA QuietStep ==
  ASSUME Inv, UNCHANGED <<wb, dev, exported, applied>>, TypeOK', OpInv',
         pc \in {"idle", "note", "discard"}, pc' \in {"idle", "note", "discard"},
         up' # "down" => up # "down" /\ pub'.drift = pub.drift /\ pub'.unread = pub.unread
                         /\ pub'.err = pub.err
  PROVE  Inv'
<1>1. \A S : Drifted(S)' = Drifted(S)
  BY DEF Drifted, Mismatch
<1>2. VisitInv' /\ ViewInv' /\ FoundInv'
  BY DEF Inv, VisitInv, ViewInv, FoundInv, Visiting
<1>3. PubInv'
  BY <1>1 DEF Inv, PubInv
<1> QED
  BY <1>2, <1>3 DEF Inv

LEMMA ReconcileEndsStep == ASSUME Inv, ReconcileEnds PROVE Inv'
<1>1. /\ pc = "note" /\ noted' = Shown /\ TypeOK /\ op.kind # "none" /\ op.kind \in Kind
      /\ UNCHANGED <<conn, wb, kernel, applied, withheld, events>>
  BY DEF ReconcileEnds, NoteHealth, Inv, OpInv, TypeOK, Op
<1>2. noted' \in Note
  BY <1>1, ShownType
<1>3. CASE /\ op.kind = "replay" /\ up' = IF pub.err THEN "down" ELSE "up"
           /\ pc' = "idle" /\ op' = NoOp /\ UNCHANGED <<pub, prClearing>>
  <2>1. TypeOK' /\ OpInv'
    BY <1>1, <1>2, <1>3, NothingTyped DEF Inv, TypeOK, OpInv, PC, kernel, Visiting
  <2>2. up # "down"
    BY <1>1 DEF Inv, OpInv
  <2> QED
    BY <1>1, <1>3, <2>1, <2>2, QuietStep DEF kernel
<1>4. CASE op.kind = "clear" /\ ~pub.err /\ pc' = "discard" /\ UNCHANGED <<op, pub, up, prClearing>>
  <2>1. TypeOK' /\ OpInv'
    BY <1>1, <1>2, <1>4 DEF Inv, TypeOK, OpInv, PC, kernel, Visiting
  <2> QED
    BY <1>1, <1>4, <2>1, QuietStep DEF kernel
<1>5. CASE /\ op.kind = "clear" /\ pub.err /\ prClearing' = NoVol
           /\ Begin("recover", conn \ Out(withheld, NoVol)) /\ UNCHANGED <<pub, up>>
  <2>1. conn \ Out(withheld, NoVol) = Desired'
    BY <1>1, <1>5 DEF Desired
  <2>2. up = "up"
    BY <1>1, <1>5 DEF Inv, OpInv, TypeOK
  <2> QED
    BY <1>1, <1>2, <1>5, <2>1, <2>2, BeginStep DEF TypeOK, Kind
<1>6. CASE /\ op.kind \in {"change", "heal", "restore", "recover"}
           /\ pub' = [pub EXCEPT !.clearing = NoVol]
           /\ pc' = "idle" /\ op' = NoOp /\ UNCHANGED <<up, prClearing>>
  <2>1. pub' \in Published /\ pub'.drift = pub.drift /\ pub'.unread = pub.unread /\ pub'.err = pub.err
    BY <1>1, <1>6 DEF TypeOK, Published
  <2>2. TypeOK' /\ OpInv'
    BY <1>1, <1>2, <1>6, <2>1, NothingTyped DEF Inv, TypeOK, OpInv, PC, kernel, Visiting
  <2> QED
    BY <1>1, <1>6, <2>1, <2>2, QuietStep DEF kernel
<1> QED
  BY <1>3, <1>4, <1>5, <1>6 DEF ReconcileEnds, AfterReconcile

LEMMA ChangeStep == ASSUME Inv, NEW c \in SUBSET Vol, Change(c) PROVE Inv'
<1>1. /\ Idle /\ conn' = c /\ Begin("change", c \ Out(withheld, prClearing)) /\ TypeOK
      /\ UNCHANGED <<wb, kernel, up, applied, withheld, prClearing, pub, noted>>
      /\ events' \in 0..MaxEvents
  BY EventType DEF Change, Inv
<1>2. c \ Out(withheld, prClearing) = Desired'
  BY <1>1 DEF Desired
<1> QED
  BY <1>1, <1>2, BeginStep DEF TypeOK, Idle, Kind

LEMMA HealStep == ASSUME Inv, Heal PROVE Inv'
<1>1. /\ Idle /\ pub.err /\ Begin("heal", Desired) /\ TypeOK
      /\ UNCHANGED <<conn, wb, kernel, up, applied, withheld, prClearing, pub, noted>>
      /\ events' \in 0..MaxEvents
  BY EventType DEF Heal, Inv
<1>2. Desired = Desired'
  BY <1>1 DEF Desired
<1> QED
  BY <1>1, <1>2, BeginStep DEF TypeOK, Idle, Kind

LEMMA ClearReservationStep == ASSUME Inv, NEW v \in Vol, ClearReservation(v) PROVE Inv'
<1>1. /\ Idle /\ prClearing' = v /\ Begin("clear", conn \ Out(withheld, v)) /\ TypeOK
      /\ pub' = [pub EXCEPT !.clearing = v]
      /\ UNCHANGED <<conn, wb, kernel, up, applied, withheld, noted>>
      /\ events' \in 0..MaxEvents
  BY EventType DEF ClearReservation, Inv
<1>2. conn \ Out(withheld, v) = Desired'
  BY <1>1 DEF Desired
<1>3. pub' \in Published /\ pub'.clearing = v
  BY <1>1 DEF TypeOK, Published
<1> QED
  BY <1>1, <1>2, <1>3, BeginStep DEF TypeOK, Idle, Kind

LEMMA DiscardStep == ASSUME Inv, Discard PROVE Inv'
<1>1. /\ pc = "discard" /\ TypeOK /\ pub.clearing \in Vol /\ up = "up"
      /\ UNCHANGED <<conn, wb, kernel, up, applied, noted>>
  <2>1. pc = "discard" /\ TypeOK /\ OpInv /\ UNCHANGED <<conn, wb, kernel, up, applied, noted>>
    BY DEF Discard, Inv
  <2>2. op.kind = "clear" /\ pub.clearing \in Vol
    BY <2>1 DEF OpInv
  <2>3. up # "down" /\ up # "starting" /\ up \in {"down", "starting", "up"}
    BY <2>1, <2>2 DEF OpInv, TypeOK
  <2> QED
    BY <2>1, <2>2, <2>3
<1>2. CASE /\ withheld' = Released(pub.clearing) /\ prClearing' = NoVol
           /\ Begin("restore", conn \ Out(withheld', NoVol)) /\ UNCHANGED <<pub, events>>
  <2>1. conn \ Out(withheld', NoVol) = Desired' /\ withheld' \subseteq Vol
    BY <1>1, <1>2 DEF Desired, Released, TypeOK
  <2> QED
    BY <1>1, <1>2, <2>1, BeginStep DEF TypeOK, Kind
<1>3. CASE /\ withheld' = withheld \cup {pub.clearing} /\ UNCHANGED prClearing
           /\ pub' = [pub EXCEPT !.clearing = NoVol] /\ pc' = "idle" /\ op' = NoOp /\ Event
  <2>1. pub' \in Published /\ pub'.drift = pub.drift /\ pub'.unread = pub.unread /\ pub'.err = pub.err
    BY <1>1, <1>3 DEF TypeOK, Published
  <2>2. events' \in 0..MaxEvents
    BY <1>3, EventType
  <2>3. TypeOK' /\ OpInv'
    BY <1>1, <1>3, <2>1, <2>2, NothingTyped DEF Inv, TypeOK, OpInv, PC, kernel, Visiting
  <2> QED
    BY <1>1, <1>3, <2>1, <2>3, QuietStep DEF kernel
<1> QED
  BY <1>2, <1>3 DEF Discard

LEMMA RecheckPRStep == ASSUME Inv, RecheckPR PROVE Inv'
<1>1. /\ Idle /\ pub' = [pub EXCEPT !.unbound = unbound] /\ noted' = Shown' /\ TypeOK
      /\ UNCHANGED <<conn, wb, kernel, memory, events>>
  BY DEF RecheckPR, RecheckNotes, Inv
<1>2. /\ pub' \in Published /\ pub'.drift = pub.drift /\ pub'.unread = pub.unread
      /\ pub'.err = pub.err /\ pub'.clearing = pub.clearing
  BY <1>1 DEF TypeOK, Published
<1>3. noted' \in Note
  BY <1>1 DEF Shown, Note, Status, Conditions
<1>4. TypeOK' /\ OpInv'
  BY <1>1, <1>2, <1>3 DEF Inv, TypeOK, OpInv, kernel, memory
<1> QED
  BY <1>1, <1>2, <1>4, QuietStep DEF kernel, memory, Idle

LEMMA FenceMovesStep == ASSUME Inv, FenceMoves PROVE Inv'
<1>1. /\ unbound' \in BOOLEAN /\ TypeOK /\ events' \in 0..MaxEvents
      /\ UNCHANGED <<conn, wb, dev, exported, memory, pub, noted>>
  BY EventType DEF FenceMoves, Inv, TypeOK
<1>2. TypeOK'
  BY <1>1 DEF TypeOK, memory
<1>3. \A S : Drifted(S)' = Drifted(S)
  BY <1>1 DEF Drifted, Mismatch
<1>4. Desired' = Desired /\ \A v : Mismatch(v)' = Mismatch(v)
  BY <1>1 DEF Desired, Mismatch, memory
<1> QED
  BY <1>1, <1>2, <1>3, <1>4
  DEF Inv, OpInv, VisitInv, ViewInv, FoundInv, PubInv, memory

\* Nothing is known of a daemon that is down.
LEMMA DownStep ==
  ASSUME Inv, Stops, UNCHANGED <<conn, wb, unbound>>, events' \in 0..MaxEvents,
         dev' \in [Vol -> Device], exported' \subseteq {v \in Vol : dev'[v].st = "on"}
  PROVE  Inv'
<1>1. TypeOK'
  BY NothingTyped DEF Inv, TypeOK, Stops, PC
<1>2. OpInv' /\ VisitInv' /\ ViewInv' /\ FoundInv' /\ PubInv'
  BY NothingTyped DEF Stops, OpInv, VisitInv, ViewInv, FoundInv, PubInv, Visiting
<1> QED
  BY <1>1, <1>2 DEF Inv

LEMMA StartStep == ASSUME Inv, NEW flag \in BOOLEAN, Start(flag) PROVE Inv'
<1>1. /\ wb' = flag /\ up' = "starting" /\ applied' = NoView /\ withheld' = {}
      /\ prClearing' = NoVol /\ pub' = NoHealth /\ noted' = NotNoted /\ pc' = "ensure"
      /\ op' = [NoOp EXCEPT !.kind = "replay", !.full = TRUE, !.todo = conn]
      /\ UNCHANGED <<conn, kernel, events>> /\ TypeOK
  BY DEF Start, Inv
<1>2. NoOp \in Op /\ NoOp.drift = {}
  BY NothingTyped DEF NoOp
<1>3. /\ op' \in Op /\ op'.kind = "replay" /\ op'.full = TRUE /\ op'.todo = conn
      /\ op'.drift = {}
  BY <1>1, <1>2 DEF TypeOK, Op, Kind
<1>4. Desired' = conn
  BY <1>1, HealthAssumption DEF Desired, Out, TypeOK
<1>5. TypeOK'
  BY <1>1, <1>3, NothingTyped DEF TypeOK, kernel, PC
<1>6. OpInv' /\ VisitInv'
  BY <1>1, <1>3, <1>4 DEF OpInv, VisitInv, Visiting
<1>7. ViewInv' /\ FoundInv' /\ PubInv'
  BY <1>1, NothingTyped DEF ViewInv, FoundInv, PubInv
<1> QED
  BY <1>5, <1>6, <1>7 DEF Inv

LEMMA InitInv == Init => Inv
<1> SUFFICES ASSUME Init PROVE Inv
  OBVIOUS
<1>1. [NoDevice EXCEPT !.st = "on"] \in Device /\ [NoDevice EXCEPT !.st = "on"].st = "on"
  BY NothingTyped DEF Device
<1> DEFINE old == [NoDevice EXCEPT !.st = "on"]
<1>2. old \in Device /\ old.st = "on"
  BY <1>1
<1>3. dev = [v \in Vol |-> IF v \in Legacy THEN old ELSE NoDevice]
  BY DEF Init
<1> HIDE DEF old
<1>4. TypeOK
  <2>1. dev \in [Vol -> Device]
    BY <1>2, <1>3, NothingTyped
  <2>2. exported \subseteq {v \in Vol : dev[v].st = "on"}
    BY <1>2, <1>3, HealthAssumption DEF Init
  <2>3. events \in 0..MaxEvents
    BY HealthAssumption DEF Init
  <2> QED
    BY <2>1, <2>2, <2>3, NothingTyped, HealthAssumption DEF Init, TypeOK, PC
<1>5. OpInv /\ VisitInv /\ ViewInv /\ FoundInv /\ PubInv
  BY NothingTyped DEF Init, OpInv, VisitInv, ViewInv, FoundInv, PubInv, Visiting
<1> QED
  BY <1>4, <1>5 DEF Inv

LEMMA NextInv == ASSUME Inv, [Next]_vars PROVE Inv'
<1>1. CASE UNCHANGED vars
  <2>1. /\ \A S : Drifted(S)' = Drifted(S) /\ Desired' = Desired
        /\ \A v : Mismatch(v)' = Mismatch(v)
    BY <1>1 DEF vars, kernel, memory, Drifted, Mismatch, Desired
  <2> QED
    BY <1>1, <2>1 DEF vars, kernel, memory, Inv, TypeOK, OpInv, VisitInv, ViewInv, FoundInv, PubInv
<1>2. CASE ReconcileStep
  BY <1>2, TuneStep, MakeStep, EnableStep, WriteAttrsStep, WireStep, WalkStep, PublishStep,
     ReconcileEndsStep, DiscardStep DEF ReconcileStep
<1>3. CASE Crash
  BY <1>3, EventType, DownStep DEF Crash, kernel, Inv, TypeOK
<1>4. CASE Reboot
  BY <1>4, EventType, DownStep, NothingTyped DEF Reboot
<1> QED
  BY <1>1, <1>2, <1>3, <1>4, RecheckPRStep, ChangeStep, HealStep, ClearReservationStep,
     FenceMovesStep, StartStep DEF Next

LEMMA SpecInv == Spec => []Inv
BY InitInv, NextInv, PTL DEF Spec

(***************************************************************************)
(* The properties.                                                         *)
(***************************************************************************)

\* Every variable has its type in every reachable state; in particular no LUN
\* is in front of a backstore that is not enabled (ensureBackstore).
THEOREM TypeCorrect == Spec => []TypeOK
<1>1. Inv => TypeOK
  BY DEF Inv
<1> QED
  BY <1>1, SpecInv, PTL

\* What /health shows as drift is exact (VerifyDrift, publishReconcile).
THEOREM DriftShown == Spec => []DriftExact
<1>1. Inv => DriftExact
  <2> SUFFICES ASSUME Inv PROVE DriftExact
    OBVIOUS
  <2>1. ASSUME up = "up", ~pub.err, pc = "idle" \/ op.kind \in {"heal", "recover"}
        PROVE  pub.drift = Drifted(Vol \ pub.unread)
    BY <2>1 DEF Inv, OpInv, PubInv, TypeOK, PC, Visiting
  <2>2. ASSUME pub.drift = Drifted(Vol \ pub.unread)
        PROVE  /\ Drifted(Vol) \subseteq pub.drift \cup (pub.unread \X Attr)
               /\ pub.drift \subseteq Drifted(Vol)
    <3>1. TypeOK /\ Drifted(Vol) \subseteq Vol \X Attr /\ pub.drift \subseteq Vol \X Attr
      BY <2>2, DriftedType DEF Inv
    <3>2. \A v \in Vol, a \in Attr :
            <<v, a>> \in Drifted(Vol) => <<v, a>> \in pub.drift \/ v \in pub.unread
      BY <2>2, DriftedMember
    <3>3. \A v \in Vol, a \in Attr : <<v, a>> \in pub.drift => <<v, a>> \in Drifted(Vol)
      BY <2>2, DriftedMember
    <3> QED
      BY <3>1, <3>2, <3>3
  <2> QED
    BY <2>1, <2>2 DEF DriftExact, Idle
<1> QED
  BY <1>1, SpecInv, PTL

\* ensureBackstore: a LUN appears only in front of a device with its geometry.
THEOREM GeometryFirst == Spec => GeometryBeforeExport
<1> DEFINE Geo == \A v \in exported' \ exported : dev'[v].geo
<1>1. Inv /\ [Next]_vars => [Geo]_vars
  <2> SUFFICES ASSUME Inv, Next, NEW v \in exported' \ exported PROVE dev'[v].geo
    OBVIOUS
  <2>1. CASE Wire
    <3>1. v \in Desired /\ dev[v].geo
      BY <2>1 DEF Wire, Inv, VisitInv, Visiting
    <3>2. dev'[v] = dev[v]
      <4>1. v \in Vol /\ v \notin Gone(Desired)
        BY <3>1 DEF Gone, Desired, Inv, TypeOK
      <4> QED
        BY <2>1, <4>1 DEF Wire, Pruned
    <3> QED
      BY <3>1, <3>2
  <2>2. CASE ~Wire
    BY <2>2
    DEF Next, ReconcileStep, Tune, Make, Enable, WriteAttrs, Walk, Publish, ReconcileEnds, Discard,
        RecheckPR, Change, Heal, ClearReservation, FenceMoves, Crash, Reboot, Start, kernel
  <2> QED
    BY <2>1, <2>2
<1> QED
  BY <1>1, SpecInv, PTL DEF Spec, GeometryBeforeExport

\* constrainWriteCache: an exported device never starts to hide a write cache,
\* provided that the kernel's info line names the mode of the device.
THEOREM CacheDeclared == ModeShown => (Spec => CacheStaysDeclared)
<1> SUFFICES ASSUME ModeShown PROVE Spec => CacheStaysDeclared
  OBVIOUS
<1> DEFINE Declared == \A v \in exported \cap exported' : Hides(v)' => Hides(v)
<1>1. Inv /\ [Next]_vars => [Declared]_vars
  <2> SUFFICES ASSUME Inv, Next, NEW v \in exported \cap exported', Hides(v)' PROVE Hides(v)
    OBVIOUS
  <2>1. v \in Vol /\ dev[v].st = "on" /\ TypeOK
    BY DEF Inv, TypeOK
  <2>2. CASE dev'[v] = dev[v]
    BY <2>2 DEF Hides
  <2>3. ASSUME NEW w \in Vol, Tune(w) PROVE Hides(v)
    <3>1. PICK keys \in Prefix : dev' = [dev EXCEPT ![w] = Tuned(w, keys)]
      BY <2>3 DEF Tune, Retuned, Prefix
    <3>2. CASE v # w
      BY <2>1, <2>2, <3>1, <3>2 DEF TypeOK
    <3>3. CASE v = w
      <4>1. dev'[v] = Tuned(v, keys)
        BY <2>1, <3>1, <3>3 DEF TypeOK
      <4>2. dev'[v].buf = dev[v].buf /\ dev'[v].wce = IF "wce" \in keys THEN dev[v].buf ELSE dev[v].wce
        BY <2>1, <4>1, TunedDevice DEF WriteCache
      <4> QED
        BY <4>2 DEF Hides
    <3> QED
      BY <3>2, <3>3
  <2>4. ASSUME NEW w \in Vol, Make(w) PROVE Hides(v)
    BY <2>1, <2>2, <2>4 DEF Make, TypeOK
  <2>5. CASE Enable \/ WriteAttrs
    <3>1. op.cur # v
      BY <2>5 DEF Enable, WriteAttrs, Inv, OpInv
    <3>2. dev'[v] = dev[v]
      BY <2>1, <2>5, <3>1 DEF Enable, WriteAttrs, TypeOK
    <3> QED
      BY <2>2, <3>2
  <2>6. CASE Wire
    BY <2>1, <2>2, <2>6 DEF Wire, Pruned
  <2>7. CASE Reboot
    BY <2>7 DEF Reboot
  <2>8. CASE UNCHANGED dev
    BY <2>2, <2>8
  <2> QED
    BY <2>3, <2>4, <2>5, <2>6, <2>7, <2>8
    DEF Next, ReconcileStep, Walk, Publish, ReconcileEnds, Discard,
        RecheckPR, Change, Heal, ClearReservation, FenceMoves, Crash, Start, kernel
<1> QED
  BY <1>1, SpecInv, PTL DEF Spec, CacheStaysDeclared
=============================================================================
