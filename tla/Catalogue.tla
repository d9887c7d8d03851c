----------------------------- MODULE Catalogue ------------------------------
(***************************************************************************)
(* What the record db promises, without the machinery: a catalogue of      *)
(* objects that changes by one whole operation at a time.  A write may or  *)
(* may not be proven durable; a power loss takes the catalogue back to the *)
(* last write that was, or leaves it; an operator may put the newest       *)
(* backup in its place, or lose it.  Nothing else ever changes a record:   *)
(* there is no half operation and no operation that undoes another.        *)
(*                                                                         *)
(* Module ObjectsRefinement shows that module Objects, with its steps in   *)
(* memory, on disk and in the kernel, implements this.                     *)
(***************************************************************************)
EXTENDS Naturals

CONSTANTS Object, Name, NoName, MaxSize

VARIABLES
  cat,   \* the catalogue that a start would load now
  safe,  \* the one that is sure to survive a power loss
  kept   \* the one in the newest backup

vars == <<cat, safe, kept>>

NoEntry == [name |-> NoName, cap |-> 0]
Blank(p) == [present |-> p, obj |-> [o \in Object |-> NoEntry], conn |-> {}]
Absent == Blank(FALSE)
Empty == Blank(TRUE)

Listed(c, o) == c.obj[o] # NoEntry
FreeName(n) == \A o \in Object : cat.obj[o].name # n

Init == cat = Absent /\ safe = Absent /\ kept = Absent

\* The write of a new catalogue: durable, or visible only; what was there is
\* kept as the backup, or is not.
Write(c) ==
  /\ cat' = c
  /\ safe' \in {c, safe}
  /\ kept' \in {cat, kept}

\* The identifier is in no catalogue that can come back.
Create(o, n, s) ==
  /\ \A c \in {cat, safe, kept} : ~Listed(c, o)
  /\ FreeName(n)
  /\ Write([cat EXCEPT !.obj[o] = [name |-> n, cap |-> s]])

Rename(o, n) ==
  /\ Listed(cat, o) /\ FreeName(n)
  /\ Write([cat EXCEPT !.obj[o].name = n])

Resize(o, s) ==
  /\ Listed(cat, o) /\ s > cat.obj[o].cap
  /\ Write([cat EXCEPT !.obj[o].cap = s])

Delete(o) ==
  /\ Listed(cat, o) /\ o \notin cat.conn
  /\ Write([cat EXCEPT !.obj[o] = NoEntry])

Connect(o) ==
  /\ Listed(cat, o) /\ o \notin cat.conn
  /\ Write([cat EXCEPT !.conn = @ \cup {o}])

Disconnect(o) ==
  /\ o \in cat.conn
  /\ Write([cat EXCEPT !.conn = @ \ {o}])

\* A write that fails can have linked its backup before.
BackUp == cat.present /\ kept' = cat /\ UNCHANGED <<cat, safe>>

First == ~cat.present /\ cat' = Empty /\ safe' \in {Empty, safe} /\ UNCHANGED kept

PowerLoss == \E c \in {cat, safe} : cat' = c /\ safe' = c /\ UNCHANGED kept

Lose == cat' = Absent /\ safe' = Absent /\ UNCHANGED kept

Restore == kept.present /\ cat' = kept /\ safe' = kept /\ UNCHANGED kept

Next ==
  \/ \E o \in Object, n \in Name, s \in 1..MaxSize : Create(o, n, s)
  \/ \E o \in Object, n \in Name : Rename(o, n)
  \/ \E o \in Object, s \in 1..MaxSize : Resize(o, s)
  \/ \E o \in Object : Delete(o) \/ Connect(o) \/ Disconnect(o)
  \/ BackUp \/ First \/ PowerLoss \/ Lose \/ Restore

Spec == Init /\ [][Next]_vars
=============================================================================
