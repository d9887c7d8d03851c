-------------------------- MODULE ObjectsRefinement --------------------------
(***************************************************************************)
(* Module Objects implements module Catalogue.  The catalogue is the       *)
(* document on disk, not the one in memory: an operation takes effect with *)
(* the rename of persist, and is nothing before it.  Whether the bytes of  *)
(* a recorded object are there is not part of what the catalogue says.     *)
(***************************************************************************)
EXTENDS Objects

\* The catalogue that a document holds.
View(d) ==
  [present |-> d.present,
   obj |-> [o \in Object |-> [name |-> d.obj[o].name, cap |-> d.obj[o].cap]],
   conn |-> d.conn]

C == INSTANCE Catalogue WITH cat <- View(disk), safe <- View(durable), kept <- View(backup)

\* Whatever is interrupted and wherever, and whatever a start marks or sets
\* aside: the records change by whole operations only, each of them made from
\* the catalogue it replaces.  No operation is lost by one that was computed
\* from an older document in memory (commit, persistOnly, restoreState, Open).
ImplementsCatalogue == C!Spec
=============================================================================
