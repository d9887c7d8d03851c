--------------------------- MODULE MCReservations ---------------------------
(* Module Reservations on one object and two initiators, or on two objects  *)
(* and one initiator.                                                       *)
EXTENDS Reservations, FiniteSets, TLC

InUse == UNION {conn[o] \cup ml[o] \cup file[o].reg : o \in Object}
Focus == Cardinality(objs) = 1 \/ Cardinality(InUse) <= 1

Symmetry == Permutations(Object) \cup Permutations(Host)
=============================================================================
