----------------------------- MODULE MCFencing -----------------------------
(* Module Fencing on two initiators with two session identifiers each. *)
EXTENDS Fencing, TLC

Symmetry == Permutations(Host) \cup Permutations(Isid)
=============================================================================
