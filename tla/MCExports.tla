----------------------------- MODULE MCExports -----------------------------
(* Module Exports on two objects, two hosts and two initiators.  A behaviour *)
(* uses two initiators at one LUN, or one initiator at two LUNs.             *)
EXTENDS Exports, TLC

Callers == (({IQN} \X {{l} : l \in Lun}) \cup ({{q} : q \in IQN} \X {Lun}))

Symmetry == Permutations(Object) \cup Permutations(Host) \cup Permutations(IQN)
=============================================================================
