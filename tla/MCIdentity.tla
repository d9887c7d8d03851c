----------------------------- MODULE MCIdentity -----------------------------
(* Model-checking instance of Identity. *)
EXTENDS Identity, TLC

Symmetry == Permutations(Machine)

\* FabricUnique and NameKept claim nothing after a rollback: such a state is
\* checked but its successors need not be.
NoRollback == ~rolledBack
=============================================================================
