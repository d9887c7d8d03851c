----------------------------- MODULE MCHealth -----------------------------
(* Module Health on two volumes, one of them left behind by an earlier      *)
(* release.                                                                 *)
EXTENDS Health
=============================================================================
