----------------------------- MODULE MCPortals -----------------------------
(* Model-checking instance of Portals: every kind of address on one port, and *)
(* on a second port one address that another program has bound.              *)
EXTENDS Portals

CONSTANTS a4, a6

MCAddr4 == {a4}
MCAddr6 == {a6}
MCTaken == {[ip |-> a4, port |-> 3261]}
MCPortal == [ip: {Any4, Any6, a4, a6}, port: {3260}] \cup MCTaken
=============================================================================
