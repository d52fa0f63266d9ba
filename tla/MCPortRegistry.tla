---------------------------- MODULE MCPortRegistry ----------------------------
(* Three slots compete for a pool of two ports. *)
EXTENDS PortRegistry, TLC

CONSTANTS x1, x2, a, b, c

Symmetric == Permutations(Actors) \cup Permutations(Slots)
===============================================================================
