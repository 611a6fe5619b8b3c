--------------------------- MODULE MCSharedServers ----------------------------
(* Instances of SharedServers for TLC. *)
EXTENDS SharedServers, TLC

ServerSymmetry == Permutations(Available) \cup Permutations(Calls)
===============================================================================
