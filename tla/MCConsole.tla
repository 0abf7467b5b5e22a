------------------------------ MODULE MCConsole ------------------------------
(* Console for TLC: requests are interchangeable. *)
EXTENDS Console, TLC

Symmetry == Permutations(Requests)
=============================================================================
