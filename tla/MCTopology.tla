----------------------------- MODULE MCTopology -----------------------------
(***************************************************************************)
(* Instances of Topology for TLC.  Installations are interchangeable.      *)
(***************************************************************************)
EXTENDS Topology, TLC

CONSTANTS A, B

Interchange == Permutations(Installations)
=============================================================================
