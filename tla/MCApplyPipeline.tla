-------------------------- MODULE MCApplyPipeline --------------------------
(***************************************************************************)
(* Instances of ApplyPipeline for TLC: edits r1 and r2, and a snapshot i1  *)
(* that a node imports.                                                    *)
(***************************************************************************)
EXTENDS ApplyInvariants, TLC

CONSTANTS r1, r2, i1

Up(fail, store, lateCalls, crash, restart) ==
    [b \in Troubles |-> CASE b = "fail"    -> fail
                         [] b = "store"   -> store
                         [] b = "late"    -> lateCalls
                         [] b = "crash"   -> crash
                         [] b = "restart" -> restart]

SafetyTroubles ==
    {Up(1, 0, 0, 0, 0), Up(0, 1, 0, 0, 0), Up(0, 0, 1, 0, 0), Up(0, 0, 0, 1, 0), Up(0, 0, 0, 0, 1)}

(* After a failure or a restart, and after a late request or a crash. *)
RecoveryTroubles == {Up(1, 0, 0, 0, 1), Up(0, 0, 1, 1, 0)}

Symmetry == Permutations(Revs \ ImportRevs) \cup Permutations(ImportRevs)
=============================================================================
