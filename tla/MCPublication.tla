--------------------------- MODULE MCPublication ---------------------------
(***************************************************************************)
(* Instances of Publication for TLC.  Revisions a1 and a2 differ only in   *)
(* their ingress settings, so their exports have one content.              *)
(***************************************************************************)
EXTENDS Publication

CONSTANTS a1, a2, b, c

Contents == [r \in Revs |-> IF r = c THEN "C" ELSE IF r = b THEN "B" ELSE "A"]
=============================================================================
