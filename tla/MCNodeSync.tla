----------------------------- MODULE MCNodeSync -----------------------------
(***************************************************************************)
(* Instances of NodeSync for TLC: revisions a and b with contents of their *)
(* own.                                                                    *)
(***************************************************************************)
EXTENDS NodeSync

CONSTANTS a, b

OwnContents == [r \in Revs |-> IF r = a THEN "A" ELSE "B"]

(* One event of each kind in the set. *)
Once(kinds) == [e \in Events |-> IF e \in kinds THEN 1 ELSE 0]

NodeFaults == {"lost", "fail", "timeout", "restart"}

(* Two faults of the node; a primary that goes back; unlinking. *)
SyncEvents ==
    {Once({k, l}) : k, l \in NodeFaults}
    \cup {Once({"revert", k}) : k \in {"timeout", "restart", "abort"}}
    \cup {Once({"secrets"})}
    \cup {Once({k, l}) : k, l \in {"unlink", "again", "lost"}}
=============================================================================
