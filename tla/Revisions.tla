----------------------------- MODULE Revisions -----------------------------
(***************************************************************************)
(* Configuration contents, shared by every module.  A revision stands for  *)
(* one configuration snapshot, identified by its checksum.                 *)
(***************************************************************************)
CONSTANTS Revs,  \* the snapshots that occur
          None   \* SQL NULL, a missing file

ASSUME RevisionsAssumption == None \notin Revs
=============================================================================
