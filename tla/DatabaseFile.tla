---------------------------- MODULE DatabaseFile ----------------------------
(***************************************************************************)
(* What an upgrade promises of the SQLite database of an installation,     *)
(* whoever fails or is killed when: the file appears as one whole copy of  *)
(* the old data, without rows the application could not use, or as the     *)
(* empty database of a first start, and never as a part of a copy.  Only   *)
(* the conversion that made a copy withdraws it, while it still runs, and  *)
(* only then what certified it; a copy in place never loses its            *)
(* certificate.                                                            *)
(***************************************************************************)
CONSTANTS Absent,    \* no file
          Unsound    \* rows the application could not use

VARIABLES file,        \* the database under its name
          certified,   \* the marker beside it
          old          \* the old data that a running conversion has read

Init == file \in {Absent, {}} /\ ~certified

Publish ==
    /\ file = Absent /\ old # Absent
    /\ file' = old /\ old \cap Unsound = {}
    /\ UNCHANGED certified

FirstStart == file = Absent /\ file' = {} /\ UNCHANGED certified

Withdraw == old # Absent /\ file = old /\ file' = Absent /\ UNCHANGED certified

Certify == old # Absent /\ file = old /\ certified' = TRUE /\ UNCHANGED file

Decertify == old # Absent /\ file # old /\ certified' = FALSE /\ UNCHANGED file

Next == Publish \/ FirstStart \/ Withdraw \/ Certify \/ Decertify

Spec == Init /\ [][Next]_<<file, certified>>
=============================================================================
