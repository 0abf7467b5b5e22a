------------------------------- MODULE Backups -------------------------------
(***************************************************************************)
(* Backup bundles: what an export writes (backupcore/httpexport, dbexport, *)
(* zipwriter) and what an import checks and restores (zipextract,          *)
(* dbimport).  A bundle holds the configuration tables, a marker encrypted *)
(* under the master key, and a checksum per entry; `state' says what       *)
(* became of the file since.                                               *)
(***************************************************************************)
EXTENDS ConfigEdits

VARIABLES marked,  \* table secrets holds a marker that an import brought
          bundles  \* the bundle files that operators keep

backups == <<marked, bundles>>

(* The tables of DefaultConfigTables that the model has. *)
Tables == [users |-> users, settings |-> settings, zones |-> zones, records |-> records,
           streams |-> streams, authors |-> authors]

(* Mutant of encodeSQLiteRows: the marker of an earlier import is a row. *)
encodeEveryRow == IF marked THEN 2 ELSE 1

(* How many markers the exported secrets table has. *)
encodeSQLiteRows == 1

(* Mutant of exportTable: each table is read when it is written. *)
exportTableNow(pinned) == [pinned EXCEPT !.records = records]

(* A table is read in the transaction that pinned the snapshot. *)
exportTable(pinned) == pinned

(* The archive is closed with its footer, or dropped without one. *)
exportBundle(pinned, finished) ==
    /\ bundles' = bundles \cup
           {[tables |-> exportTable(pinned), markers |-> encodeSQLiteRows,
             state |-> IF finished THEN "whole" ELSE "cut"]}
    /\ UNCHANGED <<marked, edits, accounts>>

(* A kept file is damaged, or comes from an installation with another key. *)
Spoil(b, how) ==
    /\ b.state = "whole"
    /\ bundles' = (bundles \ {b}) \cup {[b EXCEPT !.state = how]}
    /\ UNCHANGED <<marked, edits, accounts>>

(* What the entries of the file say now: damage may take the users. *)
Payload(b) ==
    IF b.state = "altered" THEN [b.tables EXCEPT !.users = [u \in Users |-> None], !.authors = {}]
    ELSE b.tables

(* finalizeArchive: no footer, no archive. *)
finalizeArchive(b) == b.state # "cut"

(* Mutant of verifyArchiveChecksums: entries are taken as they are. *)
checksumsIgnored(b) == TRUE

verifyArchiveChecksums(b) == b.state # "altered"

verifyMasterKey(b) == b.markers = 1 /\ b.state # "foreign"

(* Import, up to the point where a dry run returns. *)
Importable(b) == finalizeArchive(b) /\ verifyArchiveChecksums(b) /\ verifyMasterKey(b)

(* The foreign keys between the rows that sqliteInsertTable inserts. *)
References(tables) ==
    /\ \A u \in tables.authors : tables.users[u] \notin {None, Gone}
    /\ \A d \in Stored(tables.records) : tables.records[d].zone \in tables.zones

(* Deleted rows and ids stay out of use, except where the bundle has them. *)
Reinserted(old, new) ==
    [i \in DOMAIN new |->
        IF new[i] \notin {None, Gone} THEN new[i] ELSE IF old[i] = None THEN None ELSE Gone]

(* sqliteDependentDeletes: every session, job and audit event with an actor. *)
DependentDeletes ==
    /\ sessions' = [s \in Sessions |-> IF sessions[s] = None THEN None ELSE Gone]
    /\ actors' = {}

ReplaceTables(tables) ==
    /\ References(tables)
    /\ DependentDeletes
    /\ users' = Reinserted(users, tables.users)
    /\ settings' = tables.settings
    /\ zones' = tables.zones
    /\ records' = tables.records
    /\ streams' = tables.streams
    /\ authors' = tables.authors
    /\ marked' = TRUE
    /\ UNCHANGED <<salts, bundles>>

(* survivingActorApply: the importing user may not be in the bundle. *)
Trigger(actor) ==
    /\ CreateApplyJob(IF Exists(actor) THEN actor ELSE None)
    /\ UNCHANGED backups

(* EmitBackupImport, on every outcome. *)
EmitBackupImport(actor) ==
    /\ actors' = AddAudit(users, actor)
    /\ UNCHANGED <<users, sessions, salts, edits, backups>>
=============================================================================
