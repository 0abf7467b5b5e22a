----------------------------- MODULE Conversion -----------------------------
(***************************************************************************)
(* The offline conversion of a PostgreSQL installation: the operator's     *)
(* script, proxycore-convert and pgconvert.  The copy is made in a         *)
(* temporary file, closed, validated, linked to the database's name and    *)
(* then certified by a marker; any step can fail, the file can be damaged  *)
(* before it is validated, and the process can be killed between two       *)
(* steps.  A database is a set of rows, and a row is what the checks tell  *)
(* apart.  Its schema is the ledger of the migrations applied to it:       *)
(* release v brings the first v of them.                                   *)
(***************************************************************************)
EXTENDS Naturals, Sequences

CONSTANT Absent   \* no file, no volume

VARIABLES
    legacy,     \* a PostgreSQL volume of an old release exists
    src,        \* the snapshot of its rows that the converter has read
    tool,       \* the release of the running converter, 0 when none runs
    tmp,        \* proxycore.db.tmp: its rows, its ledger, whether its pages are intact
    out,        \* proxycore.db
    ledger,     \* its proxycore_schema_migrations
    marker,     \* proxycore.db.converted.json exists
    cpc,        \* where proxycore-convert is
    up          \* the api container runs

conversionVars == <<legacy, src, tool, tmp, out, ledger, marker, cpc, up>>

(***************************************************************************)
(* The rows: an ordinary one; one of a table or with a column the mapping  *)
(* does not know; one of a column whose type or enumeration is not the     *)
(* expected one; one with a value that has no exact counterpart; one that  *)
(* refers to a missing row; a secret the master key does not open; a       *)
(* revision and a snapshot that do not match their hash.  Two more are no  *)
(* fault of the source: a row that refers to a missing one through one of  *)
(* the three references that have no foreign key (danglingRefs), which is  *)
(* copied with a warning, and one with a value that SQLite stores in       *)
(* another form than it was given.                                         *)
(***************************************************************************)
Unsound == {"unknown", "mistyped", "unmappable", "orphan", "sealed", "revision", "snapshot"}
Rows == Unsound \cup {"dangling", "coerced"}

(* The operator may repair the data between two attempts. *)
Sources == {{"plain"}} \cup {{"plain", r} : r \in Rows}

ASSUME ConversionAssumption == Absent \notin Sources \cup {{}}

ConversionInit ==
    /\ legacy \in BOOLEAN
    /\ src = Absent /\ tool = 0 /\ tmp = Absent
    /\ out = IF legacy THEN Absent ELSE {}
    /\ ledger = <<>>
    /\ marker = FALSE
    /\ cpc = "idle"
    /\ up = TRUE

-----------------------------------------------------------------------------
(* validateMigrations: the registry a release embeds, numbered from 1. *)
entries(v) == [i \in 1..v |-> i]

(* The applied migrations are the first ones of the release's registry. *)
Recognized(v) == Len(ledger) <= v /\ ledger = SubSeq(entries(v), 1, Len(ledger))

(* Mutant of Migrate: a database that has a ledger is taken for current. *)
MigrateOnce(v) ==
    /\ out' = IF out = Absent THEN {} ELSE out
    /\ ledger' = IF out = Absent THEN entries(v) ELSE ledger
    /\ up' = TRUE

(***************************************************************************)
(* Open creates the file if there is none, and Migrate applies what is     *)
(* missing in one transaction.  On a schema it does not recognize the api  *)
(* does not start.                                                         *)
(***************************************************************************)
Migrate(v) ==
    /\ up' = (out = Absent \/ Recognized(v))
    /\ out' = IF out = Absent THEN {} ELSE out
    /\ ledger' = IF up' THEN entries(v) ELSE ledger

(* Before the conversion release 0 is one that runs on PostgreSQL. *)
OnPostgres(v) == legacy /\ v = 0

ApiStarts(v) ==
    IF OnPostgres(v)
    THEN up' = TRUE /\ UNCHANGED <<out, ledger>>
    ELSE Migrate(v)

(* The worker never migrates: it waits for the schema of its own release. *)
Wait(v) == out # Absent /\ Len(ledger) = v

(* The operator stops the application, or starts its containers again. *)
StopApplication ==
    /\ legacy /\ up
    /\ up' = FALSE
    /\ UNCHANGED <<legacy, src, tool, tmp, out, ledger, marker, cpc>>

StartApplication(v) ==
    /\ ~up /\ cpc = "idle"
    /\ ApiStarts(v)
    /\ UNCHANGED <<legacy, src, tool, tmp, marker, cpc>>

-----------------------------------------------------------------------------
(* Plan: nothing is read from a schema that is not known in all its parts. *)
checkColumn(row) == row # "mistyped"
Plan(S) == "unknown" \notin S /\ \A row \in S : checkColumn(row)

(* convertValue: every value has an exact counterpart. *)
convertValue(row) == row # "unmappable"

(* An insert that refers to a missing row fails where there is a foreign   *)
(* key, foreign_keys(1), and is taken as it is in the danglingRefs.        *)
Insertable(row) == row # "orphan"

(* What the table holds after the inserts. *)
Inserted(S) == {IF row = "coerced" THEN "altered" ELSE row : row \in S}

(* Digests of the rows in any order agree exactly when the rows do. *)
SameDigest(S, D) == S = D

ReadTable(S) == \A row \in S : convertValue(row)

(* Every table is read back and compared before the commit. *)
copyTable(S) == ReadTable(S) /\ (\A row \in S : Insertable(row)) /\ SameDigest(S, Inserted(S))

(* Validate's checks of the file D against the source S; that a ciphertext *)
(* and a snapshot body are the source's is part of the first.              *)
tables(S, D) == SameDigest(S, D.rows)
foreignKeys(D) == "orphan" \notin D.rows
integrity(D) == D.intact
schema(D) == D.ledger = entries(tool)
secrets(D) == "sealed" \notin D.rows
revisions(D) == "revision" \notin D.rows
snapshots(D) == "snapshot" \notin D.rows

(* Mutant of Validate: what Convert has compared is not compared again. *)
ValidateTrusting(S, D) ==
    /\ Plan(S) /\ foreignKeys(D) /\ integrity(D) /\ schema(D)
    /\ secrets(D) /\ revisions(D) /\ snapshots(D)

Validate(S, D) ==
    /\ Plan(S) /\ tables(S, D) /\ foreignKeys(D) /\ integrity(D) /\ schema(D)
    /\ secrets(D) /\ revisions(D) /\ snapshots(D)

(* The process ends; the next one is of the release that is pulled then. *)
ConverterEnds == src' = Absent /\ tool' = 0 /\ cpc' = "idle"

(* The deferred cleanup of a run that has not published. *)
RemoveTemporary ==
    /\ ConverterEnds
    /\ tmp' = Absent
    /\ UNCHANGED <<legacy, out, ledger, marker, up>>

(* Mutant of BeginConvert: the copy is made under the database's name. *)
BeginInPlace(v) ==
    /\ cpc = "idle" /\ v > 0
    /\ legacy /\ ~up
    /\ out = Absent /\ tmp = Absent /\ ~marker
    /\ tool' = v /\ tmp' = [rows |-> {}, ledger |-> entries(v), intact |-> TRUE]
    /\ out' = {"schema"} /\ cpc' = "copy"
    /\ UNCHANGED <<legacy, src, ledger, marker, up>>

(* The script and the converter refuse while the api runs, when any output *)
(* exists and when the api image, of release v, holds no converter.  Else  *)
(* the temporary file is created with its schema.                          *)
BeginConvert(v) ==
    /\ cpc = "idle" /\ v > 0
    /\ legacy /\ ~up
    /\ out = Absent /\ tmp = Absent /\ ~marker
    /\ tool' = v /\ tmp' = [rows |-> {}, ledger |-> entries(v), intact |-> TRUE]
    /\ cpc' = "copy"
    /\ UNCHANGED <<legacy, src, out, ledger, marker, up>>

(* Convert copies all tables of the pinned snapshot in one transaction and *)
(* closes the file.                                                        *)
Copy ==
    /\ cpc = "copy"
    /\ \E S \in Sources :
          IF Plan(S) /\ copyTable(S)
          THEN /\ src' = S /\ tmp' = [tmp EXCEPT !.rows = Inserted(S)] /\ cpc' = "validate"
               /\ UNCHANGED <<legacy, tool, out, ledger, marker, up>>
          ELSE RemoveTemporary

(* The closed file is not what was committed: rows, schema or pages. *)
Damage ==
    /\ cpc = "validate"
    /\ tmp' \in {[tmp EXCEPT !.rows = {"altered"}], [tmp EXCEPT !.ledger = <<>>], [tmp EXCEPT !.intact = FALSE]}
    /\ UNCHANGED <<legacy, src, tool, out, ledger, marker, cpc, up>>

(* Validate opens the file again and compares it with the same snapshot. *)
ValidateCopy ==
    /\ cpc = "validate"
    /\ IF Validate(src, tmp)
       THEN cpc' = "link" /\ UNCHANGED <<legacy, src, tool, tmp, out, ledger, marker, up>>
       ELSE RemoveTemporary

(* os.Link gives the file its name, unless it is taken. *)
Link ==
    /\ cpc = "link"
    /\ IF out = Absent
       THEN /\ out' = tmp.rows /\ ledger' = tmp.ledger /\ tmp' = Absent /\ cpc' = "mark"
            /\ UNCHANGED <<legacy, src, tool, marker, up>>
       ELSE RemoveTemporary

(* Any step before the link may fail. *)
ConvertFails == cpc \in {"copy", "validate", "link"} /\ RemoveTemporary

(* The marker is written beside its name, linked to it and, as its last    *)
(* step, the directory is synced.                                          *)
writeMarker ==
    \/ /\ cpc = "mark"
       /\ marker' = TRUE /\ cpc' = "sync"
       /\ UNCHANGED <<legacy, src, tool, tmp, out, ledger, up>>
    \/ /\ cpc = "sync"
       /\ ConverterEnds
       /\ UNCHANGED <<legacy, tmp, out, ledger, marker, up>>

(* Mutant of MarkerFails: the marker goes first. *)
MarkerFailsBackwards ==
    /\ cpc \in {"mark", "sync"}
    /\ marker' = FALSE /\ cpc' = "unmark"
    /\ UNCHANGED <<legacy, src, tool, tmp, out, ledger, up>>

(* writeMarker fails, before or after its link: the output is removed,     *)
(* whoever uses it, and then the marker.                                   *)
MarkerFails ==
    /\ cpc \in {"mark", "sync"}
    /\ out' = Absent /\ ledger' = <<>> /\ cpc' = "unmark"
    /\ UNCHANGED <<legacy, src, tool, tmp, marker, up>>

RemoveMarker ==
    /\ cpc = "unmark"
    /\ ConverterEnds
    /\ marker' = FALSE
    /\ UNCHANGED <<legacy, tmp, out, ledger, up>>

(* The converter is killed; its files stay. *)
ConvertKilled ==
    /\ cpc # "idle"
    /\ ConverterEnds
    /\ UNCHANGED <<legacy, tmp, out, ledger, marker, up>>

(* What goes on without trouble. *)
ConvertStep(v) == BeginConvert(v) \/ Copy \/ ValidateCopy \/ Link \/ writeMarker \/ RemoveMarker

-----------------------------------------------------------------------------
(***************************************************************************)
(* Seen from outside, the conversion with all its steps, failures and      *)
(* kills is one that appears whole or not at all, with or without the      *)
(* marker: all rows are there as they were read, every secret opens, no    *)
(* revision or snapshot contradicts its hash and no row refers to a        *)
(* missing one, but for the three references the source has no foreign key *)
(* for.  A file whose marker could not be made durable is taken back       *)
(* before its marker is, so that no marker is ever taken from a file in    *)
(* place (runContext: copy beside, validate, link, certify).               *)
(***************************************************************************)
Whole == INSTANCE DatabaseFile WITH file <- out, certified <- marker, old <- src
DatabaseIsWhole == Whole!Spec

=============================================================================
