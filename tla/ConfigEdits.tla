----------------------------- MODULE ConfigEdits -----------------------------
(***************************************************************************)
(* The stored configuration that the console edits: the installation       *)
(* settings, the zones and their records, the stream routes, and the       *)
(* revisions enqueued for apply.  One zone lies within the other and all   *)
(* records are at one name of both, so that those of a zone constrain each *)
(* other.  Each operator on primed variables is one write transaction of   *)
(* the configuration stores; a refused one leaves the tables alone.        *)
(***************************************************************************)
EXTENDS Accounts

CONSTANTS Zones, RecordIds, StreamIds,
          Listeners  \* protocol, address and port of a stream listener

VARIABLES settings,  \* table installation_settings: is each part set?
          zones,     \* table zones
          records,   \* table dns_records
          streams,   \* table stream_routes
          authors    \* actors of the rows of table config_revisions

configuration == <<settings, zones, records, streams>>
edits == <<configuration, authors>>

(* Bodies that parseRecordMutationBody and parseStreamBody accept. *)
RecordRows == [type : {"A", "CNAME"}, proxied : BOOLEAN, enabled : BOOLEAN]
StreamRows == [listener : Listeners, enabled : {TRUE}]

Stored(table) == {i \in DOMAIN table : table[i] # None}

(* SQLiteSettingsStore.settings: an ingress is taken up if none is set. *)
EnsureSettings(given) == [settings EXCEPT !.ingress = @ \/ given]

GetSettings(default) ==
    /\ settings' = EnsureSettings(default)
    /\ UNCHANGED <<zones, records, streams, authors, accounts>>

(* The ingress is new and must be applied. *)
InitializeIngress(given) ==
    /\ given /\ ~settings.ingress
    /\ settings' = EnsureSettings(given)
    /\ UNCHANGED <<zones, records, streams, authors, accounts>>

(* A patch names the parts it sets; coalesce keeps what it does not name. *)
UpdateSettings(patch, default) ==
    LET row == EnsureSettings(default) IN
    /\ settings' = [row EXCEPT !.ingress = @ \/ "ingress" \in patch,
                               !.pool = @ \/ "pool" \in patch]
    /\ UNCHANGED <<zones, records, streams, authors, accounts>>

(* A snapshot that some revision already has is not stored again, so its   *)
(* first actor stays.  The job names the actor in any case.                *)
sqliteCreateApplyJobInTransaction(actor) ==
    LET named == {actor} \ {None} IN
    /\ settings.pool
    /\ \A u \in named : Exists(u)
    /\ authors' \in {authors, authors \cup named}
    /\ actors' = actors \cup named
    /\ UNCHANGED <<users, sessions, salts>>

CreateApplyJob(actor) ==
    sqliteCreateApplyJobInTransaction(actor) /\ UNCHANGED configuration

CreateZone(z, actor) ==
    /\ z \notin zones
    /\ zones' = zones \cup {z}
    /\ sqliteCreateApplyJobInTransaction(actor)
    /\ UNCHANGED <<settings, records, streams>>

validateIngressForRecord(ingress) == ingress

(* Enabled records share a name with a CNAME only if there is no other,    *)
(* and at most one of them is proxied.                                     *)
validateRecordSet(rows, ingress) ==
    LET enabled == {d \in DOMAIN rows : rows[d].enabled} IN
    /\ \A d \in DOMAIN rows : rows[d].proxied =>
           rows[d].type \in {"A", "CNAME"} /\ validateIngressForRecord(ingress)
    /\ \A d, e \in enabled : rows[d].type = "CNAME" \/ (rows[d].proxied /\ rows[e].proxied) => d = e

sqliteZoneRecords(z) == {d \in Stored(records) : records[d].zone = z}

(* The records of zone z, with the one that the request names or adds. *)
WithRecord(z, d, row) ==
    [i \in sqliteZoneRecords(z) \cup {d} |-> IF i = d THEN row ELSE records[i].row]

(* sqliteUpsertRecord, for the record and every sibling: an existing row   *)
(* keeps its zone.  `writer' is the zone whose transaction wrote it last.  *)
sqliteUpsertRecord(z, d, row) ==
    [i \in RecordIds |->
        IF i = d
        THEN [zone |-> IF records[d] = None THEN z ELSE records[d].zone, writer |-> z, row |-> row]
        ELSE IF i \in sqliteZoneRecords(z) THEN [records[i] EXCEPT !.writer = z] ELSE records[i]]

(* Mutant of AddRecord: only the record itself is validated. *)
AddRecordAlone(z, d, row, actor) ==
    /\ z \in zones
    /\ validateRecordSet([i \in {d} |-> row], settings.ingress)
    /\ records' = sqliteUpsertRecord(z, d, row)
    /\ sqliteCreateApplyJobInTransaction(actor)
    /\ UNCHANGED <<settings, zones, streams>>

(* The siblings are read, and the job is enqueued, in the transaction.     *)
(* Record d may be a row of another zone, whose records are not looked at. *)
AddRecord(z, d, row, actor) ==
    /\ z \in zones
    /\ validateRecordSet(WithRecord(z, d, row), settings.ingress)
    /\ records' = sqliteUpsertRecord(z, d, row)
    /\ sqliteCreateApplyJobInTransaction(actor)
    /\ UNCHANGED <<settings, zones, streams>>

(* No two routes, enabled or not, have the same listener. *)
validateStreamRoutes(rows) ==
    \A t, o \in Stored(rows) : rows[t].listener = rows[o].listener => t = o

sqliteUpsertStream(t, row) == [streams EXCEPT ![t] = row]

(* No job is enqueued for a stream. *)
AddStream(t, row) ==
    /\ validateStreamRoutes([streams EXCEPT ![t] = row])
    /\ streams' = sqliteUpsertStream(t, row)
    /\ UNCHANGED <<settings, zones, records, authors, accounts>>

DeleteStream(t) ==
    /\ streams[t] # None
    /\ streams' = [streams EXCEPT ![t] = None]
    /\ UNCHANGED <<settings, zones, records, authors, accounts>>

(* mergeStreamBody: a PATCH replaces some of the fields it read. *)
mergeStreamBody(row, patch) == [f \in DOMAIN row |-> IF f \in DOMAIN patch THEN patch[f] ELSE row[f]]
=============================================================================
