------------------------------- MODULE Console -------------------------------
(***************************************************************************)
(* The console API of an installation: concurrent HTTP requests on the     *)
(* accounts, the configuration and the backups (httpserver, auth.Service). *)
(* A request reads and writes the database in several steps that others    *)
(* come between.  What a request asks for is chosen when its handler runs; *)
(* until then only its class matters to the gate.                          *)
(***************************************************************************)
EXTENDS Backups

CONSTANTS Requests,    \* requests served at the same time
          MaxWork,     \* bound on the requests served and the resets
          MaxEvents    \* bound on crashes, transitions and the like

ASSUME ConsoleAssumption ==
    /\ None \notin Users \cup Sessions \cup {Gone}
    /\ Cardinality(Users) >= 2 /\ Cardinality(Sessions) >= 2
    /\ Listeners # {} /\ Zones # {}
    /\ MaxWork \in Nat /\ MaxEvents \in Nat

VARIABLES reqs,      \* the requests in progress
          writable,  \* identityWritable(): standalone or current primary
          env,       \* the installation has a default ingress in its environment
          served, events

console == <<reqs, writable, env, served, events>>
vars == <<accounts, edits, backups, console>>

Owner(first) == [role |-> "owner", active |-> TRUE, changeRequired |-> FALSE,
                 hash |-> 1, since |-> 1, first |-> first]

(* A new installation, or one with two owners who are logged in, a stream  *)
(* and, if it has no default ingress, the zones with a record.             *)
Init ==
    /\ env \in BOOLEAN
    /\ \/ /\ users = [u \in Users |-> None]
          /\ sessions = [s \in Sessions |-> None]
          /\ settings = [ingress |-> FALSE, pool |-> FALSE]
          /\ zones = {}
          /\ streams = [t \in StreamIds |-> None]
       \/ LET u == CHOOSE x \in Users : TRUE
              o == CHOOSE x \in Users : x # u
              s == CHOOSE x \in Sessions : TRUE
              t == CHOOSE x \in Sessions : x # s IN
          /\ users = [x \in Users |-> IF x = u THEN Owner(TRUE) ELSE IF x = o THEN Owner(FALSE) ELSE None]
          /\ sessions = [x \in Sessions |->
                 IF x = s THEN [user |-> u, open |-> TRUE, hash |-> 1, opened |-> 1]
                 ELSE IF x = t THEN [user |-> o, open |-> TRUE, hash |-> 1, opened |-> 1] ELSE None]
          /\ settings = [ingress |-> FALSE, pool |-> TRUE]
          /\ zones = IF env THEN {} ELSE Zones
          /\ streams = [x \in StreamIds |->
                 IF x = NewUUID([i \in StreamIds |-> None])
                 THEN [listener |-> CHOOSE l \in Listeners : TRUE, enabled |-> TRUE] ELSE None]
    /\ salts = 1
    /\ actors = {}
    /\ authors = {}
    /\ records = [x \in RecordIds |->
           IF zones # {} /\ x = NewUUID([i \in RecordIds |-> None])
           THEN LET z == CHOOSE y \in Zones : TRUE IN
                [zone |-> z, writer |-> z, row |-> [type |-> "A", proxied |-> FALSE, enabled |-> TRUE]]
           ELSE None]
    /\ marked = FALSE
    /\ bundles = {}
    /\ reqs = [r \in Requests |-> None]
    /\ writable = TRUE
    /\ served = 0
    /\ events = 0

-----------------------------------------------------------------------------
(* Requests. *)
Blank == [pc |-> "", class |-> None, actor |-> None, session |-> None, hash |-> 0,
          op |-> None, id |-> None, arg |-> None]

At(r, pc) == reqs[r] # None /\ reqs[r].pc = pc

(* An export, like a reset, takes half the budget of the others, to see    *)
(* them around an import.                                                  *)
Work(class) == IF class \in {"export", "reset"} THEN 1 ELSE 2

Arrive(r, req) ==
    /\ reqs[r] = None
    /\ served + Work(req.class) <= MaxWork
    /\ served' = served + Work(req.class)
    /\ reqs' = [reqs EXCEPT ![r] = req]
    /\ UNCHANGED <<writable, env, events>>

Goto(r, req) == reqs' = [reqs EXCEPT ![r] = req] /\ UNCHANGED <<writable, env, served, events>>

Respond(r) == Goto(r, None)

(* An error answer: the write was refused, failed or was not attempted.    *)
(* An import records its failure.                                          *)
Fail(r) ==
    /\ reqs[r] # None
    /\ Respond(r)
    /\ IF reqs[r].class = "import"
       THEN EmitBackupImport(reqs[r].actor)
       ELSE UNCHANGED <<accounts, edits, backups>>

-----------------------------------------------------------------------------
(* The requests that need no role. *)

(* Bootstrap: no user is active. *)
Bootstrap(r) ==
    /\ ActiveUsers = {}
    /\ Arrive(r, [Blank EXCEPT !.pc = "bootstrap"])
    /\ UNCHANGED <<accounts, edits, backups>>

BootstrapWrite(r) ==
    /\ At(r, "bootstrap")
    /\ BootstrapUser
    /\ Respond(r)
    /\ UNCHANGED <<edits, backups>>

(* Login verifies the password against the hash it read. *)
Login(r, u) ==
    /\ u \in ActiveUsers
    /\ Arrive(r, [Blank EXCEPT !.pc = "login", !.actor = u, !.hash = users[u].hash])
    /\ UNCHANGED <<accounts, edits, backups>>

LoginWrite(r) ==
    /\ At(r, "login")
    /\ CreateSessionForCredential(reqs[r].actor, reqs[r].hash)
    /\ Respond(r)
    /\ UNCHANGED <<edits, backups>>

(* ChangePassword: also for users who must change theirs. *)
ChangePassword(r, s) ==
    /\ Live(s) /\ sessions[s].user \in ActiveUsers
    /\ Arrive(r, [Blank EXCEPT !.pc = "change", !.session = s, !.actor = sessions[s].user])
    /\ UNCHANGED <<accounts, edits, backups>>

ChangePasswordWrite(r) ==
    /\ At(r, "change")
    /\ CompletePasswordChange(reqs[r].actor, reqs[r].session)
    /\ Respond(r)
    /\ UNCHANGED <<edits, backups>>

(* Revoke finds the session and stamps it; a second stamp changes nothing. *)
Logout(s) ==
    /\ served + Work("logout") <= MaxWork
    /\ RevokeSession(s)
    /\ served' = served + Work("logout")
    /\ UNCHANGED <<reqs, writable, env, events, edits, backups>>

-----------------------------------------------------------------------------
(* The gate.  A class says whether the method is ordinary (not GET, HEAD   *)
(* or OPTIONS), which role it takes and whether a node may do it.          *)
Classes == {"read", "edit", "users", "export", "import"}
OwnerClasses == {"users", "export", "import"}

isOrdinaryMutation(class) == class # "read"
nodeReadOnlyExempt(class) == class = "export"

(* requireAuthenticatedUser, once the session was found. *)
admitted(user, class) ==
    /\ ~user.changeRequired
    /\ class \in OwnerClasses => user.role = "owner"
    /\ isOrdinaryMutation(class) => writable \/ nodeReadOnlyExempt(class)

(* Authenticate. *)
Authenticate(s) == Live(s) /\ sessions[s].user \in ActiveUsers

(* requireUser: an address of the request or the environment becomes the   *)
(* ingress of an installation without one, unless it is a node.            *)
Enter(r, s, class) ==
    /\ Authenticate(s)
    /\ admitted(users[sessions[s].user], class)
    /\ \E pc \in {"ingress", "handle"} :
       /\ pc = "ingress" => writable /\ ~settings.ingress
       /\ pc = "handle" => ~writable \/ settings.ingress \/ ~env
       /\ Arrive(r, [Blank EXCEPT !.pc = pc, !.class = class, !.actor = sessions[s].user])
    /\ UNCHANGED <<accounts, edits, backups>>

(* Another request has set it. *)
SkipIngress(r) ==
    /\ At(r, "ingress")
    /\ settings.ingress
    /\ Goto(r, [reqs[r] EXCEPT !.pc = "handle"])
    /\ UNCHANGED <<accounts, edits, backups>>

initializeIngressSideEffect(r) ==
    /\ At(r, "ingress")
    /\ InitializeIngress(TRUE)
    /\ Goto(r, [reqs[r] EXCEPT !.pc = IF settings.pool THEN "enqueue" ELSE "handle"])
    /\ UNCHANGED backups

EnqueueIngress(r) ==
    /\ At(r, "enqueue")
    /\ CreateApplyJob(reqs[r].actor)
    /\ Goto(r, [reqs[r] EXCEPT !.pc = "handle"])
    /\ UNCHANGED backups

-----------------------------------------------------------------------------
(* The handlers.  One that reads before it writes continues at "write". *)
Handles(r, class) == At(r, "handle") /\ reqs[r].class = class

Prepare(r, op, id, arg) ==
    /\ Goto(r, [reqs[r] EXCEPT !.pc = "write", !.op = op, !.id = id, !.arg = arg])
    /\ UNCHANGED <<accounts, edits, backups>>

Writes(r, op) == At(r, "write") /\ reqs[r].op = op

(* handleGetSettings and handleStatus read through GetSettings. *)
handleGetSettings(r) ==
    /\ Handles(r, "read")
    /\ GetSettings(env)
    /\ Respond(r)
    /\ UNCHANGED backups

handlePutSettings(r, patch) ==
    /\ Handles(r, "edit")
    /\ UpdateSettings(patch, env)
    /\ Respond(r)
    /\ UNCHANGED backups

handleApply(r) ==
    /\ Handles(r, "edit")
    /\ CreateApplyJob(reqs[r].actor)
    /\ Respond(r)
    /\ UNCHANGED backups

handleCreateZone(r, z) ==
    /\ Handles(r, "edit")
    /\ CreateZone(z, reqs[r].actor)
    /\ Respond(r)
    /\ UNCHANGED backups

(* The id is generated, or the body names a new one or that of any record. *)
handleAddRecord(r, z, d, row) ==
    /\ Handles(r, "edit")
    /\ records[d] = None => d = NewUUID(records)
    /\ AddRecord(z, d, row, reqs[r].actor)
    /\ Respond(r)
    /\ UNCHANGED backups

(* The record is looked up in the zone, then written whole. *)
handlePatchRecord(r, d) ==
    /\ Handles(r, "edit")
    /\ records[d] # None
    /\ Prepare(r, "record", d, records[d].zone)

PatchRecordWrite(r, row) ==
    /\ Writes(r, "record")
    /\ AddRecord(reqs[r].arg, reqs[r].id, row, reqs[r].actor)
    /\ Respond(r)
    /\ UNCHANGED backups

handleCreateStream(r, row) ==
    /\ Handles(r, "edit")
    /\ HasRoom(streams)
    /\ AddStream(NewUUID(streams), row)
    /\ Respond(r)
    /\ UNCHANGED backups

(* The patch is merged over the row read here. *)
handlePatchStream(r, t, patch) ==
    /\ Handles(r, "edit")
    /\ streams[t] # None
    /\ Prepare(r, "stream", t, mergeStreamBody(streams[t], patch))

PatchStreamWrite(r) ==
    /\ Writes(r, "stream")
    /\ AddStream(reqs[r].id, reqs[r].arg)
    /\ Respond(r)
    /\ UNCHANGED backups

handleDeleteStream(r, t) ==
    /\ Handles(r, "edit")
    /\ streams[t] # None
    /\ Prepare(r, "unstream", t, None)

DeleteStreamWrite(r) ==
    /\ Writes(r, "unstream")
    /\ DeleteStream(reqs[r].id)
    /\ Respond(r)
    /\ UNCHANGED backups

handleCreateUser(r, role) ==
    /\ Handles(r, "users")
    /\ CreateUser(role, reqs[r].actor)
    /\ Respond(r)
    /\ UNCHANGED <<edits, backups>>

(* Service.UpdateUser and DeleteUser count the owners before the store does. *)
activeOwnerCount == Cardinality(Owners)

handleUpdateUser(r, u, patch) ==
    /\ Handles(r, "users")
    /\ Exists(u)
    /\ users[u].role = "owner" /\ patch \in {"operator", "disable"} => activeOwnerCount > 1
    /\ Prepare(r, "patch", u, patch)

UpdateUserWrite(r) ==
    /\ Writes(r, "patch")
    /\ UpdateUser(reqs[r].id, reqs[r].arg, reqs[r].actor)
    /\ Respond(r)
    /\ UNCHANGED <<edits, backups>>

handleDeleteUser(r, u) ==
    /\ Handles(r, "users")
    /\ Exists(u)
    /\ users[u].role = "owner" => activeOwnerCount > 1
    /\ Prepare(r, "delete", u, None)

DeleteUserWrite(r) ==
    /\ Writes(r, "delete")
    /\ DeleteUser(reqs[r].id, reqs[r].actor, authors)
    /\ Respond(r)
    /\ UNCHANGED <<edits, backups>>

(* handleBackupExport: the read transaction is pinned, then streamed. *)
handleBackupExport(r) ==
    /\ Handles(r, "export")
    /\ Prepare(r, "export", None, Tables)

StreamBundle(r) ==
    /\ Writes(r, "export")
    /\ exportBundle(reqs[r].arg, TRUE)
    /\ Respond(r)

(* handleBackupImport: the archive is spooled and checked before any write. *)
handleBackupImport(r, b) ==
    /\ Handles(r, "import")
    /\ Importable(b)
    /\ ReplaceTables(Payload(b))
    /\ Goto(r, [reqs[r] EXCEPT !.pc = "write", !.op = "import"])

(* The files are restored, the job is enqueued and the import recorded. *)
FinishImport(r) ==
    /\ Writes(r, "import")
    /\ Trigger(reqs[r].actor)
    /\ Respond(r)

-----------------------------------------------------------------------------
(* Around the requests. *)

(* Events count only while a request is in progress. *)
Event ==
    /\ events < MaxEvents
    /\ \E r \in Requests : reqs[r] # None
    /\ events' = events + 1
    /\ UNCHANGED <<env, served>>

(* A promotion or demotion of the installation takes effect in memory, for *)
(* the requests that arrive later.                                         *)
Transition ==
    /\ Event
    /\ served < MaxWork
    /\ writable' = ~writable
    /\ UNCHANGED <<accounts, edits, backups, reqs>>

(* proxycore-admin reset-password, in a process of its own. *)
runResetPassword(u) ==
    /\ served + Work("reset") <= MaxWork
    /\ ResetPassword(u)
    /\ served' = served + Work("reset")
    /\ UNCHANGED <<reqs, writable, env, events, edits, backups>>

(* The stream of an export breaks, and the client keeps what it has. *)
StreamBreaks(r) ==
    /\ Event
    /\ Writes(r, "export")
    /\ exportBundle(reqs[r].arg, FALSE)
    /\ reqs' = [reqs EXCEPT ![r] = None]
    /\ UNCHANGED writable

(* The server stops; the requests are lost with their answers. *)
Crash ==
    /\ Event
    /\ reqs' = [r \in Requests |-> None]
    /\ UNCHANGED <<accounts, edits, backups, writable>>

SpoilBundle(b) == Event /\ (\E how \in {"altered", "foreign"} : Spoil(b, how)) /\ UNCHANGED <<reqs, writable>>

Patch == {[listener |-> l] : l \in Listeners} \cup {[enabled |-> e] : e \in BOOLEAN}

Edit(r) ==
    \/ handleGetSettings(r) \/ handleApply(r)
    \/ \E z \in Zones : handleCreateZone(r, z)
    \/ \E patch \in SUBSET {"ingress", "pool"} : handlePutSettings(r, patch)
    \/ \E d \in RecordIds : handlePatchRecord(r, d)
    \/ \E row \in RecordRows : PatchRecordWrite(r, row)
    \/ \E z \in Zones, d \in RecordIds, row \in RecordRows : handleAddRecord(r, z, d, row)
    \/ \E row \in StreamRows : handleCreateStream(r, row)
    \/ \E t \in StreamIds : handleDeleteStream(r, t) \/ \E patch \in Patch : handlePatchStream(r, t, patch)
    \/ PatchStreamWrite(r) \/ DeleteStreamWrite(r)

Account(r) ==
    \/ Bootstrap(r) \/ BootstrapWrite(r) \/ LoginWrite(r) \/ ChangePasswordWrite(r) \/ UpdateUserWrite(r) \/ DeleteUserWrite(r)
    \/ \E u \in Users : Login(r, u) \/ handleDeleteUser(r, u)
    \/ \E role \in {"owner", "operator"} : handleCreateUser(r, role)
    \/ \E u \in Users, patch \in Patches : handleUpdateUser(r, u, patch)
    \/ \E s \in Sessions : ChangePassword(r, s)

Backup(r) ==
    \/ handleBackupExport(r) \/ StreamBundle(r) \/ StreamBreaks(r) \/ FinishImport(r)
    \/ \E b \in bundles : handleBackupImport(r, b)

Gate(r) ==
    \/ \E s \in Sessions, class \in Classes : Enter(r, s, class)
    \/ SkipIngress(r) \/ initializeIngressSideEffect(r) \/ EnqueueIngress(r)

Next ==
    \/ \E r \in Requests : Gate(r) \/ Edit(r) \/ Account(r) \/ Backup(r) \/ Fail(r)
    \/ \E s \in Sessions : Logout(s)
    \/ \E u \in Users : runResetPassword(u)
    \/ \E b \in bundles : SpoilBundle(b)
    \/ Transition \/ Crash

Spec == Init /\ [][Next]_vars
-----------------------------------------------------------------------------
(***************************************************************************)
(* Of several simultaneous bootstraps of a new installation one succeeds,  *)
(* and from then on there is an active owner: no order of demotions,       *)
(* disablings, deletions and restored backups, each checked against a      *)
(* count that may be old, removes the last one (sqliteOwnerGuard).         *)
(***************************************************************************)
OwnerRemains ==
    /\ (\E u \in Users : users[u] # None) => Owners # {}
    /\ Cardinality({u \in Users : Exists(u) /\ users[u].first}) <= 1

(***************************************************************************)
(* No session outlives a reset of its user's password or the user's own    *)
(* change of it (passwordMutation): every open session was opened with     *)
(* that password or a later one, or made the change, also a session whose  *)
(* login had verified the old password before.  A password that an owner   *)
(* sets for a user (UpdateUser) revokes nothing: the sessions open at that *)
(* time stay open, but none is opened with the former password afterwards. *)
(***************************************************************************)
SessionsMatchPassword ==
    \A s \in Sessions : Live(s) =>
        LET session == sessions[s]
            row == users[session.user] IN
        /\ Exists(session.user)
        /\ session.hash >= row.since
        /\ session.opened >= row.hash => session.hash = row.hash

(* The records of a zone that its own transactions wrote last. *)
OwnRecords(rows, z) == {d \in Stored(rows) : rows[d].zone = z /\ rows[d].writer = z}

(* They are valid together, as the renderer requires of a zone. *)
ValidZone(rows, z, ingress) == validateRecordSet([d \in OwnRecords(rows, z) |-> rows[d].row], ingress)

(***************************************************************************)
(* Whatever requests edit and restore at the same time, every record has   *)
(* its zone, and the stored records and streams pass the validation that   *)
(* the renderers repeat: no conflicting listeners, no CNAME beside another *)
(* record of its zone, no proxied record without an ingress.  The one      *)
(* exception is a record that a POST to another zone overwrote, naming its *)
(* id: it is validated with the records of the zone of the request.        *)
(***************************************************************************)
ConfigurationValid ==
    /\ \A d \in Stored(records) : records[d].zone \in zones
    /\ \A z \in Zones : ValidZone(records, z, settings.ingress)
    /\ validateStreamRoutes(streams)

(***************************************************************************)
(* Every finished bundle can be restored, one exported after a restore     *)
(* too: its tables belong to one moment, so its references resolve, an     *)
(* owner can log in and the configuration is as valid as the stored one    *)
(* always is, and it carries exactly one marker.                           *)
(***************************************************************************)
BundleRestores ==
    \A b \in bundles :
        /\ b.markers = 1
        /\ References(b.tables)
        /\ \E u \in Users : LET row == b.tables.users[u] IN
               row \notin {None, Gone} /\ row.active /\ row.role = "owner"
        /\ \A z \in Zones : ValidZone(b.tables.records, z, b.tables.settings.ingress)
        /\ validateStreamRoutes(b.tables.streams)
=============================================================================
