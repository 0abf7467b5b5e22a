------------------------------ MODULE Accounts ------------------------------
(***************************************************************************)
(* The accounts of an installation: the users, sessions and audit tables   *)
(* (auth.SQLiteStore) and what auth.Service reads and decides around them. *)
(* Each operator on primed variables is one write transaction of the       *)
(* store; a refused one leaves the tables alone.  A password hash is a     *)
(* number, new for every password set, since each is salted afresh.        *)
(***************************************************************************)
EXTENDS Naturals, FiniteSets

CONSTANTS Users,     \* the user ids that may come to exist
          Sessions,  \* the session ids that may be issued
          None,      \* no row yet
          Gone       \* the row was deleted

VARIABLES users,     \* table users
          sessions,  \* table sessions
          actors,    \* users that audit_events or apply_jobs name as actor
          salts      \* password hashes made so far

accounts == <<users, sessions, actors, salts>>

(* Rows of table users; see buildUser. *)
UserRows ==
    [role : {"owner", "operator"}, active : BOOLEAN, changeRequired : BOOLEAN,
     hash : Nat, since : Nat, first : BOOLEAN]

ASSUME RowsAssumption == None \notin UserRows /\ Gone \notin UserRows

(* A generated id: ids are interchangeable, so any unused one will do. *)
NewUUID(table) == CHOOSE i \in DOMAIN table : table[i] = None
HasRoom(table) == \E i \in DOMAIN table : table[i] = None

Exists(u) == users[u] \notin {None, Gone}
ActiveUsers == {u \in Users : Exists(u) /\ users[u].active}
Owners == {u \in ActiveUsers : users[u].role = "owner"}

(* FindSessionByTokenHash.  Once a session has expired no request uses it  *)
(* any more; one in progress compares with the time at which it began.     *)
Live(s) == sessions[s] \notin {None, Gone} /\ sessions[s].open

(* buildUser: `since' is the hash of the last reset or change, and `first' *)
(* remembers which user the bootstrap made.                                *)
buildUser(role, first) ==
    [role |-> role, active |-> TRUE, changeRequired |-> FALSE,
     hash |-> salts + 1, since |-> salts + 1, first |-> first]

sqliteInsertUser(row) ==
    /\ HasRoom(users)
    /\ users' = [users EXCEPT ![NewUUID(users)] = row]
    /\ salts' = salts + 1

(* AddAudit of an event that names an actor; the foreign key needs the row. *)
AddAudit(table, u) == IF table[u] \in {None, Gone} THEN actors ELSE actors \cup {u}

CreateUser(role, actor) ==
    /\ sqliteInsertUser(buildUser(role, FALSE))
    /\ actors' = AddAudit(users, actor)
    /\ UNCHANGED sessions

(* Mutant of BootstrapUser: the count is not repeated in the transaction. *)
BootstrapUserUnchecked ==
    /\ sqliteInsertUser(buildUser("owner", TRUE))
    /\ UNCHANGED <<sessions, actors>>

BootstrapUser ==
    /\ ActiveUsers = {}
    /\ sqliteInsertUser(buildUser("owner", TRUE))
    /\ UNCHANGED <<sessions, actors>>

(* Mutant of sqliteOwnerGuard: left to the count outside the transaction. *)
OwnerGuardSkipped(u, removing) == TRUE

(* The last active owner can neither be demoted, disabled nor deleted. *)
sqliteOwnerGuard(u, removing) == (u \in Owners /\ removing) => Cardinality(Owners) > 1

(* What a PATCH of a user changes: one of its three fields. *)
Patches == {"owner", "operator", "enable", "disable", "password"}

Patched(row, patch) ==
    CASE patch \in {"owner", "operator"} -> [row EXCEPT !.role = patch]
      [] patch = "enable"   -> [row EXCEPT !.active = TRUE]
      [] patch = "disable"  -> [row EXCEPT !.active = FALSE]
      [] patch = "password" -> [row EXCEPT !.hash = salts + 1]

UpdateUser(u, patch, actor) ==
    LET next == Patched(users[u], patch) IN
    /\ Exists(u)
    /\ sqliteOwnerGuard(u, ~next.active \/ next.role # "owner")
    /\ users' = [users EXCEPT ![u] = next]
    /\ salts' = IF patch = "password" THEN salts + 1 ELSE salts
    /\ actors' = AddAudit(users, actor)
    /\ UNCHANGED sessions

(* Sessions cascade; audit events, jobs and revisions (authors) that name  *)
(* the user refuse the deletion (ON DELETE NO ACTION).                     *)
DeleteUser(u, actor, authors) ==
    /\ Exists(u)
    /\ sqliteOwnerGuard(u, TRUE)
    /\ u \notin actors \cup authors
    /\ users' = [users EXCEPT ![u] = Gone]
    /\ sessions' = [s \in Sessions |->
           IF sessions[s] \in {None, Gone} THEN sessions[s]
           ELSE IF sessions[s].user = u THEN Gone ELSE sessions[s]]
    /\ actors' = AddAudit(users', actor)
    /\ UNCHANGED salts

(* `hash' of a session is the password it stands for, `opened' the latest  *)
(* password of any user when it was opened.                                *)
sqliteInsertSession(u, h) ==
    /\ HasRoom(sessions)
    /\ sessions' = [sessions EXCEPT ![NewUUID(sessions)] =
                        [user |-> u, open |-> TRUE, hash |-> h, opened |-> salts]]

(* Mutant of CreateSessionForCredential: the plain CreateSession. *)
CreateSessionUnchecked(u, h) ==
    /\ Exists(u)
    /\ sqliteInsertSession(u, h)
    /\ UNCHANGED <<users, actors, salts>>

(* The credential that Login verified must still be the stored one. *)
CreateSessionForCredential(u, h) ==
    /\ u \in ActiveUsers
    /\ users[u].hash = h
    /\ sqliteInsertSession(u, h)
    /\ UNCHANGED <<users, actors, salts>>

(* sessionStamp with revoked_at, and the logout event that names the user. *)
RevokeSession(s) ==
    /\ Live(s)
    /\ sessions' = [sessions EXCEPT ![s].open = FALSE]
    /\ actors' = AddAudit(users, sessions[s].user)
    /\ UNCHANGED <<users, salts>>

(* Revoke the user's open sessions, except the one kept (None on a reset). *)
RevokeOthers(u, kept) ==
    [s \in Sessions |->
        IF sessions[s] \in {None, Gone} THEN sessions[s]
        ELSE IF sessions[s].user # u THEN sessions[s]
        ELSE IF s = kept THEN [sessions[s] EXCEPT !.hash = salts + 1]
        ELSE [sessions[s] EXCEPT !.open = FALSE]]

(* passwordMutation, after the session of a change was found valid. *)
passwordMutation(u, kept) ==
    /\ u \in ActiveUsers
    /\ users' = [users EXCEPT ![u].hash = salts + 1, ![u].since = salts + 1,
                              ![u].changeRequired = kept = None]
    /\ salts' = salts + 1
    /\ sessions' = RevokeOthers(u, kept)

(* proxycore-admin reset-password: the event names no actor. *)
ResetPassword(u) == passwordMutation(u, None) /\ UNCHANGED actors

(* The transaction looks again whether the session is there and not        *)
(* revoked; its expiry is compared with the start of the request.          *)
CompletePasswordChange(u, s) ==
    /\ Live(s) /\ sessions[s].user = u
    /\ passwordMutation(u, s)
    /\ actors' = actors \cup {u}
=============================================================================
