---------------------------- MODULE ConsoleProofs ----------------------------
(***************************************************************************)
(* Proofs about the console API: accounts, configuration and backups under *)
(* any number of concurrent requests, users, sessions, records, streams,   *)
(* bundles, crashes and transitions.                                       *)
(***************************************************************************)
EXTENDS Console, FiniteSetTheorems, TLAPS

-----------------------------------------------------------------------------
(* The inductive invariant. *)

SessionRows == [user : Users, open : BOOLEAN, hash : Nat, opened : Nat]
SettingsRows == [ingress : BOOLEAN, pool : BOOLEAN]
StoredRecords == [zone : Zones, writer : Zones, row : RecordRows]
StoredStreams == [listener : Listeners, enabled : BOOLEAN]

TableSets ==
    [users : [Users -> UserRows \cup {None, Gone}], settings : SettingsRows, zones : SUBSET Zones,
     records : [RecordIds -> StoredRecords \cup {None}],
     streams : [StreamIds -> StoredStreams \cup {None}], authors : SUBSET Users]

Bundles == [tables : TableSets, markers : Nat, state : {"whole", "cut", "altered", "foreign"}]

RequestRows ==
    [pc : {"bootstrap", "login", "change", "ingress", "enqueue", "handle", "write"},
     class : Classes \cup {None}, actor : Users \cup {None}, session : Sessions \cup {None},
     hash : Nat,
     op : {"record", "stream", "unstream", "patch", "delete", "export", "import", None},
     id : RecordIds \cup StreamIds \cup Users \cup {None},
     arg : Zones \cup StoredStreams \cup Patches \cup TableSets \cup {None}]

StoreTypes ==
    /\ users \in [Users -> UserRows \cup {None, Gone}]
    /\ sessions \in [Sessions -> SessionRows \cup {None, Gone}]
    /\ salts \in Nat
    /\ settings \in SettingsRows
    /\ zones \subseteq Zones
    /\ records \in [RecordIds -> StoredRecords \cup {None}]
    /\ streams \in [StreamIds -> StoredStreams \cup {None}]
    /\ authors \subseteq Users

TypeOK ==
    /\ StoreTypes
    /\ bundles \subseteq Bundles
    /\ reqs \in [Requests -> RequestRows \cup {None}]
    /\ writable \in BOOLEAN /\ env \in BOOLEAN

(* The users of a table of users. *)
Rows(table) == {u \in Users : table[u] \notin {None, Gone}}

(* Passwords of table were set in order, and the latest is at most n. *)
HashesInOrder(table, n) == \A u \in Rows(table) : table[u].since <= table[u].hash /\ table[u].hash <= n

(* The bootstrap made at most one user. *)
OneFirst(table) == \A u, v \in Rows(table) : table[u].first /\ table[v].first => u = v

AnOwner(table) == \E u \in Rows(table) : table[u].active /\ table[u].role = "owner"

(* What is true of the tables of a bundle, and of those an export pinned. *)
Restorable(tables, n) ==
    /\ HashesInOrder(tables.users, n)
    /\ OneFirst(tables.users)
    /\ AnOwner(tables.users)
    /\ References(tables)
    /\ \A z \in Zones : ValidZone(tables.records, z, tables.settings.ingress)
    /\ validateStreamRoutes(tables.streams)

(* What SessionsMatchPassword says of an open session and its user. *)
SessionOK(session, row) ==
    /\ session.hash >= row.since
    /\ session.opened >= row.hash => session.hash = row.hash

(* Open sessions are not younger than the latest password. *)
OpenedBefore == \A s \in Sessions : Live(s) => sessions[s].opened <= salts

(* Some user exists or existed. *)
SetUp == \E u \in Users : users[u] # None

StoreInv ==
    /\ StoreTypes
    /\ HashesInOrder(users, salts)
    /\ OneFirst(users)
    /\ SetUp => AnOwner(users)
    /\ \A u \in authors : Exists(u)
    /\ ConfigurationValid
    /\ SessionsMatchPassword
    /\ OpenedBefore

BundlesInv == \A b \in bundles : b.markers = 1 /\ Restorable(b.tables, salts)

(* The requests that passed the gate, and what each step relies on. *)
Entered == {"ingress", "enqueue", "handle", "write"}

RequestOK(q) ==
    /\ q.pc \in Entered =>
          SetUp /\ q.actor \in Users
    /\ q.pc = "change" => q.actor \in Users
    /\ q.pc = "write" =>
          /\ q.op = "record" => q.id \in RecordIds /\ q.arg \in Zones
          /\ q.op = "stream" => q.id \in StreamIds /\ q.arg \in StoredStreams
          /\ q.op = "unstream" => q.id \in StreamIds
          /\ q.op = "patch" => q.id \in Users /\ q.arg \in Patches
          /\ q.op = "delete" => q.id \in Users
          /\ q.op = "export" => q.arg \in TableSets /\ Restorable(q.arg, salts)

RequestsInv == \A r \in Requests : reqs[r] # None => RequestOK(reqs[r])

ConsoleInv == TypeOK /\ StoreInv /\ BundlesInv /\ RequestsInv

(* What every transaction does to what requests rely on. *)
StoreGrows == salts <= salts' /\ (SetUp => SetUp')

-----------------------------------------------------------------------------
(* Rows and their sets. *)

LEMMA ExistsIsRow ==
    ASSUME StoreTypes, NEW u \in Users
    PROVE  /\ Exists(u) <=> u \in Rows(users)
           /\ Exists(u) => users[u] \in UserRows
           /\ Exists(u) => users[u] # None
BY Zenon DEF StoreTypes, Exists, Rows

LEMMA OwnersAreOwners ==
    ASSUME StoreTypes
    PROVE  /\ Owners = {u \in Rows(users) : users[u].active /\ users[u].role = "owner"}
           /\ AnOwner(users) <=> Owners # {}
<1>1. Owners = {u \in Rows(users) : users[u].active /\ users[u].role = "owner"}
    BY Zenon DEF Owners, ActiveUsers, Exists, Rows
<1>2. QED
    BY <1>1, Zenon DEF AnOwner

(* sqliteOwnerGuard: another owner is left. *)
LEMMA AnotherOwner ==
    ASSUME StoreTypes, NEW u \in Users, AnOwner(users), sqliteOwnerGuard(u, TRUE)
    PROVE  \E v \in Rows(users) : v # u /\ users[v].active /\ users[v].role = "owner"
<1>1. CASE u \in Owners
  <2>1. Cardinality(Owners) > 1
      BY <1>1, Zenon DEF sqliteOwnerGuard
  <2>2. Owners # {u}
    <3>1. Cardinality({u}) = 1
        BY FS_Singleton, Zenon
    <3>2. QED
        BY <2>1, <3>1
  <2>3. \E v \in Owners : v # u
      BY <1>1, <2>2, Zenon
  <2>4. QED
      BY <2>3, OwnersAreOwners, Zenon
<1>2. CASE u \notin Owners
    BY <1>2, OwnersAreOwners, Zenon DEF AnOwner
<1>3. QED
    BY <1>1, <1>2, Zenon

LEMMA NewUUIDIsFree ==
    ASSUME NEW table, HasRoom(table)
    PROVE  NewUUID(table) \in DOMAIN table /\ table[NewUUID(table)] = None
BY Zenon DEF HasRoom, NewUUID

(* A row replaced in the table of users. *)
LEMMA UsersStep ==
    ASSUME StoreInv, NEW u \in Users, NEW row \in UserRows,
           users' = [users EXCEPT ![u] = row], salts' \in Nat, salts <= salts',
           row.since <= row.hash, row.hash <= salts',
           row.first => \A v \in Rows(users) : users[v].first => v = u,
           SetUp => \E v \in Rows(users') : users'[v].active /\ users'[v].role = "owner",
           \/ SetUp
           \/ row.active /\ row.role = "owner"
    PROVE  /\ users' \in [Users -> UserRows \cup {None, Gone}]
           /\ HashesInOrder(users', salts')
           /\ OneFirst(users')
           /\ AnOwner(users')
           /\ \A v \in Users : Exists(v) => Exists(v)'
           /\ Exists(u)' /\ StoreGrows /\ SetUp'
<1>1. users' \in [Users -> UserRows \cup {None, Gone}]
    BY Zenon DEF StoreInv, StoreTypes
<1>2. \A v \in Users : users'[v] = IF v = u THEN row ELSE users[v]
    BY Zenon DEF StoreInv, StoreTypes
<1>3. row \notin {None, Gone}
    BY RowsAssumption, Zenon
<1>4. Rows(users') = Rows(users) \cup {u}
    BY <1>2, <1>3 DEF Rows
<1>5. HashesInOrder(users', salts')
  <2>1. ASSUME NEW v \in Rows(users) PROVE users[v].hash \in Nat /\ users[v].hash <= salts
      BY Zenon DEF StoreInv, StoreTypes, HashesInOrder, Rows, UserRows
  <2>2. \A v \in Rows(users) : users[v].hash <= salts'
      BY <2>1 DEF StoreInv, StoreTypes
  <2>3. QED
      BY <1>2, <1>4, <2>2, Zenon DEF HashesInOrder, StoreInv, Rows
<1>6. OneFirst(users')
    BY <1>2, <1>4 DEF OneFirst, StoreInv, Rows
<1>7. AnOwner(users')
    BY <1>2, <1>4 DEF AnOwner, Rows
<1>8. SetUp' /\ StoreGrows
    BY <1>2, <1>3, ZenonT(60) DEF SetUp, StoreGrows
<1>9. \A v \in Users : Exists(v) => Exists(v)'
    BY <1>2, <1>3, Zenon DEF Exists
<1>10. Exists(u)'
    BY <1>2, <1>3, Zenon DEF Exists
<1>11. QED
    BY <1>1, <1>5, <1>6, <1>7, <1>8, <1>9, <1>10, Zenon

LEMMA ConfigurationSame ==
    ASSUME StoreInv, UNCHANGED configuration
    PROVE  /\ settings' \in SettingsRows /\ zones' \subseteq Zones
           /\ records' \in [RecordIds -> StoredRecords \cup {None}]
           /\ streams' \in [StreamIds -> StoredStreams \cup {None}]
           /\ ConfigurationValid'
<1>1. UNCHANGED <<settings, zones, records, streams>>
    BY Zenon DEF configuration
<1>2. ConfigurationValid'
    BY <1>1, Zenon DEF StoreInv, ConfigurationValid
<1>3. QED
    BY <1>1, <1>2, Zenon DEF StoreInv, StoreTypes

(* A transaction on users that leaves the sessions and `since' alone, and  *)
(* sets new passwords only.                                                *)
LEMMA UsersOnly ==
    ASSUME StoreInv, UNCHANGED <<edits, sessions>>, salts' \in Nat,
           users' \in [Users -> UserRows \cup {None, Gone}],
           HashesInOrder(users', salts'), OneFirst(users'), AnOwner(users'),
           salts <= salts',
           \A v \in Users : Exists(v) =>
               /\ Exists(v)' /\ users'[v].since = users[v].since
               /\ users'[v].hash = users[v].hash \/ users'[v].hash = salts + 1
    PROVE  StoreInv'
<1>1. UNCHANGED configuration /\ authors' = authors
    BY Zenon DEF edits
<1>2. StoreTypes'
    BY <1>1, ConfigurationSame, Zenon DEF StoreTypes, StoreInv
<1>3. \A u \in authors' : Exists(u)'
    BY <1>1, Zenon DEF StoreInv, StoreTypes
<1>4. ASSUME NEW s \in Sessions, Live(s)'
      PROVE  /\ (Exists(sessions[s].user) /\ SessionOK(sessions[s], users[sessions[s].user]))'
             /\ (sessions[s].opened <= salts)'
  <2>1. sessions'[s] = sessions[s] /\ Live(s) /\ sessions[s] \in SessionRows
      BY <1>4, Zenon DEF Live, StoreInv, StoreTypes
  <2> DEFINE u == sessions[s].user
  <2>2. u \in Users /\ sessions[s].opened \in Nat
      BY <2>1, Zenon DEF SessionRows
  <2>3. Exists(u) /\ SessionOK(sessions[s], users[u]) /\ sessions[s].opened <= salts
      BY <2>1, Zenon DEF StoreInv, SessionsMatchPassword, SessionOK, OpenedBefore
  <2>4. /\ Exists(u)' /\ users'[u].since = users[u].since
        /\ users'[u].hash = users[u].hash \/ users'[u].hash = salts + 1
      BY <2>2, <2>3, Zenon
  <2> HIDE DEF u
  <2>5. salts \in Nat
      BY Zenon DEF StoreInv, StoreTypes
  <2>6. sessions[s].opened <= salts'
      BY <2>2, <2>3, <2>5
  <2>7. SessionOK(sessions[s], users'[u])
    <3>1. ~(sessions[s].opened >= salts + 1)
        BY <2>2, <2>3, <2>5
    <3>2. QED
        BY <2>3, <2>4, <3>1, Zenon DEF SessionOK
  <2>8. QED
      BY <2>1, <2>4, <2>6, <2>7, Zenon DEF Exists, u
<1>5. SessionsMatchPassword' /\ OpenedBefore'
    BY <1>4, Zenon DEF SessionsMatchPassword, SessionOK, OpenedBefore
<1>6. QED
    BY <1>1, <1>2, <1>3, <1>5, ConfigurationSame, Zenon DEF StoreInv

LEMMA InsertUser ==
    ASSUME StoreInv, NEW role \in {"owner", "operator"}, NEW first \in BOOLEAN,
           sqliteInsertUser(buildUser(role, first)), UNCHANGED <<edits, sessions>>,
           SetUp \/ role = "owner",
           first => ~SetUp
    PROVE  StoreInv' /\ StoreGrows
<1> DEFINE u == NewUUID(users)
           row == buildUser(role, first)
<1>1. users \in [Users -> UserRows \cup {None, Gone}] /\ salts \in Nat
    BY Zenon DEF StoreInv, StoreTypes
<1>2. u \in Users /\ users[u] = None
    BY <1>1, NewUUIDIsFree, Zenon DEF sqliteInsertUser
<1>3. /\ row \in UserRows /\ row.since = salts + 1 /\ row.hash = salts + 1 /\ row.first = first
      /\ row.active /\ row.role = role
    BY <1>1 DEF buildUser, UserRows
<1>4. users' = [users EXCEPT ![u] = row] /\ salts' = salts + 1
    BY Zenon DEF sqliteInsertUser
<1> HIDE DEF u, row
<1>5. \A v \in Users : users'[v] = IF v = u THEN row ELSE users[v]
    BY <1>1, <1>4, Zenon
<1>6. SetUp => \E v \in Rows(users') : users'[v].active /\ users'[v].role = "owner"
  <2>1. ASSUME SetUp PROVE \E v \in Rows(users) : users[v].active /\ users[v].role = "owner"
      BY <2>1, Zenon DEF StoreInv, AnOwner
  <2>2. \A v \in Rows(users) : v \in Rows(users') /\ users'[v] = users[v]
      BY <1>2, <1>5, Zenon DEF Rows
  <2>3. QED
      BY <2>1, <2>2, Zenon
<1>7. first => \A v \in Rows(users) : users[v].first => v = u
    BY Zenon DEF SetUp, Rows
<1>8. /\ users' \in [Users -> UserRows \cup {None, Gone}]
      /\ HashesInOrder(users', salts') /\ OneFirst(users') /\ AnOwner(users')
      /\ \A v \in Users : Exists(v) => Exists(v)'
      /\ StoreGrows
  <2>1. /\ salts' \in Nat /\ salts <= salts' /\ row.since <= row.hash /\ row.hash <= salts'
        /\ row.first => \A v \in Rows(users) : users[v].first => v = u
        /\ SetUp \/ (row.active /\ row.role = "owner")
      BY <1>1, <1>3, <1>4, <1>7
  <2>2. QED
      BY <1>2, <1>3, <1>4, <1>6, <2>1, UsersStep, Zenon
<1>9. \A v \in Users : Exists(v) => users'[v].since = users[v].since /\ users'[v].hash = users[v].hash
    BY <1>2, <1>5, Zenon DEF Exists
<1>10. salts' \in Nat /\ salts <= salts'
    BY <1>1, <1>4
<1>11. QED
    BY <1>8, <1>9, <1>10, UsersOnly, Zenon

LEMMA CreateUserInv ==
    ASSUME StoreInv, SetUp, NEW role \in {"owner", "operator"}, NEW actor,
           CreateUser(role, actor), UNCHANGED edits
    PROVE  StoreInv' /\ StoreGrows
BY InsertUser, Zenon DEF CreateUser

LEMMA BootstrapUserInv ==
    ASSUME StoreInv, BootstrapUser, UNCHANGED edits
    PROVE  StoreInv' /\ StoreGrows
<1>1. ~SetUp
    BY OwnersAreOwners, Zenon DEF BootstrapUser, Owners, StoreInv
<1>2. QED
    BY <1>1, InsertUser, Zenon DEF BootstrapUser

LEMMA PatchedRow ==
    ASSUME NEW row \in UserRows, NEW patch \in Patches, salts \in Nat
    PROVE  /\ Patched(row, patch) \in UserRows
           /\ Patched(row, patch).first = row.first
           /\ Patched(row, patch).since = row.since
           /\ Patched(row, patch).hash = IF patch = "password" THEN salts + 1 ELSE row.hash
<1>1. CASE patch \in {"owner", "operator"}
    BY <1>1, Zenon DEF Patched, UserRows
<1>2. CASE patch = "enable"
    BY <1>2, Zenon DEF Patched, UserRows
<1>3. CASE patch = "disable"
    BY <1>3, Zenon DEF Patched, UserRows
<1>4. CASE patch = "password"
    BY <1>4 DEF Patched, UserRows
<1>5. QED
    BY <1>1, <1>2, <1>3, <1>4, Zenon DEF Patches

LEMMA UpdateUserInv ==
    ASSUME StoreInv, NEW u \in Users, NEW patch \in Patches, NEW actor,
           UpdateUser(u, patch, actor), UNCHANGED edits
    PROVE  StoreInv' /\ StoreGrows
<1> DEFINE row == Patched(users[u], patch)
<1>1. users \in [Users -> UserRows \cup {None, Gone}] /\ salts \in Nat /\ StoreTypes
    BY Zenon DEF StoreInv, StoreTypes
<1>2. Exists(u) /\ u \in Rows(users) /\ users[u] \in UserRows /\ users[u] # None
    BY <1>1, ExistsIsRow, Zenon DEF UpdateUser
<1>3. /\ row \in UserRows /\ row.first = users[u].first /\ row.since = users[u].since
      /\ row.hash = IF patch = "password" THEN salts + 1 ELSE users[u].hash
    BY <1>1, <1>2, PatchedRow, Zenon
<1>4. /\ users' = [users EXCEPT ![u] = row]
      /\ salts' = IF patch = "password" THEN salts + 1 ELSE salts
      /\ sqliteOwnerGuard(u, ~row.active \/ row.role # "owner")
      /\ sessions' = sessions
    BY Zenon DEF UpdateUser
<1> HIDE DEF row
<1>5. SetUp /\ AnOwner(users)
    BY <1>2, Zenon DEF SetUp, StoreInv
<1>6. \A v \in Users : users'[v] = IF v = u THEN row ELSE users[v]
    BY <1>1, <1>4, Zenon
<1>7. Rows(users') = Rows(users)
    BY <1>2, <1>3, <1>6, RowsAssumption, Zenon DEF Rows
<1>8. \E v \in Rows(users') : users'[v].active /\ users'[v].role = "owner"
  <2>1. CASE row.active /\ row.role = "owner"
      BY <1>2, <1>6, <1>7, <2>1, Zenon
  <2>2. CASE ~(row.active /\ row.role = "owner")
    <3>1. sqliteOwnerGuard(u, TRUE)
        BY <1>4, <2>2, Zenon DEF sqliteOwnerGuard
    <3>2. PICK v \in Rows(users) : v # u /\ users[v].active /\ users[v].role = "owner"
        BY <1>1, <1>5, <3>1, AnotherOwner, Zenon
    <3>3. QED
        BY <1>6, <1>7, <3>2, Zenon DEF Rows
  <2>3. QED
      BY <2>1, <2>2, Zenon
<1>9. salts' \in Nat /\ salts <= salts' /\ row.since <= row.hash /\ row.hash <= salts'
  <2>1. users[u].since <= users[u].hash /\ users[u].hash <= salts
      BY <1>2, Zenon DEF StoreInv, HashesInOrder
  <2>2. users[u].since \in Nat /\ users[u].hash \in Nat
      BY <1>2, Zenon DEF UserRows
  <2>3. QED
      BY <1>1, <1>3, <1>4, <2>1, <2>2
<1>10. row.first => \A v \in Rows(users) : users[v].first => v = u
    BY <1>2, <1>3, Zenon DEF StoreInv, OneFirst
<1>11. /\ users' \in [Users -> UserRows \cup {None, Gone}]
       /\ HashesInOrder(users', salts') /\ OneFirst(users') /\ AnOwner(users')
       /\ \A v \in Users : Exists(v) => Exists(v)'
       /\ StoreGrows
    BY <1>3, <1>4, <1>5, <1>8, <1>9, <1>10, UsersStep, Zenon
<1>12. \A v \in Users : Exists(v) =>
           /\ users'[v].since = users[v].since
           /\ users'[v].hash = users[v].hash \/ users'[v].hash = salts + 1
    BY <1>3, <1>6, Zenon
<1>13. QED
    BY <1>4, <1>9, <1>11, <1>12, UsersOnly, Zenon

LEMMA DeleteUserInv ==
    ASSUME StoreInv, NEW u \in Users, NEW actor, DeleteUser(u, actor, authors), UNCHANGED edits
    PROVE  StoreInv' /\ StoreGrows
<1>1. /\ users \in [Users -> UserRows \cup {None, Gone}] /\ StoreTypes
      /\ sessions \in [Sessions -> SessionRows \cup {None, Gone}]
    BY Zenon DEF StoreInv, StoreTypes
<1>2. u \in Rows(users) /\ users[u] # None /\ u \notin authors /\ salts' = salts
    BY <1>1, ExistsIsRow, Zenon DEF DeleteUser
<1>3. \A v \in Users : users'[v] = IF v = u THEN Gone ELSE users[v]
    BY <1>1, Zenon DEF DeleteUser
<1>4. users' \in [Users -> UserRows \cup {None, Gone}]
    BY <1>1, Zenon DEF DeleteUser
<1>5. Rows(users') = Rows(users) \ {u}
    BY <1>3, Zenon DEF Rows
<1>6. SetUp /\ SetUp' /\ AnOwner(users)
    BY <1>2, <1>3, ConsoleAssumption, Zenon DEF SetUp, StoreInv
<1>7. AnOwner(users')
  <2>1. PICK v \in Rows(users) : v # u /\ users[v].active /\ users[v].role = "owner"
      BY <1>1, <1>6, AnotherOwner, Zenon DEF DeleteUser
  <2>2. QED
      BY <1>3, <1>5, <2>1, Zenon DEF AnOwner, Rows
<1>8. \A v \in Rows(users') : v \in Rows(users) /\ users'[v] = users[v]
    BY <1>3, <1>5, Zenon DEF Rows
<1>9. HashesInOrder(users', salts') /\ OneFirst(users')
    BY <1>2, <1>8, Zenon DEF StoreInv, HashesInOrder, OneFirst
<1>10. UNCHANGED configuration /\ authors' = authors
    BY Zenon DEF edits
<1>11. \A v \in authors' : Exists(v)'
    BY <1>2, <1>3, <1>10, Zenon DEF StoreInv, StoreTypes, Exists
<1>12. sessions' = [s \in Sessions |->
           IF sessions[s] \in {None, Gone} THEN sessions[s]
           ELSE IF sessions[s].user = u THEN Gone ELSE sessions[s]]
    BY Zenon DEF DeleteUser
<1>13. sessions' \in [Sessions -> SessionRows \cup {None, Gone}]
    BY <1>1, <1>12, Zenon
<1>14. ASSUME NEW s \in Sessions, Live(s)'
       PROVE  /\ (Exists(sessions[s].user) /\ SessionOK(sessions[s], users[sessions[s].user]))'
              /\ (sessions[s].opened <= salts)'
  <2>1. sessions'[s] = sessions[s] /\ Live(s) /\ sessions[s].user # u
      BY <1>12, <1>14, Zenon DEF Live
  <2>2. sessions[s].user \in Users
      BY <1>1, <2>1, Zenon DEF Live, SessionRows
  <2>3. /\ Exists(sessions[s].user) /\ SessionOK(sessions[s], users[sessions[s].user])
        /\ sessions[s].opened <= salts
      BY <2>1, Zenon DEF StoreInv, SessionsMatchPassword, SessionOK, OpenedBefore
  <2>4. QED
      BY <1>2, <1>3, <2>1, <2>2, <2>3, Zenon DEF Exists
<1>15. SessionsMatchPassword' /\ OpenedBefore'
    BY <1>14, Zenon DEF SessionsMatchPassword, SessionOK, OpenedBefore
<1>16. StoreTypes'
    BY <1>2, <1>4, <1>10, <1>13, ConfigurationSame, Zenon DEF StoreInv, StoreTypes
<1>17. StoreGrows
    BY <1>2, <1>6 DEF StoreGrows, StoreInv, StoreTypes
<1>18. QED
    BY <1>7, <1>9, <1>10, <1>11, <1>15, <1>16, <1>17, ConfigurationSame, Zenon DEF StoreInv

(* A transaction on sessions only. *)
LEMMA SessionsOnly ==
    ASSUME StoreInv, UNCHANGED <<edits, users, salts>>,
           sessions' \in [Sessions -> SessionRows \cup {None, Gone}],
           SessionsMatchPassword', OpenedBefore'
    PROVE  StoreInv' /\ StoreGrows
<1>1. UNCHANGED configuration /\ authors' = authors
    BY Zenon DEF edits
<1>2. StoreTypes'
    BY <1>1, ConfigurationSame, Zenon DEF StoreInv, StoreTypes
<1>3. SetUp' = SetUp /\ \A u \in authors : Exists(u)'
    BY Zenon DEF SetUp, StoreInv, Exists
<1>4. StoreGrows
    BY <1>3 DEF StoreGrows, StoreInv, StoreTypes
<1>5. QED
    BY <1>1, <1>2, <1>3, <1>4, ConfigurationSame, Zenon DEF StoreInv

LEMMA CreateSessionInv ==
    ASSUME StoreInv, NEW u, NEW h, CreateSessionForCredential(u, h), UNCHANGED edits
    PROVE  StoreInv' /\ StoreGrows
<1> DEFINE t == NewUUID(sessions)
           row == [user |-> u, open |-> TRUE, hash |-> h, opened |-> salts]
<1>1. /\ users \in [Users -> UserRows \cup {None, Gone}] /\ StoreTypes
      /\ sessions \in [Sessions -> SessionRows \cup {None, Gone}]
    BY Zenon DEF StoreInv, StoreTypes
<1>2. u \in Users /\ Exists(u) /\ users[u].hash = h /\ UNCHANGED <<users, salts>>
    BY Zenon DEF CreateSessionForCredential, ActiveUsers
<1>3. users[u] \in UserRows /\ users[u].since <= h
    BY <1>1, <1>2, ExistsIsRow, Zenon DEF StoreInv, HashesInOrder
<1>4. users[u].since \in Nat /\ h \in Nat /\ salts \in Nat
    BY <1>2, <1>3, Zenon DEF UserRows, StoreInv, StoreTypes
<1>5. t \in Sessions /\ sessions' = [sessions EXCEPT ![t] = row]
    BY <1>1, NewUUIDIsFree, Zenon DEF CreateSessionForCredential, sqliteInsertSession
<1>6. row \in SessionRows /\ row.user = u /\ row.hash = h /\ row.opened = salts
    BY <1>2, <1>4, Zenon DEF SessionRows
<1> HIDE DEF t, row
<1>7. sessions' \in [Sessions -> SessionRows \cup {None, Gone}]
    BY <1>1, <1>5, <1>6, Zenon
<1>8. \A s \in Sessions : sessions'[s] = IF s = t THEN row ELSE sessions[s]
    BY <1>1, <1>5, Zenon
<1>9. ASSUME NEW s \in Sessions, Live(s)'
      PROVE  /\ (Exists(sessions[s].user) /\ SessionOK(sessions[s], users[sessions[s].user]))'
             /\ (sessions[s].opened <= salts)'
  <2>1. CASE s = t
    <3>1. sessions'[s].user = u /\ sessions'[s].hash = h /\ sessions'[s].opened = salts
        BY <1>6, <1>8, <2>1, Zenon
    <3>2. h >= users[u].since /\ salts <= salts
        BY <1>3, <1>4
    <3>3. QED
        BY <1>2, <3>1, <3>2, Zenon DEF Exists, SessionOK
  <2>2. CASE s # t
    <3>1. sessions'[s] = sessions[s] /\ Live(s)
        BY <1>8, <1>9, <2>2, Zenon DEF Live
    <3>2. QED
        BY <1>2, <3>1, Zenon DEF StoreInv, SessionsMatchPassword, SessionOK, OpenedBefore, Exists
  <2>3. QED
      BY <2>1, <2>2, Zenon
<1>10. SessionsMatchPassword' /\ OpenedBefore'
    BY <1>9, Zenon DEF SessionsMatchPassword, SessionOK, OpenedBefore
<1>11. QED
    BY <1>2, <1>7, <1>10, SessionsOnly, Zenon

(* Logout. *)
LEMMA CloseSessionInv ==
    ASSUME StoreInv, NEW t \in Sessions, Live(t), sessions' = [sessions EXCEPT ![t].open = FALSE],
           UNCHANGED <<edits, users, salts>>
    PROVE  StoreInv' /\ StoreGrows
<1>1. sessions \in [Sessions -> SessionRows \cup {None, Gone}] /\ sessions[t] \in SessionRows
    BY Zenon DEF StoreInv, StoreTypes, Live
<1>2. [sessions[t] EXCEPT !.open = FALSE] \in SessionRows /\ ~[sessions[t] EXCEPT !.open = FALSE].open
    BY <1>1, Zenon DEF SessionRows
<1>3. sessions' \in [Sessions -> SessionRows \cup {None, Gone}]
    BY <1>1, <1>2, Zenon
<1>4. \A s \in Sessions : Live(s)' => sessions'[s] = sessions[s]
    BY <1>1, <1>2, Zenon DEF Live
<1>5. SessionsMatchPassword' /\ OpenedBefore'
    BY <1>4, Zenon DEF StoreInv, SessionsMatchPassword, OpenedBefore, Live, Exists
<1>6. QED
    BY <1>3, <1>5, SessionsOnly, Zenon

LEMMA PasswordInv ==
    ASSUME StoreInv, NEW u \in Users, NEW kept \in Sessions \cup {None},
           passwordMutation(u, kept), UNCHANGED edits
    PROVE  StoreInv' /\ StoreGrows
<1> DEFINE n == salts + 1
           c == (kept = None)
           row == [users[u] EXCEPT !.hash = n, !.since = n, !.changeRequired = c]
<1>1. /\ users \in [Users -> UserRows \cup {None, Gone}] /\ StoreTypes /\ salts \in Nat
      /\ sessions \in [Sessions -> SessionRows \cup {None, Gone}]
    BY Zenon DEF StoreInv, StoreTypes
<1>2. u \in Rows(users) /\ users[u] \in UserRows /\ users[u] # None /\ users[u].active
    BY <1>1, ExistsIsRow, Zenon DEF passwordMutation, ActiveUsers
<1>3. users' = [users EXCEPT ![u] = row] /\ salts' = n /\ sessions' = RevokeOthers(u, kept)
    BY Zenon DEF passwordMutation
<1>4. n \in Nat /\ salts <= n /\ c \in BOOLEAN
    BY <1>1
<1> HIDE DEF n, c
<1>5. /\ row \in UserRows /\ row.hash = n /\ row.since = n
      /\ row.first = users[u].first /\ row.role = users[u].role /\ row.active = users[u].active
    BY <1>2, <1>4, Zenon DEF UserRows
<1> HIDE DEF row
<1>6. \A v \in Users : users'[v] = IF v = u THEN row ELSE users[v]
    BY <1>1, <1>3, Zenon
<1>7. Rows(users') = Rows(users)
    BY <1>2, <1>5, <1>6, RowsAssumption, Zenon DEF Rows
<1>8. SetUp /\ AnOwner(users)
    BY <1>2, Zenon DEF SetUp, StoreInv
<1>9. \E v \in Rows(users') : users'[v].active /\ users'[v].role = "owner"
    BY <1>5, <1>6, <1>7, <1>8, Zenon DEF AnOwner, Rows
<1>10. row.first => \A v \in Rows(users) : users[v].first => v = u
    BY <1>2, <1>5, Zenon DEF StoreInv, OneFirst
<1>11. /\ users' \in [Users -> UserRows \cup {None, Gone}]
       /\ HashesInOrder(users', salts') /\ OneFirst(users') /\ AnOwner(users')
       /\ \A v \in Users : Exists(v) => Exists(v)'
       /\ StoreGrows
  <2>1. /\ salts' \in Nat /\ salts <= salts' /\ row.since <= row.hash /\ row.hash <= salts'
      BY <1>3, <1>5, <1>4
  <2>2. QED
      BY <1>3, <1>5, <1>8, <1>9, <1>10, <2>1, UsersStep, Zenon
<1>12. sessions' \in [Sessions -> SessionRows \cup {None, Gone}]
  <2>1. ASSUME NEW s \in SessionRows
        PROVE  [s EXCEPT !.hash = n] \in SessionRows /\ [s EXCEPT !.open = FALSE] \in SessionRows
      BY <1>4, Zenon DEF SessionRows
  <2>2. QED
      BY <1>1, <1>3, <2>1, Zenon DEF RevokeOthers, n
<1>13. ASSUME NEW s \in Sessions, Live(s)'
       PROVE  /\ (Exists(sessions[s].user) /\ SessionOK(sessions[s], users[sessions[s].user]))'
              /\ (sessions[s].opened <= salts)'
  <2>1. sessions[s] \in SessionRows
      BY <1>1, <1>3, <1>13, Zenon DEF Live, RevokeOthers
  <2>2. CASE sessions[s].user # u
    <3>1. sessions'[s] = sessions[s] /\ Live(s) /\ sessions[s].user \in Users
        BY <1>3, <1>13, <2>1, <2>2, Zenon DEF Live, RevokeOthers, SessionRows
    <3>2. /\ Exists(sessions[s].user) /\ SessionOK(sessions[s], users[sessions[s].user])
          /\ sessions[s].opened <= salts
        BY <3>1, Zenon DEF StoreInv, SessionsMatchPassword, SessionOK, OpenedBefore
    <3>3. sessions[s].opened \in Nat
        BY <2>1, Zenon DEF SessionRows
    <3>4. sessions[s].opened <= salts'
        BY <1>1, <1>3, <1>4, <3>2, <3>3
    <3>5. QED
        BY <1>6, <2>2, <3>1, <3>2, <3>4, Zenon DEF Exists
  <2>3. CASE sessions[s].user = u
    <3>1. sessions[s] \notin {None, Gone} /\ sessions[s].opened \in Nat
        BY <1>3, <1>13, <2>1, Zenon DEF Live, RevokeOthers, SessionRows
    <3>2. s = kept
      <4>1. ASSUME s # kept PROVE sessions'[s] = [sessions[s] EXCEPT !.open = FALSE]
          BY <1>3, <2>3, <3>1, <4>1, Zenon DEF RevokeOthers
      <4>2. [sessions[s] EXCEPT !.open = FALSE].open = FALSE
          BY <2>1, Zenon DEF SessionRows
      <4>3. QED
          BY <1>13, <4>1, <4>2, ZenonT(60) DEF Live
    <3>3. sessions'[s] = [sessions[s] EXCEPT !.hash = n]
        BY <1>3, <2>3, <3>1, <3>2, Zenon DEF RevokeOthers, n
    <3>4. /\ sessions'[s].user = u /\ sessions'[s].hash = n /\ sessions'[s].opened = sessions[s].opened
          /\ sessions'[s].open = sessions[s].open
        BY <2>1, <2>3, <3>3, Zenon DEF SessionRows
    <3>5. users'[u].since = n /\ users'[u].hash = n /\ Exists(u)'
        BY <1>2, <1>5, <1>6, <1>11, <1>1, ExistsIsRow, Zenon
    <3>6. sessions[s].opened <= salts
        BY <1>13, <3>1, <3>4, Zenon DEF Live, StoreInv, OpenedBefore
    <3>7. sessions'[s].opened <= salts' /\ n >= n
        BY <1>1, <1>3, <1>4, <3>1, <3>4, <3>6
    <3>8. QED
        BY <3>4, <3>5, <3>7, Zenon DEF Exists, SessionOK
  <2>4. QED
      BY <2>2, <2>3, Zenon
<1>14. SessionsMatchPassword' /\ OpenedBefore'
    BY <1>13, Zenon DEF SessionsMatchPassword, SessionOK, OpenedBefore
<1>15. UNCHANGED configuration /\ authors' = authors
    BY Zenon DEF edits
<1>16. StoreTypes'
    BY <1>3, <1>4, <1>11, <1>12, <1>15, ConfigurationSame, Zenon DEF StoreInv, StoreTypes
<1>17. \A v \in authors' : Exists(v)'
    BY <1>11, <1>15, Zenon DEF StoreInv, StoreTypes
<1>18. QED
    BY <1>11, <1>14, <1>15, <1>16, <1>17, ConfigurationSame, Zenon DEF StoreInv

-----------------------------------------------------------------------------
(* The configuration. *)

(* A transaction on the configuration, with or without an apply job. *)
LEMMA EditStep ==
    ASSUME StoreInv, UNCHANGED <<users, sessions, salts>>,
           settings' \in SettingsRows, zones' \subseteq Zones,
           records' \in [RecordIds -> StoredRecords \cup {None}],
           streams' \in [StreamIds -> StoredStreams \cup {None}],
           authors' \subseteq Users, \A u \in authors' : Exists(u),
           ConfigurationValid'
    PROVE  StoreInv' /\ StoreGrows
<1>1. StoreTypes'
    BY Zenon DEF StoreInv, StoreTypes
<1>2. SetUp' = SetUp /\ (\A u \in authors' : Exists(u)')
    BY Zenon DEF SetUp, Exists
<1>3. SessionsMatchPassword' /\ OpenedBefore'
    BY Zenon DEF StoreInv, SessionsMatchPassword, OpenedBefore, Live, Exists
<1>4. StoreGrows
    BY <1>2 DEF StoreGrows, StoreInv, StoreTypes
<1>5. QED
    BY <1>1, <1>2, <1>3, <1>4, Zenon DEF StoreInv

(* What sqliteCreateApplyJobInTransaction leaves: the author is a user. *)
LEMMA JobAuthors ==
    ASSUME StoreInv, NEW actor \in Users \cup {None}, sqliteCreateApplyJobInTransaction(actor)
    PROVE  /\ authors' \subseteq Users /\ \A u \in authors' : Exists(u)
           /\ UNCHANGED <<users, sessions, salts>>
BY Zenon DEF StoreInv, StoreTypes, sqliteCreateApplyJobInTransaction

LEMMA JobInv ==
    ASSUME StoreInv, NEW actor \in Users \cup {None}, CreateApplyJob(actor)
    PROVE  StoreInv' /\ StoreGrows
<1>1. sqliteCreateApplyJobInTransaction(actor) /\ UNCHANGED configuration
    BY Zenon DEF CreateApplyJob
<1>2. QED
    BY <1>1, JobAuthors, ConfigurationSame, EditStep, Zenon

(* The validity of records only gains from an ingress. *)
LEMMA IngressHelps ==
    ASSUME NEW rows, NEW a \in BOOLEAN, NEW b \in BOOLEAN, a => b, validateRecordSet(rows, a)
    PROVE  validateRecordSet(rows, b)
BY Zenon DEF validateRecordSet, validateIngressForRecord

LEMMA SettingsInv ==
    ASSUME StoreInv, NEW row \in SettingsRows, settings' = row,
           settings.ingress => row.ingress,
           UNCHANGED <<zones, records, streams, authors, accounts>>
    PROVE  StoreInv' /\ StoreGrows
<1>1. settings.ingress \in BOOLEAN /\ row.ingress \in BOOLEAN
    BY Zenon DEF StoreInv, StoreTypes, SettingsRows
<1>2. \A z \in Zones : ValidZone(records, z, row.ingress)
    BY <1>1, IngressHelps, Zenon DEF StoreInv, ConfigurationValid, ValidZone
<1>3. ConfigurationValid'
    BY <1>2, Zenon DEF StoreInv, ConfigurationValid
<1>4. UNCHANGED <<users, sessions, salts>>
    BY Zenon DEF accounts
<1>5. QED
    BY <1>3, <1>4, EditStep, Zenon DEF StoreInv, StoreTypes

LEMMA EnsuredSettings ==
    ASSUME StoreInv, NEW given \in BOOLEAN
    PROVE  /\ EnsureSettings(given) \in SettingsRows
           /\ settings.ingress => EnsureSettings(given).ingress
           /\ ~given => EnsureSettings(given) = settings
<1>1. settings \in SettingsRows /\ settings.ingress \in BOOLEAN
    BY Zenon DEF StoreInv, StoreTypes, SettingsRows
<1>2. EnsureSettings(given) = [settings EXCEPT !.ingress = settings.ingress \/ given]
    BY Zenon DEF EnsureSettings
<1>3. ASSUME NEW b \in BOOLEAN
      PROVE  [settings EXCEPT !.ingress = b] \in SettingsRows /\ [settings EXCEPT !.ingress = b].ingress = b
    BY <1>1, Zenon DEF SettingsRows
<1>4. (settings.ingress \/ given) \in BOOLEAN
    BY <1>1, Zenon
<1>5. ~given => (settings.ingress \/ given) = settings.ingress
    BY <1>1, Zenon
<1>6. settings.ingress => (settings.ingress \/ given) = TRUE
    BY <1>1, Zenon
<1>7. [settings EXCEPT !.ingress = settings.ingress] = settings
    BY <1>1, Zenon DEF SettingsRows
<1>8. QED
    BY <1>2, <1>3, <1>4, <1>5, <1>6, <1>7, Zenon

LEMMA UpdateSettingsInv ==
    ASSUME StoreInv, NEW patch, UpdateSettings(patch, env), env \in BOOLEAN
    PROVE  StoreInv' /\ StoreGrows
<1> DEFINE row == EnsureSettings(env)
           a == (row.ingress \/ "ingress" \in patch)
           b == (row.pool \/ "pool" \in patch)
           new == [row EXCEPT !.ingress = a, !.pool = b]
<1>1. row \in SettingsRows /\ (settings.ingress => row.ingress)
    BY EnsuredSettings, Zenon
<1>2. settings' = new /\ UNCHANGED <<zones, records, streams, authors, accounts>>
    BY Zenon DEF UpdateSettings
<1> HIDE DEF row
<1>3. row.ingress \in BOOLEAN /\ row.pool \in BOOLEAN
    BY <1>1, Zenon DEF SettingsRows
<1>4. a \in BOOLEAN /\ b \in BOOLEAN /\ (row.ingress => a)
    BY <1>3, Zenon
<1> HIDE DEF a, b
<1>5. new \in SettingsRows /\ new.ingress = a
    BY <1>1, <1>4, Zenon DEF SettingsRows
<1> HIDE DEF new
<1>6. settings.ingress => new.ingress
    BY <1>1, <1>4, <1>5, Zenon
<1>7. QED
    BY <1>2, <1>5, <1>6, SettingsInv, Zenon

LEMMA GetSettingsInv ==
    ASSUME StoreInv, env \in BOOLEAN, GetSettings(env)
    PROVE  StoreInv' /\ StoreGrows
BY EnsuredSettings, SettingsInv, Zenon DEF GetSettings

LEMMA InitializeIngressInv ==
    ASSUME StoreInv, InitializeIngress(TRUE)
    PROVE  StoreInv' /\ StoreGrows
BY EnsuredSettings, SettingsInv, Zenon DEF InitializeIngress

LEMMA CreateZoneInv ==
    ASSUME StoreInv, NEW z \in Zones, NEW actor \in Users \cup {None}, CreateZone(z, actor)
    PROVE  StoreInv' /\ StoreGrows
<1>1. sqliteCreateApplyJobInTransaction(actor) /\ zones' = zones \cup {z} /\ UNCHANGED <<settings, records, streams>>
    BY Zenon DEF CreateZone
<1>2. ConfigurationValid'
  <2>1. \A d \in Stored(records') : records'[d].zone \in zones'
      BY <1>1, Zenon DEF StoreInv, ConfigurationValid
  <2>2. QED
      BY <1>1, <2>1, Zenon DEF StoreInv, ConfigurationValid
<1>3. QED
    BY <1>1, <1>2, JobAuthors, EditStep, Zenon DEF StoreInv, StoreTypes

(* A part of valid records is valid. *)
LEMMA PartIsValid ==
    ASSUME NEW whole, NEW part, NEW ingress, DOMAIN part \subseteq DOMAIN whole,
           \A d \in DOMAIN part : part[d] = whole[d], validateRecordSet(whole, ingress)
    PROVE  validateRecordSet(part, ingress)
BY Zenon DEF validateRecordSet

(* What a write through zone z does to the table. *)
LEMMA UpsertedRecords ==
    ASSUME StoreInv, NEW z \in Zones, NEW d \in RecordIds, NEW row \in RecordRows,
           records' = sqliteUpsertRecord(z, d, row)
    PROVE  /\ records' \in [RecordIds -> StoredRecords \cup {None}]
           /\ records'[d].zone = IF records[d] = None THEN z ELSE records[d].zone
           /\ records'[d].writer = z /\ records'[d].row = row
           /\ \A i \in RecordIds \ {d} :
                 /\ i \in sqliteZoneRecords(z) =>
                       /\ records'[i].zone = z /\ records'[i].writer = z
                       /\ records'[i].row = records[i].row
                 /\ i \notin sqliteZoneRecords(z) => records'[i] = records[i]
<1>1. records \in [RecordIds -> StoredRecords \cup {None}]
    BY Zenon DEF StoreInv, StoreTypes
<1> DEFINE home == IF records[d] = None THEN z ELSE records[d].zone
           new == [zone |-> home, writer |-> z, row |-> row]
<1>2. \A i \in RecordIds : records'[i] =
          IF i = d THEN new
          ELSE IF i \in sqliteZoneRecords(z) THEN [records[i] EXCEPT !.writer = z] ELSE records[i]
    BY Zenon DEF sqliteUpsertRecord
<1>3. home \in Zones
    BY <1>1, Zenon DEF StoredRecords
<1> HIDE DEF home
<1>4. new \in StoredRecords /\ new.zone = home /\ new.writer = z /\ new.row = row
    BY <1>3, Zenon DEF StoredRecords
<1> HIDE DEF new
<1>5. ASSUME NEW i \in sqliteZoneRecords(z)
      PROVE  /\ [records[i] EXCEPT !.writer = z] \in StoredRecords
             /\ [records[i] EXCEPT !.writer = z].zone = z
             /\ [records[i] EXCEPT !.writer = z].writer = z
             /\ [records[i] EXCEPT !.writer = z].row = records[i].row
  <2>1. records[i] \in StoredRecords /\ records[i].zone = z
      BY <1>1, Zenon DEF sqliteZoneRecords, Stored
  <2>2. QED
      BY <2>1, Zenon DEF StoredRecords
<1>6. \A i \in RecordIds : records'[i] \in StoredRecords \cup {None}
    BY <1>1, <1>2, <1>4, <1>5, Zenon
<1>7. records' \in [RecordIds -> StoredRecords \cup {None}]
    BY <1>6, Zenon DEF sqliteUpsertRecord
<1>8. QED
    BY <1>2, <1>4, <1>5, <1>7, Zenon DEF home

LEMMA AddRecordInv ==
    ASSUME StoreInv, NEW z \in Zones, NEW d \in RecordIds, NEW row \in RecordRows,
           NEW actor \in Users \cup {None}, AddRecord(z, d, row, actor)
    PROVE  StoreInv' /\ StoreGrows
<1>1. /\ sqliteCreateApplyJobInTransaction(actor) /\ UNCHANGED <<settings, zones, streams>>
      /\ records' = sqliteUpsertRecord(z, d, row) /\ z \in zones
      /\ validateRecordSet(WithRecord(z, d, row), settings.ingress)
    BY Zenon DEF AddRecord
<1>2. /\ records' \in [RecordIds -> StoredRecords \cup {None}]
      /\ records'[d].zone = IF records[d] = None THEN z ELSE records[d].zone
      /\ records'[d].writer = z /\ records'[d].row = row
      /\ \A i \in RecordIds \ {d} :
            /\ i \in sqliteZoneRecords(z) =>
                  records'[i].zone = z /\ records'[i].writer = z /\ records'[i].row = records[i].row
            /\ i \notin sqliteZoneRecords(z) => records'[i] = records[i]
    BY <1>1, UpsertedRecords, Zenon
<1>3. records \in [RecordIds -> StoredRecords \cup {None}] /\ ConfigurationValid
    BY Zenon DEF StoreInv, StoreTypes
<1>4. ASSUME NEW i \in Stored(records') PROVE records'[i].zone \in zones'
  <2>1. i \in RecordIds /\ records'[i] # None
      BY <1>2, <1>4, Zenon DEF Stored
  <2>2. CASE i = d
    <3>1. records'[d].zone = IF records[d] = None THEN z ELSE records[d].zone
        BY <1>2, Zenon
    <3>2. records[d] # None => d \in Stored(records)
        BY <1>3, Zenon DEF Stored
    <3>3. QED
        BY <1>1, <1>3, <2>2, <3>1, <3>2, Zenon DEF ConfigurationValid
  <2>3. CASE i # d /\ i \in sqliteZoneRecords(z)
      BY <1>1, <1>2, <2>1, <2>3, Zenon
  <2>4. CASE i # d /\ i \notin sqliteZoneRecords(z)
      BY <1>1, <1>2, <1>3, <2>1, <2>4, Zenon DEF ConfigurationValid, Stored
  <2>5. QED
      BY <2>2, <2>3, <2>4, Zenon
<1>5. ASSUME NEW y \in Zones PROVE ValidZone(records', y, settings.ingress)
  <2> DEFINE part == [i \in OwnRecords(records', y) |-> records'[i].row]
  <2>1. \A i \in OwnRecords(records', y) :
            i \in RecordIds /\ records'[i] # None /\ records'[i].zone = y /\ records'[i].writer = y
      BY <1>2, Zenon DEF OwnRecords, Stored
  <2>2. CASE y = z
    <3> DEFINE whole == WithRecord(z, d, row)
    <3>1. DOMAIN whole = sqliteZoneRecords(z) \cup {d}
        BY Zenon DEF WithRecord
    <3>2. ASSUME NEW i \in OwnRecords(records', z)
          PROVE  i \in DOMAIN whole /\ records'[i].row = whole[i]
      <4>1. CASE i = d
        <5>1. whole[d] = row /\ records'[d].row = row
            BY <1>2, Zenon DEF WithRecord
        <5>2. QED
            BY <3>1, <4>1, <5>1, Zenon
      <4>2. CASE i # d
        <5>1. i \in RecordIds /\ records'[i] # None /\ records'[i].zone = z
            BY <2>1, <2>2, Zenon
        <5>2. i \in sqliteZoneRecords(z)
            BY <1>2, <1>3, <4>2, <5>1, Zenon DEF sqliteZoneRecords, Stored
        <5>3. whole[i] = records[i].row
            BY <4>2, <5>2, Zenon DEF WithRecord
        <5>4. QED
            BY <1>2, <3>1, <4>2, <5>1, <5>2, <5>3, Zenon
      <4>3. QED
          BY <4>1, <4>2, Zenon
    <3>3. DOMAIN part \subseteq DOMAIN whole /\ \A i \in DOMAIN part : part[i] = whole[i]
        BY <2>2, <3>2, Zenon
    <3> HIDE DEF part, whole
    <3>4. validateRecordSet(part, settings.ingress)
        BY <1>1, <3>3, PartIsValid, Zenon DEF whole
    <3>5. QED
        BY <3>4, Zenon DEF ValidZone, part
  <2>3. CASE y # z
    <3> DEFINE whole == [i \in OwnRecords(records, y) |-> records[i].row]
    <3>1. ASSUME NEW i \in OwnRecords(records', y)
          PROVE  i \in OwnRecords(records, y) /\ records'[i] = records[i]
      <4>1. i # d
          BY <1>2, <2>1, <2>3, Zenon
      <4>2. records'[i] = records[i]
          BY <1>2, <2>1, <2>3, <4>1, Zenon
      <4>3. QED
          BY <1>3, <2>1, <4>2, Zenon DEF OwnRecords, Stored
    <3>2. DOMAIN part \subseteq DOMAIN whole /\ \A i \in DOMAIN part : part[i] = whole[i]
        BY <3>1, Zenon
    <3>3. validateRecordSet(whole, settings.ingress)
        BY <1>3, Zenon DEF ConfigurationValid, ValidZone
    <3> HIDE DEF part, whole
    <3>4. validateRecordSet(part, settings.ingress)
        BY <3>2, <3>3, PartIsValid, Zenon
    <3>5. QED
        BY <3>4, Zenon DEF ValidZone, part
  <2>4. QED
      BY <2>2, <2>3, Zenon
<1>6. ConfigurationValid'
    BY <1>1, <1>3, <1>4, <1>5, Zenon DEF ConfigurationValid
<1>7. QED
    BY <1>1, <1>2, <1>6, JobAuthors, EditStep, Zenon DEF StoreInv, StoreTypes

(* Transactions on the streams enqueue no job. *)
LEMMA StreamStep ==
    ASSUME StoreInv, UNCHANGED <<settings, zones, records, authors, accounts>>,
           streams' \in [StreamIds -> StoredStreams \cup {None}], validateStreamRoutes(streams')
    PROVE  StoreInv' /\ StoreGrows
<1>1. ConfigurationValid'
    BY Zenon DEF StoreInv, ConfigurationValid
<1>2. UNCHANGED <<users, sessions, salts>>
    BY Zenon DEF accounts
<1>3. QED
    BY <1>1, <1>2, EditStep, Zenon DEF StoreInv, StoreTypes

LEMMA AddStreamInv ==
    ASSUME StoreInv, NEW t \in StreamIds, NEW row \in StoredStreams, AddStream(t, row)
    PROVE  StoreInv' /\ StoreGrows
<1>1. streams' = [streams EXCEPT ![t] = row] /\ validateStreamRoutes(streams')
    BY Zenon DEF AddStream, sqliteUpsertStream
<1>2. streams' \in [StreamIds -> StoredStreams \cup {None}]
    BY <1>1, Zenon DEF StoreInv, StoreTypes
<1>3. QED
    BY <1>1, <1>2, StreamStep, Zenon DEF AddStream

LEMMA DeleteStreamInv ==
    ASSUME StoreInv, NEW t \in StreamIds, DeleteStream(t)
    PROVE  StoreInv' /\ StoreGrows
<1>1. streams' = [streams EXCEPT ![t] = None] /\ streams \in [StreamIds -> StoredStreams \cup {None}]
    BY Zenon DEF DeleteStream, StoreInv, StoreTypes
<1>2. streams' \in [StreamIds -> StoredStreams \cup {None}]
    BY <1>1, Zenon
<1>3. \A i \in Stored(streams') : i \in Stored(streams) /\ streams'[i] = streams[i]
    BY <1>1, Zenon DEF Stored
<1>4. validateStreamRoutes(streams')
    BY <1>3, Zenon DEF StoreInv, ConfigurationValid, validateStreamRoutes
<1>5. QED
    BY <1>2, <1>4, StreamStep, Zenon DEF DeleteStream

(* mergeStreamBody gives a row. *)
LEMMA MergedStream ==
    ASSUME NEW row \in StoredStreams, NEW patch \in Patch
    PROVE  mergeStreamBody(row, patch) \in StoredStreams
<1>1. DOMAIN row = {"listener", "enabled"} /\ row.listener \in Listeners /\ row.enabled \in BOOLEAN
    BY Zenon DEF StoredStreams
<1>2. CASE \E l \in Listeners : patch = [listener |-> l]
  <2>1. PICK l \in Listeners : patch = [listener |-> l]
      BY <1>2, Zenon
  <2>2. mergeStreamBody(row, patch) = [listener |-> l, enabled |-> row.enabled]
      BY <1>1, <2>1 DEF mergeStreamBody
  <2>3. QED
      BY <1>1, <2>2 DEF StoredStreams
<1>3. CASE \E e \in BOOLEAN : patch = [enabled |-> e]
  <2>1. PICK e \in BOOLEAN : patch = [enabled |-> e]
      BY <1>3, Zenon
  <2>2. mergeStreamBody(row, patch) = [listener |-> row.listener, enabled |-> e]
      BY <1>1, <2>1 DEF mergeStreamBody
  <2>3. QED
      BY <1>1, <2>2 DEF StoredStreams
<1>4. QED
    BY <1>2, <1>3, Zenon DEF Patch

-----------------------------------------------------------------------------
(* Backups. *)

LEMMA RestorableStays ==
    ASSUME NEW tables \in TableSets, NEW n \in Nat, NEW m \in Nat, n <= m, Restorable(tables, n)
    PROVE  Restorable(tables, m)
<1>1. \A u \in Rows(tables.users) : tables.users[u].hash \in Nat
    BY Zenon DEF TableSets, Rows, UserRows
<1>2. HashesInOrder(tables.users, m)
    BY <1>1 DEF Restorable, HashesInOrder
<1>3. QED
    BY <1>2, Zenon DEF Restorable

(* A snapshot pinned by an export can be restored. *)
LEMMA PinnedIsRestorable ==
    ASSUME StoreInv, SetUp
    PROVE  Tables \in TableSets /\ Restorable(Tables, salts)
<1>1. Tables \in TableSets
    BY Zenon DEF Tables, TableSets, StoreInv, StoreTypes
<1>2. /\ Tables.users = users /\ Tables.settings = settings /\ Tables.records = records
      /\ Tables.zones = zones
      /\ Tables.streams = streams /\ Tables.authors = authors
    BY Zenon DEF Tables
<1>3. References(Tables)
    BY <1>2, Zenon DEF References, StoreInv, Exists, ConfigurationValid
<1>4. QED
    BY <1>1, <1>2, <1>3, Zenon DEF Restorable, StoreInv, ConfigurationValid

LEMMA ReplaceInv ==
    ASSUME StoreInv, NEW tables \in TableSets, Restorable(tables, salts), ReplaceTables(tables)
    PROVE  StoreInv' /\ StoreGrows
<1> DEFINE new == tables.users
<1>1. /\ new \in [Users -> UserRows \cup {None, Gone}] /\ tables.settings \in SettingsRows
      /\ tables.zones \subseteq Zones /\ tables.records \in [RecordIds -> StoredRecords \cup {None}]
      /\ tables.streams \in [StreamIds -> StoredStreams \cup {None}]
      /\ tables.authors \subseteq Users
    BY Zenon DEF TableSets
<1>2. /\ settings' = tables.settings /\ zones' = tables.zones /\ records' = tables.records
      /\ streams' = tables.streams /\ authors' = tables.authors /\ salts' = salts
    BY Zenon DEF ReplaceTables
<1>3. users' = Reinserted(users, new)
    BY Zenon DEF ReplaceTables
<1> HIDE DEF new
<1>4. users' = [u \in Users |->
          IF new[u] \notin {None, Gone} THEN new[u] ELSE IF users[u] = None THEN None ELSE Gone]
    BY <1>1, <1>3, Zenon DEF Reinserted
<1>5. users' \in [Users -> UserRows \cup {None, Gone}]
    BY <1>1, <1>4, Zenon
<1>6. Rows(users') = Rows(new) /\ \A u \in Rows(new) : users'[u] = new[u]
    BY <1>1, <1>4, Zenon DEF Rows
<1>7. HashesInOrder(users', salts') /\ OneFirst(users') /\ AnOwner(users')
    BY <1>2, <1>6, Zenon DEF Restorable, HashesInOrder, OneFirst, AnOwner, new
<1>8. SetUp'
    BY <1>7, Zenon DEF AnOwner, SetUp, Rows
<1>9. \A u \in authors' : Exists(u)'
  <2>1. \A u \in authors' : u \in Rows(new)
      BY <1>1, <1>2, Zenon DEF ReplaceTables, References, Rows, new
  <2>2. QED
      BY <1>6, <2>1, Zenon DEF Exists, Rows
<1>10. ConfigurationValid'
    BY <1>2, Zenon DEF Restorable, References, ConfigurationValid
<1>11. sessions' = [s \in Sessions |-> IF sessions[s] = None THEN None ELSE Gone]
    BY Zenon DEF ReplaceTables, DependentDeletes
<1>12. sessions' \in [Sessions -> SessionRows \cup {None, Gone}] /\ SessionsMatchPassword' /\ OpenedBefore'
    BY <1>11, Zenon DEF SessionsMatchPassword, OpenedBefore, Live
<1>13. StoreTypes'
    BY <1>1, <1>2, <1>5, <1>12, Zenon DEF StoreTypes, StoreInv
<1>14. StoreGrows
    BY <1>2, <1>8 DEF StoreGrows, StoreInv, StoreTypes
<1>15. QED
    BY <1>7, <1>9, <1>10, <1>12, <1>13, <1>14, Zenon DEF StoreInv

(* Bundles that are only kept stay restorable. *)
LEMMA BundlesStay ==
    ASSUME ConsoleInv, StoreGrows, StoreTypes', UNCHANGED bundles
    PROVE  bundles' \subseteq Bundles /\ BundlesInv'
<1>1. bundles' \subseteq Bundles
    BY Zenon DEF ConsoleInv, TypeOK
<1>2. ASSUME NEW b \in bundles PROVE b.markers = 1 /\ Restorable(b.tables, salts')
  <2>1. b.markers = 1 /\ Restorable(b.tables, salts)
      BY Zenon DEF ConsoleInv, BundlesInv
  <2>2. b.tables \in TableSets
      BY Zenon DEF ConsoleInv, TypeOK, Bundles
  <2>3. salts \in Nat /\ salts' \in Nat /\ salts <= salts'
      BY Zenon DEF StoreGrows, StoreTypes, ConsoleInv, TypeOK
  <2>4. QED
      BY <2>1, <2>2, <2>3, RestorableStays, Zenon
<1>3. BundlesInv'
    BY <1>2, Zenon DEF BundlesInv
<1>4. QED
    BY <1>1, <1>3, Zenon

LEMMA ExportInv ==
    ASSUME ConsoleInv, NEW pinned \in TableSets, Restorable(pinned, salts), NEW finished \in BOOLEAN,
           exportBundle(pinned, finished)
    PROVE  /\ StoreInv' /\ StoreGrows
           /\ bundles' \subseteq Bundles /\ BundlesInv'
<1>1. UNCHANGED <<edits, accounts>>
    BY Zenon DEF exportBundle
<1>2. UNCHANGED <<users, sessions, salts, settings, zones, records, streams, authors>>
    BY <1>1, Zenon DEF edits, accounts, configuration
<1>3. StoreInv' /\ StoreGrows
  <2>1. UNCHANGED configuration
      BY <1>1, Zenon DEF edits
  <2>2. QED
      BY <1>2, <2>1, ConfigurationSame, EditStep, Zenon DEF ConsoleInv, StoreInv, StoreTypes
<1> DEFINE b == [tables |-> pinned, markers |-> 1, state |-> IF finished THEN "whole" ELSE "cut"]
<1>4. bundles' = bundles \cup {b}
    BY Zenon DEF exportBundle, exportTable, encodeSQLiteRows
<1>5. b \in Bundles /\ b.markers = 1 /\ b.tables = pinned
    BY Zenon DEF Bundles
<1> HIDE DEF b
<1>6. bundles' \subseteq Bundles
    BY <1>4, <1>5, Zenon DEF ConsoleInv, TypeOK
<1>7. BundlesInv'
    BY <1>2, <1>4, <1>5, Zenon DEF ConsoleInv, BundlesInv
<1>8. QED
    BY <1>3, <1>6, <1>7, Zenon

LEMMA SpoilInv ==
    ASSUME ConsoleInv, NEW b \in bundles, NEW how \in {"altered", "foreign"}, Spoil(b, how)
    PROVE  /\ StoreInv' /\ StoreGrows
           /\ bundles' \subseteq Bundles /\ BundlesInv'
<1>1. UNCHANGED <<edits, accounts>>
    BY Zenon DEF Spoil
<1>2. UNCHANGED <<users, sessions, salts, settings, zones, records, streams, authors>>
    BY <1>1, Zenon DEF edits, accounts, configuration
<1>3. StoreInv' /\ StoreGrows
  <2>1. UNCHANGED configuration
      BY <1>1, Zenon DEF edits
  <2>2. QED
      BY <1>2, <2>1, ConfigurationSame, EditStep, Zenon DEF ConsoleInv, StoreInv, StoreTypes
<1> DEFINE c == [b EXCEPT !.state = how]
<1>4. bundles' = (bundles \ {b}) \cup {c}
    BY Zenon DEF Spoil
<1>5. b \in Bundles /\ c \in Bundles /\ c.markers = b.markers /\ c.tables = b.tables
    BY Zenon DEF Bundles, ConsoleInv, TypeOK
<1> HIDE DEF c
<1>6. bundles' \subseteq Bundles
    BY <1>4, <1>5, Zenon DEF ConsoleInv, TypeOK
<1>7. BundlesInv'
    BY <1>2, <1>4, <1>5, Zenon DEF ConsoleInv, BundlesInv
<1>8. QED
    BY <1>3, <1>6, <1>7, Zenon

-----------------------------------------------------------------------------
(* Requests. *)

LEMMA RequestStays ==
    ASSUME ConsoleInv, StoreGrows, StoreTypes', NEW q \in RequestRows, RequestOK(q)
    PROVE  RequestOK(q)'
<1>1. salts \in Nat /\ salts' \in Nat /\ salts <= salts' /\ (SetUp => SetUp')
    BY Zenon DEF StoreGrows, StoreTypes, ConsoleInv, TypeOK
<1>2. ASSUME q.arg \in TableSets, Restorable(q.arg, salts) PROVE Restorable(q.arg, salts')
    BY <1>1, <1>2, RestorableStays, Zenon
<1>3. QED
    BY <1>1, <1>2, Zenon DEF RequestOK

LEMMA RequestsStay ==
    ASSUME ConsoleInv, StoreGrows, StoreTypes', UNCHANGED reqs
    PROVE  reqs' \in [Requests -> RequestRows \cup {None}] /\ RequestsInv'
<1>1. reqs \in [Requests -> RequestRows \cup {None}]
    BY Zenon DEF ConsoleInv, TypeOK
<1>2. ASSUME NEW r \in Requests, reqs[r] # None PROVE RequestOK(reqs[r])'
  <2>1. reqs[r] \in RequestRows /\ RequestOK(reqs[r])
      BY <1>1, <1>2, Zenon DEF ConsoleInv, RequestsInv
  <2>2. PICK p \in RequestRows : p = reqs[r]
      BY <2>1, Zenon
  <2>3. RequestOK(p)'
      BY <2>1, <2>2, RequestStays, Zenon
  <2>4. QED
      BY <2>2, <2>3, Zenon
<1>3. QED
    BY <1>1, <1>2, Zenon DEF RequestsInv

LEMMA RequestMoves ==
    ASSUME ConsoleInv, StoreGrows, StoreTypes', NEW r \in Requests, NEW q \in RequestRows \cup {None},
           reqs' = [reqs EXCEPT ![r] = q], q # None => RequestOK(q)'
    PROVE  reqs' \in [Requests -> RequestRows \cup {None}] /\ RequestsInv'
<1>1. reqs \in [Requests -> RequestRows \cup {None}]
    BY Zenon DEF ConsoleInv, TypeOK
<1>2. reqs' \in [Requests -> RequestRows \cup {None}]
    BY <1>1, Zenon
<1>3. ASSUME NEW t \in Requests, reqs'[t] # None PROVE RequestOK(reqs[t])'
  <2>1. CASE t = r
    <3>1. reqs'[t] = q
        BY <1>1, <2>1, Zenon
    <3>2. QED
        BY <1>3, <3>1, Zenon
  <2>2. CASE t # r
    <3>1. PICK p \in RequestRows : p = reqs'[t] /\ p = reqs[t] /\ RequestOK(p)
        BY <1>1, <1>3, <2>2, Zenon DEF ConsoleInv, RequestsInv
    <3>2. RequestOK(p)'
        BY <3>1, RequestStays, Zenon
    <3>3. QED
        BY <3>1, <3>2, Zenon
  <2>3. QED
      BY <2>1, <2>2, Zenon
<1>4. QED
    BY <1>2, <1>3, Zenon DEF RequestsInv

LEMMA StoreSame ==
    ASSUME ConsoleInv, UNCHANGED <<users, sessions, salts, edits>>
    PROVE  StoreInv' /\ StoreGrows
<1>1. UNCHANGED <<configuration, authors>>
    BY Zenon DEF edits
<1>2. QED
    BY <1>1, ConfigurationSame, EditStep, Zenon DEF ConsoleInv, StoreInv, StoreTypes

LEMMA RespondInv ==
    ASSUME ConsoleInv, StoreInv', StoreGrows, UNCHANGED bundles, NEW r \in Requests, Respond(r)
    PROVE  ConsoleInv'
<1>1. StoreTypes'
    BY Zenon DEF StoreInv
<1>2. reqs' = [reqs EXCEPT ![r] = None] /\ UNCHANGED <<writable, env>>
    BY Zenon DEF Respond, Goto
<1>3. reqs' \in [Requests -> RequestRows \cup {None}] /\ RequestsInv'
    BY <1>1, <1>2, RequestMoves, Zenon
<1>4. QED
    BY <1>1, <1>2, <1>3, BundlesStay, Zenon DEF ConsoleInv, TypeOK

LEMMA GotoInv ==
    ASSUME ConsoleInv, StoreInv', StoreGrows, UNCHANGED bundles, NEW r \in Requests,
           NEW q \in RequestRows, Goto(r, q), RequestOK(q)
    PROVE  ConsoleInv'
<1>1. StoreTypes'
    BY Zenon DEF StoreInv
<1>2. reqs' = [reqs EXCEPT ![r] = q] /\ UNCHANGED <<writable, env>>
    BY Zenon DEF Goto
<1>3. RequestOK(q)'
    BY <1>1, RequestStays, Zenon
<1>4. reqs' \in [Requests -> RequestRows \cup {None}] /\ RequestsInv'
    BY <1>1, <1>2, <1>3, RequestMoves, Zenon
<1>5. QED
    BY <1>1, <1>2, <1>4, BundlesStay, Zenon DEF ConsoleInv, TypeOK

LEMMA ArriveInv ==
    ASSUME ConsoleInv, UNCHANGED <<accounts, edits, backups>>, NEW r \in Requests,
           NEW q \in RequestRows, Arrive(r, q), RequestOK(q)
    PROVE  ConsoleInv'
<1>1. StoreInv' /\ StoreGrows
    BY StoreSame, Zenon DEF accounts
<1>2. StoreTypes' /\ bundles' = bundles
    BY <1>1, Zenon DEF StoreInv, backups
<1>3. reqs' = [reqs EXCEPT ![r] = q] /\ UNCHANGED <<writable, env>>
    BY Zenon DEF Arrive
<1>4. RequestOK(q)'
    BY <1>1, <1>2, RequestStays, Zenon
<1>5. reqs' \in [Requests -> RequestRows \cup {None}] /\ RequestsInv'
    BY <1>1, <1>2, <1>3, <1>4, RequestMoves, Zenon
<1>6. QED
    BY <1>1, <1>2, <1>3, <1>5, BundlesStay, Zenon DEF ConsoleInv, TypeOK

(* What is known of a request in progress. *)
LEMMA InProgress ==
    ASSUME ConsoleInv, NEW r \in Requests, NEW pc, At(r, pc)
    PROVE  reqs[r] \in RequestRows /\ RequestOK(reqs[r]) /\ reqs[r].pc = pc /\ reqs[r] # None
BY Zenon DEF ConsoleInv, TypeOK, RequestsInv, At

LEMMA FailInv == ASSUME ConsoleInv, NEW r \in Requests, Fail(r) PROVE ConsoleInv'
<1>1. UNCHANGED <<users, sessions, salts, edits, backups>> /\ Respond(r)
    BY Zenon DEF Fail, EmitBackupImport, accounts
<1>2. bundles' = bundles
    BY <1>1, Zenon DEF backups
<1>3. QED
    BY <1>1, <1>2, StoreSame, RespondInv, Zenon

-----------------------------------------------------------------------------
(* The requests on accounts. *)

LEMMA BootstrapInv == ASSUME ConsoleInv, NEW r \in Requests, Bootstrap(r) PROVE ConsoleInv'
<1> DEFINE q == [Blank EXCEPT !.pc = "bootstrap"]
<1>1. q \in RequestRows /\ q.pc = "bootstrap"
    BY Zenon DEF Blank, RequestRows
<1>2. Arrive(r, q) /\ UNCHANGED <<accounts, edits, backups>>
    BY Zenon DEF Bootstrap
<1> HIDE DEF q
<1>3. RequestOK(q)
    BY <1>1, Zenon DEF RequestOK, Entered
<1>4. QED
    BY <1>1, <1>2, <1>3, ArriveInv, Zenon

LEMMA LoginInv == ASSUME ConsoleInv, NEW r \in Requests, NEW u \in Users, Login(r, u) PROVE ConsoleInv'
<1> DEFINE q == [Blank EXCEPT !.pc = "login", !.actor = u, !.hash = users[u].hash]
<1>1. users[u].hash \in Nat
  <2>1. users[u] \in UserRows
      BY ExistsIsRow, Zenon DEF Login, ActiveUsers, ConsoleInv, TypeOK
  <2>2. QED
      BY <2>1, Zenon DEF UserRows
<1>2. q \in RequestRows /\ q.pc = "login"
    BY <1>1, Zenon DEF Blank, RequestRows
<1>3. Arrive(r, q) /\ UNCHANGED <<accounts, edits, backups>>
    BY Zenon DEF Login
<1> HIDE DEF q
<1>4. RequestOK(q)
    BY <1>2, Zenon DEF RequestOK, Entered
<1>5. QED
    BY <1>2, <1>3, <1>4, ArriveInv, Zenon

LEMMA SessionUser ==
    ASSUME ConsoleInv, NEW s \in Sessions, Live(s)
    PROVE  sessions[s].user \in Users
BY Zenon DEF ConsoleInv, TypeOK, StoreTypes, Live, SessionRows

LEMMA ChangePasswordInv ==
    ASSUME ConsoleInv, NEW r \in Requests, NEW s \in Sessions, ChangePassword(r, s)
    PROVE  ConsoleInv'
<1> DEFINE u == sessions[s].user
           q == [Blank EXCEPT !.pc = "change", !.session = s, !.actor = u]
<1>1. u \in Users
    BY SessionUser, Zenon DEF ChangePassword
<1>2. Arrive(r, q) /\ UNCHANGED <<accounts, edits, backups>>
    BY Zenon DEF ChangePassword
<1> HIDE DEF u
<1>3. q \in RequestRows /\ q.pc = "change" /\ q.actor = u
    BY <1>1, Zenon DEF Blank, RequestRows
<1> HIDE DEF q
<1>4. RequestOK(q)
    BY <1>1, <1>3, Zenon DEF RequestOK, Entered
<1>5. QED
    BY <1>2, <1>3, <1>4, ArriveInv, Zenon

LEMMA AccountWriteInv ==
    ASSUME ConsoleInv, NEW r \in Requests,
           BootstrapWrite(r) \/ LoginWrite(r) \/ ChangePasswordWrite(r)
    PROVE  ConsoleInv'
<1>1. Respond(r) /\ UNCHANGED <<edits, backups>> /\ bundles' = bundles
    BY Zenon DEF BootstrapWrite, LoginWrite, ChangePasswordWrite, backups
<1>2. StoreInv
    BY Zenon DEF ConsoleInv
<1>3. CASE BootstrapWrite(r)
    BY <1>1, <1>2, <1>3, BootstrapUserInv, RespondInv, Zenon DEF BootstrapWrite
<1>4. CASE LoginWrite(r)
    BY <1>1, <1>2, <1>4, CreateSessionInv, RespondInv, Zenon DEF LoginWrite
<1>5. CASE ChangePasswordWrite(r)
  <2>1. reqs[r] \in RequestRows /\ reqs[r].actor \in Users
      BY <1>5, InProgress, Zenon DEF ChangePasswordWrite, RequestOK
  <2>2. reqs[r].session \in Sessions \cup {None}
      BY <2>1, Zenon DEF RequestRows
  <2>3. passwordMutation(reqs[r].actor, reqs[r].session)
      BY <1>5, Zenon DEF ChangePasswordWrite, CompletePasswordChange
  <2>4. QED
      BY <1>1, <1>2, <2>1, <2>2, <2>3, PasswordInv, RespondInv, Zenon
<1>6. QED
    BY <1>3, <1>4, <1>5, Zenon

LEMMA LogoutInv == ASSUME ConsoleInv, NEW s \in Sessions, Logout(s) PROVE ConsoleInv'
<1>1. /\ Live(s) /\ sessions' = [sessions EXCEPT ![s].open = FALSE]
      /\ UNCHANGED <<users, salts, edits, reqs, writable, env, bundles>>
    BY Zenon DEF Logout, RevokeSession, backups
<1>2. StoreInv' /\ StoreGrows
    BY <1>1, CloseSessionInv, Zenon DEF ConsoleInv
<1>3. QED
    BY <1>1, <1>2, BundlesStay, RequestsStay, Zenon DEF ConsoleInv, TypeOK, StoreInv

LEMMA HandleUsersInv ==
    ASSUME ConsoleInv, NEW r \in Requests, NEW role \in {"owner", "operator"}, handleCreateUser(r, role)
    PROVE  ConsoleInv'
<1>1. SetUp
    BY InProgress, Zenon DEF handleCreateUser, Handles, RequestOK, Entered
<1>2. Respond(r) /\ UNCHANGED edits /\ bundles' = bundles /\ CreateUser(role, reqs[r].actor)
    BY Zenon DEF handleCreateUser, backups
<1>3. QED
    BY <1>1, <1>2, CreateUserInv, RespondInv, Zenon DEF ConsoleInv

LEMMA UsersWriteInv ==
    ASSUME ConsoleInv, NEW r \in Requests, UpdateUserWrite(r) \/ DeleteUserWrite(r)
    PROVE  ConsoleInv'
<1>1. Respond(r) /\ UNCHANGED edits /\ bundles' = bundles
    BY Zenon DEF UpdateUserWrite, DeleteUserWrite, backups
<1>2. CASE UpdateUserWrite(r)
  <2>1. reqs[r].id \in Users /\ reqs[r].arg \in Patches
      BY <1>2, InProgress, Zenon DEF UpdateUserWrite, Writes, RequestOK
  <2>2. QED
      BY <1>1, <1>2, <2>1, UpdateUserInv, RespondInv, Zenon DEF UpdateUserWrite, ConsoleInv
<1>3. CASE DeleteUserWrite(r)
  <2>1. reqs[r].id \in Users
      BY <1>3, InProgress, Zenon DEF DeleteUserWrite, Writes, RequestOK
  <2>2. QED
      BY <1>1, <1>3, <2>1, DeleteUserInv, RespondInv, Zenon DEF DeleteUserWrite, ConsoleInv
<1>4. QED
    BY <1>2, <1>3, Zenon

-----------------------------------------------------------------------------
(* The gate. *)

LEMMA EnterInv ==
    ASSUME ConsoleInv, NEW r \in Requests, NEW s \in Sessions, NEW class \in Classes, Enter(r, s, class)
    PROVE  ConsoleInv'
<1> DEFINE u == sessions[s].user
<1>1. u \in Users /\ SetUp
  <2>1. u \in Users /\ Exists(u)
      BY SessionUser, Zenon DEF Enter, Authenticate, ActiveUsers
  <2>2. QED
      BY <2>1, Zenon DEF Exists, SetUp, ConsoleInv, TypeOK
<1>2. PICK pc \in {"ingress", "handle"} :
          Arrive(r, [Blank EXCEPT !.pc = pc, !.class = class, !.actor = u])
    BY Zenon DEF Enter
<1>3. UNCHANGED <<accounts, edits, backups>>
    BY Zenon DEF Enter
<1> HIDE DEF u
<1> DEFINE q == [Blank EXCEPT !.pc = pc, !.class = class, !.actor = u]
<1>4. q \in RequestRows /\ q.pc = pc /\ q.actor = u
    BY <1>1, <1>2, ZenonT(60) DEF Blank, RequestRows
<1>5. Arrive(r, q)
    BY <1>2, Zenon
<1> HIDE DEF q
<1>6. RequestOK(q)
    BY <1>1, <1>2, <1>4, Zenon DEF RequestOK, Entered
<1>7. QED
    BY <1>3, <1>4, <1>5, <1>6, ArriveInv, Zenon

(* A request goes on to its job or to its handler. *)
LEMMA PassesInv ==
    ASSUME ConsoleInv, NEW r \in Requests, At(r, "ingress") \/ At(r, "enqueue"),
           NEW pc \in {"enqueue", "handle"}, Goto(r, [reqs[r] EXCEPT !.pc = pc]),
           StoreInv', StoreGrows, UNCHANGED bundles
    PROVE  ConsoleInv'
<1>1. /\ reqs[r] \in RequestRows /\ RequestOK(reqs[r]) /\ reqs[r].pc \in {"ingress", "enqueue"}
    BY InProgress, Zenon
<1> DEFINE q == [reqs[r] EXCEPT !.pc = pc]
<1>2. q \in RequestRows /\ q.pc = pc /\ q.actor = reqs[r].actor
    BY <1>1 DEF RequestRows
<1>3. Goto(r, q)
    BY Zenon
<1> HIDE DEF q
<1>4. RequestOK(q)
    BY <1>1, <1>2, Zenon DEF RequestOK, Entered
<1>5. QED
    BY <1>2, <1>3, <1>4, GotoInv, Zenon

LEMMA GateInv ==
    ASSUME ConsoleInv, NEW r \in Requests,
           SkipIngress(r) \/ initializeIngressSideEffect(r) \/ EnqueueIngress(r)
    PROVE  ConsoleInv'
<1>1. CASE SkipIngress(r)
  <2>1. UNCHANGED <<users, sessions, salts, edits>> /\ bundles' = bundles
      BY <1>1, Zenon DEF SkipIngress, accounts, backups
  <2>2. QED
      BY <1>1, <2>1, StoreSame, PassesInv, Zenon DEF SkipIngress
<1>2. CASE initializeIngressSideEffect(r)
  <2>1. bundles' = bundles /\ StoreInv' /\ StoreGrows
      BY <1>2, InitializeIngressInv, Zenon DEF initializeIngressSideEffect, backups, ConsoleInv
  <2>2. QED
      BY <1>2, <2>1, PassesInv, Zenon DEF initializeIngressSideEffect
<1>3. CASE EnqueueIngress(r)
  <2>1. reqs[r].actor \in Users
      BY <1>3, InProgress, Zenon DEF EnqueueIngress, RequestOK, Entered
  <2>2. bundles' = bundles /\ StoreInv' /\ StoreGrows
      BY <1>3, <2>1, JobInv, Zenon DEF EnqueueIngress, backups, ConsoleInv
  <2>3. QED
      BY <1>3, <2>2, PassesInv, ZenonT(60) DEF EnqueueIngress
<1>4. QED
    BY <1>1, <1>2, <1>3, Zenon

-----------------------------------------------------------------------------
(* The handlers. *)

LEMMA PrepareInv ==
    ASSUME ConsoleInv, NEW r \in Requests, At(r, "handle"),
           NEW op \in {"record", "stream", "unstream", "patch", "delete", "export"},
           NEW id \in RecordIds \cup StreamIds \cup Users \cup {None},
           NEW arg \in Zones \cup StoredStreams \cup Patches \cup TableSets \cup {None},
           op = "record" => id \in RecordIds /\ arg \in Zones,
           op = "stream" => id \in StreamIds /\ arg \in StoredStreams,
           op = "unstream" => id \in StreamIds,
           op = "patch" => id \in Users /\ arg \in Patches,
           op = "delete" => id \in Users,
           op = "export" => arg \in TableSets /\ Restorable(arg, salts),
           Prepare(r, op, id, arg)
    PROVE  ConsoleInv'
<1>1. reqs[r] \in RequestRows /\ RequestOK(reqs[r]) /\ reqs[r].pc = "handle"
    BY InProgress, Zenon
<1> DEFINE p == reqs[r]
           q == [p EXCEPT !.pc = "write", !.op = op, !.id = id, !.arg = arg]
           rest == {"record", "stream", "unstream", "patch", "delete", "export", "import", None}
           ids == RecordIds \cup StreamIds \cup Users \cup {None}
           args == Zones \cup StoredStreams \cup Patches \cup TableSets \cup {None}
<1>a. op \in rest /\ id \in ids /\ arg \in args /\ p \in RequestRows
    BY <1>1, Zenon
<1>b. RequestRows =
        [pc : {"bootstrap", "login", "change", "ingress", "enqueue", "handle", "write"},
         class : Classes \cup {None}, actor : Users \cup {None}, session : Sessions \cup {None},
         hash : Nat, op : rest, id : ids, arg : args]
    BY Zenon DEF RequestRows
<1> HIDE DEF rest, ids, args, p
<1>2. /\ q \in RequestRows /\ q.pc = "write" /\ q.actor = p.actor /\ q.op = op /\ q.id = id /\ q.arg = arg
    BY <1>a, <1>b, Zenon
<1> USE DEF p
<1>3. Goto(r, q) /\ UNCHANGED <<users, sessions, salts, edits>> /\ bundles' = bundles
    BY Zenon DEF Prepare, accounts, backups
<1> HIDE DEF q
<1>4. RequestOK(q)
    BY <1>1, <1>2, Zenon DEF RequestOK, Entered
<1>5. QED
    BY <1>2, <1>3, <1>4, StoreSame, GotoInv, ZenonT(60)

LEMMA HandlersPrepareInv ==
    ASSUME ConsoleInv, NEW r \in Requests,
           \/ \E d \in RecordIds : handlePatchRecord(r, d)
           \/ \E t \in StreamIds : handleDeleteStream(r, t) \/ \E patch \in Patch : handlePatchStream(r, t, patch)
           \/ \E u \in Users : handleDeleteUser(r, u)
           \/ \E u \in Users, patch \in Patches : handleUpdateUser(r, u, patch)
           \/ handleBackupExport(r)
    PROVE  ConsoleInv'
<1>1. ASSUME NEW d \in RecordIds, handlePatchRecord(r, d) PROVE ConsoleInv'
  <2>1. records[d].zone \in Zones
      BY <1>1, Zenon DEF handlePatchRecord, ConsoleInv, TypeOK, StoreTypes, StoredRecords
  <2>2. QED
      BY <1>1, <2>1, PrepareInv, ZenonT(60) DEF handlePatchRecord, Handles
<1>2. ASSUME NEW t \in StreamIds, handleDeleteStream(r, t) PROVE ConsoleInv'
    BY <1>2, PrepareInv, ZenonT(60) DEF handleDeleteStream, Handles
<1>3. ASSUME NEW t \in StreamIds, NEW patch \in Patch, handlePatchStream(r, t, patch) PROVE ConsoleInv'
  <2>1. streams[t] \in StoredStreams
      BY <1>3, Zenon DEF handlePatchStream, ConsoleInv, TypeOK, StoreTypes
  <2>2. mergeStreamBody(streams[t], patch) \in StoredStreams
      BY <2>1, MergedStream, Zenon
  <2>3. QED
      BY <1>3, <2>2, PrepareInv, ZenonT(60) DEF handlePatchStream, Handles
<1>4. ASSUME NEW u \in Users, handleDeleteUser(r, u) PROVE ConsoleInv'
    BY <1>4, PrepareInv, ZenonT(60) DEF handleDeleteUser, Handles
<1>5. ASSUME NEW u \in Users, NEW patch \in Patches, handleUpdateUser(r, u, patch) PROVE ConsoleInv'
    BY <1>5, PrepareInv, ZenonT(60) DEF handleUpdateUser, Handles
<1>6. ASSUME handleBackupExport(r) PROVE ConsoleInv'
  <2>1. SetUp
      BY <1>6, InProgress, Zenon DEF handleBackupExport, Handles, RequestOK, Entered
  <2>2. Tables \in TableSets /\ Restorable(Tables, salts)
      BY <2>1, PinnedIsRestorable, Zenon DEF ConsoleInv
  <2>3. QED
      BY <1>6, <2>2, PrepareInv, ZenonT(60) DEF handleBackupExport, Handles
<1>7. QED
    BY <1>1, <1>2, <1>3, <1>4, <1>5, <1>6, Zenon

LEMMA SettingsHandlersInv ==
    ASSUME ConsoleInv, NEW r \in Requests, NEW patch, handleGetSettings(r) \/ handlePutSettings(r, patch)
    PROVE  ConsoleInv'
<1>1. StoreInv /\ env \in BOOLEAN /\ Respond(r) /\ bundles' = bundles
    BY Zenon DEF handleGetSettings, handlePutSettings, ConsoleInv, TypeOK, backups
<1>2. StoreInv' /\ StoreGrows
    BY <1>1, GetSettingsInv, UpdateSettingsInv, Zenon DEF handleGetSettings, handlePutSettings
<1>3. QED
    BY <1>1, <1>2, RespondInv, Zenon

LEMMA EditHandlersInv ==
    ASSUME ConsoleInv, NEW r \in Requests,
           \/ handleApply(r)
           \/ \E z \in Zones : handleCreateZone(r, z)
           \/ \E z \in Zones, d \in RecordIds, row \in RecordRows : handleAddRecord(r, z, d, row)
           \/ \E row \in RecordRows : PatchRecordWrite(r, row)
           \/ \E row \in StreamRows : handleCreateStream(r, row)
           \/ PatchStreamWrite(r) \/ DeleteStreamWrite(r)
    PROVE  ConsoleInv'
<1> USE DEF ConsoleInv
<1>1. Respond(r) /\ bundles' = bundles
    BY Zenon DEF handleApply, handleCreateZone, handleAddRecord, PatchRecordWrite, handleCreateStream,
           PatchStreamWrite, DeleteStreamWrite, backups
<1>2. At(r, "handle") \/ At(r, "write")
    BY ZenonT(60) DEF handleApply, handleCreateZone, handleAddRecord, PatchRecordWrite, handleCreateStream,
           PatchStreamWrite, DeleteStreamWrite, Handles, Writes
<1>3. RequestOK(reqs[r]) /\ reqs[r].actor \in Users
    BY <1>2, InProgress, Zenon DEF RequestOK, Entered
<1>4. StoreInv' /\ StoreGrows
  <2>1. CASE handleApply(r)
      BY <1>3, <2>1, JobInv, Zenon DEF handleApply
  <2>2. ASSUME NEW z \in Zones, handleCreateZone(r, z) PROVE StoreInv' /\ StoreGrows
      BY <1>3, <2>2, CreateZoneInv, Zenon DEF handleCreateZone
  <2>3. ASSUME NEW z \in Zones, NEW d \in RecordIds, NEW row \in RecordRows, handleAddRecord(r, z, d, row)
        PROVE  StoreInv' /\ StoreGrows
      BY <1>3, <2>3, AddRecordInv, Zenon DEF handleAddRecord
  <2>4. ASSUME NEW row \in RecordRows, PatchRecordWrite(r, row) PROVE StoreInv' /\ StoreGrows
    <3>1. reqs[r].id \in RecordIds /\ reqs[r].arg \in Zones
        BY <2>4, InProgress, Zenon DEF PatchRecordWrite, Writes, RequestOK
    <3>2. QED
        BY <1>3, <2>4, <3>1, AddRecordInv, Zenon DEF PatchRecordWrite
  <2>5. ASSUME NEW row \in StreamRows, handleCreateStream(r, row) PROVE StoreInv' /\ StoreGrows
    <3>1. NewUUID(streams) \in StreamIds
        BY <2>5, NewUUIDIsFree, Zenon DEF handleCreateStream, StoreInv, StoreTypes
    <3>2. row \in StoredStreams
        BY <2>5, Zenon DEF StreamRows, StoredStreams
    <3>3. QED
        BY <2>5, <3>1, <3>2, AddStreamInv, Zenon DEF handleCreateStream
  <2>6. CASE PatchStreamWrite(r)
    <3>1. reqs[r].id \in StreamIds /\ reqs[r].arg \in StoredStreams
        BY <2>6, InProgress, Zenon DEF PatchStreamWrite, Writes, RequestOK
    <3>2. QED
        BY <2>6, <3>1, AddStreamInv, Zenon DEF PatchStreamWrite
  <2>7. CASE DeleteStreamWrite(r)
    <3>1. reqs[r].id \in StreamIds
        BY <2>7, InProgress, Zenon DEF DeleteStreamWrite, Writes, RequestOK
    <3>2. QED
        BY <2>7, <3>1, DeleteStreamInv, Zenon DEF DeleteStreamWrite
  <2>8. QED
      BY <2>1, <2>2, <2>3, <2>4, <2>5, <2>6, <2>7, Zenon
<1>5. QED
    BY <1>1, <1>4, RespondInv, Zenon

-----------------------------------------------------------------------------
(* Backups. *)

(* A bundle that is imported says what its export said. *)
LEMMA ImportedIsWhole ==
    ASSUME ConsoleInv, NEW b \in bundles, Importable(b)
    PROVE  /\ b.state = "whole" /\ b.markers = 1 /\ Payload(b) = b.tables
           /\ b.tables \in TableSets /\ Restorable(b.tables, salts)
<1>1. b \in Bundles /\ b.markers = 1 /\ Restorable(b.tables, salts)
    BY Zenon DEF ConsoleInv, TypeOK, BundlesInv
<1>2. b.state \in {"whole", "cut", "altered", "foreign"} /\ b.tables \in TableSets
    BY <1>1, Zenon DEF Bundles
<1>3. QED
    BY <1>1, <1>2, Zenon DEF Importable, finalizeArchive, verifyArchiveChecksums, verifyMasterKey, Payload

LEMMA ImportInv ==
    ASSUME ConsoleInv, NEW r \in Requests, NEW b \in bundles, handleBackupImport(r, b)
    PROVE  ConsoleInv'
<1>1. reqs[r] \in RequestRows /\ RequestOK(reqs[r]) /\ reqs[r].pc = "handle"
    BY InProgress, Zenon DEF handleBackupImport, Handles
<1>2. Importable(b) /\ ReplaceTables(Payload(b)) /\ bundles' = bundles
    BY Zenon DEF handleBackupImport, ReplaceTables
<1>3. StoreInv' /\ StoreGrows
    BY <1>2, ImportedIsWhole, ReplaceInv, Zenon DEF ConsoleInv
<1> DEFINE q == [reqs[r] EXCEPT !.pc = "write", !.op = "import"]
<1>4. q \in RequestRows /\ q.pc = "write" /\ q.actor = reqs[r].actor /\ q.op = "import"
    BY <1>1, ZenonT(60) DEF RequestRows
<1>5. Goto(r, q)
    BY Zenon DEF handleBackupImport
<1> HIDE DEF q
<1>6. RequestOK(q)
    BY <1>1, <1>4, Zenon DEF RequestOK, Entered
<1>7. QED
    BY <1>2, <1>3, <1>4, <1>5, <1>6, GotoInv, Zenon

LEMMA FinishImportInv ==
    ASSUME ConsoleInv, NEW r \in Requests, FinishImport(r)
    PROVE  ConsoleInv'
<1> DEFINE actor == IF Exists(reqs[r].actor) THEN reqs[r].actor ELSE None
<1>1. actor \in Users \cup {None}
    BY InProgress, Zenon DEF FinishImport, Writes, RequestOK, Entered
<1>2. CreateApplyJob(actor) /\ bundles' = bundles /\ Respond(r)
    BY Zenon DEF FinishImport, Trigger, backups
<1> HIDE DEF actor
<1>3. StoreInv' /\ StoreGrows
    BY <1>1, <1>2, JobInv, Zenon DEF ConsoleInv
<1>4. QED
    BY <1>2, <1>3, RespondInv, Zenon

LEMMA StreamInv ==
    ASSUME ConsoleInv, NEW r \in Requests, StreamBundle(r) \/ StreamBreaks(r)
    PROVE  ConsoleInv'
<1>1. Writes(r, "export")
    BY ZenonT(60) DEF StreamBundle, StreamBreaks
<1>2. PICK pinned \in TableSets : pinned = reqs[r].arg
    BY <1>1, InProgress, Zenon DEF Writes, RequestOK
<1>3. Restorable(pinned, salts)
    BY <1>1, <1>2, InProgress, Zenon DEF Writes, RequestOK
<1>4. PICK finished \in BOOLEAN : exportBundle(pinned, finished)
    BY <1>2, Zenon DEF StreamBundle, StreamBreaks
<1>5. StoreInv' /\ StoreGrows /\ bundles' \subseteq Bundles /\ BundlesInv'
    BY <1>3, <1>4, ExportInv, Zenon
<1>6. reqs' = [reqs EXCEPT ![r] = None] /\ UNCHANGED <<writable, env>>
    BY Zenon DEF StreamBundle, StreamBreaks, Respond, Goto, Event
<1>7. StoreTypes'
    BY <1>5, Zenon DEF StoreInv
<1>8. reqs' \in [Requests -> RequestRows \cup {None}] /\ RequestsInv'
    BY <1>5, <1>6, <1>7, RequestMoves, Zenon
<1>9. QED
    BY <1>5, <1>6, <1>7, <1>8, Zenon DEF ConsoleInv, TypeOK

-----------------------------------------------------------------------------
(* Around the requests. *)

(* The requests go on with the store and the bundles that a step leaves. *)
LEMMA RequestsGoOn ==
    ASSUME ConsoleInv, StoreInv', StoreGrows, bundles' \subseteq Bundles, BundlesInv',
           UNCHANGED <<reqs, env>>, writable' \in BOOLEAN
    PROVE  ConsoleInv'
<1>1. StoreTypes'
    BY Zenon DEF StoreInv
<1>2. reqs' \in [Requests -> RequestRows \cup {None}] /\ RequestsInv'
    BY <1>1, RequestsStay, Zenon
<1>3. QED
    BY <1>1, <1>2, Zenon DEF ConsoleInv, TypeOK

LEMMA EventsInv ==
    ASSUME ConsoleInv,
           \/ Transition \/ Crash
           \/ \E u \in Users : runResetPassword(u)
           \/ \E b \in bundles : SpoilBundle(b)
    PROVE  ConsoleInv'
<1>1. CASE Transition
  <2>1. /\ UNCHANGED <<users, sessions, salts, edits>> /\ bundles' = bundles
        /\ UNCHANGED <<reqs, env>> /\ writable' \in BOOLEAN
      BY <1>1, Zenon DEF Transition, Event, accounts, backups
  <2>2. StoreInv' /\ StoreGrows
      BY <2>1, StoreSame, Zenon
  <2>3. bundles' \subseteq Bundles /\ BundlesInv'
      BY <2>1, <2>2, BundlesStay, Zenon DEF StoreInv
  <2>4. QED
      BY <2>1, <2>2, <2>3, RequestsGoOn, Zenon
<1>2. CASE Crash
  <2>1. /\ UNCHANGED <<users, sessions, salts, edits>> /\ bundles' = bundles
        /\ UNCHANGED <<writable, env>> /\ reqs' = [r \in Requests |-> None]
      BY <1>2, Zenon DEF Crash, Event, accounts, backups
  <2>2. StoreInv' /\ StoreGrows
      BY <2>1, StoreSame, Zenon
  <2>3. StoreTypes' /\ bundles' \subseteq Bundles /\ BundlesInv'
      BY <2>1, <2>2, BundlesStay, Zenon DEF StoreInv
  <2>4. reqs' \in [Requests -> RequestRows \cup {None}] /\ RequestsInv'
      BY <2>1, Zenon DEF RequestsInv
  <2>5. QED
      BY <2>1, <2>2, <2>3, <2>4, Zenon DEF ConsoleInv, TypeOK
<1>3. ASSUME NEW u \in Users, runResetPassword(u) PROVE ConsoleInv'
  <2>1. /\ ResetPassword(u) /\ UNCHANGED edits /\ bundles' = bundles
        /\ UNCHANGED <<reqs, env>> /\ writable' = writable
      BY <1>3, Zenon DEF runResetPassword, backups
  <2>2. StoreInv' /\ StoreGrows
      BY <2>1, PasswordInv, Zenon DEF ConsoleInv, ResetPassword
  <2>3. bundles' \subseteq Bundles /\ BundlesInv' /\ writable' \in BOOLEAN
      BY <2>1, <2>2, BundlesStay, Zenon DEF StoreInv, ConsoleInv, TypeOK
  <2>4. QED
      BY <2>1, <2>2, <2>3, RequestsGoOn, Zenon
<1>4. ASSUME NEW b \in bundles, SpoilBundle(b) PROVE ConsoleInv'
  <2>1. PICK how \in {"altered", "foreign"} : Spoil(b, how)
      BY <1>4, Zenon DEF SpoilBundle
  <2>2. UNCHANGED <<reqs, env>> /\ writable' \in BOOLEAN
      BY <1>4, Zenon DEF SpoilBundle, Event, ConsoleInv, TypeOK
  <2>3. QED
      BY <2>1, <2>2, SpoilInv, RequestsGoOn, Zenon
<1>5. QED
    BY <1>1, <1>2, <1>3, <1>4, Zenon

-----------------------------------------------------------------------------
(* The invariant holds at the start and at every step. *)

LEMMA TwoOf ==
    ASSUME NEW S, Cardinality(S) >= 2
    PROVE  /\ (CHOOSE x \in S : TRUE) \in S
           /\ \A u \in S : (CHOOSE x \in S : x # u) \in S /\ (CHOOSE x \in S : x # u) # u
<1>1. S # {}
    BY FS_EmptySet
<1>2. ASSUME NEW u \in S PROVE \E x \in S : x # u
  <2>1. Cardinality({u}) = 1
      BY FS_Singleton, Zenon
  <2>2. S # {u}
      BY <2>1, SMTT(30)
  <2>3. QED
      BY <2>2, Zenon
<1>3. QED
    BY <1>1, <1>2, Zenon

(* The tables of a new installation, and of one with two owners. *)
LEMMA InitialAccounts ==
    ASSUME Init
    PROVE  /\ users \in [Users -> UserRows \cup {None, Gone}]
           /\ sessions \in [Sessions -> SessionRows \cup {None, Gone}]
           /\ HashesInOrder(users, salts) /\ OneFirst(users)
           /\ SetUp => AnOwner(users)
           /\ SessionsMatchPassword /\ OpenedBefore
<1>1. salts = 1
    BY Zenon DEF Init
<1>2. CASE users = [u \in Users |-> None] /\ sessions = [s \in Sessions |-> None]
    BY <1>2, Zenon DEF HashesInOrder, OneFirst, SetUp, SessionsMatchPassword, OpenedBefore, Live, Rows
<1> DEFINE u == CHOOSE x \in Users : TRUE
           o == CHOOSE x \in Users : x # u
           s == CHOOSE x \in Sessions : TRUE
           t == CHOOSE x \in Sessions : x # s
<1>3. CASE /\ users = [x \in Users |-> IF x = u THEN Owner(TRUE) ELSE IF x = o THEN Owner(FALSE) ELSE None]
           /\ sessions = [x \in Sessions |->
                 IF x = s THEN [user |-> u, open |-> TRUE, hash |-> 1, opened |-> 1]
                 ELSE IF x = t THEN [user |-> o, open |-> TRUE, hash |-> 1, opened |-> 1] ELSE None]
  <2>1. u \in Users /\ o \in Users /\ u # o
      BY TwoOf, ConsoleAssumption, ZenonT(60)
  <2> HIDE DEF u, o, s, t
  <2>2. ASSUME NEW f \in BOOLEAN
        PROVE  /\ Owner(f) \in UserRows /\ Owner(f).role = "owner" /\ Owner(f).active
               /\ Owner(f).hash = 1 /\ Owner(f).since = 1 /\ Owner(f).first = f
      BY Zenon DEF Owner, UserRows
  <2>3. Owner(TRUE) \notin {None, Gone} /\ Owner(FALSE) \notin {None, Gone}
      BY <2>2, RowsAssumption, Zenon
  <2>4. \A x \in {u, o} : [user |-> x, open |-> TRUE, hash |-> 1, opened |-> 1] \in SessionRows
      BY <2>1, Zenon DEF SessionRows
  <2>5. users \in [Users -> UserRows \cup {None, Gone}]
      BY <1>3, <2>2, Zenon
  <2>6. sessions \in [Sessions -> SessionRows \cup {None, Gone}]
      BY <1>3, <2>4, Zenon
  <2>7. Rows(users) = {u, o} /\ users[u] = Owner(TRUE) /\ users[o] = Owner(FALSE)
      BY <1>3, <2>1, <2>3, Zenon DEF Rows
  <2>8. HashesInOrder(users, salts)
    <3>1. \A x \in Rows(users) : users[x].since = 1 /\ users[x].hash = 1
        BY <2>2, <2>7, Zenon
    <3>2. QED
        BY <1>1, <3>1 DEF HashesInOrder
  <2>9. OneFirst(users)
      BY <2>2, <2>7, Zenon DEF OneFirst
  <2>10. AnOwner(users)
      BY <2>2, <2>7, Zenon DEF AnOwner
  <2>11. SessionsMatchPassword /\ OpenedBefore
    <3> SUFFICES ASSUME NEW x \in Sessions, Live(x)
                 PROVE  /\ Exists(sessions[x].user)
                        /\ SessionOK(sessions[x], users[sessions[x].user])
                        /\ sessions[x].opened <= salts
        BY Zenon DEF SessionsMatchPassword, SessionOK, OpenedBefore
    <3>1. PICK y \in {u, o} : sessions[x] = [user |-> y, open |-> TRUE, hash |-> 1, opened |-> 1]
        BY <1>3, Zenon DEF Live
    <3>2. sessions[x].user = y /\ sessions[x].hash = 1 /\ sessions[x].opened = 1
        BY <3>1
    <3>3. Exists(y) /\ users[y].since = 1 /\ users[y].hash = 1
        BY <2>2, <2>3, <2>7, ZenonT(60) DEF Exists
    <3>4. QED
        BY <1>1, <3>2, <3>3 DEF SessionOK
  <2>12. QED
      BY <2>5, <2>6, <2>8, <2>9, <2>10, <2>11, Zenon
<1>4. QED
    BY <1>2, <1>3, ZenonT(60) DEF Init

LEMMA InitialConfiguration ==
    ASSUME Init
    PROVE  /\ settings \in SettingsRows /\ zones \subseteq Zones
           /\ records \in [RecordIds -> StoredRecords \cup {None}]
           /\ streams \in [StreamIds -> StoredStreams \cup {None}]
           /\ ConfigurationValid
<1>1. settings \in SettingsRows
  <2>1. settings = [ingress |-> FALSE, pool |-> FALSE] \/ settings = [ingress |-> FALSE, pool |-> TRUE]
      BY Zenon DEF Init
  <2>2. \A f, p \in BOOLEAN : [ingress |-> f, pool |-> p] \in SettingsRows
      BY Zenon DEF SettingsRows
  <2>3. QED
      BY <2>1, <2>2, Zenon
<1>2. zones = {} \/ zones = Zones
    BY ZenonT(60) DEF Init
<1> DEFINE z == CHOOSE y \in Zones : TRUE
           a == [zone |-> z, writer |-> z, row |-> [type |-> "A", proxied |-> FALSE, enabled |-> TRUE]]
           d == NewUUID([i \in RecordIds |-> None])
           l == CHOOSE x \in Listeners : TRUE
           b == [listener |-> l, enabled |-> TRUE]
           t == NewUUID([i \in StreamIds |-> None])
<1>3. records = [x \in RecordIds |-> IF zones # {} /\ x = d THEN a ELSE None]
    BY Zenon DEF Init
<1>4. \/ streams = [x \in StreamIds |-> None]
      \/ streams = [x \in StreamIds |-> IF x = t THEN b ELSE None]
    BY Zenon DEF Init
<1>5. z \in Zones
    BY ConsoleAssumption, Zenon
<1> HIDE DEF z
<1>6. a \in StoredRecords /\ a.zone = z /\ a.row.type = "A" /\ ~a.row.proxied
    BY <1>5, Zenon DEF StoredRecords, RecordRows
<1>7. b \in StoredStreams
  <2>1. l \in Listeners
      BY ConsoleAssumption, Zenon
  <2>2. QED
      BY <2>1, Zenon DEF StoredStreams
<1> HIDE DEF a, b, d, t
<1>8. records \in [RecordIds -> StoredRecords \cup {None}] /\ streams \in [StreamIds -> StoredStreams \cup {None}]
    BY <1>3, <1>4, <1>6, <1>7, Zenon
<1>9. \A x \in Stored(records) : records[x] = a /\ records[x].zone \in zones
    BY <1>2, <1>3, <1>5, <1>6, Zenon DEF Stored
<1>10. validateStreamRoutes(streams)
    BY <1>4, ZenonT(60) DEF validateStreamRoutes, Stored
<1>11. ASSUME NEW y \in Zones PROVE ValidZone(records, y, settings.ingress)
  <2> DEFINE rows == [x \in OwnRecords(records, y) |-> records[x].row]
  <2>1. \A x \in DOMAIN rows : rows[x].type = "A" /\ ~rows[x].proxied
      BY <1>6, <1>9, Zenon DEF OwnRecords
  <2> HIDE DEF rows
  <2>2. \A x \in DOMAIN rows : rows[x].type # "CNAME"
      BY <2>1
  <2>3. validateRecordSet(rows, settings.ingress)
      BY <2>1, <2>2, Zenon DEF validateRecordSet
  <2>4. QED
      BY <2>3, Zenon DEF ValidZone, rows
<1>12. QED
    BY <1>1, <1>2, <1>8, <1>9, <1>10, <1>11, Zenon DEF ConfigurationValid

LEMMA InitConsole == ASSUME Init PROVE ConsoleInv
<1>1. /\ salts = 1 /\ authors = {} /\ bundles = {} /\ writable = TRUE /\ env \in BOOLEAN
      /\ reqs = [r \in Requests |-> None]
    BY Zenon DEF Init
<1>2. StoreTypes
    BY <1>1, InitialAccounts, InitialConfiguration, Zenon DEF StoreTypes
<1>3. StoreInv
    BY <1>1, <1>2, InitialAccounts, InitialConfiguration, Zenon DEF StoreInv
<1>4. TypeOK
    BY <1>1, <1>2, Zenon DEF TypeOK
<1>5. BundlesInv /\ RequestsInv
    BY <1>1, Zenon DEF BundlesInv, RequestsInv
<1>6. QED
    BY <1>3, <1>4, <1>5, Zenon DEF ConsoleInv

LEMMA RequestStep ==
    ASSUME ConsoleInv, NEW r \in Requests, Gate(r) \/ Edit(r) \/ Account(r) \/ Backup(r) \/ Fail(r)
    PROVE  ConsoleInv'
<1>1. CASE Gate(r)
    BY <1>1, EnterInv, GateInv, Zenon DEF Gate
<1>2. CASE Edit(r)
    BY <1>2, SettingsHandlersInv, EditHandlersInv, HandlersPrepareInv, Zenon DEF Edit
<1>3. CASE Account(r)
    BY <1>3, BootstrapInv, LoginInv, ChangePasswordInv, AccountWriteInv, HandleUsersInv, UsersWriteInv,
       HandlersPrepareInv, Zenon DEF Account
<1>4. CASE Backup(r)
    BY <1>4, HandlersPrepareInv, StreamInv, FinishImportInv, ImportInv, Zenon DEF Backup
<1>5. QED
    BY <1>1, <1>2, <1>3, <1>4, FailInv, Zenon

LEMMA NextConsole == ASSUME ConsoleInv, [Next]_vars PROVE ConsoleInv'
<1>1. CASE Next
    BY <1>1, RequestStep, LogoutInv, EventsInv, Zenon DEF Next
<1>2. CASE UNCHANGED vars
  <2>1. UNCHANGED <<users, sessions, salts, edits, bundles, reqs, writable, env>>
      BY <1>2, Zenon DEF vars, accounts, backups, console
  <2>2. StoreInv' /\ StoreGrows
      BY <2>1, StoreSame, Zenon
  <2>3. bundles' \subseteq Bundles /\ BundlesInv' /\ writable' \in BOOLEAN
      BY <2>1, <2>2, BundlesStay, Zenon DEF StoreInv, ConsoleInv, TypeOK
  <2>4. QED
      BY <2>1, <2>2, <2>3, RequestsGoOn, Zenon
<1>3. QED
    BY <1>1, <1>2, Zenon

(***************************************************************************)
(* Whatever requests the console serves at once, the store, the bundles    *)
(* and what each request read before its write stay consistent.            *)
(***************************************************************************)
THEOREM ConsoleInvariance == Spec => []ConsoleInv
BY InitConsole, NextConsole, PTL DEF Spec

-----------------------------------------------------------------------------
(* The promises. *)

LEMMA OwnerInvariant == ASSUME ConsoleInv PROVE OwnerRemains
<1>1. StoreTypes /\ OneFirst(users) /\ (SetUp => AnOwner(users))
    BY Zenon DEF ConsoleInv, StoreInv
<1>2. (\E u \in Users : users[u] # None) => Owners # {}
    BY <1>1, OwnersAreOwners, Zenon DEF SetUp
<1> DEFINE first == {u \in Users : Exists(u) /\ users[u].first}
<1>3. \A u, v \in first : u = v
    BY <1>1, ExistsIsRow, Zenon DEF OneFirst
<1>4. first = {} \/ \E u \in first : first = {u}
    BY <1>3, Zenon
<1>5. Cardinality(first) <= 1
  <2>1. CASE first = {}
    <3>1. Cardinality(first) = 0
        BY <2>1, FS_EmptySet, Zenon
    <3>2. QED
        BY <3>1
  <2>2. ASSUME NEW u \in first, first = {u} PROVE Cardinality(first) <= 1
    <3>1. Cardinality({u}) = 1
        BY FS_Singleton, Zenon
    <3>2. QED
        BY <2>2, <3>1
  <2>3. QED
      BY <1>4, <2>1, <2>2, Zenon
<1>6. QED
    BY <1>2, <1>5, Zenon DEF OwnerRemains

(***************************************************************************)
(* BootstrapUser makes at most one first user, and sqliteOwnerGuard leaves *)
(* an active owner in every order of user edits and restored backups, for  *)
(* any number of users, requests and restarts.                             *)
(***************************************************************************)
THEOREM OwnerAlwaysRemains == Spec => []OwnerRemains
<1>1. ConsoleInv => OwnerRemains
    BY OwnerInvariant, Zenon
<1>2. QED
    BY <1>1, ConsoleInvariance, PTL

(***************************************************************************)
(* passwordMutation leaves no session of an earlier password open, and     *)
(* CreateSessionForCredential opens none with a password that was replaced *)
(* since the login verified it, also by an owner.  Sessions opened before  *)
(* an owner's UpdateUser are left open by the code and by the theorem.     *)
(***************************************************************************)
THEOREM SessionsFollowPasswords == Spec => []SessionsMatchPassword
<1>1. ConsoleInv => SessionsMatchPassword
    BY Zenon DEF ConsoleInv, StoreInv
<1>2. QED
    BY <1>1, ConsoleInvariance, PTL

(***************************************************************************)
(* AddRecord, AddStream, the settings and ReplaceTables keep the records   *)
(* of each zone and the streams valid, however their requests interleave,  *)
(* but for a record that AddRecord last wrote through another zone.        *)
(***************************************************************************)
THEOREM ConfigurationStaysValid == Spec => []ConfigurationValid
<1>1. ConsoleInv => ConfigurationValid
    BY Zenon DEF ConsoleInv, StoreInv
<1>2. QED
    BY <1>1, ConsoleInvariance, PTL

(***************************************************************************)
(* Every bundle that exportBundle finished, before or after any restore,   *)
(* holds tables that ReplaceTables accepts and an owner can log in to.     *)
(***************************************************************************)
THEOREM BundlesRestore == Spec => []BundleRestores
<1>1. ASSUME ConsoleInv PROVE BundleRestores
    BY <1>1, Zenon DEF ConsoleInv, BundlesInv, Restorable, AnOwner, Rows, BundleRestores
<1>2. QED
    BY <1>1, ConsoleInvariance, PTL
=============================================================================
