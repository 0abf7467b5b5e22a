# ProxyCore in TLA+

TLA+ models of ProxyCore, the runs that check them with TLC, and proofs that
TLAPS checks. ProxyCore is a self-hosted control plane for an Nginx reverse
proxy and a CoreDNS name server: one installation edits and applies its own
configuration, and several installations can form a cluster in which a primary
publishes its configuration and nodes follow it.

Everything is modelled from the code under `src/`. `PROJECT.json` maps every
definition to the lines it stands for, lists the runs, the mutants each
property is tested against, the hazards of the code and the disagreements
between code and documentation that the runs show.

Contents: [1 the system](#1-the-system) ·
[2 modules](#2-modules) · [3 runs](#3-runs) ·
[4 bounds](#4-bounds) · [5 fairness](#5-fairness) ·
[6 proofs](#6-proofs) · [7 disagreements](#7-where-code-and-documentation-disagree) ·
[8 not modelled](#8-what-is-not-modelled) · [9 plan](#9-plan)

## 1 The system

| Part | State it owns | Operations that change it | What makes it hard |
|---|---|---|---|
| API server (`cmd/server`, `httpserver`) | caches only | every handler | concurrent requests; a role checked before a write; state read in one step and written in a later one |
| Configuration store (`configuration`) | SQLite tables, revisions, jobs | edits, imports, settings | one writer at a time, but many transactions per operation |
| Apply worker (`worker/apply`, `poller`, `store`) | `apply_jobs`, `config_revisions`, the applied pointer | claim, prepare, promote, reload, health, rollback, mark, finish, recover, reconcile | killed between any two calls; leases; late requests |
| Control helper (`worker/controldocker`, `controlserver`) | Nginx and CoreDNS files, saved copies | stage, promote, reload, rollback, drift probe | keeps running after its client gave up; restarts of the containers |
| Publication (`sync/publication_producer.go`, `publisher.go`) | `applied_snapshots` | heal, list, produce | passes cut short; role change makes every body stale; reverts |
| Node sync (`sync/node_sync.go`) | `node_state` progress | load, fetch, import, wait, acknowledge, save | lost answers, failed applies, timeouts, rebinding during a cycle |
| Identity and topology (`identity`) | role, generations, cluster key id; a cache of them | promote, demote, activate, commit | several transactions per method; owners act on several installations |
| Cluster keys (`cluster`) | `cluster_keys` | create, import, reactivate, retire | which live key each reader picks |
| Enrollment (`enrollment`, `httpserver/enrollment_*`) | tokens, grants, credentials, drafts, TLS material | token, preview, exchange, accept, bind, convert | a protocol over two databases; lost answers; role changes while it waits |
| Self-update (`apps/updater`, `updater-bootstrap.sh`) | images, containers, request file | pull, preflight, restart, verify, bootstrap; claim, replace, restore | replaces itself; half-done commands; crashes of both programs |
| Release checker (`update/checker.go`) | cached answer | check, refresh | shared fetch, cancellation, two lifetimes, a throttle |
| Certificates and renewal (`acme`, `configuration/renewal_*`) | certificates, internal CA, challenge values | issue, upload, renew, delete, sweep | minutes outside any transaction; sweep against manual renewal, role change and deletion |
| Accounts and sessions (`auth`) | users, sessions | login, logout, users, passwords | last owner; sessions that outlive a change |
| Backup and restore (`backupcore`) | bundle files, all tables | export, import | an export beside edits; a damaged bundle; the import logs everyone out |
| PostgreSQL conversion (`pgconvert`, `cmd/convert`) | a new SQLite file and its marker | plan, copy, validate, publish, mark | killed half way; an update and a starting API beside it |
| SQLite layer (`sqlitedb`) | schema, one writer | migrate, write | the basis of every "one transaction is one step" |
| Renderers, domain, snapshot format | none | none | pure functions |
| Dashboard, installer, TypeScript packages | none of the system's | none | presentation and earlier programs |

How they interact: an edit (API) creates a revision and a queued job; the worker
claims the job, renders the revision, and drives the control helper service by
service; the outcome goes back to the store. On a primary every applied ordinary
job becomes a published snapshot; a node fetches it, imports it as a job of its
own worker, waits, and acknowledges. Which installation may publish, edit or
enroll is decided by the identity. The updater replaces all of these containers
while they work.

## 2 Modules

A definition has the name of the function it stands for where there is one. An
operator on primed variables in a store module is one writer transaction; the
module above it says which request, loop or program runs it, and what comes
between two of them.

### The apply pipeline

- `Revisions`: the revisions a host can have and the value for "none".
- `ApplyStore`: the tables of the queue. One action per writer transaction:
  `Enqueue`, `Import` (with `Supersede` of unfinished jobs and reuse of an
  interrupted import), `ClaimNext`, `RecoverStale`, `LeaseExpires`,
  `EnqueueIfNotActive`, `UpdateStatus`, `MarkApplied`, and the reads the
  reconciliation makes (`LatestApplied`).
- `ControlHelper`: the files of Nginx and CoreDNS, the copies kept for a
  rollback and what the processes have loaded. An operation is the set of its
  outcomes, each with the number of file or Docker calls that have to fail for
  it: a promotion that failed half way is one of them.
- `ApplyPipeline`: the worker between both. `pc` is the call it makes next.
  Between two calls anything may happen: new jobs and imports, the worker is
  killed, a handler whose client timed out runs, a container or the helper
  restarts, a lease expires. `wrong` counts what went wrong by kind, and
  `Allowed` says which combinations a run admits.
- `JobLifecycle`: the abstract specification: what may ever happen to the jobs.
  `LifecycleSpec` in `ApplyPipeline` is its instance over the pipeline's jobs.
- `ApplyInvariants`: what every reachable state of the pipeline satisfies, the
  inductive invariant `ApplyInv` of the proofs.
- `MCApplyPipeline`: model values and symmetry. `ApplyPipelineProofs` and
  `ApplyFilesProofs`: section 6.

### Replication

- `Publication`: the producer and the reads that pick the published snapshot. A
  content hash is the pair of a configuration and the version of the secrets it
  was exported with; the table is keyed by it. `Heal`, `List`, `Produce` are the
  steps of a pass; a pass may be cut short between them. The candidates of a
  pass are a set, taken in the order of their jobs. A heal looks at the
  newest `HealRecent` rows only, as the code does with `healRecentSnapshots`.
- `NodeSync` extends it with one node: the confirm handler of an enrollment and
  the sync cycle run concurrently over the same rows, and its worker applies
  their import jobs. The primary's side of a request (`handleSnapshotResponse`,
  `RecordSnapshotAcknowledgement`) and the node's side are separate operators,
  because an answer may be lost between them. The primary compares an
  acknowledgement with what it publishes in one transaction
  (`ReadForAcknowledgement`) and records it in another (`Acknowledge`), which
  looks for the row and the credential again. Nodes share only the primary, so
  one is enough; it has one draft at a time.
- `MCPublication`, `MCNodeSync`: the instances, the first with equal contents.

### Topology

- `Topology`: several installations with their identity rows and caches,
  cluster keys, tokens, credentials, drafts and bindings. `Promote`, `Demote`,
  `CreateToken`, `Grant`, `Accept`, `Bind`, `Import`, `CommitNodeEnrollment`,
  `UnlinkEnrolledNode`, `LearnUnlink`, restarts and the failures in the middle
  of a method (`PromoteUnkeyed`, `ActivationFails`, `CommitStops`). A grant is
  the record of its binding and key (`SealBootstrap`), and opens only under the
  binding of the draft that asked for it. A key is the installation that minted
  it and a number. `NodeSync` keeps the role fixed and details the data;
  `Topology` keeps the data abstract and details the role.
- `MCTopology`: two interchangeable installations.

### Certificates

- `Certificates`: console requests that issue (internal CA, upload, Let's
  Encrypt by HTTP-01 or DNS-01), renew and delete certificates, and the renewal
  sweep that renews under the identity's read lock. A request is a program
  counter with what it has read so far; generating a key, publishing a
  challenge, ordering, storing and queueing the apply are separate steps, and
  errors, a role change or a restart come between them. A key pair is a number
  and a certificate the key it certifies with the key that signed it.

### The console API

- `Accounts`: users, sessions and audit rows, one operator per transaction of
  `auth.SQLiteStore`. A password hash is a number, new for each password.
- `ConfigEdits` extends it with settings, zones, records, stream routes and the
  revisions whose actors keep a user from being deleted. All records are at one
  name that lies in both zones, so that a POST to one zone may name a record of
  the other.
- `Backups` extends that with bundle files: what an export reads and writes,
  what an import verifies, and the tables it replaces.
- `Console` composes them: concurrent requests pass the gate of
  `requireAuthenticatedUser` (session, forced password change, owner routes,
  read-only nodes), take the ingress side effect, and run a handler that reads
  in one step and writes in another. Role changes, `proxycore-admin`, crashes and damage to kept bundles happen around them.
- `MCConsole`: interchangeable requests.

### Self-update and conversion

- `Conversion`: the converter from PostgreSQL (`BeginConvert`, `Copy`,
  `ValidateCopy`, `Link`, `writeMarker` and their failures, and damage to the
  closed file before it is validated), the migration ledger
  an API meets when it starts (`Migrate`) and the worker's wait for the schema
  (`Wait`). A row of the source is one of a few kinds of value that conversion
  or validation tells apart.
- `DatabaseFile`: the abstract specification of the database file across all of
  this; `DatabaseIsWhole` in `Conversion` is its instance.
- `Updater` extends `Conversion`: the update handler, the goroutines, the lock
  and the last result, the Docker daemon, the bootstrap request file and the
  sidecar script. The operator may run the converter at any time.
- `UpdateChecker`: the release cache with concurrent callers.
- `SemVer`: version order as the code computes it, with the reference
  definition. `MCUpdateChecker` gives both their versions, and states as an
  assumption for TLC to evaluate that the two orders agree (`VersionOrder`).

The theorems about a module `M` are in `MProofs` (section 6); those about
`Publication` and `NodeSync` are in `ReplicationProofs`, and those about the
files of the apply pipeline in `ApplyFilesProofs`, which continues
`ApplyPipelineProofs`.

## 3 Runs

Runs that pass:

| Run | Shows |
|---|---|
| `apply_safety` | Three edits or imports and a repair, with one failing call, lost store call, late request, kill or restart anywhere. Applied implies marked and current (`AppliedIsMarked`), and that its services run it (`AppliedIsServed`); a rollback restores the last applied files (`RollbackRestores`); the two services never keep files of different snapshots (`NoMixedSnapshot`); applies happen in order (`NoStaleOverNewer`); the pipeline implements the job life cycle (`LifecycleSpec`), in which a finished job keeps its outcome. The inductive invariant of the proofs, which contains the types, is checked here too (`ApplyInv`). |
| `apply_recovery` | Under fairness, after a failing call and a restart, or a late request and a kill: every job finishes (`EveryJobFinishes`), and the reconciliation brings Nginx back to the last applied revision (`DriftRepaired`). |
| `publish_rows` | A primary that starts with or without nodes, with reverts, changed secrets, the first grant (which makes every stored body stale), a heal that sees only the newest rows and a pass cut short: rows match their jobs (`RowsMatchJobs`), and in the end the last apply is the published one (`EventuallyPublished`). |
| `sync_node` | A node converges (`Converges`), acknowledges only what it applied (`AckedWasApplied`), runs what it reports as up to date (`UpToDateRunsIt`), learns that it was unlinked (`LearnsUnlink`) and never believes it wrongly (`UnlinkedIsTrue`), through pairs of lost answers, failed applies, timeouts, restarts, reverts, unlinking and a second enrollment. |
| `topology_roles` | Cache and row of the identity agree after every operation and failure (`MemIsRow`); a leader is above every primary it was a node of (`LeadsAboveJoined`); its key is a live one, and no credential outlives the leadership, generation and key it was granted under (`LeadershipHolds`). |
| `certificates` | Whatever issues, renewals, uploads and deletions overlap, certificate, key and issuer match and a proxied record keeps its certificate (`MaterialAgrees`); the sweep works only while the installation may write (`RenewsOnlyAsWriter`); challenges end with their order (`ChallengesWithdrawn`); a due certificate is renewed or says why not (`DueIsRenewed`); a stored renewal reaches an apply (`RenewalReachesApply`). |
| `console` | An active owner always remains, and of several bootstraps one succeeds (`OwnerRemains`); no session outlives a reset or the user's own change of the password it was opened with (`SessionsMatchPassword`); stored records and streams always pass the validation that apply repeats (`ConfigurationValid`); every finished bundle is one moment's tables and can be restored (`BundleRestores`). |
| `self_update` | One update at a time (`OneUpdate`); "ok" means the pulled images run, on a database with the schema they wait for (`OkRunsPulled`); every update settles (`UpdateSettles`); the updater itself is replaced after an update that succeeded (`UpdaterCatchesUp`); the new runtime never starts on an empty database beside an unconverted PostgreSQL volume (`LegacyKept`); the database file appears whole or not at all (`DatabaseIsWhole`, the refinement of `DatabaseFile`). With failing and half-done commands, kills of updater, sidecar and converter. |
| `check_releases` | Answers not marked stale are recent (`FreshIsRecent`), a known release is not forgotten (`ReleaseNotForgotten`), every call is answered (`EveryCallAnswered`), and an answer offers a release exactly when the SemVer standard puts it above the running version (`MatchesStandard`). Before the run TLC evaluates `VersionOrder`: the comparison is a total order, the one of the standard, on all triples of versions. |

Runs that end in a violation (`rollback_reload`, `heal_shadowed`,
`join_promoted`) belong to section 7.

Each property of a passing run has a mutant in `PROJECT.json`: a plausible bug
in a mapped definition under which TLC finds the property violated.

### Exceptions in the properties

A model that admits every trouble admits those against which the code has no
protection. A property that does not hold under such a trouble says so in its
own text, through the counts the model keeps of what has happened:

| Property | Does not hold after | Because |
|---|---|---|
| `AppliedIsServed`, `NoMixedSnapshot`, `RollbackRestores` | a request that outlived its client | the helper's late effect lands in the middle of the next job |
| `AppliedIsServed`, `NoMixedSnapshot` | a restart together with a failing call | the Nginx entrypoint finds the new file unusable and installs an older one |
| `RollbackRestores`, `NoMixedSnapshot` | a killed worker, a second failing call | a recovered job saves its own files as the previous ones; a rollback that fails is only recorded |
| `RollbackRestores` | a restart of the helper or of Nginx before the failure | the helper seeds the Corefile from a candidate, Nginx falls back on one, and the promotion saves that as the known-good file |
| `NoStaleOverNewer`, `NoMixedSnapshot` | a lost store call, a killed worker | a job stays active without an owner until its lease ends, and then runs after newer ones |
| `EventuallyPublished` | a heal, if secrets changed or two applied revisions are equal | the discarded row ties with its replacement, or is rebound to the older apply first |
| `AckedWasApplied`, `UpToDateRunsIt`, `Converges` | an enrollment again after an unlink | a cycle that still runs shares the progress row with the new conversion |
| `UpToDateRunsIt`, `Converges` | a job applied after its wait ended by a timeout or a restart, when the primary went back meanwhile | the late job applies what the node no longer asked for |
| `UnlinkedIsTrue` | a third enrollment | a cycle with the first credential stores its refusal over the third binding |
| `ChallengesWithdrawn` | a crash, an error of the clean-up, an error while values are added | nothing removes a TXT value later |
| `DueIsRenewed` | an order of the sweep that never ends | the ACME client has no timeout and the sweep's context no deadline |
| `RenewalReachesApply` | a crash or error between the stored renewal and its job | the two are separate transactions and the certificate is no longer due |
| `SessionsMatchPassword` | a password that an owner sets for the user | the update revokes no session; those open at that time stay open, and none is opened with the former password later |
| `ConfigurationValid`, `BundleRestores` | a POST that names the id of a record of another zone | the row is overwritten and keeps its zone, whose other records were not looked at; it is left out of that zone's check until a transaction of its own zone writes it again |
| `LegacyKept` | a failing `docker volume inspect` on an existing volume | the failure is read as "no such volume" |
| `LegacyKept`, `OkRunsPulled` | a converter that cannot write its marker | it removes the database that the preflight has found |
| `UpdaterCatchesUp` | a restart of the sidecar after it claimed the request, a request it cannot move back, a docker command of it that never returns | the claimed file stays in a directory nobody reads again; those commands have no deadline |
| `UpdaterCatchesUp` | an updater without a request file configured | the last step is skipped and reported as done |

## 4 Bounds

| Run | Bounds | Why they are enough |
|---|---|---|
| `apply_safety` | 2 ordinary revisions and 1 imported, 3 edits or imports, 1 repair, 1 trouble of any kind | an older, a running and a newer job exist together; going back to an earlier revision needs two; each trouble is placed at every call |
| `apply_recovery` | 2 revisions, 2 edits, 2 repairs, 2 troubles | a trouble during the repair of another one |
| `publish_rows` | 4 revisions of which two have equal content, 3 applies, 1 change of secrets, 1 pass cut short, heals of 2 rows | equal hashes, reverts, regeneration of several rows with every order of their random ids, and a row beyond the heal's window |
| `sync_node` | 2 contents, pairs of events | a fault in the confirm handler and another in the cycle; a re-enrollment during a cycle |
| `topology_roles` | 2 installations, generation 3, 2 keys each, 1 token, 2 drafts, 1 fault | either may lead and either may join, take over and be taken over; a failure is placed in every method |
| `certificates` | 2 requests and the sweep, 2 certificates, 1 API token, 2 operations, 1 certificate coming due, 1 fault | a request and the sweep on the same certificate, two orders sharing a TXT name, two requests making the internal CA or the connection together |
| `console` | 3 users, 3 sessions, 2 zones, 2 records, 2 streams, 2 listeners, 2 requests at a time, a budget of 4 (an export or a password reset costs 1, another request 2), 1 event while a request is in progress | two owners remove each other; two rows that conflict; a record named from the other zone; a reset beside a request and an export; two edits around or after an export, and an import between |
| `self_update` | 2 requests and a malformed one, 2 services, 2 faults, 1 new release, 2 retries, source rows of every kind | racing requests; faults in updater, sidecar and converter |
| `check_releases` | 2 callers, clock up to 3, lifetimes 2 and 1; 2 cores, up to 2 prerelease identifiers | one fetches while the other waits or gives up, and both lifetimes pass; every branch of the comparison |

Symmetry is used where a set's members are interchangeable (revisions,
installations, requests) and no liveness property is checked. Deadlock is
checked in the apply, replication, certificate and release runs, whose loops
never end or whose callers return; the topology, console and update runs end
when the owners stop acting or the bounds are used up, and switch it off.

## 5 Fairness

- Apply: the worker's loop never exits and its container is restarted; requests
  the helper accepted end; CoreDNS polls its Corefile; time passes, so leases
  expire.
- Replication: the producer, the sync loop and the node's worker are loops with
  tickers. Nothing forces an owner to enroll, edit or unlink, and answers are
  lost only finitely often.
- Certificates: each request runs in its own goroutine, and the sweep's timer is
  set again after every sweep. An order is not assumed to end: neither the ACME
  client nor the contexts of the sweep and the requests have a deadline.
- Update: a goroutine runs until its context ends each step after ten minutes;
  the sidecar polls in an endless loop, and its docker commands, which have no
  deadline, return unless they hang (`SidecarHangs`). The converter is started by an operator
  and has no fairness: nothing depends on its being run. Callers of the release
  checker run in goroutines of their own and upstream calls time out.
- Topology and console: none; their properties are safety properties, because
  every step is a user's decision or may fail.

All of it is weak fairness: of the steps of one process, never of an owner's
decision or of a failure.

## 6 Proofs

Eight modules prove the safety properties of the runs for every value of the
constants: any number of jobs, installations, requests, users, certificates,
callers, failures and restarts, wherever the runs have two or three.

Every property below speaks of one state or one step, and whether it is
preserved depends on what some process did several steps earlier. So each module
first proves an inductive invariant that says what every process relies on
between two of its steps, and derives the properties from it. Each invariant was
checked with TLC on the instance of its run before it was proved; the table
gives the number of states.

| Module | Inductive invariant | States | Proved from it |
|---|---|---|---|
| `ApplyPipelineProofs` | `PipelineInv` | 317,599 | `AppliedJobsAreMarked` (`AppliedIsMarked`); `ImplementsLifecycle` (`LifecycleSpec`); `TypeCorrect`; `FinishedJobsKeepOutcome` |
| `ApplyFilesProofs` | `ApplyInv` | 317,599 | `SnapshotsAreNotMixed` (`NoMixedSnapshot`); `RollbackRestoresKnownGood` (`RollbackRestores`); `AppliedJobsAreServed` (`AppliedIsServed`); `JobsAreAppliedInOrder` (`NoStaleOverNewer`) |
| `ReplicationProofs` | `PublicationInv` | 184,164 | `RowsAlwaysMatch` (`RowsMatchJobs`) |
| `ReplicationProofs` | `SyncInv` | 275,010 | `AcksAreTrue` (`AckedWasApplied`); `UnlinkedFlagIsTrue` (`UnlinkedIsTrue`); `UpToDateIsTrue` (`UpToDateRunsIt`); `PrimaryRefinement` (`NodeSync` implements `Publication`) |
| `TopologyProofs` | `TopologyInv` | 2,150,333 | `CacheAgrees` (`MemIsRow`); `LeadershipIsAbove` (`LeadsAboveJoined`); `LeadershipSafe` (`LeadershipHolds`) |
| `CertificatesProofs` | `CertificatesInv` | 349,828 | `StoredMaterialAgrees` (`MaterialAgrees`); `SweepIsAWriter` (`RenewsOnlyAsWriter`); `ChallengesAreWithdrawn` (`ChallengesWithdrawn`) |
| `ConsoleProofs` | `ConsoleInv` | 501,900 | `OwnerAlwaysRemains` (`OwnerRemains`); `SessionsFollowPasswords` (`SessionsMatchPassword`); `ConfigurationStaysValid` (`ConfigurationValid`); `BundlesRestore` (`BundleRestores`) |
| `UpdaterProofs` | `UpdaterInv` | 529,494 | `OneUpdateAtATime` (`OneUpdate`); `OkIsTrue` (`OkRunsPulled`); `LegacyIsKept` (`LegacyKept`); `DatabaseRefinement` (`DatabaseIsWhole`) |
| `UpdateCheckerProofs` | `CheckerInv` | 256,427 | `AnswersAreRecent` (`FreshIsRecent`); `AnswersMatchStandard` (`MatchesStandard`); `NewestIsKept` (`ReleaseNotForgotten`) |

`UpdateCheckerProofs` also proves `VersionsOrdered`: on versions of any size the
comparison is the total order of the SemVer standard.

Layout: one lemma per action (or per transaction, where several handlers run the
same one), under it one step per conjunct the action can disturb, and lemmas for
what the operators of a store module return and preserve.

### The arguments

- Apply pipeline. The worker sets a job to "applied" two calls after it marked
  the revision. `PipelineInv` adds that stored jobs name known revisions
  (`JobsHaveRevisions`), a worker past its claim has a stored job (`BusyHasJob`),
  the reconciliation has chosen a marked target before it repairs
  (`TargetChosen`), and at the call that sets "applied" a job still "applying"
  has a marked, current revision (`MarkedBeforeApplied`). The last one survives
  an import because `Import` takes the mark away and fails the job in one
  transaction.
- Apply pipeline, the files. `ApplyInv` (module `ApplyInvariants`) adds layers,
  each with the troubles under which it holds. Whatever goes wrong, `CopyInv`
  and `LoopInv` say what the worker knows of its job and how far its loops have
  come. Without a kill or a lost store call, `OrderInv` says that no job is
  worked on before an older one is finished; `NoStaleOverNewer` follows. Without
  late requests, `ServedInv` says which files and processes have the job's
  revision at each call; `AppliedIsServed` follows. `Tracked` says that the
  files outside the current attempt are those of the last applied job and that
  the copies a rollback reads are too. It holds until something goes wrong and
  while one failure is being undone (`UndoInv`), from which `RollbackRestores`
  follows. `NoMixedSnapshot` needs `CalmInv`: the files are tracked, or an
  unfinished job is left that will replace them (`Hope`). The hard case is an
  import that supersedes the job being applied, so that its promotion is rolled
  back or, after a failing rollback, is not. `UnfailedInv` shows that jobs of
  two revisions are left then: an import of the newest revision reuses its job,
  so what is superseded is not the newest any more. After one failing call one
  of the two is still left. The reconciliation does not interfere, because it finds no
  drift while nothing is unfinished (`ProbeFindsNoDrift`, `RepairIsBlocked`).
- Publication. A row is overwritten in place when its hash is published again.
  That leaves no other row of the job behind because a job that still waits in a
  pass has no live row (`QueueInv`): only the pass publishes, and it takes each
  job once. `ExportInv` orders the exports of one job by the secrets they saw;
  the node's proof needs it.
- Node sync. Two processes import into one queue. `JobsInv` says that the data
  plane runs the last applied job, because the worker applies in order, and that
  each process waits for a job of its own hash. `AckInv` is the reason that an
  acknowledgement is true: until it is unlinked a node does not enroll again, so
  the only writer of its applied hash is a cycle that saw the job end.
  `UpToDateRunsIt` needs two arguments: while every wait sees its job end,
  `KnownInv` ties what runs to what is stored; while the primary never goes
  back, `OrderInv` says that imports happen in the order of publication, so
  a late job is never newer than what the node asked for. `UnlinkInv` follows
  the binding up to the second enrollment. `PrimaryRefinement` shows that the
  node disturbs nothing of this on the primary.
- Topology. Credentials and grants name keys, so the invariant follows keys:
  each is minted once (`KeysAreMinted`, `GrantsAreMinted`), the generation never
  falls behind one that was joined (`JoinedBelow`), and an issuer of credentials
  has a key (`IssuersAreKeyed`).
- Certificates. Minutes pass between making a key and storing it. `ProcsInv` says
  what a process holds at each step, in particular that a certificate it made
  was signed by the internal CA that is stored; it survives because the CA is
  written once. `LeaseInv` ties the sweep to the identity's lock,
  `ChallengesInv` every published value to the order that shows it.
- Console. `RequestOK` says what a request may rely on between the gate, its
  read and its write. It survives the other requests because password numbers
  only grow and an installation that was set up stays so (`StoreGrows`).
  `OpenedBefore` says that open sessions are not younger than the latest
  password, so that a password an owner sets finds all of them older.
  `Restorable` is what a bundle keeps of the tables an export read. A zone's own
  records (`OwnRecords`) stay valid because its transactions write all of them
  again, and one of another zone only takes records away from them.
- Updater. `OneRun` and `StatusTells` tie the flag and the status to the one
  goroutine past `Enter`; `RunInv` says what each finished step has left behind,
  `ConversionInv` what the converter holds, and `LegacyInv` why a waiting
  PostgreSQL volume is never hidden by an empty database.
- Release checker. One caller at a time asks upstream, and until it writes, its
  copy is what is cached (`FetchInv`); so a late or failing call never replaces
  a newer result.

### Assumptions

Those the modules state, which TLC evaluates in the runs: bounds are natural
numbers; `None`, `Gone`, `Deleted` and `Absent` are no rows, numbers or members
of the sets they stand beside (`RevisionsAssumption`, the three
`RowsAssumption`s, `ConversionAssumption`, `NoneAssumption`, and the conjuncts
on `None` elsewhere); imported revisions are revisions; there are two users, two
sessions, a zone and a listener; a failure is kept for at most the lifetime of a good
answer; a version's core has three numbers (`VersionsAssumption`). None of them
bounds a set. The exceptions of section 3 are part of the properties, and so of
the theorems.

### Only model-checked

- Liveness: `EveryJobFinishes`, `DriftRepaired`, `EventuallyPublished`,
  `Converges`, `LearnsUnlink`, `DueIsRenewed`, `RenewalReachesApply`,
  `UpdateSettles`, `UpdaterCatchesUp`, `EveryCallAnswered`. Fairness and
  ENABLED are out of the prover's reach.

Every invariant and action property of a passing run is also a theorem.

## 7 Where code and documentation disagree

In three runs TLC finds a statement of a comment, document or test violated by
what the code does. `PROJECT.json` quotes the statements.

| Run | What the code does |
|---|---|
| `rollback_reload` | after a failed health check the files are rolled back and Nginx is not reloaded, so it keeps running the rejected configuration |
| `heal_shadowed` | after a heal under changed secrets the discarded row and its replacement have the same `applied_at`; the random row id decides, and the discarded one can hide the other until the next apply |
| `join_promoted` | a promotion between the binding and the commit of an enrollment clears the binding, and the commit creates a node without one |

Further behaviour met while modelling, which the models have and no run of its
own shows:

- the helper seeds a CoreDNS candidate at its start that may never have been
  applied (`StartupSeed`);
- a re-enrolled node may acknowledge a hash before the new conversion applied
  it, and handler and cycle may import in different orders;
- an enrollment commit that stops half way leaves a node that still holds its
  former key and cannot retry; an accepted foreign key counts as the newest live
  key until the enrollment ends;
- two update requests can both be answered 202 while one of them is dropped; a
  restored bootstrap request is retried in every later cycle;
- the role is checked when a request is authenticated, and not again when it
  writes; reading the settings initialises the ingress from the environment on
  a node too, where the comment in `server.go` (line 364) says that a node must
  never initialise it;
- a user who ever logged out, edited or applied cannot be deleted, because
  audit events, jobs and revisions refer to them, while
  `docs/functional-requirements.md` (FR-AUTH-003) lets an owner delete users;
- a PATCH of a stream that is deleted meanwhile creates it again; the ingress
  may be initialised without the apply job that follows it;
- an import of a bundle without a default address pool answers an error after
  it has replaced the tables; an import ends all sessions and replaces the
  identity row under the cached identity;
- a password that an owner sets for a user leaves that user's sessions open,
  where a reset and the user's own change end them;
- a POST of a record whose body has the id of a record in another zone
  overwrites that row in its zone, validated against the zone of the request;
- a converter killed between publishing the database and writing its marker
  leaves a database that later conversions refuse and the updater's preflight
  accepts; one that cannot sync its marker removes the database first, and
  killed there it leaves a marker without a database;
- rows that refer to a missing enrollment attempt, through the three references
  without a foreign key, are converted with a warning.

## 8 What is not modelled

- The contents of rendered files, snapshots and archives: pure functions over
  text. A revision, a hash or a version stands for them.
- Cryptography: sealing, proofs and certificates deliver what they promise. A
  sealed grant is the pair of its binding and its key.
- Checks of a single value (a host name, a port, a body's fields): the models
  enumerate accepted inputs, and keep the checks that relate several rows.
- Forwarding rules, proxy settings and enrollment hostnames: rows that no other
  row constrains. The expiry of a session, after which its lookup fails.
- The files a backup carries beside the tables, and its encryption. The bundle
  replaces the identity row in the code; `Backups` leaves the role alone,
  because the running process keeps its cached one.
- A failed import of a snapshot leaves the tables with the imported content
  until the next one; the models track what is applied, not the tables in
  between.
- In the enrollment: rate limits and expiry of a grant, which only refuse; the
  draft cache at its capacity; the recovery endpoint, which changes no state;
  start and stop of the TLS listener, behind which each handler checks the role
  again.
- Helper processes killed in the middle of a handler: approximated by the
  outcomes of a failing call followed by a restart.
- Damage to the converter's file after it was validated, and the temporary file
  of its marker. A release that upstream withdraws: the release checker meets
  only newer ones.
- Two converters at once: the script gives container and network fixed names,
  so the second fails to start. `migrate-legacy-postgres.sh` of the release
  before. A schema newer than the API's, which one new release does not reach.
- Exact times: a lease or lifetime either has or has not passed. The waits of
  readers behind a pending identity writer, and the queue of the SQLite writer,
  are not modelled.
- Two nodes of a failed primary may both be promoted to the same generation;
  the code does not coordinate them and no property speaks of it.
- The node heartbeat (one timestamp for display), the dashboard, the installer
  and the earlier TypeScript programs.
- Outside the prover's reach: liveness, and what recursive functions compute.

## 9 Plan

Built: the apply pipeline, replication, topology, certificates, the console with
accounts, edits and backups, self-update with the conversion, and the release
checker, with proofs about each of them. What remains, in order of importance:

1. The TLS listener's start, stop and replacement, and the draft cache at its
   capacity.
2. The composition of `Topology` and `NodeSync`: data and roles together.
