---------------------------- MODULE Publication ----------------------------
(***************************************************************************)
(* The primary's side of replication: the CanonicalSnapshotProducer, which *)
(* turns every applied ordinary job into a row of applied_snapshots, and   *)
(* the reads that pick the row a node is given.                            *)
(*                                                                         *)
(* A job is its place in finished_at order, so a job number is also the    *)
(* applied_at of the row published for it.  The content hash of an export  *)
(* covers the revision's configuration without its ingress settings, and   *)
(* the secrets and active owners read when the export runs: a hash is the  *)
(* pair of both.  The index on content_hash is unique, so the table is a   *)
(* function of the hash.  The leadership generation is fixed here.         *)
(***************************************************************************)
EXTENDS Revisions, Naturals, Sequences, FiniteSets

CONSTANTS
    Content,    \* revision -> its configuration without ingress settings
    StartRoles, \* roles the primary may have at the start
    Reapply,    \* whether an operator goes back to an earlier configuration
    MaxJobs,    \* bound on the applied ordinary jobs
    MaxExt,     \* bound on the changes of secrets and owners
    MaxAborts,  \* bound on the producer passes cut short
    HealRecent  \* healRecentSnapshots: how many live rows a pass examines

Roles == {"primary", "primary-with-nodes"}

ASSUME PublicationAssumption ==
    /\ DOMAIN Content = Revs
    /\ None \notin {Content[r] : r \in Revs}
    /\ StartRoles \subseteq Roles
    /\ Reapply \in BOOLEAN
    /\ MaxJobs \in Nat /\ MaxExt \in Nat /\ MaxAborts \in Nat
    /\ HealRecent \in Nat \ {0}

VARIABLES
    applied,  \* the revisions of the applied ordinary combined jobs, by finished_at
    ext,      \* version of the secrets and users tables
    role,     \* installation_identity.role
    snap,     \* applied_snapshots, by content_hash
    jobHash,  \* apply_jobs.snapshot_content_hash
    revHash,  \* config_revisions.snapshot_content_hash
    pc,       \* the producer's place in Reconcile: "heal", "list" or "produce"
    queue,    \* the candidates the pass still has to produce
    aborts,   \* passes cut short so far
    healed    \* whether a row was ever discarded

primaryVars == <<applied, ext, role, snap, jobHash, revHash, pc, queue, aborts, healed>>

Jobs == 1..MaxJobs
Hashes == {Content[r] : r \in Revs} \X (0..MaxExt)
Hash(r, e) == <<Content[r], e>>

(* A row: its id, the job it is bound to, the role in its body, and        *)
(* whether discarded_at is null.  Ids are random and only compared, so an  *)
(* id is its place among them.                                             *)
Row == [id : Nat, job : Jobs, role : Roles, live : BOOLEAN]

ASSUME RowsAssumption == None \notin Row \cup Hashes

Rows == {h \in Hashes : snap[h] # None}
LiveRows == {h \in Rows : snap[h].live}

PrimaryInit ==
    /\ applied = <<>>
    /\ ext = 0
    /\ role \in StartRoles
    /\ snap = [h \in Hashes |-> None]
    /\ jobHash = [j \in Jobs |-> None]
    /\ revHash = [r \in Revs |-> None]
    /\ pc = "heal"
    /\ queue = {}
    /\ aborts = 0
    /\ healed = FALSE

-----------------------------------------------------------------------------
(* The worker finishes an ordinary combined job of revision r. *)
FinishApply(r) ==
    /\ Len(applied) < MaxJobs
    /\ Reapply \/ r \notin {applied[i] : i \in DOMAIN applied}
    /\ applied' = Append(applied, r)
    /\ UNCHANGED <<ext, role, snap, jobHash, revHash, pc, queue, aborts, healed>>

(* A secret or a user changes: the next export has another hash. *)
ChangeSecrets ==
    /\ ext < MaxExt
    /\ ext' = ext + 1
    /\ UNCHANGED <<applied, role, snap, jobHash, revHash, pc, queue, aborts, healed>>

(* The body of a live row still names the primary as it is now. *)
IsValid(h) == snap[h].live /\ snap[h].role = role

(* The order of the reads: applied_at, then the id.  Rows of one job have  *)
(* one revision number.                                                    *)
NotAfter(g, h) ==
    \/ snap[g].job < snap[h].job
    \/ snap[g].job = snap[h].job /\ snap[g].id <= snap[h].id

(* Mutant of Recent: the oldest rows are examined. *)
Earliest ==
    {h \in LiveRows : Cardinality({g \in LiveRows : NotAfter(g, h)}) <= HealRecent}

(* ListRecentCanonicalSnapshots: the newest live rows. *)
Recent ==
    {h \in LiveRows : Cardinality({g \in LiveRows : NotAfter(h, g)}) <= HealRecent}

(* healStaleSnapshots: one transaction discards the rows that are not valid. *)
Heal ==
    /\ pc = "heal"
    /\ snap' = [h \in Hashes |-> IF h \in Recent /\ ~IsValid(h)
                                 THEN [snap[h] EXCEPT !.live = FALSE] ELSE snap[h]]
    /\ healed' = (healed \/ \E h \in Recent : ~IsValid(h))
    /\ pc' = "list"
    /\ UNCHANGED <<applied, ext, role, jobHash, revHash, queue, aborts>>

(***************************************************************************)
(* ListCanonicalSnapshotCandidates: no live row is bound to the job, and   *)
(* none has the hash the job was last published with.                      *)
(***************************************************************************)
Candidates ==
    {j \in DOMAIN applied : /\ \A h \in LiveRows : snap[h].job # j
                            /\ jobHash[j] \notin LiveRows}

List ==
    /\ pc = "list"
    /\ queue' = Candidates
    /\ pc' = IF Candidates = {} THEN "heal" ELSE "produce"
    /\ UNCHANGED <<applied, ext, role, snap, jobHash, revHash, aborts, healed>>

(* FindCanonicalSnapshotForJob, with a discarded row counted as none. *)
ExistingForJob(j) ==
    {h \in LiveRows : /\ snap[h].job = j
                      /\ \A g \in Rows : snap[g].job = j => snap[g].id <= snap[h].id}

(* Mutant of OlderApply: a live row is never bound to another apply. *)
OlderApplyAlways(j, h) == h \in LiveRows

(* PublishCanonicalSnapshot leaves a live row of the same or a newer apply. *)
OlderApply(j, h) == h \in LiveRows /\ j <= snap[h].job

(* The row of hash h keeps its id, or gets a new one anywhere among the others. *)
PlacesFor(h) == IF h \in Rows THEN {snap[h].id} ELSE 1..(Cardinality(Rows) + 1)

MakeRoom(h, i) ==
    [g \in Hashes |-> IF h \notin Rows /\ g \in Rows /\ snap[g].id >= i
                      THEN [snap[g] EXCEPT !.id = @ + 1] ELSE snap[g]]

(* Mutant of Publish: the job is not marked with the hash. *)
PublishWithoutJob(j, h) ==
    /\ \E i \in PlacesFor(h) :
          snap' = [MakeRoom(h, i) EXCEPT ![h] = [id |-> i, job |-> j, role |-> role, live |-> TRUE]]
    /\ revHash' = [revHash EXCEPT ![applied[j]] = h]
    /\ UNCHANGED jobHash

(* PublishCanonicalSnapshot writes: the row of hash h is bound to job j. *)
Publish(j, h) ==
    /\ \E i \in PlacesFor(h) :
          snap' = [MakeRoom(h, i) EXCEPT ![h] = [id |-> i, job |-> j, role |-> role, live |-> TRUE]]
    /\ jobHash' = [jobHash EXCEPT ![j] = h]
    /\ revHash' = [revHash EXCEPT ![applied[j]] = h]

EndPass == pc' = "heal" /\ queue' = {}

(***************************************************************************)
(* Produce, one transaction for candidate j.  A row that is bound to the   *)
(* job already is kept if it is valid and is a conflict, which ends the    *)
(* pass, if it is not.                                                     *)
(***************************************************************************)
ProduceJob(j) ==
    LET h == Hash(applied[j], ext)
        conflict == \E g \in ExistingForJob(j) : ~IsValid(g)
    IN  /\ IF ExistingForJob(j) # {} \/ OlderApply(j, h)
           THEN UNCHANGED <<snap, jobHash, revHash>>
           ELSE Publish(j, h)
        /\ IF conflict \/ queue = {j} THEN EndPass
           ELSE queue' = queue \ {j} /\ UNCHANGED pc

(* The candidates of a pass are taken in finished_at order. *)
Produce ==
    /\ pc = "produce"
    /\ \E j \in queue : (\A i \in queue : j <= i) /\ ProduceJob(j)
    /\ UNCHANGED <<applied, ext, role, aborts, healed>>

(* The pass is cut short: a transaction fails or the server restarts. *)
AbortPass ==
    /\ aborts < MaxAborts
    /\ pc # "heal"
    /\ EndPass
    /\ aborts' = aborts + 1
    /\ UNCHANGED <<applied, ext, role, snap, jobHash, revHash, healed>>

(* TransitionPrimaryToWithNodes, in the transaction of the first grant. *)
GrantRole == role' = "primary-with-nodes"

FirstGrant ==
    /\ role = "primary"
    /\ GrantRole
    /\ UNCHANGED <<applied, ext, snap, jobHash, revHash, pc, queue, aborts, healed>>

-----------------------------------------------------------------------------
(* sqliteLatestSnapshotPublication; discarded rows are included. *)
IsNewest(h) == h \in Rows /\ \A g \in Rows : NotAfter(g, h)

(* sqliteSnapshotProofSQL. *)
Proof(h) ==
    /\ snap[h].live
    /\ jobHash[snap[h].job] = h
    /\ revHash[applied[snap[h].job]] = h

(* The hash the primary publishes: the newest row, if it has its proof. *)
Published(h) == IsNewest(h) /\ Proof(h)

(***************************************************************************)
(* The answer to a node that sends the hash it has applied: nothing (204), *)
(* not modified (304), refused (403, the body does not name the primary as *)
(* it is now), or the body.                                                *)
(***************************************************************************)
Answer(h, after) ==
    CASE ~Published(h)                       -> "none"
      [] Published(h) /\ h = after            -> "current"
      [] Published(h) /\ h # after /\ ~IsValid(h) -> "denied"
      [] OTHER                                -> "body"

PrimaryNext ==
    \/ \E r \in Revs : FinishApply(r)
    \/ ChangeSecrets
    \/ Heal
    \/ List
    \/ Produce
    \/ AbortPass
    \/ FirstGrant

PrimarySpec == PrimaryInit /\ [][PrimaryNext]_primaryVars

(* The producer's loop keeps running. *)
PrimaryFairness == WF_primaryVars(Heal) /\ WF_primaryVars(List) /\ WF_primaryVars(Produce)

FairPrimarySpec == PrimarySpec /\ PrimaryFairness

-----------------------------------------------------------------------------

(***************************************************************************)
(* A row always carries the configuration of the job it is bound to, and   *)
(* the job's stored hash is that row: what readPublication joins never     *)
(* mixes two applies.                                                      *)
(***************************************************************************)
RowsMatchJobs ==
    \A h \in Rows :
        /\ snap[h].job \in DOMAIN applied
        /\ h[1] = Content[applied[snap[h].job]]
        /\ snap[h].live => jobHash[snap[h].job] = h

(***************************************************************************)
(* Every regenerated row gets the hash of the discarded one, for its job   *)
(* alone: nothing was healed, or secrets and owners are as they were and   *)
(* no configuration was applied twice.                                     *)
(***************************************************************************)
PlainHistory ==
    \/ ~healed
    \/ /\ ext = 0
       /\ \A i, j \in DOMAIN applied : Content[applied[i]] = Content[applied[j]] => i = j

(***************************************************************************)
(* Reconcile needs no operator: once configurations, secrets and the role  *)
(* stop changing, the last applied job is published for good, with a body  *)
(* a node accepts, however few rows a pass examines.                       *)
(***************************************************************************)
PublishedAt(j) == \E h \in Rows : Published(h) /\ IsValid(h) /\ snap[h].job = j

EventuallyPublished ==
    <>[](applied # <<>> /\ PlainHistory => PublishedAt(Len(applied)))

(***************************************************************************)
(* The test of healStaleSnapshots: a discarded row is replaced without     *)
(* operator action, so that a node can enroll.                             *)
(***************************************************************************)
HealRepublishes == <>[](applied # <<>> => PublishedAt(Len(applied)))
=============================================================================
