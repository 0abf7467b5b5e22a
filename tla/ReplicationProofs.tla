------------------------- MODULE ReplicationProofs -------------------------
(***************************************************************************)
(* Proofs about the primary's snapshot table, however few rows a pass      *)
(* examines, and about the node that follows it: for any revisions,        *)
(* contents, jobs, changes of secrets, aborted passes and enrollments, and *)
(* any events in any order.                                                *)
(***************************************************************************)
EXTENDS NodeSync, TLAPS

-----------------------------------------------------------------------------
(* The primary's snapshot table: the inductive invariant. *)

PrimaryTypeOK ==
    /\ applied \in Seq(Revs) /\ Len(applied) <= MaxJobs
    /\ ext \in 0..MaxExt
    /\ role \in Roles
    /\ snap \in [Hashes -> Row \cup {None}]
    /\ jobHash \in [Jobs -> Hashes \cup {None}]
    /\ revHash \in [Revs -> Hashes \cup {None}]
    /\ pc \in {"heal", "list", "produce"}
    /\ queue \subseteq DOMAIN applied

(* A job that waits in the pass has no live row: only the pass itself      *)
(* publishes, and it takes each job once.                                  *)
QueueInv ==
    /\ pc # "produce" => queue = {}
    /\ \A j \in queue : \A h \in LiveRows : snap[h].job # j

(* The stored hash of a job is the newest export it was published with. *)
ExportInv ==
    /\ \A h \in Rows : LET n == jobHash[snap[h].job] IN n # None /\ h[2] <= n[2]
    /\ \A j \in Jobs : jobHash[j] # None => jobHash[j][2] <= ext

PublicationInv == PrimaryTypeOK /\ QueueInv /\ RowsMatchJobs /\ ExportInv

-----------------------------------------------------------------------------
LEMMA RowFacts ==
    ASSUME PrimaryTypeOK, NEW h \in Rows
    PROVE  h \in Hashes /\ snap[h] \in Row
BY Zenon DEF PrimaryTypeOK, Rows

LEMMA JobsOfApplied ==
    ASSUME PrimaryTypeOK, NEW j \in DOMAIN applied
    PROVE  j \in Jobs /\ applied[j] \in Revs /\ Hash(applied[j], ext) \in Hashes
           /\ Hash(applied[j], ext)[1] = Content[applied[j]]
BY PublicationAssumption DEF PrimaryTypeOK, Jobs, Hash, Hashes

(* The exports of a job are as they were. *)
LEMMA ExportsKept ==
    ASSUME PublicationInv, Rows' = Rows, \A h \in Rows : snap'[h].job = snap[h].job,
           jobHash' = jobHash, ext' \in Nat, ext <= ext'
    PROVE  ExportInv'
<1> USE DEF PublicationInv
<1>1. ASSUME NEW j \in Jobs, jobHash[j] # None PROVE jobHash[j][2] <= ext'
  <2>1. jobHash[j] \in Hashes /\ jobHash[j][2] <= ext
    BY <1>1, Zenon DEF PrimaryTypeOK, ExportInv
  <2>2. QED
    BY <2>1, PublicationAssumption DEF PrimaryTypeOK, Hashes
<1>2. QED
    BY <1>1, Zenon DEF ExportInv

LEMMA PrimaryInitInv == PrimaryInit => PublicationInv
<1> SUFFICES ASSUME PrimaryInit PROVE PublicationInv
    BY Zenon
<1> USE DEF PrimaryInit
<1>1. PrimaryTypeOK
    BY PublicationAssumption DEF PrimaryTypeOK
<1>2. Rows = {}
    BY Zenon DEF Rows
<1>3. QED
    BY <1>1, <1>2, Zenon DEF PublicationInv, QueueInv, RowsMatchJobs, ExportInv, LiveRows

(* The rows are as they were, also when a job is applied beside them. *)
LEMMA FinishApplyStep ==
    ASSUME PublicationInv, NEW r \in Revs, FinishApply(r)
    PROVE  PublicationInv'
<1> USE DEF PublicationInv, FinishApply
<1>1. /\ applied' \in Seq(Revs) /\ Len(applied') <= MaxJobs
      /\ DOMAIN applied \subseteq DOMAIN applied'
      /\ \A j \in DOMAIN applied : applied'[j] = applied[j]
    BY PublicationAssumption DEF PrimaryTypeOK
<1>2. PrimaryTypeOK'
    BY <1>1, Zenon DEF PrimaryTypeOK
<1>3. Rows' = Rows /\ LiveRows' = LiveRows
    BY Zenon DEF Rows, LiveRows
<1>4. ExportInv'
    BY <1>3, ExportsKept, PublicationAssumption DEF PrimaryTypeOK
<1>5. QED
    BY <1>1, <1>2, <1>3, <1>4, ZenonT(60) DEF QueueInv, RowsMatchJobs

(* Discarding rows leaves fewer live ones. *)
LEMMA HealStep ==
    ASSUME PublicationInv, Heal
    PROVE  PublicationInv'
<1> USE DEF PublicationInv, Heal
<1>1. ASSUME NEW h \in Rows
      PROVE  /\ snap'[h] \in Row
             /\ snap'[h].job = snap[h].job
             /\ snap'[h].live => snap[h].live
  <2>1. h \in Hashes /\ snap[h] \in Row
    BY RowFacts, Zenon
  <2>2. CASE h \in Recent /\ ~IsValid(h)
    BY <2>1, <2>2, Zenon DEF Row
  <2>3. CASE ~(h \in Recent /\ ~IsValid(h))
    BY <2>1, <2>3, Zenon
  <2>4. QED
    BY <2>2, <2>3, Zenon
<1>2. ASSUME NEW h \in Hashes, h \notin Rows PROVE snap'[h] = None
    BY <1>2, Zenon DEF Rows, Recent, LiveRows
<1>3. Rows' = Rows
    BY <1>1, <1>2, RowsAssumption, Zenon DEF Rows
<1>4. LiveRows' \subseteq LiveRows
    BY <1>1, <1>3, Zenon DEF LiveRows
<1>5. PrimaryTypeOK'
  <2>1. snap' \in [Hashes -> Row \cup {None}]
    BY <1>1, <1>2, Zenon DEF Rows
  <2>2. QED
    BY <2>1, Zenon DEF PrimaryTypeOK
<1>6. ExportInv'
  <2>1. ext' \in Nat /\ ext <= ext' /\ jobHash' = jobHash
    BY PublicationAssumption DEF PrimaryTypeOK
  <2>2. \A h \in Rows : snap'[h].job = snap[h].job
    BY <1>1, Zenon
  <2> HIDE DEF PublicationInv, Heal
  <2>3. QED
    BY <1>3, <2>1, <2>2, ExportsKept, Zenon
<1>7. UNCHANGED <<queue, applied, jobHash>> /\ pc # "produce"
    BY Zenon
<1>8. \A h \in Rows : snap'[h].job = snap[h].job /\ (snap'[h].live => snap[h].live)
    BY <1>1, Zenon
<1>9. QueueInv'
  <2>1. \A h \in LiveRows' : snap'[h].job = snap[h].job
    BY <1>3, <1>8, Zenon DEF LiveRows
  <2>2. QED
    BY <1>4, <1>7, <2>1, Zenon DEF QueueInv
<1>10. RowsMatchJobs'
  <2> SUFFICES ASSUME NEW h \in Rows
               PROVE  /\ snap'[h].job \in DOMAIN applied
                      /\ h[1] = Content[applied[snap'[h].job]]
                      /\ snap'[h].live => jobHash[snap'[h].job] = h
    BY <1>3, <1>7, ZenonT(60) DEF RowsMatchJobs
  <2> HIDE DEF Heal
  <2>1. QED
    BY <1>8, ZenonT(60) DEF RowsMatchJobs
<1>11. QED
    BY <1>5, <1>6, <1>9, <1>10, Zenon

LEMMA ListStep ==
    ASSUME PublicationInv, List
    PROVE  PublicationInv'
<1> USE DEF PublicationInv, List
<1>1. PrimaryTypeOK'
    BY Zenon DEF PrimaryTypeOK, Candidates
<1>2. Rows' = Rows /\ LiveRows' = LiveRows
    BY Zenon DEF Rows, LiveRows
<1>3. ExportInv'
    BY <1>2, ExportsKept, PublicationAssumption DEF PrimaryTypeOK
<1>4. QED
    BY <1>1, <1>2, <1>3, Zenon DEF QueueInv, RowsMatchJobs, Candidates

LEMMA PlaceIsNat ==
    ASSUME PrimaryTypeOK, NEW h \in Hashes, NEW i \in PlacesFor(h)
    PROVE  i \in Nat
<1>1. CASE h \in Rows
    BY <1>1, RowFacts, Zenon DEF PlacesFor, Row
<1>2. CASE h \notin Rows
  <2>1. i \in 1..(Cardinality(Rows) + 1)
    BY <1>2, Zenon DEF PlacesFor
  <2>2. QED
    BY <2>1
<1>3. QED
    BY <1>1, <1>2, Zenon

(* A publication binds the row of h to job j; the other rows only make     *)
(* room for its id.                                                        *)
LEMMA PublishedRows ==
    ASSUME PublicationInv, NEW j \in DOMAIN applied, NEW h \in Hashes, Publish(j, h)
    PROVE  /\ snap' \in [Hashes -> Row \cup {None}]
           /\ Rows' = Rows \cup {h}
           /\ snap'[h].job = j
           /\ \A g \in Rows \ {h} : snap'[g].job = snap[g].job /\ snap'[g].live = snap[g].live
           /\ jobHash' = [jobHash EXCEPT ![j] = h]
           /\ revHash' = [revHash EXCEPT ![applied[j]] = h]
<1> USE DEF PublicationInv
<1>1. PICK i \in PlacesFor(h) :
         snap' = [MakeRoom(h, i) EXCEPT ![h] = [id |-> i, job |-> j, role |-> role, live |-> TRUE]]
    BY Zenon DEF Publish
<1>2. i \in Nat
    BY PlaceIsNat, Zenon
<1>3. /\ DOMAIN snap' = Hashes
      /\ snap'[h] = [id |-> i, job |-> j, role |-> role, live |-> TRUE]
      /\ \A g \in Hashes \ {h} : snap'[g] = MakeRoom(h, i)[g]
    BY <1>1, Zenon DEF MakeRoom
<1>4. snap'[h] \in Row
    BY <1>2, <1>3, JobsOfApplied DEF Row, PrimaryTypeOK
<1>5. ASSUME NEW g \in Rows, g # h
      PROVE  snap'[g] \in Row /\ snap'[g].job = snap[g].job /\ snap'[g].live = snap[g].live
  <2>1. g \in Hashes /\ snap[g] \in Row
    BY <1>5, RowFacts, Zenon
  <2>2. snap'[g] = snap[g] \/ snap'[g] = [snap[g] EXCEPT !.id = @ + 1]
    BY <1>3, <1>5, <2>1, Zenon DEF MakeRoom
  <2>3. [snap[g] EXCEPT !.id = @ + 1] \in Row
        /\ [snap[g] EXCEPT !.id = @ + 1].job = snap[g].job
        /\ [snap[g] EXCEPT !.id = @ + 1].live = snap[g].live
    BY <2>1 DEF Row
  <2>4. QED
    BY <2>1, <2>2, <2>3, Zenon
<1>6. ASSUME NEW g \in Hashes, g \notin Rows, g # h PROVE snap'[g] = None
    BY <1>3, <1>6, Zenon DEF MakeRoom, Rows
<1>7. snap' \in [Hashes -> Row \cup {None}]
  <2>1. \A g \in Hashes : snap'[g] \in Row \cup {None}
    BY <1>4, <1>5, <1>6, Zenon
  <2>2. snap' = [g \in Hashes |-> snap'[g]]
    BY <1>1, Zenon DEF MakeRoom
  <2>3. QED
    BY <2>1, <2>2, Zenon
<1>8. Rows' = Rows \cup {h}
    BY <1>4, <1>5, <1>6, RowsAssumption, Zenon DEF Rows
<1>9. QED
    BY <1>3, <1>5, <1>7, <1>8 DEF Publish

LEMMA PublishStep ==
    ASSUME PublicationInv, NEW j \in queue, Publish(j, Hash(applied[j], ext)),
           queue' \subseteq queue \ {j}, pc' \in {"heal", "produce"},
           pc' # "produce" => queue' = {}, UNCHANGED <<applied, ext, role>>
    PROVE  PublicationInv'
<1> USE DEF PublicationInv
<1>1. j \in DOMAIN applied
    BY Zenon DEF PrimaryTypeOK
<1>2. PICK h : h = Hash(applied[j], ext)
    BY Zenon
<1>3. j \in Jobs /\ applied[j] \in Revs /\ h \in Hashes /\ h[1] = Content[applied[j]]
    BY <1>1, <1>2, JobsOfApplied, Zenon
<1>4. /\ snap' \in [Hashes -> Row \cup {None}]
      /\ Rows' = Rows \cup {h}
      /\ snap'[h].job = j
      /\ \A g \in Rows \ {h} : snap'[g].job = snap[g].job /\ snap'[g].live = snap[g].live
      /\ jobHash' = [jobHash EXCEPT ![j] = h]
      /\ revHash' = [revHash EXCEPT ![applied[j]] = h]
    BY <1>1, <1>2, <1>3, PublishedRows, Zenon
<1>5. PrimaryTypeOK'
    BY <1>3, <1>4, Zenon DEF PrimaryTypeOK
<1>6. ASSUME NEW g \in LiveRows', g # h
      PROVE  g \in LiveRows /\ snap'[g].job = snap[g].job
    BY <1>4, <1>6, Zenon DEF LiveRows
<1>7. QueueInv'
    BY <1>4, <1>6, Zenon DEF QueueInv
<1>8. RowsMatchJobs'
  <2> SUFFICES ASSUME NEW g \in Rows'
               PROVE  /\ snap'[g].job \in DOMAIN applied
                      /\ g[1] = Content[applied[snap'[g].job]]
                      /\ snap'[g].live => jobHash'[snap'[g].job] = g
    BY Zenon DEF RowsMatchJobs
  <2>1. CASE g = h
    BY <1>1, <1>3, <1>4, <2>1, Zenon DEF PrimaryTypeOK
  <2>2. CASE g # h
    <3>1. g \in Rows /\ snap'[g].job = snap[g].job /\ snap'[g].live = snap[g].live
      BY <1>4, <2>2, Zenon
    <3>2. snap[g].live => snap[g].job # j
      BY <3>1, Zenon DEF QueueInv, LiveRows
    <3>3. snap[g].job \in Jobs
      BY <3>1, RowFacts, Zenon DEF Row
    <3>4. QED
      BY <1>4, <3>1, <3>2, <3>3, Zenon DEF RowsMatchJobs, PrimaryTypeOK
  <2>3. QED
    BY <2>1, <2>2, Zenon
<1>9. ExportInv'
  <2>1. h[2] = ext /\ ext \in Nat
    BY <1>2, PublicationAssumption DEF Hash, PrimaryTypeOK
  <2>2. \A g \in Hashes : g[2] \in Nat
    BY PublicationAssumption DEF Hashes
  <2>3. h # None
    BY <1>3, RowsAssumption, Zenon
  <2>4. ASSUME NEW g \in Rows, snap[g].job = j PROVE g[2] <= ext
    <3>1. g \in Hashes /\ jobHash[j] # None /\ g[2] <= jobHash[j][2] /\ jobHash[j][2] <= ext
      BY <1>3, <2>4, RowFacts, Zenon DEF ExportInv
    <3>2. jobHash[j] \in Hashes
      BY <1>3, <3>1, Zenon DEF PrimaryTypeOK
    <3>3. QED
      BY <2>1, <2>2, <3>1, <3>2
  <2>5. ASSUME NEW g \in Rows'
        PROVE  jobHash'[snap'[g].job] # None /\ g[2] <= jobHash'[snap'[g].job][2]
    <3>1. jobHash'[j] = h
      BY <1>3, <1>4, Zenon DEF PrimaryTypeOK
    <3>2. CASE g = h
      BY <1>4, <2>1, <2>3, <3>1, <3>2
    <3>3. CASE g # h
      <4>1. g \in Rows /\ snap'[g].job = snap[g].job /\ snap[g].job \in Jobs
        BY <1>4, <2>5, <3>3, RowFacts, Zenon DEF Row
      <4>2. CASE snap[g].job = j
        BY <2>1, <2>3, <2>4, <3>1, <4>1, <4>2, Zenon
      <4>3. CASE snap[g].job # j
        BY <1>4, <4>1, <4>3, Zenon DEF ExportInv, PrimaryTypeOK
      <4>4. QED
        BY <4>2, <4>3, Zenon
    <3>4. QED
      BY <3>2, <3>3, Zenon
  <2>6. ASSUME NEW i \in Jobs, jobHash'[i] # None PROVE jobHash'[i][2] <= ext'
    <3>1. CASE i = j
      BY <1>3, <1>4, <2>1, <3>1 DEF PrimaryTypeOK
    <3>2. CASE i # j
      BY <1>4, <2>6, <3>2, Zenon DEF PrimaryTypeOK, ExportInv
    <3>3. QED
      BY <3>1, <3>2, Zenon
  <2>7. QED
    BY <2>5, <2>6, Zenon DEF ExportInv
<1>10. QED
    BY <1>5, <1>7, <1>8, <1>9, Zenon

LEMMA ProduceStep ==
    ASSUME PublicationInv, Produce
    PROVE  PublicationInv'
<1> USE DEF PublicationInv
<1>1. PICK j \in queue : ProduceJob(j)
    BY Zenon DEF Produce
<1>2. /\ queue' \subseteq queue \ {j} /\ pc' \in {"heal", "produce"}
      /\ pc' # "produce" => queue' = {}
      /\ UNCHANGED <<applied, ext, role>>
    BY <1>1, Zenon DEF Produce, ProduceJob, EndPass
<1>3. CASE UNCHANGED <<snap, jobHash, revHash>>
  <2>1. Rows' = Rows /\ LiveRows' = LiveRows
    BY <1>3, Zenon DEF Rows, LiveRows
  <2>2. PrimaryTypeOK'
    BY <1>2, <1>3, Zenon DEF PrimaryTypeOK
  <2>3. ExportInv'
    BY <1>2, <1>3, <2>1, ExportsKept, PublicationAssumption DEF PrimaryTypeOK
  <2>4. QED
    BY <1>2, <1>3, <2>1, <2>2, <2>3, Zenon DEF QueueInv, RowsMatchJobs
<1>4. CASE Publish(j, Hash(applied[j], ext))
    BY <1>2, <1>4, PublishStep, Zenon
<1>5. QED
    BY <1>1, <1>3, <1>4, Zenon DEF ProduceJob

(* The role, the secrets and the end of a pass touch no row. *)
LEMMA OtherPrimaryStep ==
    ASSUME PublicationInv, ChangeSecrets \/ AbortPass \/ FirstGrant \/ UNCHANGED primaryVars
    PROVE  PublicationInv'
<1> USE DEF PublicationInv
<1>1. /\ UNCHANGED <<applied, snap, jobHash, revHash>>
      /\ queue' \subseteq queue
      /\ pc' = pc \/ queue' = {}
    BY Zenon DEF ChangeSecrets, AbortPass, FirstGrant, EndPass, primaryVars
<1>2. PrimaryTypeOK'
    BY <1>1, PublicationAssumption
    DEF PrimaryTypeOK, ChangeSecrets, AbortPass, FirstGrant, GrantRole, EndPass, primaryVars, Roles
<1>3. Rows' = Rows /\ LiveRows' = LiveRows
    BY <1>1, Zenon DEF Rows, LiveRows
<1>4. ExportInv'
  <2>1. ext' \in Nat /\ ext <= ext'
    BY PublicationAssumption
    DEF PrimaryTypeOK, ChangeSecrets, AbortPass, FirstGrant, primaryVars
  <2>2. QED
    BY <1>1, <1>3, <2>1, ExportsKept, Zenon
<1>5. QED
    BY <1>1, <1>2, <1>3, <1>4, Zenon DEF QueueInv, RowsMatchJobs

LEMMA PrimaryStepInv == PublicationInv /\ [PrimaryNext]_primaryVars => PublicationInv'
BY FinishApplyStep, HealStep, ListStep, ProduceStep, OtherPrimaryStep, Zenon DEF PrimaryNext

(***************************************************************************)
(* The invariant of the producer: a job that still waits in the pass has   *)
(* no live row, so that its publication leaves no other row behind.        *)
(***************************************************************************)
THEOREM PublicationInvariance == PrimarySpec => []PublicationInv
<1>1. PrimaryInit => PublicationInv
    BY PrimaryInitInv, Zenon
<1>2. PublicationInv /\ [PrimaryNext]_primaryVars => PublicationInv'
    BY PrimaryStepInv, Zenon
<1>3. QED
    BY <1>1, <1>2, PTL DEF PrimarySpec

(***************************************************************************)
(* A row carries the configuration of the job it is bound to, and a live   *)
(* row is the one its job names, for any history of applies, healed rows   *)
(* and aborted passes (PublishCanonicalSnapshot).                          *)
(***************************************************************************)
THEOREM RowsAlwaysMatch == PrimarySpec => []RowsMatchJobs
<1>1. PublicationInv => RowsMatchJobs
    BY Zenon DEF PublicationInv
<1>2. QED
    BY <1>1, PublicationInvariance, PTL

-----------------------------------------------------------------------------
(* The node: the inductive invariant. *)

NodeJob == [hash : Hashes, st : {"queued", "applied", "failed"}]

NodeTypeOK ==
    /\ cred \in [attempt : Nat, st : {"none", "active", "unlinked"}]
    /\ acks \in [Hashes -> Nat]
    /\ nrole \in {"standalone", "node"} /\ overlay \in BOOLEAN
    /\ attempt \in Nat /\ bound \in Nat /\ using \in Nat
    /\ epc \in {"none", "draft", "granted", "bound", "converting"}
    /\ draft \in MaybeHash
    /\ prog \in Progress /\ mem \in Progress
    /\ spc \in {"idle", "notify", "fetch", "offer", "import", "apply", "ack", "record", "save"}
    /\ njobs \in Seq(NodeJob)
    /\ wait \in [{"cycle", "confirm"} -> Nat]
    /\ running \in MaybeHash
    /\ happened \in [Events -> Nat]

(* Jobs are applied in the order they were created ... *)
InOrder(jobs) ==
    \A i, k \in DOMAIN jobs : i < k /\ jobs[k].st = "applied" => jobs[i].st # "queued"

(* ... so the data plane runs the last one that was. *)
IsLast(jobs, i) ==
    jobs[i].st = "applied" /\ \A k \in DOMAIN jobs : i < k => jobs[k].st # "applied"

RunsLast(jobs, run) ==
    \/ \A i \in DOMAIN jobs : jobs[i].st # "applied"
    \/ \E i \in DOMAIN jobs : IsLast(jobs, i) /\ run = jobs[i].hash

(* Both waits are for the right hash. *)
JobsInv ==
    /\ InOrder(njobs) /\ RunsLast(njobs, running)
    /\ spc = "apply" => wait["cycle"] \in DOMAIN njobs /\ njobs[wait["cycle"]].hash = mem.primary
    /\ epc = "converting" => wait["confirm"] \in DOMAIN njobs /\ njobs[wait["confirm"]].hash = draft

(* Every hash the node works with was published. *)
SeenInv ==
    /\ epc # "none" => draft \in Rows
    /\ spc \in {"offer", "import", "apply"} => mem.primary \in Rows
    /\ \A i \in DOMAIN njobs : njobs[i].hash \in Rows

(* The enrollment, the binding and the unlinked flag. *)
LinkInv ==
    /\ cred.attempt <= attempt /\ bound <= attempt
    /\ nrole = "node" \/ epc # "none" => attempt >= 1
    /\ epc \in {"granted", "bound", "converting"} => cred.attempt = attempt
    /\ epc \in {"bound", "converting"} => bound = attempt
    /\ nrole = "standalone" => spc = "idle" /\ ~overlay /\ ~prog.unlinked
    /\ prog.unlinked => spc \in {"idle", "notify"}
    /\ spc = "notify" => mem.unlinked
    /\ mem.unlinked => spc \in {"idle", "notify", "save"}
    /\ nrole = "standalone" /\ epc \in {"bound", "converting"} =>
          prog.applied = draft /\ prog.primary = draft

(* Until the primary unlinks it, a node does not enroll again, and what it *)
(* holds as applied was applied.                                           *)
AckInv ==
    Never("unlink") =>
        /\ cred.st # "unlinked" /\ ~prog.unlinked /\ ~mem.unlinked /\ ~overlay
        /\ nrole = "node" => epc \in {"none", "draft"} /\ prog.applied \in NodeApplied
        /\ spc # "idle" => mem.applied \in NodeApplied
        /\ \A h \in Hashes : acks[h] # 0 => h \in NodeApplied

(* The credential the node is bound to is no longer active. *)
Gone == cred.attempt > bound \/ (cred.attempt = bound /\ cred.st = "unlinked")

(* Up to the second enrollment, only a node that stored the unlinked flag  *)
(* gets a new binding, and no cycle runs with the credential before it.    *)
UnlinkInv ==
    attempt <= 2 =>
        /\ nrole = "node" /\ attempt <= 1 => epc = "none" /\ bound = attempt
        /\ overlay \/ spc = "notify" \/ (nrole = "node" /\ epc = "granted") =>
              prog.unlinked \/ bound = 2
        /\ spc \notin {"idle", "notify"} => using = bound
        /\ prog.unlinked \/ (spc = "save" /\ mem.unlinked) => Gone

(* While every wait sees its job end, nothing is queued but the job waited *)
(* for, and the data plane runs what the node holds as applied.            *)
Settled(jobs, n) == \A i \in DOMAIN jobs : i <= n => jobs[i].st # "queued"

KnownInv ==
    Never("unlink") /\ Never("timeout") /\ Never("restart") =>
        /\ epc # "converting" /\ spc # "apply" => Settled(njobs, Len(njobs))
        /\ epc = "converting" => wait["confirm"] = Len(njobs) /\ Settled(njobs, Len(njobs) - 1)
        /\ spc = "apply" =>
              /\ wait["cycle"] = Len(njobs) /\ Settled(njobs, Len(njobs) - 1)
              /\ running = IF njobs[Len(njobs)].st = "applied" THEN mem.primary ELSE mem.applied
        /\ nrole = "node" /\ spc = "idle" => running = prog.applied
        /\ spc \notin {"idle", "apply"} => running = mem.applied

(* Hash g was exported from an earlier apply than h, or from the same one  *)
(* with no newer secrets.                                                  *)
Below(ap, g, h) ==
    \E i, j \in DOMAIN ap :
        /\ Content[ap[i]] = g[1] /\ Content[ap[j]] = h[1]
        /\ i < j \/ (i = j /\ g[2] <= h[2])

AllBelow(ap, jobs, h) == \A i \in DOMAIN jobs : Below(ap, jobs[i].hash, h)

Sorted(ap, jobs) ==
    \A i, k \in DOMAIN jobs : i <= k => Below(ap, jobs[i].hash, jobs[k].hash)

Distinct(ap) == \A i, j \in DOMAIN ap : Content[ap[i]] = Content[ap[j]] => i = j

(* While the primary never goes back, the node imports in the order of     *)
(* publication.                                                            *)
OrderInv ==
    Never("revert") =>
        /\ Distinct(applied)
        /\ Never("unlink") =>
              /\ Sorted(applied, njobs)
              /\ nrole = "standalone" /\ epc # "none" => AllBelow(applied, njobs, draft)
              /\ nrole = "node" => AllBelow(applied, njobs, prog.primary)
              /\ spc # "idle" => AllBelow(applied, njobs, mem.primary)
              /\ spc \in {"import", "apply"} => prog.primary = mem.primary

NodeInv == /\ NodeTypeOK /\ JobsInv /\ SeenInv /\ LinkInv /\ AckInv /\ UnlinkInv
           /\ KnownInv /\ OrderInv

SyncInv == PublicationInv /\ NodeInv

-----------------------------------------------------------------------------
(* The node's jobs. *)

AppliedIn(jobs) == {jobs[i].hash : i \in {k \in DOMAIN jobs : jobs[k].st = "applied"}}

(* A new import of h, after the unfinished ones of h were superseded. *)
Imported(jobs, h) ==
    Append([i \in DOMAIN jobs |-> IF jobs[i].hash = h /\ jobs[i].st = "queued"
                                  THEN [jobs[i] EXCEPT !.st = "failed"] ELSE jobs[i]],
           [hash |-> h, st |-> "queued"])

(* Job i ends. *)
Ended(jobs, i, st) == [jobs EXCEPT ![i].st = st]

(* What happens to the jobs there are: the finished ones stay as they are. *)
Carries(jobs, new) ==
    /\ DOMAIN jobs \subseteq DOMAIN new
    /\ \A i \in DOMAIN jobs : /\ new[i].hash = jobs[i].hash
                              /\ jobs[i].st # "queued" => new[i].st = jobs[i].st

LEMMA ImportedJobs ==
    ASSUME NEW jobs \in Seq(NodeJob), NEW h \in Hashes
    PROVE  LET new == Imported(jobs, h) IN
           /\ new \in Seq(NodeJob)
           /\ Len(new) = Len(jobs) + 1
           /\ new[Len(jobs) + 1] = [hash |-> h, st |-> "queued"]
           /\ Carries(jobs, new)
           /\ \A i \in DOMAIN jobs : /\ new[i].st = "applied" => jobs[i].st = "applied"
                                     /\ new[i].st = "queued" => jobs[i].st = "queued"
<1> DEFINE old == [i \in DOMAIN jobs |-> IF jobs[i].hash = h /\ jobs[i].st = "queued"
                                         THEN [jobs[i] EXCEPT !.st = "failed"] ELSE jobs[i]]
           job == [hash |-> h, st |-> "queued"]
           new == Append(old, job)
<1>1. \A i \in DOMAIN jobs :
         /\ old[i] \in NodeJob
         /\ old[i].hash = jobs[i].hash
         /\ jobs[i].st # "queued" => old[i].st = jobs[i].st
         /\ old[i].st = "applied" => jobs[i].st = "applied"
         /\ old[i].st = "queued" => jobs[i].st = "queued"
  <2> TAKE i \in DOMAIN jobs
  <2>1. jobs[i] \in NodeJob
    OBVIOUS
  <2>2. [jobs[i] EXCEPT !.st = "failed"] \in NodeJob
        /\ [jobs[i] EXCEPT !.st = "failed"].hash = jobs[i].hash
        /\ [jobs[i] EXCEPT !.st = "failed"].st = "failed"
    BY <2>1, Zenon DEF NodeJob
  <2>3. QED
    BY <2>1, <2>2, Zenon
<1>2. old \in Seq(NodeJob) /\ Len(old) = Len(jobs)
    BY <1>1
<1>3. job \in NodeJob
    BY Zenon DEF NodeJob
<1>4. Imported(jobs, h) = new
    BY Zenon DEF Imported
<1> HIDE DEF old, job
<1>5. /\ new \in Seq(NodeJob) /\ Len(new) = Len(jobs) + 1
      /\ new[Len(jobs) + 1] = job /\ \A i \in DOMAIN jobs : new[i] = old[i]
      /\ DOMAIN jobs \subseteq DOMAIN new
    BY <1>2, <1>3
<1> HIDE DEF new
<1>6. QED
    BY <1>1, <1>4, <1>5, Zenon DEF Carries, job

LEMMA EndedJobs ==
    ASSUME NEW jobs \in Seq(NodeJob), NEW i \in DOMAIN jobs, jobs[i].st = "queued",
           NEW st \in {"applied", "failed"}
    PROVE  LET new == Ended(jobs, i, st) IN
           /\ new \in Seq(NodeJob)
           /\ Len(new) = Len(jobs)
           /\ new[i].st = st
           /\ \A k \in DOMAIN jobs : k # i => new[k] = jobs[k]
           /\ Carries(jobs, new)
<1> DEFINE new == Ended(jobs, i, st)
<1>1. jobs[i] \in NodeJob
    OBVIOUS
<1>2. [jobs[i] EXCEPT !.st = st] \in NodeJob
      /\ [jobs[i] EXCEPT !.st = st].hash = jobs[i].hash
      /\ [jobs[i] EXCEPT !.st = st].st = st
    BY <1>1, Zenon DEF NodeJob
<1>3. /\ new \in Seq(NodeJob) /\ Len(new) = Len(jobs)
      /\ new[i] = [jobs[i] EXCEPT !.st = st]
      /\ \A k \in DOMAIN jobs : k # i => new[k] = jobs[k]
      /\ DOMAIN new = DOMAIN jobs
    BY <1>2 DEF Ended
<1> HIDE DEF new
<1>4. QED
    BY <1>2, <1>3, Zenon DEF Carries, new

LEMMA NodeAppliedKept ==
    ASSUME Carries(njobs, njobs')
    PROVE  NodeApplied \subseteq NodeApplied'
<1>1. NodeApplied = AppliedIn(njobs)
    BY Zenon DEF NodeApplied, AppliedIn
<1>2. NodeApplied' = AppliedIn(njobs')
    BY Zenon DEF NodeApplied, AppliedIn
<1>3. AppliedIn(njobs) \subseteq AppliedIn(njobs')
    BY Zenon DEF Carries, AppliedIn
<1>4. QED
    BY <1>1, <1>2, <1>3, Zenon

(* An applied job is among the applied ones. *)
LEMMA AppliedJob ==
    ASSUME NEW i \in DOMAIN njobs, njobs[i].st = "applied"
    PROVE  njobs[i].hash \in NodeApplied
BY Zenon DEF NodeApplied

LEMMA RunsTheLast ==
    ASSUME NEW jobs \in Seq(NodeJob), NEW run, RunsLast(jobs, run), NEW i \in DOMAIN jobs,
           IsLast(jobs, i)
    PROVE  run = jobs[i].hash
<1>1. PICK k \in DOMAIN jobs : IsLast(jobs, k) /\ run = jobs[k].hash
    BY Zenon DEF RunsLast, IsLast
<1>2. i = k
    BY <1>1 DEF IsLast
<1>3. QED
    BY <1>1, <1>2, Zenon

(* The jobs after an import of h: what there was, or one more. *)
LEMMA ImportEffect ==
    ASSUME NodeTypeOK, JobsInv, NEW h \in Hashes, NEW w \in {"cycle", "confirm"}, Import(h, w)
    PROVE  /\ njobs' \in Seq(NodeJob) /\ wait' \in [{"cycle", "confirm"} -> Nat]
           /\ Carries(njobs, njobs') /\ InOrder(njobs') /\ RunsLast(njobs', running)
           /\ wait'[w] = Len(njobs') /\ Len(njobs') \in DOMAIN njobs'
           /\ \A v \in {"cycle", "confirm"} : v # w => wait'[v] = wait[v]
           /\ njobs'[Len(njobs')].hash = h
           /\ \A i \in DOMAIN njobs' : i \in DOMAIN njobs \/ njobs'[i].hash = h
           /\ \A i \in DOMAIN njobs' : njobs'[i].st = "queued" =>
                 i = Len(njobs') \/ (i \in DOMAIN njobs /\ njobs[i].st = "queued")
           /\ njobs'[Len(njobs')].st = "applied" => running = h
<1> USE DEF NodeTypeOK
<1>1. CASE Reusable(h) /\ wait' = [wait EXCEPT ![w] = Len(njobs)] /\ UNCHANGED njobs
  <2>1. Len(njobs) \in DOMAIN njobs /\ njobs[Len(njobs)].hash = h
    BY <1>1 DEF Reusable
  <2>2. njobs[Len(njobs)].st = "applied" => running = h
    <3>1. njobs[Len(njobs)].st = "applied" => IsLast(njobs, Len(njobs))
      BY DEF IsLast
    <3>2. QED
      BY <2>1, <3>1, RunsTheLast, Zenon DEF JobsInv
  <2>3. Carries(njobs, njobs)
    BY Zenon DEF Carries
  <2>4. QED
    BY <1>1, <2>1, <2>2, <2>3 DEF JobsInv
<1>2. CASE /\ njobs' = Append(Superseded(h), [hash |-> h, st |-> "queued"])
           /\ wait' = [wait EXCEPT ![w] = Len(njobs) + 1]
  <2>1. njobs' = Imported(njobs, h)
    BY <1>2, Zenon DEF Superseded, Imported
  <2>2. PICK new : new = Imported(njobs, h)
    BY Zenon
  <2>3. /\ new \in Seq(NodeJob)
        /\ Len(new) = Len(njobs) + 1
        /\ new[Len(njobs) + 1] = [hash |-> h, st |-> "queued"]
        /\ Carries(njobs, new)
        /\ \A i \in DOMAIN njobs : /\ new[i].st = "applied" => njobs[i].st = "applied"
                                   /\ new[i].st = "queued" => njobs[i].st = "queued"
    BY <2>2, ImportedJobs, ZenonT(60)
  <2>4. DOMAIN new = DOMAIN njobs \cup {Len(new)} /\ Len(new) \notin DOMAIN njobs
        /\ new[Len(new)].hash = h /\ new[Len(new)].st = "queued"
    BY <2>3
  <2>5. InOrder(new)
    <3> SUFFICES ASSUME NEW i \in DOMAIN new, NEW k \in DOMAIN new, i < k, new[k].st = "applied"
                 PROVE  new[i].st # "queued"
      BY Zenon DEF InOrder
    <3>1. k \in DOMAIN njobs
      BY <2>4, Zenon
    <3>2. i \in DOMAIN njobs
      BY <2>3, <3>1
    <3>3. QED
      BY <2>3, <3>1, <3>2, Zenon DEF JobsInv, InOrder
  <2>6. RunsLast(new, running)
    <3>1. CASE \A i \in DOMAIN njobs : njobs[i].st # "applied"
      BY <2>3, <2>4, <3>1, Zenon DEF RunsLast
    <3>2. CASE \E i \in DOMAIN njobs : IsLast(njobs, i) /\ running = njobs[i].hash
      <4>1. PICK i \in DOMAIN njobs : IsLast(njobs, i) /\ running = njobs[i].hash
        BY <3>2, Zenon
      <4>2. i \in DOMAIN new /\ new[i].st = "applied" /\ running = new[i].hash
        BY <2>3, <2>4, <4>1, Zenon DEF IsLast, Carries
      <4>3. \A k \in DOMAIN new : i < k => new[k].st # "applied"
        BY <2>3, <2>4, <4>1, Zenon DEF IsLast
      <4>4. QED
        BY <4>2, <4>3, Zenon DEF RunsLast, IsLast
    <3>3. QED
      BY <3>1, <3>2, Zenon DEF JobsInv, RunsLast
  <2>7. njobs' = new
    BY <2>1, <2>2, Zenon
  <2>8. wait' \in [{"cycle", "confirm"} -> Nat] /\ wait'[w] = Len(new)
        /\ \A v \in {"cycle", "confirm"} : v # w => wait'[v] = wait[v]
    BY <1>2, <2>3
  <2> HIDE DEF NodeTypeOK
  <2>9. Len(new) \in DOMAIN new
    BY <2>4, Zenon
  <2>10. QED
    BY <2>3, <2>4, <2>5, <2>6, <2>7, <2>8, <2>9, Zenon
<1>3. QED
    BY <1>1, <1>2, Zenon DEF Import

(* The worker ends the oldest queued job. *)
LEMMA WorkerEffect ==
    ASSUME NodeTypeOK, JobsInv, NEW i \in DOMAIN njobs, NextJob(i),
           NEW st \in {"applied", "failed"}, njobs' = Ended(njobs, i, st),
           running' = IF st = "applied" THEN njobs[i].hash ELSE running
    PROVE  /\ njobs' \in Seq(NodeJob) /\ running' \in MaybeHash
           /\ DOMAIN njobs' = DOMAIN njobs /\ Len(njobs') = Len(njobs)
           /\ Carries(njobs, njobs') /\ InOrder(njobs') /\ RunsLast(njobs', running')
           /\ \A k \in DOMAIN njobs : k # i => njobs'[k] = njobs[k]
           /\ njobs'[i].st = st /\ njobs[i].st = "queued"
<1> USE DEF NodeTypeOK
<1>1. njobs[i].st = "queued" /\ njobs[i].hash \in Hashes
  <2>1. njobs[i] \in NodeJob
    OBVIOUS
  <2>2. QED
    BY <2>1, Zenon DEF NextJob, NodeJob
<1>2. PICK new : new = Ended(njobs, i, st)
    BY Zenon
<1>3. /\ new \in Seq(NodeJob)
      /\ Len(new) = Len(njobs)
      /\ new[i].st = st
      /\ \A k \in DOMAIN njobs : k # i => new[k] = njobs[k]
      /\ Carries(njobs, new)
    BY <1>1, <1>2, EndedJobs
<1>4. DOMAIN new = DOMAIN njobs /\ new[i].hash = njobs[i].hash
    BY <1>3 DEF Carries
<1>5. \A k \in DOMAIN njobs : k < i => njobs[k].st # "queued"
    BY DEF NextJob
<1>6. \A k \in DOMAIN njobs : i < k => njobs[k].st # "applied"
    BY <1>1, Zenon DEF JobsInv, InOrder
<1>7. InOrder(new)
    BY <1>3, <1>4, <1>5, ZenonT(60) DEF JobsInv, InOrder
<1>8. RunsLast(new, running')
  <2>1. CASE st = "applied"
    <3>1. ASSUME NEW k \in DOMAIN new, i < k PROVE new[k].st # "applied"
      <4>1. k \in DOMAIN njobs /\ k # i
        BY <1>4, <3>1
      <4>2. QED
        BY <1>3, <1>6, <3>1, <4>1, Zenon
    <3>2. IsLast(new, i)
      BY <1>3, <2>1, <3>1, Zenon DEF IsLast
    <3>3. QED
      BY <1>4, <2>1, <3>2, Zenon DEF RunsLast
  <2>2. CASE st = "failed"
    <3>1. \A k \in DOMAIN njobs : new[k].st = "applied" <=> njobs[k].st = "applied"
      BY <1>1, <1>3, <2>2, Zenon
    <3>2. \A k \in DOMAIN njobs : IsLast(njobs, k) => IsLast(new, k) /\ new[k].hash = njobs[k].hash
      BY <1>3, <1>4, <3>1, Zenon DEF IsLast, Carries
    <3>3. QED
      BY <1>4, <2>2, <3>1, <3>2, Zenon DEF JobsInv, RunsLast
  <2>3. QED
    BY <2>1, <2>2, Zenon
<1>9. QED
    BY <1>1, <1>2, <1>3, <1>4, <1>7, <1>8, Zenon DEF MaybeHash

(* An import queues one job at most, the last. *)
LEMMA ImportSettles ==
    ASSUME NEW jobs, NEW imported \in Seq(NodeJob),
           \A i \in DOMAIN jobs : jobs[i].st # "queued",
           \A i \in DOMAIN imported : imported[i].st = "queued" =>
              i = Len(imported) \/ (i \in DOMAIN jobs /\ jobs[i].st = "queued")
    PROVE  Settled(imported, Len(imported) - 1)
BY DEF Settled

(* Imports in the order of publication stay in it. *)
LEMMA SortedImport ==
    ASSUME NEW ap, NEW jobs \in Seq(NodeJob), NEW new \in Seq(NodeJob), NEW h,
           Carries(jobs, new), \A i \in DOMAIN new : i \in DOMAIN jobs \/ new[i].hash = h,
           new[Len(new)].hash = h, Len(new) \in DOMAIN new, AllBelow(ap, jobs, h), Below(ap, h, h)
    PROVE  /\ AllBelow(ap, new, h)
           /\ Sorted(ap, jobs) => Sorted(ap, new)
<1>1. AllBelow(ap, new, h)
    BY Zenon DEF AllBelow, Carries
<1>2. ASSUME Sorted(ap, jobs), NEW i \in DOMAIN new, NEW k \in DOMAIN new, i <= k
      PROVE  Below(ap, new[i].hash, new[k].hash)
  <2>1. CASE k \in DOMAIN jobs
    <3>1. i \in DOMAIN jobs
      BY <1>2, <2>1
    <3>2. QED
      BY <1>2, <2>1, <3>1, Zenon DEF Sorted, Carries
  <2>2. CASE k \notin DOMAIN jobs
    BY <1>1, <2>2, Zenon DEF AllBelow
  <2>3. QED
    BY <2>1, <2>2, Zenon
<1>3. QED
    BY <1>1, <1>2, Zenon DEF Sorted

-----------------------------------------------------------------------------
(* Events only add up, and the primary's history only grows. *)

LEMMA HappensFacts ==
    ASSUME NodeTypeOK, NEW k \in Events, Happens(k)
    PROVE  /\ happened' \in [Events -> Nat]
           /\ ~Never(k)'
           /\ \A e \in Events : Never(e)' => Never(e)
BY DEF NodeTypeOK, Happens, Never

LEMMA NothingHappens ==
    ASSUME UNCHANGED happened
    PROVE  \A e \in Events : Never(e)' <=> Never(e)
BY Zenon DEF Never

LEMMA BelowGrows ==
    ASSUME NEW ap, NEW bp, DOMAIN ap \subseteq DOMAIN bp, \A i \in DOMAIN ap : bp[i] = ap[i],
           NEW g, NEW h, Below(ap, g, h)
    PROVE  Below(bp, g, h)
<1>1. PICK i \in DOMAIN ap, j \in DOMAIN ap :
         /\ Content[ap[i]] = g[1] /\ Content[ap[j]] = h[1]
         /\ i < j \/ (i = j /\ g[2] <= h[2])
    BY Zenon DEF Below
<1>2. i \in DOMAIN bp /\ j \in DOMAIN bp /\ bp[i] = ap[i] /\ bp[j] = ap[j]
    BY Zenon
<1>3. QED
    BY <1>1, <1>2, Zenon DEF Below

(* A row is not above itself. *)
LEMMA RowBelowItself ==
    ASSUME PublicationInv, NEW h \in Rows
    PROVE  Below(applied, h, h)
<1>1. snap[h].job \in DOMAIN applied /\ h[1] = Content[applied[snap[h].job]] /\ h \in Hashes
    BY Zenon DEF PublicationInv, RowsMatchJobs, Rows
<1>2. h[2] \in Nat
    BY <1>1, PublicationAssumption DEF Hashes
<1>3. QED
    BY <1>1, <1>2 DEF Below

(* What the primary publishes is above every row. *)
LEMMA PublishedAbove ==
    ASSUME PublicationInv, NEW h \in Hashes, Published(h), NEW g \in Rows
    PROVE  Below(applied, g, h)
<1> USE DEF PublicationInv
<1>1. h \in Rows /\ snap[h] \in Row /\ snap[g] \in Row /\ g \in Hashes
    BY RowFacts, Zenon DEF Published, IsNewest
<1>2. /\ snap[g].job \in DOMAIN applied /\ g[1] = Content[applied[snap[g].job]]
      /\ snap[h].job \in DOMAIN applied /\ h[1] = Content[applied[snap[h].job]]
    BY <1>1, Zenon DEF RowsMatchJobs
<1>3. snap[g].job < snap[h].job \/ snap[g].job = snap[h].job
    BY Zenon DEF Published, IsNewest, NotAfter
<1>4. ASSUME snap[g].job = snap[h].job PROVE g[2] <= h[2]
  <2>1. jobHash[snap[h].job] = h
    BY Zenon DEF Published, Proof
  <2>2. QED
    BY <1>4, <2>1, Zenon DEF ExportInv
<1>5. QED
    BY <1>2, <1>3, <1>4, Zenon DEF Below

LEMMA RowsGrow ==
    ASSUME PublicationInv, [PrimaryNext]_primaryVars
    PROVE  Rows \subseteq Rows'
<1> USE DEF PublicationInv
<1>1. CASE snap' = snap
    BY <1>1, Zenon DEF Rows
<1>2. CASE Heal
  <2> SUFFICES ASSUME NEW h \in Rows PROVE snap'[h] # None
    BY Zenon DEF Rows
  <2>1. h \in Hashes /\ snap[h] \in Row
    BY RowFacts, Zenon
  <2>2. [snap[h] EXCEPT !.live = FALSE] \in Row
    BY <2>1, ZenonT(60) DEF Row
  <2>3. snap'[h] \in Row
    BY <1>2, <2>1, <2>2, Zenon DEF Heal
  <2>4. QED
    BY <2>3, RowsAssumption, Zenon
<1>3. CASE Produce
  <2>1. PICK j \in queue : ProduceJob(j)
    BY <1>3, Zenon DEF Produce
  <2>2. j \in DOMAIN applied /\ Hash(applied[j], ext) \in Hashes
    BY JobsOfApplied, Zenon DEF PrimaryTypeOK
  <2>3. CASE Publish(j, Hash(applied[j], ext))
    BY <2>2, <2>3, PublishedRows, Zenon
  <2>4. QED
    BY <1>1, <2>1, <2>3, Zenon DEF ProduceJob
<1>4. QED
    BY <1>1, <1>2, <1>3, Zenon
    DEF PrimaryNext, FinishApply, ChangeSecrets, List, AbortPass, FirstGrant, primaryVars

(* The steps of the primary alone, and what they leave alone. *)
LEMMA PrimaryMoves ==
    ASSUME SyncInv, PrimaryStep \/ Producing
    PROVE  /\ PrimaryNext
           /\ UNCHANGED <<cred, acks, nrole, overlay, attempt, epc, draft, bound, prog, mem,
                          using, spc, njobs, wait, running>>
           /\ happened' \in [Events -> Nat]
           /\ \A e \in Events : Never(e)' => Never(e)
           /\ applied' \in Seq(Revs)
           /\ DOMAIN applied \subseteq DOMAIN applied'
           /\ \A i \in DOMAIN applied : applied'[i] = applied[i]
           /\ Never("revert")' /\ Distinct(applied) => Distinct(applied')
<1> USE DEF SyncInv, NodeInv, PublicationInv
<1> "revert" \in Events /\ "secrets" \in Events /\ "abort" \in Events
    BY Zenon DEF Events
<1>1. CASE Producing
  <2>1. applied' = applied /\ UNCHANGED nodeVars /\ PrimaryNext
    BY <1>1, Zenon DEF Producing, Heal, List, Produce, PrimaryNext
  <2>2. QED
    BY <2>1, NothingHappens, Zenon DEF nodeVars, NodeTypeOK, PrimaryTypeOK
<1>2. CASE ChangeSecrets /\ Happens("secrets") /\ PrimaryStep
    BY <1>2, HappensFacts, Zenon
    DEF ChangeSecrets, PrimaryStep, PrimaryNext, PrimaryTypeOK
<1>3. CASE AbortPass /\ Happens("abort") /\ PrimaryStep
    BY <1>3, HappensFacts, Zenon
    DEF AbortPass, PrimaryStep, PrimaryNext, PrimaryTypeOK
<1>4. ASSUME NEW r \in Revs, PrimaryApplies(r), PrimaryStep
      PROVE  /\ PrimaryNext
             /\ UNCHANGED <<cred, acks, nrole, overlay, attempt, epc, draft, bound, prog, mem,
                            using, spc, njobs, wait, running>>
             /\ happened' \in [Events -> Nat]
             /\ \A e \in Events : Never(e)' => Never(e)
             /\ applied' \in Seq(Revs)
             /\ DOMAIN applied \subseteq DOMAIN applied'
             /\ \A i \in DOMAIN applied : applied'[i] = applied[i]
             /\ Never("revert")' /\ Distinct(applied) => Distinct(applied')
  <2>1. /\ applied' \in Seq(Revs) /\ DOMAIN applied' = DOMAIN applied \cup {Len(applied) + 1}
        /\ applied'[Len(applied) + 1] = r
        /\ \A i \in DOMAIN applied : applied'[i] = applied[i]
    BY <1>4 DEF PrimaryApplies, FinishApply, PrimaryTypeOK
  <2>2. PrimaryNext
    BY <1>4, Zenon DEF PrimaryApplies, PrimaryNext
  <2>3. CASE Happens("revert")
    BY <1>4, <2>1, <2>2, <2>3, HappensFacts, Zenon DEF PrimaryStep
  <2>4. CASE UNCHANGED happened /\ \A i \in DOMAIN applied : Content[applied[i]] # Content[r]
    <3>1. Distinct(applied) => Distinct(applied')
      BY <2>1, <2>4, Zenon DEF Distinct
    <3>2. QED
      BY <1>4, <2>1, <2>2, <2>4, <3>1, NothingHappens, Zenon DEF PrimaryStep, NodeTypeOK
  <2>5. QED
    BY <1>4, <2>3, <2>4, ZenonT(60) DEF PrimaryApplies
<1>5. QED
    BY <1>1, <1>2, <1>3, <1>4, Zenon DEF PrimaryStep

LEMMA PrimarySideStep ==
    ASSUME SyncInv, PrimaryStep \/ Producing
    PROVE  SyncInv'
<1>1. /\ PrimaryNext
      /\ UNCHANGED <<cred, acks, nrole, overlay, attempt, epc, draft, bound, prog, mem,
                     using, spc, njobs, wait, running>>
      /\ happened' \in [Events -> Nat]
      /\ \A e \in Events : Never(e)' => Never(e)
      /\ applied' \in Seq(Revs)
      /\ DOMAIN applied \subseteq DOMAIN applied'
      /\ \A i \in DOMAIN applied : applied'[i] = applied[i]
      /\ Never("revert")' /\ Distinct(applied) => Distinct(applied')
    BY PrimaryMoves, Zenon
<1>2. PublicationInv' /\ Rows \subseteq Rows'
    BY <1>1, PrimaryStepInv, RowsGrow, Zenon DEF SyncInv
<1>3. /\ Never("unlink")' => Never("unlink")
      /\ Never("timeout")' => Never("timeout")
      /\ Never("restart")' => Never("restart")
      /\ Never("revert")' => Never("revert")
    BY <1>1, Zenon DEF Events
<1>4. NodeApplied' = NodeApplied
    BY <1>1, Zenon DEF NodeApplied
<1>5. NodeTypeOK' /\ JobsInv' /\ LinkInv'
    BY <1>1, SMTT(30) DEF SyncInv, NodeInv, NodeTypeOK, JobsInv, LinkInv
<1>6. SeenInv'
    BY <1>1, <1>2, Zenon DEF SyncInv, NodeInv, SeenInv
<1>7. AckInv' /\ UnlinkInv'
    BY <1>1, <1>3, <1>4, Zenon DEF SyncInv, NodeInv, AckInv, UnlinkInv, Gone
<1>8. KnownInv'
    BY <1>1, <1>3, Zenon DEF SyncInv, NodeInv, KnownInv
<1>9. OrderInv'
  <2>1. ASSUME NEW g, NEW h, Below(applied, g, h) PROVE Below(applied', g, h)
    BY <1>1, <2>1, BelowGrows, Zenon
  <2>2. ASSUME NEW h, AllBelow(applied, njobs, h) PROVE AllBelow(applied', njobs', h)
    BY <1>1, <2>1, <2>2, Zenon DEF AllBelow
  <2>3. Sorted(applied, njobs) => Sorted(applied', njobs')
    BY <1>1, <2>1, Zenon DEF Sorted
  <2>4. QED
    BY <1>1, <1>3, <2>2, <2>3, Zenon DEF SyncInv, NodeInv, OrderInv
<1>10. QED
    BY <1>2, <1>5, <1>6, <1>7, <1>8, <1>9, Zenon DEF SyncInv, NodeInv

-----------------------------------------------------------------------------
(* The steps of the node. *)

LEMMA NodeInitInv == Init => SyncInv
<1> SUFFICES ASSUME Init PROVE SyncInv
    BY Zenon
<1> USE DEF Init, NodeInit, Fresh
<1>1. PublicationInv
    BY PrimaryInitInv, Zenon
<1>2. NodeTypeOK
  <2>1. prog \in Progress /\ mem \in Progress
    BY PublicationAssumption DEF Progress, MaybeHash
  <2>2. happened \in [Events -> Nat] /\ wait \in [{"cycle", "confirm"} -> Nat]
    BY Zenon
  <2>3. njobs \in Seq(NodeJob) /\ acks \in [Hashes -> Nat]
    OBVIOUS
  <2>4. QED
    BY <2>1, <2>2, <2>3, Zenon DEF NodeTypeOK, MaybeHash
<1>3. JobsInv /\ SeenInv /\ LinkInv
    BY DEF JobsInv, InOrder, RunsLast, SeenInv, LinkInv
<1>4. AckInv /\ UnlinkInv
    BY Zenon DEF AckInv, UnlinkInv
<1>5. KnownInv /\ OrderInv
    BY DEF KnownInv, Settled, OrderInv, Sorted, Distinct, PrimaryInit
<1>6. QED
    BY <1>1, <1>2, <1>3, <1>4, <1>5, Zenon DEF SyncInv, NodeInv

LEMMA PrimaryRests ==
    ASSUME SyncInv, UNCHANGED primaryVars
    PROVE  PublicationInv' /\ Rows' = Rows /\ applied' = applied
BY PrimaryStepInv, Zenon DEF SyncInv, primaryVars, Rows

(* The jobs are as they were. *)
LEMMA JobsRest ==
    ASSUME UNCHANGED njobs
    PROVE  NodeApplied' = NodeApplied
BY Zenon DEF NodeApplied

LEMMA PreviewStep ==
    ASSUME SyncInv, Preview
    PROVE  SyncInv'
<1> USE DEF SyncInv, NodeInv
<1>1. PICK h \in Hashes : Published(h) /\ draft' = h
    BY Zenon DEF Preview
<1>2. /\ epc = "none" /\ epc' = "draft" /\ attempt' = attempt + 1
      /\ UNCHANGED <<primaryVars, cred, acks, nrole, overlay, bound, prog, mem, using, spc,
                     njobs, wait, running>>
    BY Zenon DEF Preview, primarySide
<1>3. PublicationInv' /\ Rows' = Rows /\ applied' = applied /\ NodeApplied' = NodeApplied
    BY <1>2, PrimaryRests, JobsRest, Zenon
<1>4. happened' \in [Events -> Nat] /\ \A e \in Events : Never(e)' => Never(e)
    BY HappensFacts, NothingHappens, Zenon DEF Preview, Events, NodeTypeOK
<1>5. h \in Rows
    BY <1>1, Zenon DEF Published, IsNewest
<1>6. NodeTypeOK'
    BY <1>1, <1>2, <1>4 DEF NodeTypeOK, MaybeHash
<1>7. JobsInv' /\ SeenInv'
    BY <1>1, <1>2, <1>3, <1>5, Zenon DEF JobsInv, SeenInv
<1>8. LinkInv'
    BY <1>2 DEF LinkInv, NodeTypeOK
<1>9. AckInv'
    BY <1>2, <1>3, <1>4, Zenon DEF AckInv, Events
<1>10. UnlinkInv'
    BY <1>2, SMTT(30) DEF UnlinkInv, LinkInv, Gone, NodeTypeOK
<1>11. KnownInv'
    BY <1>2, <1>4, Zenon DEF KnownInv, Events
<1>12. OrderInv'
  <2>1. AllBelow(applied, njobs, h)
    BY <1>1, PublishedAbove, Zenon DEF AllBelow, SeenInv
  <2>2. QED
    BY <1>1, <1>2, <1>3, <1>4, <2>1, Zenon DEF OrderInv, Events
<1>13. QED
    BY <1>3, <1>6, <1>7, <1>8, <1>9, <1>10, <1>11, <1>12, Zenon

LEMMA DraftExpiresStep ==
    ASSUME SyncInv, DraftExpires
    PROVE  SyncInv'
<1> USE DEF SyncInv, NodeInv
<1>1. /\ epc = "draft" /\ epc' = "none" /\ draft' = None
      /\ UNCHANGED <<primaryVars, cred, acks, nrole, overlay, attempt, bound, prog, mem, using, spc,
                     njobs, wait, running, happened>>
    BY Zenon DEF DraftExpires, primarySide
<1>2. PublicationInv' /\ Rows' = Rows /\ applied' = applied /\ NodeApplied' = NodeApplied
    BY <1>1, PrimaryRests, JobsRest, Zenon
<1>3. \A e \in Events : Never(e)' => Never(e)
    BY <1>1, NothingHappens, Zenon
<1>4. NodeTypeOK' /\ JobsInv' /\ SeenInv' /\ LinkInv'
    BY <1>1, <1>2, ZenonT(60) DEF NodeTypeOK, MaybeHash, JobsInv, SeenInv, LinkInv
<1>5. AckInv' /\ UnlinkInv'
  <2>1. AckInv'
    BY <1>1, <1>2, <1>3, Zenon DEF AckInv, Events
  <2>2. UnlinkInv'
    BY <1>1, <1>2, <1>3, Zenon DEF UnlinkInv, Gone
  <2>3. QED
    BY <2>1, <2>2, Zenon
<1>6. KnownInv' /\ OrderInv'
    BY <1>1, <1>2, <1>3, ZenonT(60) DEF KnownInv, OrderInv, Events
<1>7. QED
    BY <1>2, <1>4, <1>5, <1>6, Zenon

(* A grant moves no row: the role changes, as in FirstGrant, or not at all. *)
LEMMA GrantMoves ==
    ASSUME SyncInv, Grant
    PROVE  [FirstGrant]_primaryVars
BY Zenon DEF SyncInv, PublicationInv, PrimaryTypeOK, Roles, Grant, GrantRole, FirstGrant, primaryVars

LEMMA GrantStep ==
    ASSUME SyncInv, Grant
    PROVE  SyncInv'
<1> USE DEF SyncInv, NodeInv
<1>1. PublicationInv' /\ Rows' = Rows /\ applied' = applied
    BY GrantMoves, PrimaryStepInv, Zenon
    DEF PrimaryNext, FirstGrant, Rows, primaryVars
<1>2. /\ epc = "draft" /\ CanEnroll /\ epc' \in {"none", "draft", "granted"}
      /\ epc' # "none" => draft' = draft /\ cred'.attempt = attempt
      /\ epc' = "none" => draft' = None
      /\ cred' = cred \/ (cred.attempt # attempt /\ cred' = [attempt |-> attempt, st |-> "active"])
      /\ UNCHANGED <<acks, nrole, overlay, attempt, bound, prog, mem, using, spc, njobs, wait,
                     running>>
    BY SMTT(30) DEF Grant, GrantCred
<1>3. happened' \in [Events -> Nat] /\ \A e \in Events : Never(e)' => Never(e)
    BY HappensFacts, NothingHappens, Zenon DEF Grant, Events, NodeTypeOK
<1>4. NodeApplied' = NodeApplied
    BY <1>2, JobsRest, Zenon
<1>5. NodeTypeOK'
    BY <1>2, <1>3 DEF NodeTypeOK, MaybeHash
<1>6. JobsInv' /\ SeenInv'
    BY <1>1, <1>2, Zenon DEF JobsInv, SeenInv
<1>7. LinkInv'
    BY <1>2 DEF LinkInv, NodeTypeOK
<1>8. AckInv'
    BY <1>2, <1>3, <1>4 DEF AckInv, CanEnroll, Events
<1>9. UnlinkInv'
  <2>1. attempt \in Nat /\ bound \in Nat /\ cred.attempt \in Nat /\ cred.attempt <= attempt
    BY Zenon DEF NodeTypeOK, LinkInv
  <2>2. Gone => Gone'
    BY <1>2, <2>1, SMTT(30) DEF Gone
  <2>3. QED
    BY <1>2, <2>2, Zenon DEF UnlinkInv, CanEnroll, NodeTypeOK
<1>10. KnownInv' /\ OrderInv'
    BY <1>1, <1>2, <1>3, Zenon DEF KnownInv, OrderInv, Events
<1>11. QED
    BY <1>1, <1>5, <1>6, <1>7, <1>8, <1>9, <1>10, Zenon

LEMMA FreshProgress ==
    ASSUME NEW h \in MaybeHash
    PROVE  Fresh(h) \in Progress /\ Fresh(h).applied = h /\ Fresh(h).primary = h
           /\ ~Fresh(h).unlinked
<1>1. None \in MaybeHash /\ 0 \in 0..MaxJobs
    BY PublicationAssumption DEF MaybeHash
<1>2. QED
    BY <1>1, Zenon DEF Fresh, Progress

(* The binding is stored before the import: until the primary unlinks the  *)
(* node, only a standalone server gets here.                               *)
LEMMA BindStep ==
    ASSUME SyncInv, BindNodeSync
    PROVE  SyncInv'
<1> USE DEF SyncInv, NodeInv
<1>1. /\ epc = "granted" /\ epc' = "bound" /\ bound' = attempt /\ prog' = Fresh(draft)
      /\ UNCHANGED <<primaryVars, cred, acks, nrole, overlay, attempt, draft, mem, using, spc,
                     njobs, wait, running, happened>>
    BY Zenon DEF BindNodeSync, primarySide
<1>2. PublicationInv' /\ Rows' = Rows /\ applied' = applied /\ NodeApplied' = NodeApplied
    BY <1>1, PrimaryRests, JobsRest, Zenon
<1>3. \A e \in Events : Never(e)' => Never(e)
    BY <1>1, NothingHappens, Zenon
<1>4. /\ prog' \in Progress /\ prog'.applied = draft /\ prog'.primary = draft
      /\ ~prog'.unlinked
    BY <1>1, FreshProgress, Zenon DEF NodeTypeOK
<1>5. NodeTypeOK' /\ JobsInv' /\ SeenInv'
  <2>1. NodeTypeOK'
    BY <1>1, <1>2, <1>4, Zenon DEF NodeTypeOK
  <2>2. JobsInv'
    BY <1>1, <1>2, <1>4, ZenonT(60) DEF JobsInv
  <2>3. SeenInv'
    BY <1>1, <1>2, <1>4, Zenon DEF SeenInv
  <2>4. QED
    BY <2>1, <2>2, <2>3, Zenon
<1>6. LinkInv'
    BY <1>1, <1>4, Zenon DEF LinkInv, NodeTypeOK
<1>7. Never("unlink") => nrole = "standalone" /\ spc = "idle"
    BY <1>1, Zenon DEF AckInv, LinkInv, NodeTypeOK
<1>8. AckInv'
    BY <1>1, <1>2, <1>3, <1>4, <1>7, Zenon DEF AckInv, Events
<1>9. UnlinkInv'
  <2> SUFFICES ASSUME attempt <= 2
               PROVE  /\ nrole = "node" /\ attempt <= 1 => FALSE
                      /\ overlay \/ spc = "notify" => attempt = 2
                      /\ spc \notin {"idle", "notify"} => using = attempt
                      /\ spc = "save" /\ mem.unlinked => Gone'
    BY <1>1, <1>4, Zenon DEF UnlinkInv
  <2>1. ~(nrole = "node" /\ attempt <= 1)
    BY <1>1, Zenon DEF UnlinkInv, NodeTypeOK
  <2>2. nrole = "node" => attempt = 2
    BY <2>1 DEF NodeTypeOK
  <2>3. overlay \/ spc # "idle" => nrole = "node"
    BY Zenon DEF LinkInv, NodeTypeOK
  <2>4. spc \notin {"idle", "notify"} => bound = 2 /\ attempt = 2
    BY <1>1, <2>2, <2>3, Zenon DEF UnlinkInv, LinkInv
  <2>5. spc = "save" /\ mem.unlinked => Gone'
    BY <1>1, <2>4, Zenon DEF UnlinkInv, Gone
  <2>6. QED
    BY <2>1, <2>2, <2>3, <2>4, <2>5, Zenon DEF UnlinkInv
<1>10. KnownInv' /\ OrderInv'
    BY <1>1, <1>2, <1>3, <1>4, <1>7, Zenon DEF KnownInv, OrderInv, Events
<1>11. QED
    BY <1>2, <1>5, <1>6, <1>8, <1>9, <1>10, Zenon

LEMMA ConvertImportStep ==
    ASSUME SyncInv, ConvertImport
    PROVE  SyncInv'
<1> USE DEF SyncInv, NodeInv
<1>1. /\ epc = "bound" /\ epc' = "converting" /\ Import(draft, "confirm")
      /\ UNCHANGED <<primaryVars, cred, acks, nrole, overlay, attempt, draft, bound, prog, mem,
                     using, spc, running, happened>>
    BY Zenon DEF ConvertImport, primarySide
<1>2. PublicationInv' /\ Rows' = Rows /\ applied' = applied
    BY <1>1, PrimaryRests, Zenon
<1>3. \A e \in Events : Never(e)' => Never(e)
    BY <1>1, NothingHappens, Zenon
<1>4. draft \in Rows /\ draft \in Hashes
    BY <1>1, Zenon DEF SeenInv, Rows
<1>5. /\ njobs' \in Seq(NodeJob) /\ wait' \in [{"cycle", "confirm"} -> Nat]
      /\ Carries(njobs, njobs') /\ InOrder(njobs') /\ RunsLast(njobs', running)
      /\ wait'["confirm"] = Len(njobs') /\ Len(njobs') \in DOMAIN njobs'
      /\ wait'["cycle"] = wait["cycle"]
      /\ njobs'[Len(njobs')].hash = draft
      /\ \A i \in DOMAIN njobs' : i \in DOMAIN njobs \/ njobs'[i].hash = draft
      /\ \A i \in DOMAIN njobs' : njobs'[i].st = "queued" =>
            i = Len(njobs') \/ (i \in DOMAIN njobs /\ njobs[i].st = "queued")
  <2> HIDE DEF SyncInv, NodeInv
  <2>1. NodeTypeOK /\ JobsInv
    BY Zenon DEF SyncInv, NodeInv
  <2>2. QED
    BY <1>1, <1>4, <2>1, ImportEffect, Zenon
<1>6. NodeApplied \subseteq NodeApplied'
    BY <1>5, NodeAppliedKept, ZenonT(60)
<1>7. NodeTypeOK'
    BY <1>1, <1>5, ZenonT(60) DEF NodeTypeOK
<1>8. JobsInv'
    BY <1>1, <1>5, ZenonT(60) DEF JobsInv, Carries
<1>9. SeenInv'
    BY <1>1, <1>2, <1>4, <1>5, ZenonT(60) DEF SeenInv, Carries
<1>10. LinkInv'
    BY <1>1, ZenonT(60) DEF LinkInv
<1>11. Never("unlink") => nrole = "standalone" /\ spc = "idle"
    BY <1>1, Zenon DEF AckInv, LinkInv, NodeTypeOK
<1>12. AckInv'
    BY <1>1, <1>3, <1>6, <1>11, Zenon DEF AckInv, Events
<1>13. UnlinkInv'
    BY <1>1, Zenon DEF UnlinkInv, Gone
<1>14. KnownInv'
  <2> SUFFICES ASSUME Never("unlink"), Never("timeout"), Never("restart")
               PROVE  Settled(njobs', Len(njobs') - 1)
    BY <1>1, <1>3, <1>5, <1>11, ZenonT(60) DEF KnownInv, Events
  <2>1. Settled(njobs, Len(njobs))
    BY <1>1, <1>11, Zenon DEF KnownInv
  <2>2. \A i \in DOMAIN njobs : njobs[i].st # "queued"
    BY <2>1, SMTT(30) DEF Settled, NodeTypeOK
  <2>3. QED
    BY <1>5, <2>2, ImportSettles, ZenonT(60)
<1>15. OrderInv'
  <2> SUFFICES ASSUME Never("unlink"), Never("revert")
               PROVE  Sorted(applied, njobs') /\ AllBelow(applied, njobs', draft)
    BY <1>1, <1>2, <1>3, <1>11, ZenonT(60) DEF OrderInv, Events
  <2>1. Sorted(applied, njobs) /\ AllBelow(applied, njobs, draft)
    BY <1>1, <1>11, Zenon DEF OrderInv
  <2>2. Below(applied, draft, draft)
    BY <1>4, RowBelowItself, Zenon
  <2>3. njobs \in Seq(NodeJob)
    BY Zenon DEF NodeTypeOK
  <2>4. QED
    BY <1>5, <2>1, <2>2, <2>3, SortedImport, ZenonT(60)
<1>16. QED
    BY <1>2, <1>7, <1>8, <1>9, <1>10, <1>12, <1>13, <1>14, <1>15, Zenon

LEMMA WaitedFacts ==
    ASSUME NodeTypeOK, NEW w \in {"cycle", "confirm"}, NEW result, Waited(w, result)
    PROVE  /\ happened' \in [Events -> Nat] /\ \A e \in Events : Never(e)' => Never(e)
           /\ (result = njobs[wait[w]].st /\ result # "queued") \/ ~Never("timeout")'
           /\ result = "applied" => njobs[wait[w]].st = "applied"
BY HappensFacts, NothingHappens, Zenon DEF Waited, Events, NodeTypeOK

LEMMA ConvertDoneStep ==
    ASSUME SyncInv, ConvertDone
    PROVE  SyncInv'
<1> USE DEF SyncInv, NodeInv
<1>1. PICK result \in {"applied", "failed", "timeout"} :
         /\ Waited("confirm", result)
         /\ IF result = "applied"
            THEN nrole' = "node" /\ overlay' = FALSE /\ epc' = "none" /\ draft' = None
            ELSE epc' = "draft" /\ UNCHANGED <<nrole, overlay, draft>>
    BY Zenon DEF ConvertDone
<1>2. /\ epc = "converting"
      /\ UNCHANGED <<primaryVars, cred, acks, attempt, bound, prog, mem, using, spc, njobs, wait,
                     running>>
    BY Zenon DEF ConvertDone, primarySide
<1>3. PublicationInv' /\ Rows' = Rows /\ applied' = applied /\ NodeApplied' = NodeApplied
    BY <1>2, PrimaryRests, JobsRest, Zenon
<1>4. /\ happened' \in [Events -> Nat] /\ \A e \in Events : Never(e)' => Never(e)
      /\ (result = njobs[wait["confirm"]].st /\ result # "queued") \/ ~Never("timeout")'
      /\ result = "applied" => njobs[wait["confirm"]].st = "applied"
    BY <1>1, WaitedFacts, Zenon
<1>5. wait["confirm"] \in DOMAIN njobs /\ njobs[wait["confirm"]].hash = draft
    BY <1>2, Zenon DEF JobsInv
<1>6. NodeTypeOK' /\ JobsInv' /\ SeenInv'
  <2>1. NodeTypeOK'
    BY <1>1, <1>2, <1>3, <1>4, ZenonT(60) DEF NodeTypeOK, MaybeHash
  <2>2. JobsInv'
    BY <1>1, <1>2, <1>3, <1>4, ZenonT(60) DEF JobsInv
  <2>3. SeenInv'
    BY <1>1, <1>2, <1>3, <1>4, Zenon DEF SeenInv
  <2>4. QED
    BY <2>1, <2>2, <2>3, Zenon
<1>7. LinkInv'
    BY <1>1, <1>2, Zenon DEF LinkInv
<1>8. Never("unlink") => nrole = "standalone" /\ spc = "idle" /\ prog.applied = draft
                         /\ prog.primary = draft
    BY <1>2, Zenon DEF AckInv, LinkInv, NodeTypeOK
<1>9. AckInv'
  <2>1. result = "applied" => draft \in NodeApplied
    BY <1>4, <1>5, AppliedJob, Zenon
  <2>2. QED
    BY <1>1, <1>2, <1>3, <1>4, <1>8, <2>1, Zenon DEF AckInv, Events
<1>10. UnlinkInv'
    BY <1>1, <1>2, Zenon DEF UnlinkInv, Gone, LinkInv
<1>11. KnownInv'
  <2> SUFFICES ASSUME Never("unlink"), Never("timeout"), Never("restart"), Never("timeout")'
               PROVE  /\ Settled(njobs, Len(njobs))
                      /\ result = "applied" => running = draft
    BY <1>1, <1>2, <1>4, <1>8, Zenon DEF KnownInv, Events
  <2>1. wait["confirm"] = Len(njobs) /\ Settled(njobs, Len(njobs) - 1)
    BY <1>2, Zenon DEF KnownInv
  <2>2. njobs[Len(njobs)].st # "queued"
    BY <1>4, <2>1, Zenon
  <2>3. Settled(njobs, Len(njobs))
    <3> SUFFICES ASSUME NEW i \in DOMAIN njobs PROVE njobs[i].st # "queued"
      BY Zenon DEF Settled
    <3>1. i = Len(njobs) \/ i <= Len(njobs) - 1
      BY SMTT(30) DEF NodeTypeOK
    <3>2. QED
      BY <2>1, <2>2, <3>1, Zenon DEF Settled
  <2>4. result = "applied" => running = draft
    <3>1. result = "applied" => IsLast(njobs, Len(njobs))
      BY <1>4, <2>1, SMTT(30) DEF IsLast, NodeTypeOK
    <3>2. QED
      BY <1>5, <2>1, <3>1, RunsTheLast, Zenon DEF JobsInv, NodeTypeOK
  <2>5. QED
    BY <2>3, <2>4, Zenon
<1>12. OrderInv'
    BY <1>1, <1>2, <1>3, <1>4, <1>8, ZenonT(60) DEF OrderInv, Events
<1>13. QED
    BY <1>3, <1>6, <1>7, <1>9, <1>10, <1>11, <1>12, Zenon

LEMMA UnlinkStep ==
    ASSUME SyncInv, Unlink
    PROVE  SyncInv'
<1> USE DEF SyncInv, NodeInv
<1>1. /\ cred.st = "active" /\ cred' = [cred EXCEPT !.st = "unlinked"] /\ Happens("unlink")
      /\ UNCHANGED <<primaryVars, acks, nrole, overlay, attempt, epc, draft, bound, prog, mem,
                     using, spc, njobs, wait, running>>
    BY Zenon DEF Unlink, enrollVars
<1>2. PublicationInv' /\ Rows' = Rows /\ applied' = applied
    BY <1>1, PrimaryRests, Zenon
<1>3. /\ happened' \in [Events -> Nat] /\ ~Never("unlink")'
      /\ \A e \in Events : Never(e)' => Never(e)
    BY <1>1, HappensFacts, Zenon DEF Events
<1>4. /\ cred' \in [attempt : Nat, st : {"none", "active", "unlinked"}]
      /\ cred'.attempt = cred.attempt /\ cred'.st = "unlinked"
    BY <1>1, Zenon DEF NodeTypeOK
<1>5. NodeTypeOK' /\ JobsInv' /\ SeenInv' /\ LinkInv'
    BY <1>1, <1>2, <1>3, <1>4 DEF NodeTypeOK, JobsInv, SeenInv, LinkInv
<1>6. AckInv' /\ KnownInv' /\ OrderInv'
    BY <1>2, <1>3, Zenon DEF AckInv, KnownInv, OrderInv, Events
<1>7. UnlinkInv'
    BY <1>1, <1>4, Zenon DEF UnlinkInv, Gone
<1>8. QED
    BY <1>2, <1>5, <1>6, <1>7, Zenon

LEMMA LoadStep ==
    ASSUME SyncInv, Load
    PROVE  SyncInv'
<1> USE DEF SyncInv, NodeInv
<1>1. /\ spc = "idle" /\ nrole = "node" /\ mem' = prog /\ using' = bound
      /\ spc' = IF prog.unlinked THEN "notify" ELSE "fetch"
      /\ UNCHANGED <<primaryVars, cred, acks, nrole, overlay, attempt, epc, draft, bound, prog,
                     njobs, wait, running, happened>>
    BY Zenon DEF Load, primarySide, enrollVars
<1>2. PublicationInv' /\ Rows' = Rows /\ applied' = applied /\ NodeApplied' = NodeApplied
    BY <1>1, PrimaryRests, JobsRest, Zenon
<1>3. \A e \in Events : Never(e)' => Never(e)
    BY <1>1, NothingHappens, Zenon
<1>4. NodeTypeOK' /\ JobsInv' /\ SeenInv' /\ LinkInv'
  <2>1. NodeTypeOK'
    BY <1>1, <1>2, Zenon DEF NodeTypeOK
  <2>2. JobsInv'
    BY <1>1, <1>2, ZenonT(60) DEF JobsInv
  <2>3. SeenInv'
    BY <1>1, <1>2, ZenonT(60) DEF SeenInv
  <2>4. LinkInv'
    BY <1>1, <1>2, Zenon DEF LinkInv
  <2>5. QED
    BY <2>1, <2>2, <2>3, <2>4, Zenon
<1>5. AckInv' /\ UnlinkInv'
  <2>1. AckInv'
    BY <1>1, <1>2, <1>3, Zenon DEF AckInv, Events
  <2>2. UnlinkInv'
    BY <1>1, <1>2, <1>3, Zenon DEF UnlinkInv, Gone
  <2>3. QED
    BY <2>1, <2>2, Zenon
<1>6. KnownInv' /\ OrderInv'
    BY <1>1, <1>2, <1>3, ZenonT(60) DEF AckInv, KnownInv, OrderInv, Events
<1>7. QED
    BY <1>2, <1>4, <1>5, <1>6, Zenon

(* The overlay is for an unlinked node. *)
LEMMA NotifyStep ==
    ASSUME SyncInv, NotifyUnlinked
    PROVE  SyncInv'
<1> USE DEF SyncInv, NodeInv
<1>1. /\ spc = "notify" /\ spc' = "idle" /\ overlay' = TRUE
      /\ UNCHANGED <<primaryVars, cred, acks, nrole, attempt, epc, draft, bound, prog, mem, using,
                     njobs, wait, running, happened>>
    BY Zenon DEF NotifyUnlinked, Cycle, primarySide, enrollVars
<1>2. PublicationInv' /\ Rows' = Rows /\ applied' = applied
    BY <1>1, PrimaryRests, Zenon
<1>3. \A e \in Events : Never(e)' => Never(e)
    BY <1>1, NothingHappens, Zenon
<1>4. NodeTypeOK' /\ JobsInv' /\ SeenInv' /\ LinkInv'
    BY <1>1, <1>2, ZenonT(60) DEF NodeTypeOK, JobsInv, SeenInv, LinkInv
<1>5. ~Never("unlink")
    BY <1>1, ZenonT(60) DEF AckInv, LinkInv
<1>6. AckInv' /\ KnownInv' /\ OrderInv'
  <2>1. AckInv'
    BY <1>2, <1>3, <1>5, Zenon DEF AckInv, Events
  <2>2. KnownInv'
    BY <1>2, <1>3, <1>5, Zenon DEF KnownInv, Events
  <2>3. OrderInv'
    BY <1>2, <1>3, <1>5, Zenon DEF OrderInv, Events
  <2>4. QED
    BY <2>1, <2>2, <2>3, Zenon
<1>7. UnlinkInv'
    BY <1>1, Zenon DEF UnlinkInv, Gone
<1>8. QED
    BY <1>2, <1>4, <1>6, <1>7, Zenon

LEMMA FetchStep ==
    ASSUME SyncInv, Fetch
    PROVE  SyncInv'
<1> USE DEF SyncInv, NodeInv
<1>1. /\ spc = "fetch"
      /\ UNCHANGED <<primaryVars, cred, acks, nrole, overlay, attempt, epc, draft, bound, prog,
                     using, njobs, wait, running, happened>>
    BY Zenon DEF Fetch, primarySide, enrollVars
<1>2. PublicationInv' /\ Rows' = Rows /\ applied' = applied /\ NodeApplied' = NodeApplied
    BY <1>1, PrimaryRests, JobsRest, Zenon
<1>3. \A e \in Events : Never(e)' => Never(e)
    BY <1>1, NothingHappens, Zenon
<1>4. nrole = "node" /\ ~prog.unlinked /\ ~mem.unlinked /\ mem \in Progress
    BY <1>1, Zenon DEF LinkInv, NodeTypeOK
<1>5. ASSUME NEW h \in Hashes, Served(h), handleSnapshotResponse(h)
      PROVE  SyncInv'
  <2>1. Published(h) /\ h \in Rows /\ snap[h] \in Row
    BY <1>5, RowFacts, Zenon DEF Served, Answer, Published, IsNewest, PublicationInv
  <2>2. /\ mem' \in Progress /\ mem'.primary = h /\ mem'.applied = mem.applied /\ ~mem'.unlinked
        /\ spc' \in {"offer", "ack", "save"}
    <3>1. snap[h].job \in 0..MaxJobs /\ h \in MaybeHash
      BY <2>1, PublicationAssumption DEF Row, Jobs, MaybeHash
    <3>2. mem' = [mem EXCEPT !.primary = h, !.at = snap[h].job]
      BY <1>5, Zenon DEF handleSnapshotResponse
    <3>3. spc' \in {"offer", "ack", "save"}
      BY <1>5, Zenon DEF handleSnapshotResponse, AckOrSave
    <3>4. QED
      BY <1>4, <3>1, <3>2, <3>3, Zenon DEF Progress
  <2>3. NodeTypeOK' /\ JobsInv' /\ SeenInv' /\ LinkInv'
    <3>1. NodeTypeOK'
      BY <1>1, <1>2, <1>4, <2>1, <2>2, ZenonT(60) DEF NodeTypeOK
    <3>2. JobsInv'
      BY <1>1, <1>2, <1>4, <2>1, <2>2, ZenonT(60) DEF JobsInv
    <3>3. SeenInv'
      BY <1>1, <1>2, <1>4, <2>1, <2>2, ZenonT(60) DEF SeenInv
    <3>4. LinkInv'
      BY <1>1, <1>2, <1>4, <2>1, <2>2, Zenon DEF LinkInv
    <3>5. QED
      BY <3>1, <3>2, <3>3, <3>4, Zenon
  <2>4. AckInv' /\ UnlinkInv'
    <3>1. AckInv'
      BY <1>1, <1>2, <1>3, <1>4, <2>2, ZenonT(60) DEF AckInv, Events
    <3>2. UnlinkInv'
      BY <1>1, <1>2, <1>3, <1>4, <2>2, Zenon DEF UnlinkInv, Gone
    <3>3. QED
      BY <3>1, <3>2, Zenon
  <2>5. KnownInv'
    BY <1>1, <1>3, <2>2, ZenonT(60) DEF KnownInv, Events
  <2>6. AllBelow(applied, njobs, h)
    BY <2>1, PublishedAbove, Zenon DEF AllBelow, SeenInv
  <2>7. OrderInv'
    BY <1>1, <1>2, <1>3, <2>2, <2>6, Zenon DEF OrderInv, Events
  <2>8. QED
    BY <1>2, <2>3, <2>4, <2>5, <2>7, Zenon
<1>6. ASSUME gonePrimaryError
      PROVE  SyncInv'
  <2>1. /\ mem' \in Progress /\ mem'.primary = mem.primary /\ mem'.applied = mem.applied
        /\ mem'.unlinked = SignalsUnlinked /\ spc' = "save"
    BY <1>4, <1>6, Zenon DEF gonePrimaryError, Progress, SignalsUnlinked
  <2>2. NodeTypeOK' /\ JobsInv' /\ SeenInv' /\ LinkInv'
    BY <1>1, <1>2, <1>4, <2>1, ZenonT(60) DEF NodeTypeOK, JobsInv, SeenInv, LinkInv
  <2>3. AckInv' /\ UnlinkInv'
    BY <1>1, <1>2, <1>3, <1>4, <2>1, ZenonT(60) DEF AckInv, UnlinkInv, Gone, SignalsUnlinked, Events
  <2>4. KnownInv' /\ OrderInv'
    BY <1>1, <1>2, <1>3, <2>1, ZenonT(60) DEF KnownInv, OrderInv, Events
  <2>5. QED
    BY <1>2, <2>2, <2>3, <2>4, Zenon
<1>7. QED
    BY <1>5, <1>6, Zenon DEF Fetch

LEMMA RequestLostStep ==
    ASSUME SyncInv, RequestLost
    PROVE  SyncInv'
<1> USE DEF SyncInv, NodeInv
<1>1. /\ spc \in {"fetch", "ack"} /\ spc' = "save" /\ Happens("lost")
      /\ UNCHANGED <<primaryVars, cred, acks, nrole, overlay, attempt, epc, draft, bound, prog, mem,
                     using, njobs, wait, running>>
    BY Zenon DEF RequestLost, Cycle, primarySide, enrollVars
<1>2. PublicationInv' /\ Rows' = Rows /\ applied' = applied /\ NodeApplied' = NodeApplied
    BY <1>1, PrimaryRests, JobsRest, Zenon
<1>3. happened' \in [Events -> Nat] /\ \A e \in Events : Never(e)' => Never(e)
    BY <1>1, HappensFacts, Zenon DEF Events
<1>4. NodeTypeOK' /\ JobsInv' /\ SeenInv' /\ LinkInv'
    BY <1>1, <1>2, <1>3, ZenonT(60) DEF NodeTypeOK, JobsInv, SeenInv, LinkInv
<1>5. AckInv' /\ UnlinkInv'
    BY <1>1, <1>2, <1>3, ZenonT(60) DEF AckInv, UnlinkInv, LinkInv, Gone, Events
<1>6. KnownInv' /\ OrderInv'
    BY <1>1, <1>2, <1>3, Zenon DEF KnownInv, OrderInv, Events
<1>7. QED
    BY <1>2, <1>4, <1>5, <1>6, Zenon

LEMMA SaveOfferStep ==
    ASSUME SyncInv, SaveOffer
    PROVE  SyncInv'
<1> USE DEF SyncInv, NodeInv
<1>1. /\ spc = "offer" /\ spc' = "import" /\ prog' = mem
      /\ UNCHANGED <<primaryVars, cred, acks, nrole, overlay, attempt, epc, draft, bound, mem,
                     using, njobs, wait, running, happened>>
    BY Zenon DEF SaveOffer, Cycle, primarySide, enrollVars
<1>2. PublicationInv' /\ Rows' = Rows /\ applied' = applied /\ NodeApplied' = NodeApplied
    BY <1>1, PrimaryRests, JobsRest, Zenon
<1>3. \A e \in Events : Never(e)' => Never(e)
    BY <1>1, NothingHappens, Zenon
<1>4. nrole = "node" /\ ~prog.unlinked /\ ~mem.unlinked
    BY <1>1, Zenon DEF LinkInv, NodeTypeOK
<1>5. NodeTypeOK' /\ JobsInv' /\ SeenInv' /\ LinkInv'
    BY <1>1, <1>2, <1>4, ZenonT(60) DEF NodeTypeOK, JobsInv, SeenInv, LinkInv
<1>6. AckInv' /\ UnlinkInv'
    BY <1>1, <1>2, <1>3, <1>4, ZenonT(60) DEF AckInv, UnlinkInv, Gone, Events
<1>7. KnownInv' /\ OrderInv'
    BY <1>1, <1>2, <1>3, <1>4, Zenon DEF KnownInv, OrderInv, Events
<1>8. QED
    BY <1>2, <1>5, <1>6, <1>7, Zenon

LEMMA ResyncStep ==
    ASSUME SyncInv, Resync
    PROVE  SyncInv'
<1> USE DEF SyncInv, NodeInv
<1>1. /\ spc = "import" /\ spc' = "apply" /\ Import(mem.primary, "cycle")
      /\ UNCHANGED <<primaryVars, cred, acks, nrole, overlay, attempt, epc, draft, bound, prog, mem,
                     using, running, happened>>
    BY Zenon DEF Resync, Cycle, primarySide, enrollVars
<1>2. PublicationInv' /\ Rows' = Rows /\ applied' = applied
    BY <1>1, PrimaryRests, Zenon
<1>3. \A e \in Events : Never(e)' => Never(e)
    BY <1>1, NothingHappens, Zenon
<1>4. PICK h : h = mem.primary
    BY Zenon
<1>5. h \in Rows /\ h \in Hashes /\ Import(h, "cycle")
    BY <1>1, <1>4, Zenon DEF SeenInv, Rows
<1>6. /\ njobs' \in Seq(NodeJob) /\ wait' \in [{"cycle", "confirm"} -> Nat]
      /\ Carries(njobs, njobs') /\ InOrder(njobs') /\ RunsLast(njobs', running)
      /\ wait'["cycle"] = Len(njobs') /\ Len(njobs') \in DOMAIN njobs'
      /\ wait'["confirm"] = wait["confirm"]
      /\ njobs'[Len(njobs')].hash = h
      /\ \A i \in DOMAIN njobs' : i \in DOMAIN njobs \/ njobs'[i].hash = h
      /\ \A i \in DOMAIN njobs' : njobs'[i].st = "queued" =>
            i = Len(njobs') \/ (i \in DOMAIN njobs /\ njobs[i].st = "queued")
      /\ njobs'[Len(njobs')].st = "applied" => running = h
  <2> HIDE DEF SyncInv, NodeInv
  <2>1. NodeTypeOK /\ JobsInv
    BY Zenon DEF SyncInv, NodeInv
  <2>2. QED
    BY <1>5, <2>1, ImportEffect, ZenonT(60)
<1>7. NodeApplied \subseteq NodeApplied'
    BY <1>6, NodeAppliedKept, Zenon
<1>8. NodeTypeOK'
    BY <1>1, <1>6, ZenonT(60) DEF NodeTypeOK
<1>9. JobsInv'
    BY <1>1, <1>4, <1>6, ZenonT(60) DEF JobsInv, Carries
<1>10. SeenInv'
    BY <1>1, <1>2, <1>4, <1>5, <1>6, ZenonT(60) DEF SeenInv, Carries
<1>11. LinkInv' /\ UnlinkInv'
    BY <1>1, Zenon DEF LinkInv, UnlinkInv, Gone
<1>12. AckInv'
    BY <1>1, <1>3, <1>7, ZenonT(60) DEF AckInv, Events
<1>13. Never("unlink") => nrole = "node" /\ epc \in {"none", "draft"}
    BY <1>1, ZenonT(60) DEF AckInv, LinkInv, NodeTypeOK
<1>14. KnownInv'
  <2> SUFFICES ASSUME Never("unlink"), Never("timeout"), Never("restart")
               PROVE  /\ Settled(njobs', Len(njobs') - 1)
                      /\ running = IF njobs'[Len(njobs')].st = "applied"
                                   THEN mem.primary ELSE mem.applied
    BY <1>1, <1>3, <1>6, <1>13, ZenonT(60) DEF KnownInv, Events
  <2>1. Settled(njobs, Len(njobs)) /\ running = mem.applied
    BY <1>1, <1>13, ZenonT(60) DEF KnownInv
  <2>2. \A i \in DOMAIN njobs : njobs[i].st # "queued"
    BY <2>1, SMTT(30) DEF Settled, NodeTypeOK
  <2>3. Settled(njobs', Len(njobs') - 1)
    BY <1>6, <2>2, ImportSettles, ZenonT(60)
  <2>4. QED
    BY <1>4, <1>6, <2>1, <2>3, ZenonT(60)
<1>15. OrderInv'
  <2> SUFFICES ASSUME Never("unlink"), Never("revert")
               PROVE  Sorted(applied, njobs') /\ AllBelow(applied, njobs', h)
    BY <1>1, <1>2, <1>3, <1>4, <1>13, ZenonT(60) DEF OrderInv, Events
  <2>1. Sorted(applied, njobs) /\ AllBelow(applied, njobs, h)
    BY <1>1, <1>4, <1>13, Zenon DEF OrderInv
  <2>2. Below(applied, h, h)
    BY <1>5, RowBelowItself, Zenon
  <2>3. njobs \in Seq(NodeJob)
    BY Zenon DEF NodeTypeOK
  <2>4. QED
    BY <1>6, <2>1, <2>2, <2>3, SortedImport, ZenonT(60)
<1>16. QED
    BY <1>2, <1>8, <1>9, <1>10, <1>11, <1>12, <1>14, <1>15, Zenon

LEMMA ResyncDoneStep ==
    ASSUME SyncInv, ResyncDone
    PROVE  SyncInv'
<1> USE DEF SyncInv, NodeInv
<1>1. PICK result \in {"applied", "failed", "timeout"} :
         /\ Waited("cycle", result)
         /\ mem' = IF result = "applied" THEN [mem EXCEPT !.applied = mem.primary] ELSE mem
         /\ spc' = IF result = "applied" THEN AckOrSave(mem') ELSE "save"
    BY Zenon DEF ResyncDone
<1>2. /\ spc = "apply"
      /\ UNCHANGED <<primaryVars, cred, acks, nrole, overlay, attempt, epc, draft, bound, prog,
                     using, njobs, wait, running>>
    BY Zenon DEF ResyncDone, primarySide, enrollVars
<1>3. PublicationInv' /\ Rows' = Rows /\ applied' = applied /\ NodeApplied' = NodeApplied
    BY <1>2, PrimaryRests, JobsRest, Zenon
<1>4. /\ happened' \in [Events -> Nat] /\ \A e \in Events : Never(e)' => Never(e)
      /\ (result = njobs[wait["cycle"]].st /\ result # "queued") \/ ~Never("timeout")'
      /\ result = "applied" => njobs[wait["cycle"]].st = "applied"
    BY <1>1, WaitedFacts, Zenon
<1>5. wait["cycle"] \in DOMAIN njobs /\ njobs[wait["cycle"]].hash = mem.primary
    BY <1>2, ZenonT(60) DEF JobsInv
<1>6. nrole = "node" /\ ~prog.unlinked /\ ~mem.unlinked /\ mem \in Progress
    BY <1>2, ZenonT(60) DEF LinkInv, NodeTypeOK
<1>7. /\ mem' \in Progress /\ mem'.primary = mem.primary /\ ~mem'.unlinked
      /\ mem'.applied = IF result = "applied" THEN mem.primary ELSE mem.applied
      /\ spc' \in {"ack", "save"}
    BY <1>1, <1>6, Zenon DEF Progress, AckOrSave
<1>8. NodeTypeOK' /\ JobsInv' /\ SeenInv' /\ LinkInv'
  <2>1. NodeTypeOK'
    BY <1>2, <1>3, <1>4, <1>6, <1>7, Zenon DEF NodeTypeOK
  <2>2. JobsInv'
    BY <1>2, <1>3, <1>4, <1>6, <1>7, ZenonT(60) DEF JobsInv
  <2>3. SeenInv'
    BY <1>2, <1>3, <1>4, <1>6, <1>7, ZenonT(60) DEF SeenInv
  <2>4. LinkInv'
    BY <1>2, <1>3, <1>4, <1>6, <1>7, Zenon DEF LinkInv
  <2>5. QED
    BY <2>1, <2>2, <2>3, <2>4, Zenon
<1>9. AckInv'
  <2>1. result = "applied" => mem.primary \in NodeApplied
    BY <1>4, <1>5, AppliedJob, Zenon
  <2>2. QED
    BY <1>2, <1>3, <1>4, <1>6, <1>7, <2>1, ZenonT(60) DEF AckInv, Events
<1>10. UnlinkInv'
    BY <1>2, <1>6, <1>7, ZenonT(60) DEF UnlinkInv, Gone
<1>11. KnownInv'
  <2> SUFFICES ASSUME Never("unlink"), Never("timeout"), Never("restart"), Never("timeout")'
               PROVE  Settled(njobs, Len(njobs)) /\ running = mem'.applied
    BY <1>2, <1>4, <1>6, <1>7, ZenonT(60) DEF KnownInv, Events
  <2>1. /\ wait["cycle"] = Len(njobs) /\ Settled(njobs, Len(njobs) - 1)
        /\ running = IF njobs[Len(njobs)].st = "applied" THEN mem.primary ELSE mem.applied
    BY <1>2, Zenon DEF KnownInv
  <2>2. result = njobs[Len(njobs)].st /\ result # "queued"
    BY <1>4, <2>1, Zenon
  <2>3. Settled(njobs, Len(njobs))
    <3> SUFFICES ASSUME NEW i \in DOMAIN njobs PROVE njobs[i].st # "queued"
      BY Zenon DEF Settled
    <3>1. i = Len(njobs) \/ i <= Len(njobs) - 1
      BY DEF NodeTypeOK
    <3>2. QED
      BY <2>1, <2>2, <3>1, Zenon DEF Settled
  <2>4. QED
    BY <1>7, <2>1, <2>2, <2>3, Zenon
<1>12. OrderInv'
    BY <1>2, <1>3, <1>4, <1>7, Zenon DEF OrderInv, Events
<1>13. QED
    BY <1>3, <1>8, <1>9, <1>10, <1>11, <1>12, Zenon

(* The cycle goes on to the write, or learns what the read says. *)
LEMMA ReadForAcknowledgementStep ==
    ASSUME SyncInv, ReadForAcknowledgement
    PROVE  SyncInv'
<1> USE DEF SyncInv, NodeInv
<1>1. /\ spc = "ack" /\ spc' \in {"record", "save"}
      /\ spc' = "record" => mem' = mem
      /\ mem' = mem \/ mem' = [mem EXCEPT !.unlinked = SignalsUnlinked]
      /\ UNCHANGED <<primaryVars, cred, acks, nrole, overlay, attempt, epc, draft, bound, prog, using,
                     njobs, wait, running, happened>>
    BY Zenon DEF ReadForAcknowledgement, primarySide, enrollVars
<1>2. PublicationInv' /\ Rows' = Rows /\ applied' = applied /\ NodeApplied' = NodeApplied
    BY <1>1, PrimaryRests, JobsRest, Zenon
<1>3. \A e \in Events : Never(e)' => Never(e)
    BY <1>1, NothingHappens, Zenon
<1>4. nrole = "node" /\ ~prog.unlinked /\ ~mem.unlinked /\ mem \in Progress
    BY <1>1, Zenon DEF LinkInv, NodeTypeOK
<1>5. /\ mem' \in Progress /\ mem'.primary = mem.primary /\ mem'.applied = mem.applied
      /\ mem'.unlinked => SignalsUnlinked /\ spc' = "save"
  <2>1. SignalsUnlinked \in BOOLEAN
    BY Zenon DEF SignalsUnlinked
  <2>2. CASE mem' = mem
    BY <1>4, <2>2, Zenon
  <2>3. CASE mem' = [mem EXCEPT !.unlinked = SignalsUnlinked]
    BY <1>1, <1>4, <2>1, <2>3, Zenon DEF Progress
  <2>4. QED
    BY <1>1, <2>2, <2>3, Zenon
<1>6. NodeTypeOK' /\ JobsInv' /\ SeenInv' /\ LinkInv'
    BY <1>1, <1>2, <1>4, <1>5, ZenonT(60) DEF NodeTypeOK, JobsInv, SeenInv, LinkInv
<1>7. AckInv' /\ UnlinkInv'
    BY <1>1, <1>2, <1>3, <1>4, <1>5, ZenonT(60) DEF AckInv, UnlinkInv, Gone, SignalsUnlinked, Events
<1>8. KnownInv' /\ OrderInv'
    BY <1>1, <1>2, <1>3, <1>5, ZenonT(60) DEF KnownInv, OrderInv, Events
<1>9. QED
    BY <1>2, <1>6, <1>7, <1>8, Zenon

(* Only what the cycle holds as applied is recorded. *)
LEMMA AcknowledgeStep ==
    ASSUME SyncInv, Acknowledge
    PROVE  SyncInv'
<1> USE DEF SyncInv, NodeInv
<1>1. /\ spc = "record" /\ spc' = "save" /\ AcknowledgeSnapshot
      /\ UNCHANGED <<primaryVars, cred, nrole, overlay, attempt, epc, draft, bound, prog, using,
                     njobs, wait, running>>
    BY Zenon DEF Acknowledge, Cycle, enrollVars
<1>2. PublicationInv' /\ Rows' = Rows /\ applied' = applied /\ NodeApplied' = NodeApplied
    BY <1>1, PrimaryRests, JobsRest, Zenon
<1>3. happened' \in [Events -> Nat] /\ \A e \in Events : Never(e)' => Never(e)
    BY <1>1, HappensFacts, NothingHappens, Zenon DEF AcknowledgeSnapshot, Events, NodeTypeOK
<1>4. nrole = "node" /\ ~prog.unlinked /\ ~mem.unlinked /\ mem \in Progress
    BY <1>1, Zenon DEF LinkInv, NodeTypeOK
<1>5. acks' = acks \/ acks' = [acks EXCEPT ![mem.applied] = mem.at]
    BY <1>1, Zenon DEF AcknowledgeSnapshot, RecordSnapshotAcknowledgement
<1>6. acks' \in [Hashes -> Nat] /\ \A h \in Hashes : h # mem.applied => acks'[h] = acks[h]
  <2>1. mem.at \in Nat
    BY <1>4, PublicationAssumption DEF Progress
  <2>2. QED
    BY <1>5, <2>1, Zenon DEF NodeTypeOK
<1>7. /\ mem' \in Progress /\ mem'.primary = mem.primary /\ mem'.applied = mem.applied
      /\ ~mem'.unlinked
  <2>1. mem' = mem \/ mem' = [mem EXCEPT !.acked = mem.applied]
    BY <1>1, Zenon DEF AcknowledgeSnapshot
  <2>2. mem.applied \in MaybeHash
    BY <1>4, Zenon DEF Progress
  <2>3. CASE mem' = mem
    BY <1>4, <2>3, Zenon
  <2>4. CASE mem' = [mem EXCEPT !.acked = mem.applied]
    BY <1>4, <2>2, <2>4, Zenon DEF Progress
  <2>5. QED
    BY <2>1, <2>3, <2>4, Zenon
<1>8. NodeTypeOK' /\ JobsInv' /\ SeenInv' /\ LinkInv'
    BY <1>1, <1>2, <1>3, <1>4, <1>6, <1>7, ZenonT(60) DEF NodeTypeOK, JobsInv, SeenInv, LinkInv
<1>9. AckInv' /\ UnlinkInv'
    BY <1>1, <1>2, <1>3, <1>4, <1>6, <1>7, ZenonT(60)
    DEF AckInv, UnlinkInv, Gone, SignalsUnlinked, Events
<1>10. KnownInv' /\ OrderInv'
    BY <1>1, <1>2, <1>3, <1>7, Zenon DEF KnownInv, OrderInv, Events
<1>11. QED
    BY <1>2, <1>8, <1>9, <1>10, Zenon

LEMMA SaveStep ==
    ASSUME SyncInv, Save
    PROVE  SyncInv'
<1> USE DEF SyncInv, NodeInv
<1>1. /\ spc = "save" /\ prog' = mem /\ spc' = IF mem.unlinked THEN "notify" ELSE "idle"
      /\ UNCHANGED <<primaryVars, cred, acks, nrole, overlay, attempt, epc, draft, bound, mem,
                     using, njobs, wait, running, happened>>
    BY Zenon DEF Save, primarySide, enrollVars
<1>2. PublicationInv' /\ Rows' = Rows /\ applied' = applied /\ NodeApplied' = NodeApplied
    BY <1>1, PrimaryRests, JobsRest, Zenon
<1>3. \A e \in Events : Never(e)' => Never(e)
    BY <1>1, NothingHappens, Zenon
<1>4. nrole = "node" /\ ~prog.unlinked
    BY <1>1, Zenon DEF LinkInv, NodeTypeOK
<1>5. NodeTypeOK' /\ JobsInv' /\ SeenInv' /\ LinkInv'
    BY <1>1, <1>2, <1>4, ZenonT(60) DEF NodeTypeOK, JobsInv, SeenInv, LinkInv
<1>6. AckInv' /\ UnlinkInv'
    BY <1>1, <1>2, <1>3, <1>4, ZenonT(60) DEF AckInv, UnlinkInv, Gone, Events
<1>7. KnownInv' /\ OrderInv'
    BY <1>1, <1>2, <1>3, <1>4, ZenonT(60) DEF AckInv, KnownInv, OrderInv, Events
<1>8. QED
    BY <1>2, <1>5, <1>6, <1>7, Zenon

LEMMA NodeRestartStep ==
    ASSUME SyncInv, NodeRestart
    PROVE  SyncInv'
<1> USE DEF SyncInv, NodeInv
<1>1. /\ spc' = "idle" /\ epc' = "none" /\ draft' = None /\ overlay' = FALSE
      /\ Happens("restart")
      /\ UNCHANGED <<primaryVars, cred, acks, nrole, attempt, bound, prog, mem, using, njobs, wait,
                     running>>
    BY Zenon DEF NodeRestart, primarySide
<1>2. PublicationInv' /\ Rows' = Rows /\ applied' = applied /\ NodeApplied' = NodeApplied
    BY <1>1, PrimaryRests, JobsRest, Zenon
<1>3. /\ happened' \in [Events -> Nat] /\ ~Never("restart")'
      /\ \A e \in Events : Never(e)' => Never(e)
    BY <1>1, HappensFacts, Zenon DEF Events
<1>4. NodeTypeOK' /\ JobsInv' /\ SeenInv' /\ LinkInv'
    BY <1>1, <1>2, <1>3, ZenonT(60) DEF NodeTypeOK, MaybeHash, JobsInv, SeenInv, LinkInv
<1>5. AckInv' /\ UnlinkInv'
    BY <1>1, <1>2, <1>3, ZenonT(60) DEF AckInv, UnlinkInv, Gone, Events
<1>6. KnownInv' /\ OrderInv'
    BY <1>1, <1>2, <1>3, Zenon DEF KnownInv, OrderInv, Events
<1>7. QED
    BY <1>2, <1>4, <1>5, <1>6, Zenon

(* The worker ends a job, one way or the other. *)
LEMMA WorkerStep ==
    ASSUME SyncInv, WorkerApplies \/ WorkerFails
    PROVE  SyncInv'
<1> USE DEF SyncInv, NodeInv
<1>1. PICK i \in DOMAIN njobs, st \in {"applied", "failed"} :
         /\ NextJob(i) /\ njobs' = Ended(njobs, i, st)
         /\ running' = IF st = "applied" THEN njobs[i].hash ELSE running
         /\ UNCHANGED happened \/ Happens("fail")
    BY Zenon DEF WorkerApplies, WorkerFails, Ended
<1>2. UNCHANGED <<primaryVars, cred, acks, nrole, overlay, attempt, epc, draft, bound, prog, mem,
                  using, spc, wait>>
    BY Zenon DEF WorkerApplies, WorkerFails, primarySide, enrollVars
<1>3. PublicationInv' /\ Rows' = Rows /\ applied' = applied
    BY <1>2, PrimaryRests, Zenon
<1>4. happened' \in [Events -> Nat] /\ \A e \in Events : Never(e)' => Never(e)
    BY <1>1, HappensFacts, NothingHappens, Zenon DEF Events, NodeTypeOK
<1>5. /\ njobs' \in Seq(NodeJob) /\ running' \in MaybeHash
      /\ DOMAIN njobs' = DOMAIN njobs /\ Len(njobs') = Len(njobs)
      /\ Carries(njobs, njobs') /\ InOrder(njobs') /\ RunsLast(njobs', running')
      /\ \A k \in DOMAIN njobs : k # i => njobs'[k] = njobs[k]
      /\ njobs'[i].st = st /\ njobs[i].st = "queued"
  <2> HIDE DEF SyncInv, NodeInv
  <2>1. NodeTypeOK /\ JobsInv
    BY Zenon DEF SyncInv, NodeInv
  <2>2. QED
    BY <1>1, <2>1, WorkerEffect, Zenon
<1>6. NodeApplied \subseteq NodeApplied'
    BY <1>5, NodeAppliedKept, Zenon
<1>7. NodeTypeOK'
    BY <1>2, <1>4, <1>5, ZenonT(60) DEF NodeTypeOK
<1>8. JobsInv' /\ SeenInv'
    BY <1>2, <1>3, <1>5, ZenonT(60) DEF JobsInv, SeenInv, Carries
<1>9. LinkInv' /\ UnlinkInv'
    BY <1>2, ZenonT(60) DEF LinkInv, UnlinkInv, Gone
<1>10. AckInv'
    BY <1>2, <1>4, <1>6, Zenon DEF AckInv, Events
<1>11. KnownInv'
  <2> SUFFICES ASSUME Never("unlink"), Never("timeout"), Never("restart") PROVE KnownInv'
    BY <1>4, Zenon DEF KnownInv, Events
  <2>1. i \in 1..Len(njobs) /\ Len(njobs) \in Nat
    BY SMTT(30) DEF NodeTypeOK
  <2>2. ASSUME NEW n, Settled(njobs, n) PROVE Settled(njobs', n)
    BY <1>1, <1>5, <2>2, ZenonT(60) DEF Settled
  <2>3. epc = "converting" \/ spc = "apply"
    <3>1. ~Settled(njobs, Len(njobs))
      BY <1>5, <2>1, SMTT(30) DEF Settled
    <3>2. QED
      BY <3>1, Zenon DEF KnownInv
  <2>4. Settled(njobs, Len(njobs) - 1)
    BY <2>3, ZenonT(60) DEF KnownInv
  <2>5. i = Len(njobs)
    BY <1>5, <2>1, <2>4, SMTT(30) DEF Settled
  <2>6. CASE epc = "converting"
    <3>1. nrole = "standalone" /\ spc = "idle"
      BY <2>6, Zenon DEF AckInv, LinkInv, NodeTypeOK
    <3>2. QED
      BY <1>2, <1>5, <2>2, <2>6, <3>1, ZenonT(60) DEF KnownInv
  <2>7. CASE spc = "apply"
    <3>1. epc # "converting" /\ wait["cycle"] = Len(njobs) /\ njobs[i].hash = mem.primary
      BY <2>5, <2>7, ZenonT(60) DEF AckInv, LinkInv, NodeTypeOK, KnownInv, JobsInv
    <3>2. running = mem.applied
      BY <1>5, <2>5, <2>7, ZenonT(60) DEF KnownInv
    <3>3. running' = IF njobs'[Len(njobs')].st = "applied" THEN mem.primary ELSE mem.applied
      BY <1>1, <1>5, <2>5, <3>1, <3>2, ZenonT(60)
    <3>4. QED
      BY <1>2, <1>5, <2>2, <2>4, <2>7, <3>1, <3>3, ZenonT(60) DEF KnownInv
  <2>8. QED
    BY <2>3, <2>6, <2>7, Zenon
<1>12. OrderInv'
  <2>1. \A k \in DOMAIN njobs' : njobs'[k].hash = njobs[k].hash
    BY <1>5, ZenonT(60) DEF Carries
  <2>2. Sorted(applied, njobs) => Sorted(applied, njobs')
    BY <1>5, <2>1, ZenonT(60) DEF Sorted
  <2>3. ASSUME NEW h, AllBelow(applied, njobs, h) PROVE AllBelow(applied, njobs', h)
    BY <1>5, <2>1, <2>3, ZenonT(60) DEF AllBelow
  <2>4. QED
    BY <1>2, <1>3, <1>4, <2>2, <2>3, ZenonT(60) DEF OrderInv, Events
<1>13. QED
    BY <1>3, <1>7, <1>8, <1>9, <1>10, <1>11, <1>12, Zenon

-----------------------------------------------------------------------------
LEMMA SyncStepInv == SyncInv /\ [Next]_vars => SyncInv'
<1> SUFFICES ASSUME SyncInv, [Next]_vars PROVE SyncInv'
    BY Zenon
<1>1. CASE Next
  <2>1. CASE CycleStep
    BY <2>1, LoadStep, NotifyStep, FetchStep, SaveOfferStep, ResyncStep, ResyncDoneStep,
       ReadForAcknowledgementStep, AcknowledgeStep, SaveStep, Zenon DEF CycleStep
  <2>2. CASE Preview \/ DraftExpires \/ Grant \/ BindNodeSync \/ ConvertImport \/ ConvertDone
    BY <2>2, PreviewStep, DraftExpiresStep, GrantStep, BindStep, ConvertImportStep, ConvertDoneStep, Zenon
  <2>3. QED
    BY <1>1, <2>1, <2>2, PrimarySideStep, UnlinkStep, RequestLostStep, WorkerStep, NodeRestartStep, Zenon
    DEF Next
<1>2. CASE UNCHANGED vars
  <2>1. UNCHANGED primaryVars /\ UNCHANGED nodeVars
    BY <1>2, Zenon DEF vars
  <2>2. PublicationInv' /\ Rows' = Rows /\ applied' = applied
    BY <2>1, PrimaryRests, Zenon
  <2>3. UNCHANGED <<cred, acks, nrole, overlay, attempt, epc, draft, bound, prog, mem, using, spc,
                    njobs, wait, running, happened>>
    BY <2>1, Zenon DEF nodeVars
  <2>4. NodeTypeOK' /\ JobsInv' /\ SeenInv' /\ LinkInv'
    <3>1. NodeTypeOK'
      BY <2>2, <2>3, ZenonT(60) DEF SyncInv, NodeInv, NodeTypeOK
    <3>2. JobsInv'
      BY <2>2, <2>3, ZenonT(60) DEF SyncInv, NodeInv, JobsInv
    <3>3. SeenInv'
      BY <2>2, <2>3, ZenonT(60) DEF SyncInv, NodeInv, SeenInv
    <3>4. LinkInv'
      BY <2>2, <2>3, Zenon DEF SyncInv, NodeInv, LinkInv
    <3>5. QED
      BY <3>1, <3>2, <3>3, <3>4, Zenon
  <2>5. AckInv' /\ UnlinkInv'
    <3>1. AckInv'
      BY <2>3, JobsRest, ZenonT(60) DEF SyncInv, NodeInv, Never, AckInv
    <3>2. UnlinkInv'
      BY <2>3, JobsRest, Zenon DEF SyncInv, NodeInv, UnlinkInv, Gone
    <3>3. QED
      BY <3>1, <3>2, Zenon
  <2>6. KnownInv' /\ OrderInv'
    <3>1. KnownInv'
      BY <2>2, <2>3, Zenon DEF SyncInv, NodeInv, Never, KnownInv
    <3>2. OrderInv'
      BY <2>2, <2>3, ZenonT(60) DEF SyncInv, NodeInv, Never, OrderInv
    <3>3. QED
      BY <3>1, <3>2, Zenon
  <2>7. QED
    BY <2>2, <2>4, <2>5, <2>6, Zenon DEF SyncInv, NodeInv
<1>3. QED
    BY <1>1, <1>2, Zenon

(***************************************************************************)
(* The invariant of a node beside its primary: enrollment, the sync cycle, *)
(* the node's import jobs, restarts, timeouts, lost answers and unlinking, *)
(* in any order and any number.                                            *)
(***************************************************************************)
THEOREM SyncInvariance == Spec => []SyncInv
<1>1. Init => SyncInv
    BY NodeInitInv, Zenon
<1>2. SyncInv /\ [Next]_vars => SyncInv'
    BY SyncStepInv, Zenon
<1>3. QED
    BY <1>1, <1>2, PTL DEF Spec

(***************************************************************************)
(* To the primary a node is a reader: whatever the node does, the primary  *)
(* beside it behaves as the producer alone (Publication), with the first   *)
(* grant as the only step that a node causes (TransitionPrimaryToWithNodes *)
(* in the transaction of the grant).                                       *)
(***************************************************************************)
THEOREM PrimaryRefinement == Spec => PrimarySpec
<1>1. Init => PrimaryInit
    BY Zenon DEF Init
<1>2. SyncInv /\ [Next]_vars => [PrimaryNext]_primaryVars
  <2> SUFFICES ASSUME SyncInv, [Next]_vars PROVE [PrimaryNext]_primaryVars
    BY Zenon
  <2>1. CASE PrimaryStep \/ Producing
    BY <2>1, PrimaryMoves, ZenonT(60)
  <2>2. CASE Grant
    BY <2>2, GrantMoves, Zenon DEF PrimaryNext
  <2>3. CASE CycleStep
    BY <2>3, Zenon DEF CycleStep, Load, NotifyUnlinked, Fetch, SaveOffer, Resync, ResyncDone,
       ReadForAcknowledgement, Acknowledge, Save
  <2>4. CASE Preview \/ DraftExpires \/ BindNodeSync \/ ConvertImport \/ ConvertDone \/ Unlink
    BY <2>4, Zenon DEF Preview, DraftExpires, BindNodeSync, ConvertImport, ConvertDone, Unlink
  <2>5. CASE RequestLost \/ WorkerApplies \/ WorkerFails \/ NodeRestart
    BY <2>5, Zenon DEF RequestLost, WorkerApplies, WorkerFails, NodeRestart
  <2>6. QED
    BY <2>1, <2>2, <2>3, <2>4, <2>5, Zenon DEF Next, vars
<1>3. QED
    BY <1>1, <1>2, SyncInvariance, PTL DEF Spec, PrimarySpec

(***************************************************************************)
(* The primary's record of acknowledgements is true until it unlinks the   *)
(* node: RecordSnapshotAcknowledgement never stores a hash the node's      *)
(* worker did not apply, whatever answers are lost and jobs fail.          *)
(***************************************************************************)
THEOREM AcksAreTrue == Spec => []AckedWasApplied
<1>1. SyncInv => AckedWasApplied
    BY Zenon DEF SyncInv, NodeInv, AckInv, AckedWasApplied
<1>2. QED
    BY <1>1, SyncInvariance, PTL

(***************************************************************************)
(* The stored NODE_UNLINKED flag, which stops every request of the node,   *)
(* is never set while the primary holds the bound credential active        *)
(* (Save in RunOnce against recordSync of the first enrollment again).     *)
(***************************************************************************)
THEOREM UnlinkedFlagIsTrue == Spec => []UnlinkedIsTrue
<1>1. SyncInv => UnlinkedIsTrue
  <2> SUFFICES ASSUME SyncInv, prog.unlinked, attempt <= 2
               PROVE  cred # [attempt |-> bound, st |-> "active"]
    BY Zenon DEF UnlinkedIsTrue
  <2>1. Gone /\ bound \in Nat
    BY Zenon DEF SyncInv, NodeInv, UnlinkInv, NodeTypeOK
  <2>2. QED
    BY <2>1 DEF Gone
<1>2. QED
    BY <1>1, SyncInvariance, PTL

(* Two hashes of one history that are below each other are the same. *)
LEMMA BelowBoth ==
    ASSUME NEW ap \in Seq(Revs), Distinct(ap), NEW g \in Hashes, NEW h \in Hashes,
           Below(ap, g, h), Below(ap, h, g)
    PROVE  g = h
<1>1. PICK i \in DOMAIN ap, j \in DOMAIN ap :
         /\ Content[ap[i]] = g[1] /\ Content[ap[j]] = h[1]
         /\ i < j \/ (i = j /\ g[2] <= h[2])
    BY Zenon DEF Below
<1>2. PICK l \in DOMAIN ap, k \in DOMAIN ap :
         /\ Content[ap[l]] = h[1] /\ Content[ap[k]] = g[1]
         /\ l < k \/ (l = k /\ h[2] <= g[2])
    BY ZenonT(60) DEF Below
<1>3. i = k /\ j = l
    BY <1>1, <1>2, ZenonT(60) DEF Distinct
<1>4. i = j /\ g[2] <= h[2] /\ h[2] <= g[2]
    BY <1>1, <1>2, <1>3, SMTT(30)
<1>5. g[1] = h[1] /\ g[2] = h[2]
    BY <1>1, <1>4, PublicationAssumption, SMTT(30) DEF Hashes
<1>6. QED
    BY <1>5, SMTT(30) DEF Hashes

(***************************************************************************)
(* A node that reports itself up to date runs what it reports, unless it   *)
(* was unlinked, or an import ended unseen and the primary went back: the  *)
(* node imports in the order of publication, so the last import that was   *)
(* applied is the hash both sides name (RunOnce, Outdated).                *)
(***************************************************************************)
THEOREM UpToDateIsTrue == Spec => []UpToDateRunsIt
<1>1. SyncInv => UpToDateRunsIt
  <2> SUFFICES ASSUME SyncInv, nrole = "node", spc = "idle", epc = "none",
                      prog.applied = prog.primary, Never("unlink"), OutcomesKnown,
                      \A i \in DOMAIN njobs : njobs[i].st # "queued"
               PROVE  running = prog.applied
    BY Zenon DEF UpToDateRunsIt
  <2> USE DEF SyncInv, NodeInv
  <2>1. CASE Never("timeout") /\ Never("restart")
    BY <2>1, Zenon DEF KnownInv
  <2>2. CASE Never("revert")
    <3>1. PICK i \in DOMAIN njobs : njobs[i].st = "applied" /\ njobs[i].hash = prog.applied
      BY ZenonT(60) DEF AckInv, NodeApplied
    <3>2. PICK k \in DOMAIN njobs : IsLast(njobs, k) /\ running = njobs[k].hash
      BY <3>1, Zenon DEF JobsInv, RunsLast
    <3>3. i <= k /\ njobs[i].hash \in Hashes /\ njobs[k].hash \in Hashes
      BY <3>1, <3>2, SMTT(30) DEF IsLast, SeenInv, Rows, NodeTypeOK
    <3>4. /\ Distinct(applied) /\ applied \in Seq(Revs)
          /\ Below(applied, njobs[i].hash, njobs[k].hash)
          /\ Below(applied, njobs[k].hash, njobs[i].hash)
      BY <2>2, <3>1, <3>3, Zenon DEF OrderInv, Sorted, AllBelow, PublicationInv, PrimaryTypeOK
    <3>5. QED
      BY <3>1, <3>2, <3>3, <3>4, BelowBoth, ZenonT(60)
  <2>3. QED
    BY <2>1, <2>2, Zenon DEF OutcomesKnown
<1>2. QED
    BY <1>1, SyncInvariance, PTL

=============================================================================
