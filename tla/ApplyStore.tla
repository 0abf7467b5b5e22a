----------------------------- MODULE ApplyStore -----------------------------
(***************************************************************************)
(* The durable part of the apply pipeline: the tables apply_jobs and       *)
(* config_revisions and the two revision pointers of installation_settings *)
(* (SQLite, one writer at a time through BEGIN IMMEDIATE).  Every action   *)
(* below is one writer transaction, so it is one atomic step.              *)
(*                                                                         *)
(* Job ids are 1..MaxJobs in created_at order.  A revision is identified   *)
(* by its checksum; of the revision numbers the code only asks which one   *)
(* is the highest, which is what `latest' records.                         *)
(***************************************************************************)
EXTENDS Revisions, Naturals, Sequences

CONSTANTS MaxJobs,     \* bound on the number of jobs ever inserted
          ImportRevs   \* revisions that reach this host as imported snapshots

ASSUME StoreAssumption ==
    /\ MaxJobs \in Nat
    /\ ImportRevs \subseteq Revs

VARIABLES
    status,     \* apply_jobs.status, "absent" before the row is inserted
    rev,        \* apply_jobs.revision_id
    kind,       \* "ordinary" | "import" (both target combined) | "repair" (target nginx)
    expired,    \* jobs whose claimed_at is older than the claim lease
    known,      \* config_revisions rows that exist
    marked,     \* the ones whose applied_at is not NULL
    latest,     \* the one with the highest revision_number
    desired,    \* installation_settings.current_desired_revision_id
    current,    \* installation_settings.current_applied_revision_id
    appliedLog  \* applied jobs in finished_at order

storeVars == <<status, rev, kind, expired, known, marked, latest, desired,
               current, appliedLog>>

Jobs == 1..MaxJobs
Statuses == {"absent", "queued", "validating", "applying", "applied", "failed", "rolled-back"}
Unfinished == {"queued", "validating", "applying"}
Terminal == {"applied", "failed", "rolled-back"}
Kinds == {"ordinary", "import", "repair"}

-----------------------------------------------------------------------------
(* The transition table of jobs.Transition. *)
Transition(s, t) ==
    CASE s = "queued"      -> t = "validating"
      [] s = "validating"  -> t \in {"applying", "failed"}
      [] s = "applying"    -> t \in {"applied", "failed", "rolled-back"}
      [] s = "failed"      -> t = "queued"
      [] s = "rolled-back" -> t = "queued"
      [] OTHER             -> FALSE

StoreInit ==
    /\ status = [j \in Jobs |-> "absent"]
    /\ rev = [j \in Jobs |-> None]
    /\ kind = [j \in Jobs |-> "ordinary"]
    /\ expired = {}
    /\ known = {}
    /\ marked = {}
    /\ latest = None
    /\ desired = None
    /\ current = None
    /\ appliedLog = <<>>

(* j is the row the next INSERT creates. *)
FreshJob(j) == status[j] = "absent" /\ \A i \in Jobs : i < j => status[i] # "absent"

(* The effect on one column of inserting job j. *)
InsertJob(j, r, k) ==
    /\ FreshJob(j)
    /\ rev' = [rev EXCEPT ![j] = r]
    /\ kind' = [kind EXCEPT ![j] = k]

(***************************************************************************)
(* The API saves an edit: the revision with the snapshot's checksum is     *)
(* reused or inserted with the next number, becomes the desired one, and   *)
(* gets a queued combined job.                                             *)
(***************************************************************************)
Enqueue(r) ==
    \E j \in Jobs :
        /\ r \in Revs \ ImportRevs
        /\ InsertJob(j, r, "ordinary")
        /\ status' = [status EXCEPT ![j] = "queued"]
        /\ known' = known \cup {r}
        /\ latest' = IF r \in known THEN latest ELSE r
        /\ desired' = r
        /\ UNCHANGED <<expired, marked, current, appliedLog>>

(* An interrupted import of the newest revision retries its existing job. *)
ReusableImport(r) ==
    /\ latest = r
    /\ \E j \in Jobs : /\ rev[j] = r
                       /\ kind[j] = "import"
                       /\ status[j] \in Unfinished \cup {"applied"}

(* Mutant of Supersede: only jobs nobody works on yet are superseded. *)
SupersedeQueuedOnly(r) ==
    [i \in Jobs |-> IF rev[i] = r /\ status[i] = "queued" THEN "failed" ELSE status[i]]

(* Mutant of Supersede: finished jobs are overwritten too. *)
SupersedeAll(r) ==
    [i \in Jobs |-> IF rev[i] = r /\ status[i] # "absent" THEN "failed" ELSE status[i]]

(* What an import does to the jobs that revision r already has. *)
Supersede(r) ==
    [i \in Jobs |-> IF rev[i] = r /\ status[i] \in Unfinished THEN "failed" ELSE status[i]]

(***************************************************************************)
(* A node imports the primary's snapshot r.  Unless an existing job is     *)
(* reused (nothing changes then), unfinished jobs of r are superseded, r   *)
(* becomes the newest and unapplied revision and gets a queued job.        *)
(***************************************************************************)
Import(r) ==
    \E j \in Jobs :
        /\ r \in ImportRevs
        /\ ~ReusableImport(r)
        /\ InsertJob(j, r, "import")
        /\ status' = [Supersede(r) EXCEPT ![j] = "queued"]
        /\ known' = known \cup {r}
        /\ marked' = marked \ {r}
        /\ latest' = r
        /\ UNCHANGED <<expired, desired, current, appliedLog>>

(* The oldest queued job becomes validating and gets a fresh claim. *)
ClaimNext(j) ==
    /\ status[j] = "queued"
    /\ \A i \in Jobs : i < j => status[i] # "queued"
    /\ status' = [status EXCEPT ![j] = "validating"]
    /\ expired' = expired \ {j}
    /\ UNCHANGED <<rev, kind, known, marked, latest, desired, current, appliedLog>>

(* Mutant of Stale: interrupted applies are not recovered. *)
StaleValidating == {j \in expired : status[j] = "validating"}

(* Claims older than the lease go back to the queue. *)
Stale == {j \in expired : status[j] \in {"validating", "applying"}}

RecoverStale ==
    /\ status' = [j \in Jobs |-> IF j \in Stale THEN "queued" ELSE status[j]]
    /\ expired' = expired \ Stale
    /\ UNCHANGED <<rev, kind, known, marked, latest, desired, current, appliedLog>>

(* Time passes: the claim of j gets older than the lease. *)
LeaseExpires(j) ==
    /\ status[j] \in {"validating", "applying"}
    /\ j \notin expired
    /\ expired' = expired \cup {j}
    /\ UNCHANGED <<status, rev, kind, known, marked, latest, desired, current, appliedLog>>

(* Mutant of EnqueueIfNotActive: the guard on unfinished jobs is missing. *)
EnqueueAlways(j, r) ==
    /\ InsertJob(j, r, "repair")
    /\ status' = [status EXCEPT ![j] = "validating"]
    /\ UNCHANGED <<expired, known, marked, latest, desired, current, appliedLog>>

(* The repair job of the reconciliation, already claimed when inserted. *)
EnqueueIfNotActive(j, r) ==
    /\ \A i \in Jobs : status[i] \notin Unfinished
    /\ InsertJob(j, r, "repair")
    /\ status' = [status EXCEPT ![j] = "validating"]
    /\ UNCHANGED <<expired, known, marked, latest, desired, current, appliedLog>>

(* Store.Update with a status: the stored status must allow the move. *)
UpdateStatus(j, s) ==
    /\ Transition(status[j], s)
    /\ status' = [status EXCEPT ![j] = s]
    /\ appliedLog' = IF s = "applied" THEN Append(appliedLog, j) ELSE appliedLog
    /\ UNCHANGED <<rev, kind, expired, known, marked, latest, desired, current>>

(* applied_at and the current pointer change in one transaction. *)
MarkApplied(r) ==
    /\ r \in known
    /\ marked' = marked \cup {r}
    /\ current' = r
    /\ UNCHANGED <<status, rev, kind, expired, known, latest, desired, appliedLog>>

(***************************************************************************)
(* r is the reconcile target: the revision of the last applied job that    *)
(* still has applied_at, else the newest revision if that one has it, else *)
(* none.                                                                   *)
(***************************************************************************)
AppliedWithMark == {i \in DOMAIN appliedLog : rev[appliedLog[i]] \in marked}

LatestApplied(r) ==
    \/ \E i \in AppliedWithMark :
          (\A k \in AppliedWithMark : k <= i) /\ r = rev[appliedLog[i]]
    \/ /\ AppliedWithMark = {}
       /\ r = IF latest \in marked THEN latest ELSE None

StoreTypeOK ==
    /\ status \in [Jobs -> Statuses]
    /\ rev \in [Jobs -> Revs \cup {None}]
    /\ kind \in [Jobs -> Kinds]
    /\ expired \subseteq Jobs
    /\ known \subseteq Revs
    /\ marked \subseteq Revs
    /\ latest \in Revs \cup {None}
    /\ desired \in Revs \cup {None}
    /\ current \in Revs \cup {None}
    /\ appliedLog \in Seq(Jobs)
=============================================================================
