------------------------------ MODULE NodeSync ------------------------------
(***************************************************************************)
(* A node that follows the primary of Publication: it enrolls with a token *)
(* (preview, grant, binding, import, role), then NodeSyncer polls, imports *)
(* what changed through the node's own apply pipeline and acknowledges it. *)
(* Nodes share nothing but the primary, so there is one.                   *)
(*                                                                         *)
(* A read or a write of either database is one step.  Between a request's  *)
(* handling and its answer nothing of the node happens, so they are one    *)
(* step with a second outcome in which the answer is lost.                 *)
(***************************************************************************)
EXTENDS Publication

CONSTANTS
    MaxEnrolls,   \* bound on the enrollment attempts of the node
    MaxNodeJobs,  \* bound on the import jobs of the node
    Allowed       \* bounds on the events of one behaviour, by kind

(***************************************************************************)
(* What happens beside the ordinary run of things: an answer is lost, the  *)
(* node's worker fails a job, a wait times out, the node's server restarts,*)
(* its owner starts another enrollment; the primary unlinks the node,      *)
(* returns to an earlier content, changes its secrets, or cuts a producer  *)
(* pass short.                                                             *)
(***************************************************************************)
Events == {"lost", "fail", "timeout", "restart", "again", "unlink", "revert", "secrets",
           "abort"}

ASSUME NodeSyncAssumption ==
    /\ MaxEnrolls \in Nat /\ MaxNodeJobs \in Nat
    /\ \A a \in Allowed : a \in [Events -> Nat]

VARIABLES
    cred,     \* primary: the node's credential, the attempt that made it and its state
    acks,     \* primary: node_snapshot_acks, the acknowledged applied_at by hash
    nrole,    \* node: "standalone" or "node"
    overlay,  \* node: Identity.NodeUnlinked, in memory
    attempt,  \* node: enrollment attempts started
    epc,      \* node: the confirm handler's place
    draft,    \* node: the previewed hash
    bound,    \* node: node_state.credential_id (the attempt), 0 for none
    prog,     \* node: the stored NodeSyncProgress
    mem,      \* node: the running cycle's copy of the progress
    using,    \* node: the running cycle's copy of the credential id
    spc,      \* node: the cycle's place
    njobs,    \* node: its import jobs in created_at order
    wait,     \* node: the jobs the cycle and the confirm handler wait for
    running,  \* node: the hash its data plane runs
    happened  \* how often each event happened

primarySide == <<cred, acks>>
enrollVars == <<attempt, epc, draft, bound>>
nodeVars == <<cred, acks, nrole, overlay, attempt, epc, draft, bound, prog, mem,
              using, spc, njobs, wait, running, happened>>
vars == <<primaryVars, nodeVars>>

NodeJobs == 1..MaxNodeJobs
MaybeHash == Hashes \cup {None}
Progress == [applied : MaybeHash, primary : MaybeHash, acked : MaybeHash,
             at : 0..MaxJobs, unlinked : BOOLEAN]
Fresh(h) == [applied |-> h, primary |-> h, acked |-> None, at |-> 0, unlinked |-> FALSE]

NodeInit ==
    /\ cred = [attempt |-> 0, st |-> "none"]
    /\ acks = [h \in Hashes |-> 0]
    /\ nrole = "standalone" /\ overlay = FALSE
    /\ attempt = 0 /\ epc = "none" /\ draft = None /\ bound = 0
    /\ prog = Fresh(None)
    /\ mem = Fresh(None) /\ using = 0
    /\ spc = "idle"
    /\ njobs = <<>>
    /\ wait = [w \in {"cycle", "confirm"} |-> 0]
    /\ running = None
    /\ happened = [e \in Events |-> 0]

Init == PrimaryInit /\ NodeInit

(* One more event of kind k happens, if some bound of the run covers it. *)
Happens(k) ==
    /\ happened' = [happened EXCEPT ![k] = @ + 1]
    /\ \E a \in Allowed : \A e \in Events : happened'[e] <= a[e]

-----------------------------------------------------------------------------
(***************************************************************************)
(* The node's import jobs (CreateApplyJobFromSnapshot and the apply        *)
(* worker, in detail in ApplyStore and ApplyPipeline).  The newest job is  *)
(* reused when it imports the same hash and did not fail; else unfinished  *)
(* jobs of the hash are superseded and a new one is queued.  Import ends   *)
(* with the job to wait for.                                               *)
(***************************************************************************)
(* Mutant of Reusable: a failed import is waited for again. *)
ReusableFailed(h) == njobs # <<>> /\ njobs[Len(njobs)].hash = h

Reusable(h) == njobs # <<>> /\ njobs[Len(njobs)].hash = h /\ njobs[Len(njobs)].st # "failed"

Superseded(h) ==
    [i \in DOMAIN njobs |-> IF njobs[i].hash = h /\ njobs[i].st = "queued"
                            THEN [njobs[i] EXCEPT !.st = "failed"] ELSE njobs[i]]

Import(h, waiter) ==
    \/ /\ Reusable(h)
       /\ wait' = [wait EXCEPT ![waiter] = Len(njobs)]
       /\ UNCHANGED njobs
    \/ /\ ~Reusable(h)
       /\ Len(njobs) < MaxNodeJobs
       /\ njobs' = Append(Superseded(h), [hash |-> h, st |-> "queued"])
       /\ wait' = [wait EXCEPT ![waiter] = Len(njobs) + 1]

(* The worker takes the oldest queued job. *)
NextJob(i) == njobs[i].st = "queued" /\ \A k \in 1..(i - 1) : njobs[k].st # "queued"

WorkerApplies ==
    \E i \in DOMAIN njobs :
        /\ NextJob(i)
        /\ njobs' = [njobs EXCEPT ![i].st = "applied"]
        /\ running' = njobs[i].hash
        /\ UNCHANGED <<primaryVars, primarySide, nrole, overlay, enrollVars, prog,
                       mem, using, spc, wait, happened>>

WorkerFails ==
    \E i \in DOMAIN njobs :
        /\ NextJob(i)
        /\ Happens("fail")
        /\ njobs' = [njobs EXCEPT ![i].st = "failed"]
        /\ UNCHANGED <<primaryVars, primarySide, nrole, overlay, enrollVars, prog,
                       mem, using, spc, wait, running>>

(* WaitForTerminalApply returns: the status, or a timeout while unfinished. *)
Waited(waiter, result) ==
    LET st == njobs[wait[waiter]].st IN
    \/ st # "queued" /\ result = st /\ UNCHANGED happened
    \/ st = "queued" /\ result = "timeout" /\ Happens("timeout")

-----------------------------------------------------------------------------
(* Enrollment of the node. *)

(* The owner previews what the primary publishes; the draft is cached. *)
Preview ==
    /\ epc = "none"
    /\ attempt < MaxEnrolls
    /\ \E h \in Hashes : Published(h) /\ draft' = h
    /\ attempt' = attempt + 1
    /\ IF attempt = 0 THEN UNCHANGED happened ELSE Happens("again")
    /\ epc' = "draft"
    /\ UNCHANGED <<primaryVars, primarySide, nrole, overlay, bound, prog, mem, using, spc,
                   njobs, wait, running>>

DraftExpires ==
    /\ epc = "draft"
    /\ epc' = "none" /\ draft' = None
    /\ UNCHANGED <<primaryVars, primarySide, nrole, overlay, attempt, bound, prog, mem,
                   using, spc, njobs, wait, running, happened>>

(* CanEnrollAsNode: a node only when it knows the primary unlinked it. *)
CanEnroll == nrole = "standalone" \/ overlay

(* A retry of the attempt gets its grant again and changes no row. *)
GrantCred ==
    cred' = IF cred.attempt = attempt THEN cred ELSE [attempt |-> attempt, st |-> "active"]

(***************************************************************************)
(* The owner confirms: the grant exchange.  A live credential of another   *)
(* attempt is never touched (denied, and the draft is dropped); a retry    *)
(* after a lost answer or a failed conversion gets the same grant.         *)
(***************************************************************************)
Grant ==
    /\ epc = "draft"
    /\ CanEnroll
    /\ IF cred.st = "active" /\ cred.attempt # attempt
       THEN /\ epc' = "none" /\ draft' = None
            /\ UNCHANGED <<cred, role, happened>>
       ELSE /\ GrantCred
            /\ GrantRole
            /\ UNCHANGED draft
            /\ \/ epc' = "granted" /\ UNCHANGED happened
               \/ Happens("lost") /\ UNCHANGED epc
    /\ UNCHANGED <<applied, ext, snap, jobHash, revHash, pc, queue, aborts, healed, acks, nrole,
                   overlay, attempt, bound, prog, mem, using, spc, njobs, wait, running>>

(* Mutant of BindNodeSync: the unlinked flag survives. *)
BindKeepsUnlinked ==
    /\ epc = "granted"
    /\ bound' = attempt
    /\ prog' = [Fresh(draft) EXCEPT !.unlinked = prog.unlinked]
    /\ epc' = "bound"
    /\ UNCHANGED <<primaryVars, primarySide, nrole, overlay, attempt, draft, mem, using, spc,
                   njobs, wait, running, happened>>

(* The grant is accepted and recordSync binds the node, before the import. *)
BindNodeSync ==
    /\ epc = "granted"
    /\ bound' = attempt
    /\ prog' = Fresh(draft)
    /\ epc' = "bound"
    /\ UNCHANGED <<primaryVars, primarySide, nrole, overlay, attempt, draft, mem, using, spc,
                   njobs, wait, running, happened>>

ConvertImport ==
    /\ epc = "bound"
    /\ Import(draft, "confirm")
    /\ epc' = "converting"
    /\ UNCHANGED <<primaryVars, primarySide, nrole, overlay, attempt, draft, bound, prog,
                   mem, using, spc, running, happened>>

(* Mutant of ConvertDone: the role does not wait for the apply's success. *)
ConvertUnchecked ==
    /\ epc = "converting"
    /\ \E result \in {"applied", "failed", "timeout"} :
          /\ Waited("confirm", result)
          /\ nrole' = "node" /\ overlay' = FALSE
          /\ epc' = "none" /\ draft' = None
    /\ UNCHANGED <<primaryVars, primarySide, attempt, bound, prog, mem, using, spc, njobs,
                   wait, running>>

(* Only a terminal "applied" commits the NODE role; else the draft remains. *)
ConvertDone ==
    /\ epc = "converting"
    /\ \E result \in {"applied", "failed", "timeout"} :
          /\ Waited("confirm", result)
          /\ IF result = "applied"
             THEN nrole' = "node" /\ overlay' = FALSE /\ epc' = "none" /\ draft' = None
             ELSE epc' = "draft" /\ UNCHANGED <<nrole, overlay, draft>>
    /\ UNCHANGED <<primaryVars, primarySide, attempt, bound, prog, mem, using, spc, njobs,
                   wait, running>>

(* The primary unlinks the node: the credential is revoked and marked. *)
Unlink ==
    /\ cred.st = "active"
    /\ Happens("unlink")
    /\ cred' = [cred EXCEPT !.st = "unlinked"]
    /\ UNCHANGED <<primaryVars, acks, nrole, overlay, enrollVars, prog, mem, using, spc, njobs,
                   wait, running>>

-----------------------------------------------------------------------------
(***************************************************************************)
(* One cycle of NodeSyncer.RunOnce.  A failure goes straight to "save":    *)
(* what the cycle learnt until then is stored.                             *)
(***************************************************************************)
Cycle(from, to) == spc = from /\ spc' = to

(* An acknowledgement is due: applied what the primary has, not yet told. *)
AckDue(m) ==
    /\ m.applied # None /\ m.acked # m.applied
    /\ m.primary = m.applied /\ m.at # 0

AckOrSave(m) == IF AckDue(m) THEN "ack" ELSE "save"

(* The state is loaded; an unlinked node makes no request. *)
Load ==
    /\ spc = "idle" /\ nrole = "node" /\ bound # 0
    /\ mem' = prog /\ using' = bound
    /\ spc' = IF prog.unlinked THEN "notify" ELSE "fetch"
    /\ UNCHANGED <<primaryVars, primarySide, nrole, overlay, enrollVars, prog, njobs, wait,
                   running, happened>>

(* OnUnlinked: the live identity may enroll again. *)
NotifyUnlinked ==
    /\ Cycle("notify", "idle")
    /\ overlay' = TRUE
    /\ UNCHANGED <<primaryVars, primarySide, nrole, enrollVars, prog, mem, using, njobs,
                   wait, running, happened>>

(* The primary's view of the credential the node presents. *)
Authenticated == cred.attempt = using /\ cred.st = "active"

(* Mutant of SignalsUnlinked: the credential is merely refused. *)
SignalsNothing == FALSE

SignalsUnlinked == cred.attempt = using /\ cred.st = "unlinked"

(* The publication handler serves h, or says that the node has it already. *)
Served(h) == Authenticated /\ Answer(h, mem.applied) \in {"current", "body"}

(* The client reads the hash and its clock from the headers; 304 has no body. *)
handleSnapshotResponse(h) ==
    /\ mem' = [mem EXCEPT !.primary = h, !.at = snap[h].job]
    /\ spc' = IF Answer(h, mem.applied) = "body" THEN "offer" ELSE AckOrSave(mem')

(* Any other answer ends the cycle; NODE_UNLINKED is told from the rest. *)
gonePrimaryError ==
    /\ mem' = [mem EXCEPT !.unlinked = SignalsUnlinked]
    /\ spc' = "save"

(* The fetch that gets through, conditional on the applied hash. *)
Fetch ==
    /\ spc = "fetch"
    /\ IF \E h \in Hashes : Served(h)
       THEN \E h \in Hashes : Served(h) /\ handleSnapshotResponse(h)
       ELSE gonePrimaryError
    /\ UNCHANGED <<primaryVars, primarySide, nrole, overlay, enrollVars, prog, using, njobs, wait,
                   running, happened>>

(* A request or its answer is lost before the primary wrote anything. *)
RequestLost ==
    /\ \E from \in {"fetch", "ack"} : Cycle(from, "save")
    /\ Happens("lost")
    /\ UNCHANGED <<primaryVars, primarySide, nrole, overlay, enrollVars, prog, mem, using, njobs,
                   wait, running>>

(* What the primary offers is stored before the apply. *)
SaveOffer ==
    /\ Cycle("offer", "import")
    /\ prog' = mem
    /\ UNCHANGED <<primaryVars, primarySide, nrole, overlay, enrollVars, mem, using, njobs, wait,
                   running, happened>>

Resync ==
    /\ Cycle("import", "apply")
    /\ Import(mem.primary, "cycle")
    /\ UNCHANGED <<primaryVars, primarySide, nrole, overlay, enrollVars, prog, mem, using, running,
                   happened>>

(* Mutant of ResyncDone: the hash counts as applied when the wait ends. *)
ResyncUnchecked ==
    /\ spc = "apply"
    /\ \E result \in {"applied", "failed", "timeout"} :
          /\ Waited("cycle", result)
          /\ mem' = [mem EXCEPT !.applied = mem.primary]
    /\ spc' = AckOrSave(mem')
    /\ UNCHANGED <<primaryVars, primarySide, nrole, overlay, enrollVars, prog, using, njobs, wait,
                   running>>

(* Only a terminal "applied" makes the hash the applied one. *)
ResyncDone ==
    /\ spc = "apply"
    /\ \E result \in {"applied", "failed", "timeout"} :
          /\ Waited("cycle", result)
          /\ mem' = IF result = "applied" THEN [mem EXCEPT !.applied = mem.primary] ELSE mem
          /\ spc' = IF result = "applied" THEN AckOrSave(mem') ELSE "save"
    /\ UNCHANGED <<primaryVars, primarySide, nrole, overlay, enrollVars, prog, using, njobs, wait,
                   running>>

(***************************************************************************)
(* recordThroughPublication, its read: what is acknowledged must be what   *)
(* the primary publishes now, with its clock.  Else the answer is an error,*)
(* 410 when the node is unlinked.                                          *)
(***************************************************************************)
ReadForAcknowledgement ==
    /\ spc = "ack"
    /\ IF Authenticated /\ Published(mem.applied) /\ snap[mem.applied].job = mem.at
       THEN spc' = "record" /\ UNCHANGED mem
       ELSE spc' = "save" /\ mem' = [mem EXCEPT !.unlinked = SignalsUnlinked]
    /\ UNCHANGED <<primaryVars, primarySide, nrole, overlay, enrollVars, prog, using, njobs, wait,
                   running, happened>>

(* sqliteAckCandidate: the row is live and proven, with the clock acknowledged. *)
AckCandidate(h, at) == h \in Rows /\ Proof(h) /\ snap[h].job = at

(* The write, in a transaction of its own: the node has a live credential, *)
(* whichever, and the row is there, if no longer the newest.               *)
Recordable(h, at) == cred.st = "active" /\ AckCandidate(h, at)

RecordSnapshotAcknowledgement(h, at) == Recordable(h, at) /\ acks' = [acks EXCEPT ![h] = at]

(* The client's call ends; the answer may be lost. *)
AcknowledgeSnapshot ==
    \/ /\ RecordSnapshotAcknowledgement(mem.applied, mem.at)
       /\ \/ mem' = [mem EXCEPT !.acked = mem.applied] /\ UNCHANGED happened
          \/ Happens("lost") /\ UNCHANGED mem
    \/ ~Recordable(mem.applied, mem.at) /\ UNCHANGED <<acks, mem, happened>>

Acknowledge ==
    /\ Cycle("record", "save")
    /\ AcknowledgeSnapshot
    /\ UNCHANGED <<primaryVars, cred, nrole, overlay, enrollVars, prog, using, njobs, wait, running>>

(* The end of RunOnce: the progress is stored under whatever binding there is now. *)
Save ==
    /\ spc = "save"
    /\ prog' = mem
    /\ spc' = IF mem.unlinked THEN "notify" ELSE "idle"
    /\ UNCHANGED <<primaryVars, primarySide, nrole, overlay, enrollVars, mem, using, njobs,
                   wait, running, happened>>

(* The node's server restarts: the cycle, the draft and the overlay are gone. *)
NodeRestart ==
    /\ Happens("restart")
    /\ spc' = "idle" /\ epc' = "none" /\ draft' = None /\ overlay' = FALSE
    /\ UNCHANGED <<primaryVars, primarySide, nrole, attempt, bound, prog, mem, using, njobs, wait,
                   running>>

-----------------------------------------------------------------------------
(* The primary applies revision r, whose content may be one it applied before. *)
PrimaryApplies(r) ==
    /\ FinishApply(r)
    /\ IF \E i \in DOMAIN applied : Content[applied[i]] = Content[r]
       THEN Happens("revert") ELSE UNCHANGED happened

(* The loop of the primary's producer. *)
Producing == UNCHANGED nodeVars /\ (Heal \/ List \/ Produce)

PrimaryStep ==
    /\ \/ \E r \in Revs : PrimaryApplies(r)
       \/ ChangeSecrets /\ Happens("secrets")
       \/ AbortPass /\ Happens("abort")
    /\ UNCHANGED <<cred, acks, nrole, overlay, attempt, epc, draft, bound, prog, mem,
                   using, spc, njobs, wait, running>>

(* The loop of the node's syncer. *)
CycleStep ==
    \/ Load \/ NotifyUnlinked \/ Fetch \/ SaveOffer \/ Resync \/ ResyncDone
    \/ ReadForAcknowledgement \/ Acknowledge \/ Save

Next ==
    \/ PrimaryStep \/ Producing
    \/ Preview \/ DraftExpires \/ Grant \/ BindNodeSync \/ ConvertImport \/ ConvertDone
    \/ Unlink
    \/ CycleStep \/ RequestLost
    \/ WorkerApplies \/ WorkerFails
    \/ NodeRestart

Spec == Init /\ [][Next]_vars

(***************************************************************************)
(* The producer's loop, the sync loop and the worker keep running; nobody  *)
(* is bound to enroll, apply or unlink.  Requests are lost only as often   *)
(* as Allowed says.                                                        *)
(***************************************************************************)
Fairness == WF_vars(Producing) /\ WF_vars(CycleStep) /\ WF_vars(WorkerApplies)

FairSpec == Spec /\ Fairness

-----------------------------------------------------------------------------

NodeApplied == {njobs[i].hash : i \in {k \in DOMAIN njobs : njobs[k].st = "applied"}}

Never(k) == happened[k] = 0

(* Every import's outcome is seen by whoever waits for it, or the primary  *)
(* never goes back.                                                        *)
OutcomesKnown == (Never("timeout") /\ Never("restart")) \/ Never("revert")

(***************************************************************************)
(* An acknowledgement is the truth: the primary never records a hash for   *)
(* the node that the node's own worker did not apply.  An unlinked node is *)
(* the exception: its sync loop runs while it enrolls again, and recordSync*)
(* stores the previewed hash as applied before the import.                 *)
(***************************************************************************)
AckedWasApplied == \A h \in Hashes : acks[h] # 0 /\ Never("unlink") => h \in NodeApplied

(***************************************************************************)
(* A node that reports itself up to date (not Outdated), between cycles    *)
(* and with no import job under way, runs the hash it reports.  The        *)
(* exceptions are an enrollment again, and a job that is applied after its *)
(* wait ended, by a timeout or a restart, when the primary has gone back   *)
(* to an earlier hash: the node is told that it has that one already.      *)
(***************************************************************************)
UpToDateRunsIt ==
    (/\ nrole = "node" /\ spc = "idle" /\ epc = "none"
     /\ prog.applied = prog.primary
     /\ Never("unlink") /\ OutcomesKnown
     /\ \A i \in DOMAIN njobs : njobs[i].st # "queued") => running = prog.applied

(***************************************************************************)
(* Continuous sync converges: when nothing changes any more, a linked node *)
(* runs, and has acknowledged, what the primary publishes, if it publishes *)
(* anything.  The exceptions are those of UpToDateRunsIt.                  *)
(***************************************************************************)
InSync(h) == running = h /\ prog.acked = h

Linked == nrole = "node" /\ cred.st = "active" /\ cred.attempt = bound

Converges ==
    <>[](Linked /\ Never("unlink") /\ OutcomesKnown
            => \A h \in Hashes : Published(h) => InSync(h))

(***************************************************************************)
(* An unlinked node learns it: the NODE_UNLINKED answer ends in the stored *)
(* flag and in the overlay that allows a new enrollment.                   *)
(***************************************************************************)
LearnsUnlink ==
    (nrole = "node" /\ cred = [attempt |-> bound, st |-> "unlinked"])
        ~> ((prog.unlinked /\ overlay) \/ cred.st # "unlinked" \/ cred.attempt # bound)

(***************************************************************************)
(* The stored unlinked flag stops all requests, so it must be true: never  *)
(* is it set while the primary holds the bound credential active.  This is *)
(* said of the first enrollment again; a cycle that still runs with the    *)
(* credential of that one can store the flag over the binding of a third.  *)
(***************************************************************************)
UnlinkedIsTrue ==
    prog.unlinked /\ attempt <= 2 => cred # [attempt |-> bound, st |-> "active"]
=============================================================================
