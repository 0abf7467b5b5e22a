--------------------------- MODULE ApplyPipeline ---------------------------
(***************************************************************************)
(* One worker process (poller and apply orchestrator) between the store    *)
(* and the control helper.  `pc' names the call the worker is about to     *)
(* make; everything else can happen between two of its calls: the API      *)
(* inserts jobs, a request whose client gave up still runs, a container or *)
(* the helper restarts, the worker itself is killed.                       *)
(*                                                                         *)
(* `wrong' counts what has gone wrong, by kind:                            *)
(*   fail     file, Docker and service calls that fail,                    *)
(*   store    SQLite calls of the worker that fail,                        *)
(*   late     control calls whose client times out,                        *)
(*   crash    kills of the worker,                                         *)
(*   restart  starts of the containers and of the helper.                  *)
(***************************************************************************)
EXTENDS ApplyStore, ControlHelper, FiniteSets

CONSTANTS MaxEdits,    \* bound on the jobs the API inserts
          MaxRepairs,  \* bound on the repair jobs of the reconciliation
          Allowed      \* bounds on what may go wrong in one behaviour, each
                       \* a function of the kinds below

Troubles == {"fail", "store", "late", "crash", "restart"}

ASSUME BoundsAssumption ==
    /\ MaxEdits \in Nat /\ MaxRepairs \in Nat
    /\ MaxJobs = MaxEdits + MaxRepairs
    /\ \A a \in Allowed : a \in [Troubles -> Nat]

VARIABLES
    pc,        \* the worker's next call
    job,       \* the job it works on (applyRun.job), None when it has none
    local,     \* the status in its copy of that job, "" when the copy was lost
    svc,       \* the candidate of the current loop iteration
    promoted,  \* services promoted by this attempt (applyRun.promoted)
    undo,      \* services the running rollback still has to visit
    undone,    \* the running rollback has succeeded so far
    inner,     \* the outcome is recorded inside execute, not yet by Apply
    target,    \* the revision the reconciliation looks at
    late,      \* requests that outlived their client
    wrong      \* how often something went wrong, by kind

workerVars == <<pc, job, local, svc, promoted, undo, undone, inner, target>>
vars == <<storeVars, controlVars, workerVars, late, wrong>>

Locations == {"down", "wait", "recover", "claim", "list", "latest", "probe", "repair",
              "start", "prepare", "setApplying", "promote", "reload", "health",
              "rollback", "setRolledBack", "setFailed", "markApplied", "setApplied"}

Requests == [op : {"promote", "reload", "rollback"}, svc : Services, rev : Revs]

TypeOK ==
    /\ StoreTypeOK
    /\ ControlTypeOK
    /\ pc \in Locations
    /\ job \in Jobs \cup {None}
    /\ local \in Statuses \cup {""}
    /\ svc \in Services
    /\ promoted \subseteq Services
    /\ undo \subseteq Services
    /\ undone \in BOOLEAN
    /\ inner \in BOOLEAN
    /\ target \in Revs \cup {None}
    /\ late \subseteq Requests
    /\ wrong \in [Troubles -> Nat]

Init ==
    /\ StoreInit
    /\ ControlInit
    /\ pc = "recover"
    /\ job = None
    /\ local = ""
    /\ svc = "coredns"
    /\ promoted = {}
    /\ undo = {}
    /\ undone = TRUE
    /\ inner = FALSE
    /\ target = None
    /\ late = {}
    /\ wrong = [b \in Troubles |-> 0]

(* Some bound of the run still covers what went wrong. *)
Covered(w) == \E a \in Allowed : \A b \in Troubles : w[b] <= a[b]

(* n things of kind b go wrong (n may be 0). *)
GoesWrong(b, n) ==
    /\ wrong' = [wrong EXCEPT ![b] = @ + n]
    /\ n = 0 \/ Covered(wrong')

GoWrong(b, n, c, m) ==
    /\ wrong' = [wrong EXCEPT ![b] = @ + n, ![c] = @ + m]
    /\ Covered(wrong')

-----------------------------------------------------------------------------
(* Candidates are handled in this order; a repair job only has Nginx. *)
FirstService(j) == IF kind[j] = "repair" THEN "nginx" ELSE "coredns"

(* The loop over the candidates goes on with Nginx, or ends and `next' follows. *)
NextCandidate(loop, next) ==
    IF svc = "coredns"
    THEN pc' = loop /\ svc' = "nginx"
    ELSE pc' = next /\ svc' = FirstService(job)

(* The poll is over: the worker polls again, waits, or is gone. *)
EndPoll(next) ==
    /\ pc' = next
    /\ job' = None
    /\ local' = ""
    /\ svc' = "coredns"
    /\ promoted' = {}
    /\ undo' = {}
    /\ undone' = TRUE
    /\ inner' = FALSE
    /\ target' = None

(* A store call of the worker fails. *)
StoreError == UNCHANGED <<storeVars, controlVars, late>> /\ GoesWrong("store", 1)

(***************************************************************************)
(* One control request and what its client makes of it: the reply; an      *)
(* error although the handler ran (the answer came after the timeout); an  *)
(* error while the handler still has to run; or no connection at all.      *)
(***************************************************************************)
Call(op, s, r, reply) ==
    \/ /\ \E n \in 0..2 : Handle(op, s, r, reply, n) /\ GoesWrong("fail", n)
       /\ UNCHANGED late
    \/ /\ reply = "error"
       /\ \E n \in 0..2, lost \in {"ok", "drift", "refused"} :
             Handle(op, s, r, lost, n) /\ GoWrong("late", 1, "fail", n)
       /\ UNCHANGED late
    \/ /\ reply = "error"
       /\ GoesWrong("late", 1)
       /\ late' = late \cup ({[op |-> op, svc |-> s, rev |-> r]} \cap Requests)
       /\ UNCHANGED controlVars
    \/ /\ reply = "error"
       /\ GoesWrong("fail", 1)
       /\ UNCHANGED <<controlVars, late>>

Replies == {"ok", "drift", "refused", "error"}

(***************************************************************************)
(* setStatus: the move must be allowed from the worker's copy and from the *)
(* stored row, which an import may have superseded meanwhile.              *)
(***************************************************************************)
SetStatus(s) ==
    /\ Transition(local, s)
    /\ UpdateStatus(job, s)
    /\ UNCHANGED <<controlVars, late, wrong>>

SetStatusError(s) ==
    \/ /\ ~(Transition(local, s) /\ Transition(status[job], s))
       /\ UNCHANGED <<storeVars, controlVars, late, wrong>>
    \/ StoreError

(* execute returned an error: Apply rolls back what was promoted, or fails the job. *)
ApplyError ==
    /\ inner' = FALSE
    /\ undone' = TRUE
    /\ undo' = promoted
    /\ pc' = IF promoted # {} THEN "rollback" ELSE "setFailed"
    /\ UNCHANGED <<job, svc, promoted, target>>

-----------------------------------------------------------------------------
(* PollOnce *)

Wake ==
    /\ pc = "wait"
    /\ EndPoll("recover")
    /\ UNCHANGED <<storeVars, controlVars, late, wrong>>

Recover ==
    /\ pc = "recover"
    /\ \/ RecoverStale /\ EndPoll("claim") /\ UNCHANGED <<controlVars, late, wrong>>
       \/ StoreError /\ EndPoll("wait")

Claim ==
    /\ pc = "claim"
    /\ \/ \E j \in Jobs : /\ ClaimNext(j)
                          /\ job' = j
                          /\ pc' = "start"
                          /\ UNCHANGED <<local, svc, promoted, undo, undone, inner, target>>
                          /\ UNCHANGED <<controlVars, late, wrong>>
       \/ /\ \A j \in Jobs : status[j] # "queued"
          /\ EndPoll("list")
          /\ UNCHANGED <<storeVars, controlVars, late, wrong>>
       \/ StoreError /\ EndPoll("wait")

(* Jobs by origin; their numbers are bounded by MaxEdits and MaxRepairs. *)
Edits == {j \in Jobs : status[j] # "absent" /\ kind[j] # "repair"}
Repairs == {j \in Jobs : status[j] # "absent" /\ kind[j] = "repair"}

(* Nothing was claimed: any unfinished job ends the poll. *)
List ==
    /\ pc = "list"
    /\ \/ /\ EndPoll(IF \/ \E j \in Jobs : status[j] \in Unfinished
                        \/ Cardinality(Repairs) = MaxRepairs
                     THEN "wait" ELSE "latest")
          /\ UNCHANGED <<storeVars, controlVars, late, wrong>>
       \/ StoreError /\ EndPoll("wait")

Latest ==
    /\ pc = "latest"
    /\ \/ /\ LatestApplied(None)
          /\ EndPoll("wait")
          /\ UNCHANGED <<storeVars, controlVars, late, wrong>>
       \/ /\ \E r \in Revs : LatestApplied(r) /\ target' = r
          /\ pc' = "probe"
          /\ UNCHANGED <<job, local, svc, promoted, undo, undone, inner>>
          /\ UNCHANGED <<storeVars, controlVars, late, wrong>>
       \/ StoreError /\ EndPoll("wait")

(* Mutant of Probe: the repair is started by a failed probe instead of a drift. *)
ProbeInverted ==
    /\ pc = "probe"
    /\ \E reply \in Replies :
          /\ Call("health", "nginx", target, reply)
          /\ IF reply = "refused"
             THEN pc' = "repair" /\ UNCHANGED <<job, local, svc, promoted, undo, undone, inner, target>>
             ELSE EndPoll("wait")
    /\ UNCHANGED storeVars

(* ReconcileApplied: only a drifted Nginx is repaired. *)
Probe ==
    /\ pc = "probe"
    /\ \E reply \in Replies :
          /\ Call("health", "nginx", target, reply)
          /\ IF reply = "drift"
             THEN pc' = "repair" /\ UNCHANGED <<job, local, svc, promoted, undo, undone, inner, target>>
             ELSE EndPoll("wait")
    /\ UNCHANGED storeVars

Repair ==
    /\ pc = "repair"
    /\ \/ \E j \in Jobs : /\ EnqueueIfNotActive(j, target)
                          /\ job' = j
                          /\ pc' = "start"
                          /\ UNCHANGED <<local, svc, promoted, undo, undone, inner, target>>
                          /\ UNCHANGED <<controlVars, late, wrong>>
       \/ /\ \E j \in Jobs : status[j] \in Unfinished
          /\ EndPoll("wait")
          /\ UNCHANGED <<storeVars, controlVars, late, wrong>>
       \/ StoreError /\ EndPoll("wait")

-----------------------------------------------------------------------------
(* Apply *)

(***************************************************************************)
(* Apply reads the job again (a superseded one ends the poll with an       *)
(* error) and renders its candidates.                                      *)
(***************************************************************************)
Start ==
    /\ pc = "start"
    /\ \/ /\ status[job] = "validating"
          /\ local' = "validating"
          /\ svc' = FirstService(job)
          /\ UNCHANGED <<job, promoted, undo, undone, inner, target>>
          /\ \/ pc' = "prepare" /\ UNCHANGED wrong
             \/ pc' = "setFailed" /\ GoesWrong("fail", 1)     \* rendering failed
          /\ UNCHANGED <<storeVars, controlVars, late>>
       \/ /\ status[job] # "validating"
          /\ EndPoll("wait")
          /\ UNCHANGED <<storeVars, controlVars, late, wrong>>
       \/ StoreError /\ EndPoll("wait")

(* One candidate is written, staged and validated. *)
Prepare ==
    /\ pc = "prepare"
    /\ UNCHANGED <<storeVars, local, late>>
    /\ \/ /\ WriteCandidate(svc, rev[job])
          /\ NextCandidate("prepare", "setApplying")
          /\ UNCHANGED <<job, promoted, undo, undone, inner, target, wrong>>
       \/ /\ WriteCandidate(svc, rev[job])                \* stage or validate refuses
          /\ GoesWrong("fail", 1)
          /\ pc' = "setFailed"
          /\ inner' = TRUE
          /\ UNCHANGED <<job, svc, promoted, undo, undone, target>>
       \/ /\ WriteCandidate(svc, rev[job]) \/ UNCHANGED controlVars
          /\ GoesWrong("fail", 1)
          /\ ApplyError

(* A failed move to applying leaves the worker with an empty copy of the job. *)
SetApplying ==
    /\ pc = "setApplying"
    /\ \/ /\ SetStatus("applying")
          /\ local' = "applying"
          /\ pc' = "promote"
          /\ UNCHANGED <<job, svc, promoted, undo, undone, inner, target>>
       \/ /\ SetStatusError("applying")
          /\ local' = ""
          /\ ApplyError

Promote ==
    /\ pc = "promote"
    /\ UNCHANGED <<storeVars, local>>
    /\ \E reply \in Replies :
          /\ Call("promote", svc, rev[job], reply)
          /\ IF reply = "ok"
             THEN /\ promoted' = promoted \cup {svc}
                  /\ NextCandidate("promote", "reload")
                  /\ UNCHANGED <<job, undo, undone, inner, target>>
             ELSE ApplyError

(* Mutant of Reload: the OK field of the reply is not looked at. *)
ReloadUnchecked ==
    /\ pc = "reload"
    /\ UNCHANGED <<storeVars, local>>
    /\ \E reply \in Replies :
          /\ Call("reload", svc, rev[job], reply)
          /\ IF reply # "error"
             THEN pc' = "health" /\ UNCHANGED <<job, svc, promoted, undo, undone, inner, target>>
             ELSE ApplyError

Reload ==
    /\ pc = "reload"
    /\ UNCHANGED <<storeVars, local>>
    /\ \E reply \in Replies :
          /\ Call("reload", svc, rev[job], reply)
          /\ IF reply = "ok"
             THEN pc' = "health" /\ UNCHANGED <<job, svc, promoted, undo, undone, inner, target>>
             ELSE ApplyError

Health ==
    /\ pc = "health"
    /\ UNCHANGED <<storeVars, local>>
    /\ \E reply \in Replies :
          /\ Call("health", svc, rev[job], reply)
          /\ \/ /\ reply = "ok"
                /\ NextCandidate("reload", "markApplied")
                /\ UNCHANGED <<job, promoted, undo, undone, inner, target>>
             \/ /\ reply \in {"drift", "refused"}
                /\ pc' = "rollback"
                /\ undo' = promoted
                /\ undone' = TRUE
                /\ inner' = TRUE
                /\ UNCHANGED <<job, svc, promoted, target>>
             \/ reply = "error" /\ ApplyError

(* Every promoted service is rolled back, the last promoted first. *)
NextUndo == IF "nginx" \in undo THEN "nginx" ELSE "coredns"

Rollback ==
    /\ pc = "rollback"
    /\ UNCHANGED <<storeVars, local, job, svc, promoted, inner, target>>
    /\ \E reply \in Replies :
          /\ Call("rollback", NextUndo, rev[job], reply)
          /\ undo' = undo \ {NextUndo}
          /\ undone' = (undone /\ reply = "ok")
          /\ pc' = IF undo' # {} THEN "rollback"
                   ELSE IF undone' THEN "setRolledBack" ELSE "setFailed"

(* The outcome is recorded; a failure inside execute gets Apply's second try. *)
RecordOutcome(at, s) ==
    /\ pc = at
    /\ \/ SetStatus(s) /\ EndPoll("recover")
       \/ /\ SetStatusError(s)
          /\ IF inner THEN ApplyError /\ UNCHANGED local ELSE EndPoll("wait")

SetRolledBack == RecordOutcome("setRolledBack", "rolled-back")
SetFailed == RecordOutcome("setFailed", "failed")

MarkRevision ==
    /\ pc = "markApplied"
    /\ UNCHANGED local
    /\ \/ /\ MarkApplied(rev[job])
          /\ pc' = "setApplied"
          /\ UNCHANGED <<job, svc, promoted, undo, undone, inner, target>>
          /\ UNCHANGED <<controlVars, late, wrong>>
       \/ StoreError /\ ApplyError

SetApplied ==
    /\ pc = "setApplied"
    /\ \/ SetStatus("applied") /\ EndPoll("recover")
       \/ SetStatusError("applied") /\ ApplyError /\ UNCHANGED local

-----------------------------------------------------------------------------
(* Everything around the worker's own steps *)

(* The request the worker is waiting for, if it is one that changes files. *)
Outstanding ==
    IF pc \in {"promote", "reload"} THEN {[op |-> pc, svc |-> svc, rev |-> rev[job]]}
    ELSE IF pc = "rollback" THEN {[op |-> pc, svc |-> NextUndo, rev |-> rev[job]]}
    ELSE {}

(* The worker is killed; a request it was waiting for may still run. *)
Crash ==
    /\ pc # "down"
    /\ \/ GoesWrong("crash", 1) /\ UNCHANGED late
       \/ /\ GoWrong("crash", 1, "late", 1)
          /\ \E q \in Outstanding : late' = late \cup {q}
    /\ EndPoll("down")
    /\ UNCHANGED <<storeVars, controlVars>>

Restart ==
    /\ pc = "down"
    /\ EndPoll("recover")
    /\ UNCHANGED <<storeVars, controlVars, late, wrong>>

(* A request without a client runs. *)
LateHandler ==
    /\ \E q \in late, reply \in Replies, n \in 0..2 :
          /\ Handle(q.op, q.svc, q.rev, reply, n)
          /\ GoesWrong("fail", n)
          /\ late' = late \ {q}
    /\ UNCHANGED <<storeVars, workerVars>>

(* The helper restarts: pending requests are gone and the Corefile is seeded. *)
HelperRestart ==
    /\ GoesWrong("restart", 1)
    /\ late' = {}
    /\ \/ StartupSeed
       \/ ~Seedable /\ UNCHANGED controlVars
    /\ UNCHANGED <<storeVars, workerVars>>

NginxRestart ==
    /\ \E recreated \in BOOLEAN :
          \/ NginxStart(recreated, {}) /\ GoesWrong("restart", 1)
          \/ \E f \in Files : NginxStart(recreated, {f}) /\ GoWrong("restart", 1, "fail", 1)
    /\ UNCHANGED <<storeVars, workerVars, late>>

CoreDNSRestart ==
    /\ CoreDNSStart
    /\ GoesWrong("restart", 1)
    /\ UNCHANGED <<storeVars, workerVars, late>>

CoreDNSReloads ==
    /\ CoreDNSAutoReload
    /\ UNCHANGED <<storeVars, workerVars, late, wrong>>

(* The API's transactions. *)
Edit ==
    /\ Cardinality(Edits) < MaxEdits
    /\ \E r \in Revs : Enqueue(r) \/ Import(r)
    /\ UNCHANGED <<controlVars, workerVars, late, wrong>>

Expire(j) ==
    /\ LeaseExpires(j)
    /\ UNCHANGED <<controlVars, workerVars, late, wrong>>

WorkerStep ==
    \/ Wake \/ Recover \/ Claim \/ List \/ Latest \/ Probe \/ Repair
    \/ Start \/ Prepare \/ SetApplying \/ Promote \/ Reload \/ Health
    \/ Rollback \/ SetRolledBack \/ SetFailed \/ MarkRevision \/ SetApplied
    \/ Restart

Next ==
    \/ WorkerStep \/ Crash \/ LateHandler \/ HelperRestart \/ NginxRestart
    \/ CoreDNSRestart \/ CoreDNSReloads \/ Edit
    \/ \E j \in Jobs : Expire(j)

Spec == Init /\ [][Next]_vars

(***************************************************************************)
(* The worker keeps running (its loop never exits and Docker restarts it), *)
(* time passes, accepted requests end, CoreDNS notices a changed Corefile. *)
(***************************************************************************)
Fairness ==
    /\ WF_vars(WorkerStep)
    /\ WF_vars(LateHandler)
    /\ WF_vars(CoreDNSReloads)
    /\ \A j \in Jobs : WF_vars(Expire(j))

FairSpec == Spec /\ Fairness

-----------------------------------------------------------------------------
(* Properties *)

Becomes(j, s) == status[j] # s /\ status'[j] = s

(* Nothing of these kinds has gone wrong so far. *)
Without(kinds) == \A b \in kinds : wrong[b] = 0

(***************************************************************************)
(* What makes AppliedIsMarked inductive: every stored job names a          *)
(* revision, a working worker has a stored job, and between MarkApplied    *)
(* and the status change a job that is still applying is the marked and    *)
(* current one.  An import that resets applied_at in between supersedes    *)
(* the job in the same transaction.                                        *)
(***************************************************************************)
Busy == Locations \ {"down", "wait", "recover", "claim", "list", "latest", "probe", "repair"}

JobsHaveRevisions == \A j \in Jobs : status[j] # "absent" => rev[j] \in Revs
BusyHasJob == pc \in Busy => job \in Jobs /\ status[job] # "absent"
TargetChosen == pc \in {"probe", "repair"} => target \in Revs
MarkedBeforeApplied ==
    pc = "setApplied" /\ status[job] = "applying" => rev[job] \in marked /\ current = rev[job]

PipelineInv ==
    /\ TypeOK
    /\ JobsHaveRevisions
    /\ BusyHasJob
    /\ TargetChosen
    /\ MarkedBeforeApplied

(***************************************************************************)
(* A finished job keeps its outcome: neither the worker's late writes nor  *)
(* lease recovery nor a superseding import change it (Store.Update checks  *)
(* the stored status; jobs.go, store.go).                                  *)
(***************************************************************************)
TerminalIsFinal ==
    [][\A j \in Jobs : status[j] \in Terminal => status'[j] = status[j]]_vars

(***************************************************************************)
(* A job is recorded as applied only while its revision carries applied_at *)
(* and is the current one, although MarkApplied and the status change are  *)
(* two transactions and an import may reset applied_at between them.       *)
(***************************************************************************)
AppliedIsMarked ==
    [][\A j \in Jobs : Becomes(j, "applied") => rev[j] \in marked /\ current = rev[j]]_vars

(***************************************************************************)
(* When a job is recorded as applied, the services it targets have its     *)
(* revision in their files and have loaded it.  The exceptions are a       *)
(* request that outlived its client (the control helper runs it whatever   *)
(* job was promoted meanwhile) and a start of the Nginx container that     *)
(* finds the new file unusable and installs an older one.                  *)
(***************************************************************************)
Serves(j) ==
    /\ nginx.active = rev[j] /\ nginx.stable = rev[j] /\ nginx.running = rev[j]
    /\ kind[j] # "repair" =>
          /\ coredns.corefile = rev[j] /\ coredns.zones = rev[j]
          /\ coredns.runCorefile = rev[j] /\ coredns.runZones = rev[j]

(* No start of a container came together with a failing call. *)
SoundStarts == Without({"fail"}) \/ Without({"restart"})

AppliedIsServed ==
    [][\A j \in Jobs :
          Becomes(j, "applied") /\ Without({"late"}) /\ SoundStarts => Serves(j)]_vars

(***************************************************************************)
(* A rolled-back job leaves the files of the last applied job in place     *)
(* (the shipped ones before the first), whichever single call failed (a    *)
(* promotion that fails and fails to undo itself is not rolled back).  The *)
(* exceptions are late requests, a worker that was killed (the next        *)
(* attempt backs up what the first one promoted) and a restart before the  *)
(* failure: the helper seeds the Corefile from a candidate, and the        *)
(* promotion saves that as the known-good one.                             *)
(***************************************************************************)
KnownGood == IF appliedLog = <<>> THEN Baked ELSE rev[appliedLog[Len(appliedLog)]]

RollbackRestores ==
    [][\A j \in Jobs :
          (/\ Becomes(j, "rolled-back")
           /\ wrong["fail"] + wrong["store"] <= 1 /\ Without({"late", "crash", "restart"})) =>
              /\ nginx.active = KnownGood
              /\ coredns.corefile = KnownGood /\ coredns.zones = KnownGood]_vars

(***************************************************************************)
(* After a rollback Nginx runs the configuration that is in its file, not  *)
(* the one that was rejected.                                              *)
(***************************************************************************)
RollbackIsServed ==
    [][\A j \in Jobs : Becomes(j, "rolled-back") => nginx.running = nginx.active]_vars

(***************************************************************************)
(* When every job is finished and the worker is idle, the files of both    *)
(* services come from one snapshot: no failed call of Orchestrator.Apply   *)
(* leaves a mixture.  The exceptions are late requests, a kill of the      *)
(* worker or a lost store call after the first promotion (the next attempt *)
(* has promoted nothing yet, so when it fails it rolls nothing back), and  *)
(* a restart next to a failure: Nginx and the helper fall back on a        *)
(* candidate, each on its own.                                             *)
(***************************************************************************)
NoMixedSnapshot ==
    (/\ pc \in {"wait", "down"}
     /\ wrong["fail"] <= 1 /\ SoundStarts /\ Without({"late", "store", "crash"})
     /\ \A j \in Jobs : status[j] \notin Unfinished) =>
        coredns.corefile = coredns.zones /\ nginx.active = coredns.corefile

(***************************************************************************)
(* No job is recorded as applied after a newer job with another revision   *)
(* was: an old job never puts stale configuration over a newer one.  Only  *)
(* a job that lost its worker, or a store call, may: lease recovery queues *)
(* it again behind the jobs that were applied meanwhile.                   *)
(***************************************************************************)
NoStaleOverNewer ==
    [][\A i, j \in Jobs :
          Becomes(i, "applied") /\ i < j /\ status[j] = "applied" /\ Without({"store", "crash"})
              => rev[i] = rev[j]]_vars

(***************************************************************************)
(* Every job is finished at some time, whatever crashed or failed before:  *)
(* the claim lease returns interrupted jobs to the queue.                  *)
(***************************************************************************)
EveryJobFinishes == \A j \in Jobs : status[j] \in Unfinished ~> status[j] \in Terminal

(***************************************************************************)
(* Once nothing goes wrong any more, Nginx ends up with the file of the    *)
(* reconcile target for good: lost or reverted configuration is repaired.  *)
(***************************************************************************)
DriftRepaired == <>[](\A r \in Revs : LatestApplied(r) => NginxHealthy(nginx, r))

(***************************************************************************)
(* The pipeline implements the job lifecycle: every step of the worker,    *)
(* the API and lease recovery is one of its steps or leaves jobs alone.    *)
(***************************************************************************)
Lifecycle == INSTANCE JobLifecycle
LifecycleSpec == Lifecycle!Spec
=============================================================================
