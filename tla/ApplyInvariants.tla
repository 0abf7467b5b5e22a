-------------------------- MODULE ApplyInvariants --------------------------
(***************************************************************************)
(* What every reachable state of the apply pipeline satisfies, in the      *)
(* detail that its safety properties need: the order in which jobs are     *)
(* worked on, what the current attempt has changed so far, and from which  *)
(* files a rollback would restore the last applied configuration.          *)
(***************************************************************************)
EXTENDS ApplyPipeline

(* Where an attempt goes forward, and where it has failed. *)
Forward == {"start", "prepare", "setApplying", "promote", "reload", "health",
            "markApplied", "setApplied"}
Failing == {"rollback", "setRolledBack", "setFailed"}

Active(j) == status[j] \in Unfinished
SomeActive == \E j \in Jobs : Active(j)
OtherActive == \E j \in Jobs : Active(j) /\ (pc \in Busy => j # job)

(* Two unfinished jobs of different revisions. *)
TwoActive == \E i, j \in Jobs : Active(i) /\ Active(j) /\ rev[i] # rev[j]

-----------------------------------------------------------------------------
(***************************************************************************)
(* Job rows: they are inserted without gaps, only imports carry imported   *)
(* revisions, and appliedLog lists applied jobs.                           *)
(***************************************************************************)
RowsInv ==
    /\ \A i, j \in Jobs : i < j /\ status[j] # "absent" => status[i] # "absent"
    /\ \A j \in Jobs : /\ status[j] # "absent" /\ kind[j] = "ordinary" => rev[j] \notin ImportRevs
                       /\ status[j] # "absent" /\ kind[j] = "import" => rev[j] \in ImportRevs
    /\ \A n \in DOMAIN appliedLog : status[appliedLog[n]] = "applied"

(***************************************************************************)
(* The worker's copy of its job: only a superseding import makes the       *)
(* stored status differ from it, except after a failed move to applying.   *)
(***************************************************************************)
CopyInv ==
    /\ pc = "start" => status[job] \in {"validating", "failed"}
    /\ pc \in {"prepare", "setApplying"} =>
          local = "validating" /\ status[job] \in {"validating", "failed"}
    /\ pc \in Busy \ {"start", "prepare", "setApplying", "setFailed"} =>
          local = "applying" /\ status[job] \in {"applying", "failed"}
    /\ pc = "setFailed" => /\ local \in {"", "validating", "applying"}
                           /\ local # "" => status[job] \in {local, "failed"}
                           /\ local # "applying" => promoted = {}

(* The services that job j changes. *)
Targets(j) == IF kind[j] = "repair" THEN {"nginx"} ELSE Services

(* How far the loops over the candidates have come. *)
LoopInv ==
    /\ pc \in {"prepare", "setApplying", "promote", "reload", "health"} => svc \in Targets(job)
    /\ pc = "setApplying" => svc = FirstService(job)
    /\ pc \notin Busy => job = None
    /\ pc \in {"start", "prepare", "setApplying"} \/ pc \notin Busy => promoted = {}
    /\ pc = "promote" => promoted = Targets(job) \ (IF svc = "coredns" THEN Services ELSE {"nginx"})
    /\ pc \in {"reload", "health", "markApplied", "setApplied"} => promoted = Targets(job)
    /\ promoted \subseteq Services
    /\ pc = "rollback" => undo # {} /\ undo \subseteq promoted

(* Before the first job nothing has been written. *)
FreshInv ==
    (\A j \in Jobs : status[j] = "absent") =>
        /\ marked = {} /\ appliedLog = <<>> /\ late = {}
        /\ nginx.active = Baked /\ nginx.stable = None /\ nginx.prev = None
        /\ coredns.corefile = Baked /\ coredns.zones = Baked
        /\ candidate = [s \in Services |-> None]

-----------------------------------------------------------------------------
(* Only the worker's job is being worked on. *)
OneAtATime == \A j \in Jobs : status[j] \in {"validating", "applying"} => pc \in Busy /\ j = job

(* No job is worked on before an older one is finished. *)
InOrder == \A i, j \in Jobs : i < j /\ Active(i) => status[j] \in {"absent", "queued", "failed"}

(* The copy of the job is only lost when the job is superseded. *)
LostCopy == pc = "setFailed" /\ local = "" => status[job] = "failed"

(***************************************************************************)
(* Without a kill and without a lost store call no job is abandoned, so    *)
(* jobs are worked on in the order of their insertion.                     *)
(***************************************************************************)
OrderInv == Without({"store", "crash"}) => OneAtATime /\ InOrder /\ LostCopy

(* The services this attempt has loaded its files into. *)
Loaded ==
    IF pc \in {"markApplied", "setApplied"} THEN promoted
    ELSE IF pc = "health" THEN IF svc = "nginx" THEN promoted ELSE {"coredns"}
    ELSE IF pc = "reload" /\ svc = "nginx" THEN promoted \ {"nginx"}
    ELSE {}

(***************************************************************************)
(* While an attempt goes forward, the services it promoted have the files  *)
(* of its job and the ones it reloaded run them.                           *)
(***************************************************************************)
ServedInv ==
    /\ Without({"late"}) => late = {}
    /\ Without({"late"}) /\ SoundStarts /\ pc \in Forward =>
          /\ "nginx" \in promoted => nginx.active = rev[job] /\ nginx.stable = rev[job]
          /\ "nginx" \in Loaded => nginx.running = rev[job]
          /\ "coredns" \in promoted => coredns.corefile = rev[job] /\ coredns.zones = rev[job]
          /\ "coredns" \in Loaded => coredns.runCorefile = rev[job] /\ coredns.runZones = rev[job]

-----------------------------------------------------------------------------
(* At most one call fails, and not next to a restart; nothing else goes wrong. *)
Calm == wrong["fail"] <= 1 /\ SoundStarts /\ Without({"late", "store", "crash"})

(* The files of a service are those of the last applied job. *)
Kept(s) ==
    CASE s = "nginx"   -> /\ nginx.active = KnownGood
                          /\ appliedLog # <<>> => nginx.stable = KnownGood
      [] s = "coredns" -> coredns.corefile = KnownGood /\ coredns.zones = KnownGood

(* The copies a rollback of the service restores are those of the last applied job. *)
Saved(s) ==
    CASE s = "nginx"   -> nginx.prev = KnownGood
      [] s = "coredns" -> coredns.prevCorefile = KnownGood /\ coredns.prevZones = KnownGood

(* The services whose files may be those of the current job. *)
Changed ==
    IF pc = "rollback" THEN undo
    ELSE IF pc \in {"setRolledBack", "setFailed"} THEN {}
    ELSE promoted

Tracked == /\ \A s \in promoted : Saved(s)
           /\ \A s \in Services \ Changed : Kept(s)

(* An unfinished job that will not be given up puts the files in order. *)
Hope == OtherActive \/ (pc \in Forward /\ Active(job))

(* The reconciliation would not look at the last applied job. *)
Unmarked == IF appliedLog = <<>> THEN marked # {} ELSE KnownGood \notin marked

(***************************************************************************)
(* Before any call fails: a job is only given up when an import superseded *)
(* it, and then jobs of two revisions are left to be worked on.  The       *)
(* reason is that an import of the newest revision reuses its job, so what *)
(* is superseded is not the newest any more.                               *)
(***************************************************************************)
GivenUpIsSuperseded == pc \in Failing => status[job] = "failed"
SupersededLeavesTwo == pc \in Busy /\ status[job] = "failed" => TwoActive
AppliedOrActive == \A j \in Jobs : status[j] # "absent" => appliedLog # <<>> \/ SomeActive
NewerThanActive ==
    \A i \in Jobs : Active(i) /\ rev[i] \in ImportRevs /\ latest # rev[i] =>
        \E j \in Jobs : i < j /\ Active(j) /\ rev[j] # rev[i]
NewerThanKnownGood ==
    appliedLog # <<>> /\ KnownGood \in ImportRevs /\ latest # KnownGood =>
        \E j \in Jobs : Active(j) /\ rev[j] # KnownGood
UnmarkedLeavesTwo == Unmarked => TwoActive \/ (pc = "setApplied" /\ status[job] = "applying")

NoRepairs == \A j \in Jobs : status[j] # "absent" => kind[j] # "repair"
RepairIsBlocked == pc = "repair" => SomeActive

UnfailedInv ==
    Calm /\ Without({"fail"}) =>
        /\ GivenUpIsSuperseded /\ SupersededLeavesTwo /\ AppliedOrActive
        /\ NewerThanActive /\ NewerThanKnownGood /\ UnmarkedLeavesTwo
        /\ NoRepairs /\ RepairIsBlocked

(***************************************************************************)
(* Whatever single call fails: the last applied configuration is in place  *)
(* or can be restored, or an unfinished job is going to replace it.  The   *)
(* failing call may be the probe of the reconciliation, which takes it for *)
(* drift; the repair it starts then promotes the revision that is already  *)
(* in place.                                                               *)
(***************************************************************************)
SupersededHasOther == pc \in Busy /\ status[job] = "failed" => OtherActive
ProbeFindsNoDrift == pc \in {"probe", "repair"} => SomeActive \/ NginxHealthy(nginx, target)
RepairsAreClaimed == \A j \in Jobs : kind[j] = "repair" => status[j] # "queued"
RepairsChangeNothing == pc \in Busy /\ kind[job] = "repair" => rev[job] = KnownGood /\ Tracked

CalmInv ==
    /\ Without(Troubles) => Tracked
    /\ Calm => /\ Tracked \/ Hope
               /\ Unmarked => Hope
               /\ SupersededHasOther /\ ProbeFindsNoDrift
               /\ RepairsAreClaimed /\ RepairsChangeNothing

(* A job that can still be recorded as rolled back has its files tracked. *)
UndoInv ==
    (/\ wrong["fail"] + wrong["store"] <= 1 /\ Without({"late", "crash", "restart"})
     /\ pc \in {"rollback", "setRolledBack"} /\ Active(job)) => Tracked

ApplyInv ==
    /\ PipelineInv /\ RowsInv /\ CopyInv /\ LoopInv /\ FreshInv
    /\ OrderInv /\ ServedInv /\ UnfailedInv /\ CalmInv /\ UndoInv
=============================================================================
