-------------------------- MODULE ApplyFilesProofs --------------------------
(***************************************************************************)
(* Proofs about the files of the apply pipeline: after every call, failure *)
(* and superseding import the last applied configuration is in place, can  *)
(* be restored, or is about to be replaced.                                *)
(***************************************************************************)
EXTENDS ApplyPipelineProofs

-----------------------------------------------------------------------------
(* The files and the copies of the last applied configuration *)

TrackedFacts ==
    /\ "nginx" \in promoted => nginx.prev = KnownGood
    /\ "coredns" \in promoted => coredns.prevCorefile = KnownGood /\ coredns.prevZones = KnownGood
    /\ "nginx" \notin Changed => /\ nginx.active = KnownGood
                                 /\ appliedLog # <<>> => nginx.stable = KnownGood
    /\ "coredns" \notin Changed => coredns.corefile = KnownGood /\ coredns.zones = KnownGood

LEMMA SavedIs ==
    /\ Saved("nginx") <=> nginx.prev = KnownGood
    /\ Saved("coredns") <=> coredns.prevCorefile = KnownGood /\ coredns.prevZones = KnownGood
    /\ Kept("nginx") <=> nginx.active = KnownGood /\ (appliedLog # <<>> => nginx.stable = KnownGood)
    /\ Kept("coredns") <=> coredns.corefile = KnownGood /\ coredns.zones = KnownGood
BY Zenon DEF Saved, Kept

LEMMA SavedIsNext ==
    /\ Saved("nginx")' <=> nginx'.prev = KnownGood'
    /\ Saved("coredns")' <=> coredns'.prevCorefile = KnownGood' /\ coredns'.prevZones = KnownGood'
    /\ Kept("nginx")' <=> nginx'.active = KnownGood' /\ (appliedLog' # <<>> => nginx'.stable = KnownGood')
    /\ Kept("coredns")' <=> coredns'.corefile = KnownGood' /\ coredns'.zones = KnownGood'
BY Zenon DEF Saved, Kept

LEMMA TrackedIs ==
    ASSUME promoted \subseteq Services
    PROVE  Tracked <=> TrackedFacts
<1>1. Tracked <=> /\ "nginx" \in promoted => Saved("nginx")
                  /\ "coredns" \in promoted => Saved("coredns")
                  /\ "nginx" \notin Changed => Kept("nginx")
                  /\ "coredns" \notin Changed => Kept("coredns")
    BY Zenon DEF Tracked, Services
<1>2. QED
    BY <1>1, SavedIs, Zenon DEF TrackedFacts

LEMMA TrackedIsNext ==
    ASSUME promoted' \subseteq Services
    PROVE  Tracked' <=> TrackedFacts'
<1>1. Tracked' <=> /\ "nginx" \in promoted' => Saved("nginx")'
                   /\ "coredns" \in promoted' => Saved("coredns")'
                   /\ "nginx" \notin Changed' => Kept("nginx")'
                   /\ "coredns" \notin Changed' => Kept("coredns")'
    BY Zenon DEF Tracked, Services
<1>2. QED
    BY <1>1, SavedIsNext, Zenon DEF TrackedFacts

FilesSame ==
    /\ nginx'.active = nginx.active /\ nginx'.stable = nginx.stable
    /\ coredns'.corefile = coredns.corefile /\ coredns'.zones = coredns.zones
    /\ "nginx" \in promoted => nginx'.prev = nginx.prev
    /\ "coredns" \in promoted => /\ coredns'.prevCorefile = coredns.prevCorefile
                                 /\ coredns'.prevZones = coredns.prevZones

GoodSame == KnownGood' = KnownGood /\ (appliedLog' = <<>> <=> appliedLog = <<>>)

LEMMA SameFiles == ASSUME UNCHANGED <<nginx, coredns>> PROVE FilesSame
BY Zenon DEF FilesSame

LEMMA TrackedKeep ==
    ASSUME TrackedFacts, FilesSame, GoodSame, promoted' \subseteq promoted, Changed \subseteq Changed'
    PROVE  TrackedFacts'
BY Zenon DEF TrackedFacts, FilesSame, GoodSame

(* While nothing is changed, forgetting what was promoted is harmless. *)
LEMMA TrackedUnchanged ==
    ASSUME TrackedFacts, FilesSame, GoodSame, promoted' \subseteq promoted, Changed = {}
    PROVE  TrackedFacts'
BY TrackedKeep, Zenon

LEMMA ChangedIs ==
    /\ pc \in Forward => Changed = promoted
    /\ pc \in {"setRolledBack", "setFailed"} => Changed = {}
    /\ pc = "rollback" => Changed = undo
    /\ pc \notin Busy => Changed = promoted
BY BusyIs, Zenon DEF Changed, Forward, Failing

LEMMA ChangedIsNext ==
    /\ pc' \in Forward => Changed' = promoted'
    /\ pc' \in {"setRolledBack", "setFailed"} => Changed' = {}
    /\ pc' = "rollback" => Changed' = undo'
    /\ pc' \notin Busy => Changed' = promoted'
BY BusyIs, Zenon DEF Changed, Forward, Failing

(* The error path of execute. *)
LEMMA TrackedError ==
    ASSUME TrackedFacts, FilesSame, GoodSame, pc \in Busy, pc # "rollback", ApplyError
    PROVE  TrackedFacts'
<1>1. Changed \subseteq promoted /\ promoted' = promoted /\ undo' = promoted
    BY ChangedIs, BusyIs, Zenon DEF ApplyError, Failing
<1>2. Changed' = promoted
    BY ChangedIsNext, Zenon DEF ApplyError
<1>3. QED
    BY <1>1, <1>2, TrackedKeep, Zenon

LEMMA TrackedPromote ==
    ASSUME PipelineInv, WorkInv, TrackedFacts, Promote, Without({"late"})', NoFailure \/ OneFailure,
           pc' \in Forward => NoFailure
    PROVE  TrackedFacts'
<1>1. PICK reply \in Replies :
          /\ Call("promote", svc, rev[job], reply)
          /\ IF reply = "ok"
             THEN /\ promoted' = promoted \cup {svc}
                  /\ NextCandidate("promote", "reload")
                  /\ UNCHANGED <<job, undo, undone, inner, target>>
             ELSE ApplyError
    BY Zenon DEF Promote
<1>2. pc = "promote" /\ UNCHANGED <<rev, appliedLog>>
    BY Zenon DEF Promote, storeVars
<1>3. KnownGood' = KnownGood /\ GoodSame
    BY <1>2, Zenon DEF KnownGood, GoodSame
<1>4. WrongType /\ ControlTypeOK /\ wrong["fail"] \in Nat
    BY Zenon DEF PipelineInv, TypeOK, WrongType, Troubles
<1>5. svc \in Targets(job) /\ promoted = Targets(job) \ (IF svc = "coredns" THEN Services ELSE {"nginx"})
    BY <1>2, Zenon DEF WorkInv, LoopInv
<1>6. svc \in Services /\ svc \notin promoted
    BY <1>5, Zenon DEF Targets, Services
<1>7. Changed = promoted /\ pc \in Forward /\ pc \in Busy
    BY <1>2, ChangedIs, BusyIs, Zenon DEF Forward
<1>8. CASE reply = "ok"
  <2>1. pc' \in Forward /\ promoted' = promoted \cup {svc} /\ NoFailure
    BY <1>1, <1>8, Zenon DEF NextCandidate, Forward
  <2>2. Changed' = promoted'
    BY <2>1, ChangedIsNext, Zenon
  <2>3. CASE svc = "nginx"
    <3>1. nginx'.prev = nginx.active /\ coredns' = coredns
      BY <1>1, <1>4, <1>8, <2>1, <2>3, PromoteNginxCall, Zenon DEF NginxOnly
    <3>2. QED
      BY <1>2, <1>3, <1>6, <1>7, <2>1, <2>2, <2>3, <3>1, Zenon DEF TrackedFacts
  <2>4. CASE svc = "coredns"
    <3>1. coredns'.prevCorefile = coredns.corefile /\ coredns'.prevZones = coredns.zones /\ nginx' = nginx
      BY <1>1, <1>4, <1>8, <2>4, PromoteCoreDNSCall, Zenon DEF CoreDNSOnly
    <3>2. QED
      BY <1>2, <1>3, <1>6, <1>7, <2>1, <2>2, <2>4, <3>1, Zenon DEF TrackedFacts
  <2>5. QED
    BY <1>6, <2>3, <2>4, Zenon DEF Services
<1>9. CASE reply # "ok"
  <2>1. FilesSame
    <3>1. CASE svc = "nginx"
      <4>1. /\ OneFailure /\ nginx'.active = nginx.active /\ nginx'.stable = nginx.stable
            /\ coredns' = coredns
        BY <1>1, <1>4, <1>9, <3>1, PromoteNginxCall DEF NginxOnly, NoFailure, OneFailure
      <4>2. QED
        BY <1>6, <3>1, <4>1, Zenon DEF FilesSame
    <3>2. CASE svc = "coredns"
      <4>1. /\ OneFailure /\ coredns'.corefile = coredns.corefile /\ coredns'.zones = coredns.zones
            /\ nginx' = nginx
        BY <1>1, <1>4, <1>9, <3>2, PromoteCoreDNSCall DEF CoreDNSOnly, NoFailure, OneFailure
      <4>2. QED
        BY <1>6, <3>2, <4>1, Zenon DEF FilesSame
    <3>3. QED
      BY <1>6, <3>1, <3>2, Zenon DEF Services
  <2>2. QED
    BY <1>1, <1>2, <1>3, <1>7, <1>9, <2>1, TrackedError, Zenon
<1>10. QED
    BY <1>8, <1>9, Zenon

LEMMA TrackedReload ==
    ASSUME PipelineInv, WorkInv, TrackedFacts, Reload, Without({"late"})'
    PROVE  TrackedFacts'
<1>1. PICK reply \in Replies :
          /\ Call("reload", svc, rev[job], reply)
          /\ \/ pc' = "health" /\ UNCHANGED promoted
             \/ ApplyError
    BY Zenon DEF Reload
<1>2. pc = "reload" /\ UNCHANGED <<rev, appliedLog>> /\ svc \in Services /\ WrongType /\ ControlTypeOK
    BY Zenon DEF Reload, storeVars, PipelineInv, TypeOK, WrongType
<1>3. GoodSame
    BY <1>2, Zenon DEF KnownGood, GoodSame
<1>4. FilesSame
    BY <1>1, <1>2, ReloadNginxCall, ReloadCoreDNSCall, Zenon DEF FilesSame, NginxOnly, CoreDNSOnly, Services
<1>5. pc \in Forward /\ pc \in Busy
    BY <1>2, BusyIs, Zenon DEF Forward
<1>6. CASE pc' = "health" /\ UNCHANGED promoted
  <2>1. Changed' = promoted' /\ Changed = promoted
    BY <1>5, <1>6, ChangedIs, ChangedIsNext, Zenon DEF Forward
  <2>2. QED
    BY <1>3, <1>4, <1>6, <2>1, TrackedKeep, Zenon
<1>7. CASE ApplyError
    BY <1>2, <1>3, <1>4, <1>5, <1>7, TrackedError, Zenon
<1>8. QED
    BY <1>1, <1>6, <1>7, Zenon

LEMMA TrackedHealth ==
    ASSUME PipelineInv, WorkInv, TrackedFacts, Health, Without({"late"})'
    PROVE  TrackedFacts'
<1>1. PICK reply \in Replies :
          /\ Call("health", svc, rev[job], reply)
          /\ \/ NextCandidate("reload", "markApplied") /\ UNCHANGED promoted
             \/ pc' = "rollback" /\ undo' = promoted /\ UNCHANGED promoted
             \/ ApplyError
    BY Zenon DEF Health
<1>2. pc = "health" /\ UNCHANGED <<rev, appliedLog>> /\ svc \in Services /\ WrongType
    BY Zenon DEF Health, storeVars, PipelineInv, TypeOK, WrongType
<1>3. GoodSame
    BY <1>2, Zenon DEF KnownGood, GoodSame
<1>4. FilesSame
    BY <1>1, <1>2, HealthCall, SameFiles, Zenon DEF controlVars
<1>5. pc \in Forward /\ pc \in Busy /\ Changed = promoted
    BY <1>2, BusyIs, ChangedIs, Zenon DEF Forward
<1>6. CASE NextCandidate("reload", "markApplied") /\ UNCHANGED promoted
  <2>1. Changed' = promoted'
    BY <1>6, ChangedIsNext, Zenon DEF Forward, NextCandidate
  <2>2. QED
    BY <1>3, <1>4, <1>5, <1>6, <2>1, TrackedKeep, Zenon
<1>7. CASE pc' = "rollback" /\ undo' = promoted /\ UNCHANGED promoted
    BY <1>3, <1>4, <1>5, <1>7, ChangedIsNext, TrackedKeep, Zenon
<1>8. CASE ApplyError
    BY <1>2, <1>3, <1>4, <1>5, <1>8, TrackedError, Zenon
<1>9. QED
    BY <1>1, <1>6, <1>7, <1>8, Zenon

(* A rollback that nothing disturbs puts the last applied files back. *)
LEMMA TrackedRollback ==
    ASSUME PipelineInv, RowsInv, WorkInv, TrackedFacts, Rollback, Without({"late"})', NoFailure
    PROVE  TrackedFacts'
<1>1. PICK reply \in Replies :
          /\ Call("rollback", NextUndo, rev[job], reply)
          /\ undo' = undo \ {NextUndo}
          /\ pc' = IF undo' # {} THEN "rollback" ELSE IF undone' THEN "setRolledBack" ELSE "setFailed"
    BY Zenon DEF Rollback
<1>2. pc = "rollback" /\ UNCHANGED <<rev, appliedLog, promoted>> /\ WrongType /\ ControlTypeOK
    BY ZenonT(60) DEF Rollback, storeVars, PipelineInv, TypeOK, WrongType
<1>3. KnownGood' = KnownGood /\ GoodSame /\ KnownGood # None
    BY <1>2, KnownGoodIs, Zenon DEF KnownGood, GoodSame
<1>4. undo # {} /\ undo \subseteq promoted /\ promoted \subseteq Services
    BY <1>2, Zenon DEF WorkInv, LoopInv
<1>5. NextUndo \in undo /\ NextUndo \in Services
    BY <1>4, Zenon DEF NextUndo, Services
<1>6. Changed = undo /\ Changed' = undo'
    BY <1>1, <1>2, ChangedIs, ChangedIsNext, Zenon
<1>7. CASE NextUndo = "nginx"
  <2>1. nginx.prev = KnownGood
    BY <1>4, <1>5, <1>7, Zenon DEF TrackedFacts
  <2>2. /\ nginx'.active = KnownGood /\ nginx'.stable = KnownGood /\ nginx'.prev = nginx.prev
        /\ coredns' = coredns
    BY <1>1, <1>2, <1>3, <1>7, <2>1, RollbackNginxCall, Zenon DEF NginxOnly
  <2>3. QED
    BY <1>1, <1>2, <1>3, <1>6, <1>7, <2>1, <2>2, Zenon DEF TrackedFacts
<1>8. CASE NextUndo = "coredns"
  <2>1. coredns.prevCorefile = KnownGood /\ coredns.prevZones = KnownGood
    BY <1>4, <1>5, <1>8, Zenon DEF TrackedFacts
  <2>2. /\ coredns'.corefile = KnownGood /\ coredns'.zones = KnownGood
        /\ coredns'.prevCorefile = KnownGood /\ coredns'.prevZones = KnownGood
        /\ nginx' = nginx
    BY <1>1, <1>2, <1>3, <1>8, <2>1, RollbackCoreDNSCall, Zenon DEF CoreDNSOnly
  <2>3. QED
    BY <1>1, <1>2, <1>3, <1>6, <1>8, <2>1, <2>2, Zenon DEF TrackedFacts
<1>9. QED
    BY <1>5, <1>7, <1>8, Zenon DEF Services

(* An applied job becomes the last applied configuration. *)
LEMMA TrackedApplies ==
    ASSUME PipelineInv, WorkInv, ServedFiles, RepairsChangeNothing, Applies
    PROVE  TrackedFacts'
<1>1. /\ job \in Jobs /\ status[job] = "applying" /\ appliedLog' # <<>> /\ KnownGood' = rev[job]
      /\ UNCHANGED <<nginx, coredns>> /\ pc' = "recover" /\ promoted' = {}
    BY AppliesRow, Zenon DEF controlVars
<1>2. promoted = Targets(job) /\ promoted \subseteq Services /\ pc \in Forward /\ pc \in Busy
    BY BusyIs, Zenon DEF Applies, WorkInv, LoopInv, Forward
<1>3. Changed' = {}
    BY <1>1, ChangedIsNext, BusyIs, Zenon DEF Forward, Failing
<1>4. nginx.active = rev[job] /\ nginx.stable = rev[job]
    BY <1>2, Zenon DEF ServedFiles, Services, Targets
<1>5. coredns.corefile = rev[job] /\ coredns.zones = rev[job]
  <2>1. CASE kind[job] = "repair"
    <3>1. rev[job] = KnownGood /\ TrackedFacts /\ "coredns" \notin Changed
      BY <1>2, <2>1, ChangedIs, TrackedIs, Zenon DEF RepairsChangeNothing, Targets
    <3>2. QED
      BY <3>1, Zenon DEF TrackedFacts
  <2>2. CASE kind[job] # "repair"
    BY <1>2, <2>2, Zenon DEF ServedFiles, Services, Targets
  <2>3. QED
    BY <2>1, <2>2, Zenon
<1>6. QED
    BY <1>1, <1>3, <1>4, <1>5, Zenon DEF TrackedFacts

(* The job of a repair is the only row that its insertion changes. *)
LEMMA EnlistsRow ==
    ASSUME PipelineInv, RowsInv, NEW j \in Jobs, EnqueueIfNotActive(j, target)
    PROVE  /\ status[j] = "absent" /\ status'[j] = "validating" /\ rev'[j] = target /\ kind'[j] = "repair"
           /\ \A i \in Jobs : i # j => status'[i] = status[i] /\ rev'[i] = rev[i] /\ kind'[i] = kind[i]
           /\ UNCHANGED <<appliedLog, marked>> /\ KnownGood' = KnownGood
<1>1. /\ status[j] = "absent" /\ status'[j] = "validating" /\ rev'[j] = target /\ kind'[j] = "repair"
      /\ \A i \in Jobs : i # j => status'[i] = status[i] /\ rev'[i] = rev[i] /\ kind'[i] = kind[i]
      /\ UNCHANGED <<appliedLog, marked>>
    BY ZenonT(60) DEF EnqueueIfNotActive, InsertJob, FreshJob, PipelineInv, TypeOK, StoreTypeOK
<1>2. CASE appliedLog = <<>>
    BY <1>1, <1>2, Zenon DEF KnownGood
<1>3. CASE appliedLog # <<>>
  <2>1. rev'[appliedLog[Len(appliedLog)]] = rev[appliedLog[Len(appliedLog)]]
    BY <1>1, <1>3, KnownGoodIs, Zenon
  <2>2. QED
    BY <1>1, <1>3, <2>1, Zenon DEF KnownGood
<1>4. QED
    BY <1>1, <1>2, <1>3, Zenon

LEMMA TrackedIdle ==
    ASSUME BaseInv, [Next]_vars, Calm', TrackedFacts,
           Wake \/ Recover \/ Claim \/ List \/ Latest \/ Probe \/ Repair \/ Restart
    PROVE  TrackedFacts'
<1>1. PipelineInv /\ RowsInv /\ WorkInv /\ ~StoreError /\ WrongType /\ Without({"late"})'
    BY CalmStep, Zenon DEF BaseInv
<1>2. pc \notin Busy
    BY Zenon DEF Wake, Recover, Claim, List, Latest, Probe, Repair, Restart, Busy
<1>3. promoted = {} /\ Changed = {}
    BY <1>1, <1>2, ChangedIs, Zenon DEF WorkInv, LoopInv
<1>4. GoodSame /\ UNCHANGED <<nginx, coredns>>
  <2>1. ASSUME UNCHANGED <<rev, appliedLog>> PROVE GoodSame
    BY <1>1, <2>1, KnownGoodSame, Zenon DEF GoodSame
  <2>2. CASE Probe
    <3>1. "nginx" \in Services
      BY Zenon DEF Services
    <3>2. QED
      BY <2>1, <2>2, <3>1, HealthChangesNothing, Zenon DEF Probe, storeVars, controlVars
  <2>3. CASE Repair
    <3>1. CASE \E j \in Jobs : EnqueueIfNotActive(j, target) /\ UNCHANGED controlVars
      BY <1>1, <3>1, EnlistsRow, Zenon DEF GoodSame, controlVars
    <3>2. CASE UNCHANGED <<storeVars, controlVars>>
      BY <2>1, <3>2, Zenon DEF storeVars, controlVars
    <3>3. QED
      BY <1>1, <2>3, <3>1, <3>2, Zenon DEF Repair
  <2>4. CASE Wake \/ Recover \/ Claim \/ List \/ Latest \/ Restart
    BY <1>1, <2>1, <2>4, Zenon DEF Wake, Recover, RecoverStale, Claim, ClaimNext, List, Latest, Restart, storeVars,
                             controlVars
  <2>5. QED
    BY <2>2, <2>3, <2>4, Zenon
<1>5. promoted' = {}
    BY <1>3, ZenonT(60) DEF Wake, Recover, Claim, List, Latest, Probe, Repair, Restart, EndPoll
<1>6. FilesSame
    BY <1>4, SameFiles, Zenon
<1>7. QED
    BY <1>3, <1>4, <1>5, <1>6, TrackedUnchanged, Zenon

LEMMA TrackedEarly ==
    ASSUME BaseInv, [Next]_vars, Calm', TrackedFacts, Start \/ Prepare \/ SetApplying
    PROVE  TrackedFacts'
<1>1. PipelineInv /\ RowsInv /\ WorkInv /\ ~StoreError
    BY CalmStep, Zenon DEF BaseInv
<1>2. pc \in {"start", "prepare", "setApplying"}
    BY Zenon DEF Start, Prepare, SetApplying
<1>3. promoted = {} /\ Changed = {}
    BY <1>1, <1>2, ChangedIs, Zenon DEF WorkInv, LoopInv, Forward
<1>4. UNCHANGED <<rev, appliedLog, nginx, coredns>>
    BY <1>1, Zenon DEF Start, Prepare, SetApplying, WriteCandidate, SetStatus, UpdateStatus, SetStatusError, storeVars,
                controlVars
<1>5. promoted' = {}
    BY <1>3, Zenon DEF Start, Prepare, SetApplying, EndPoll, ApplyError
<1>6. GoodSame /\ FilesSame
    BY <1>1, <1>4, KnownGoodSame, SameFiles, Zenon DEF GoodSame
<1>7. QED
    BY <1>3, <1>5, <1>6, TrackedUnchanged, Zenon

(* Recording the outcome of a failed attempt, and marking the revision. *)
LEMMA TrackedRecord ==
    ASSUME PipelineInv, RowsInv, TrackedFacts, SetRolledBack \/ SetFailed \/ MarkRevision \/ SetApplied, ~Applies
    PROVE  TrackedFacts'
<1>1. pc \in {"setRolledBack", "setFailed", "markApplied", "setApplied"} /\ pc \in Busy
    BY BusyIs, Zenon DEF SetRolledBack, SetFailed, RecordOutcome, MarkRevision, SetApplied, Forward, Failing
<1>2. UNCHANGED <<rev, appliedLog, nginx, coredns>>
  <2>1. CASE SetRolledBack \/ SetFailed
    BY <2>1, Zenon DEF SetRolledBack, SetFailed, RecordOutcome, SetStatus, UpdateStatus, SetStatusError, StoreError,
                storeVars, controlVars
  <2>2. CASE MarkRevision
    BY <2>2, Zenon DEF MarkRevision, MarkApplied, StoreError, storeVars, controlVars
  <2>3. CASE SetApplied
    BY <2>3, Zenon DEF SetApplied, Applies, SetStatusError, StoreError, storeVars, controlVars
  <2>4. QED
    BY <2>1, <2>2, <2>3, Zenon
<1>3. GoodSame /\ FilesSame
    BY <1>2, KnownGoodSame, SameFiles, Zenon DEF GoodSame
<1>4. CASE ApplyError
    BY <1>1, <1>3, <1>4, TrackedError, Zenon
<1>5. CASE pc \in {"setRolledBack", "setFailed"} /\ promoted' = {}
    BY <1>3, <1>5, ChangedIs, TrackedUnchanged, Zenon
<1>6. CASE pc = "markApplied" /\ pc' = "setApplied" /\ UNCHANGED promoted
  <2>1. Changed' = Changed
    BY <1>6, ChangedIs, ChangedIsNext, Zenon DEF Forward
  <2>2. QED
    BY <1>3, <1>6, <2>1, TrackedKeep, Zenon
<1>7. QED
    BY <1>4, <1>5, <1>6, Zenon DEF SetRolledBack, SetFailed, RecordOutcome, MarkRevision, SetApplied, Applies, EndPoll

LEMMA TrackedAround ==
    ASSUME PipelineInv, RowsInv, TrackedFacts,
           CoreDNSRestart \/ CoreDNSReloads \/ Edit \/ (\E j \in Jobs : Expire(j)) \/ UNCHANGED vars
    PROVE  TrackedFacts'
<1>1. UNCHANGED <<pc, promoted, undo, appliedLog>> /\ (UNCHANGED rev \/ Edit)
  <2>1. CASE Edit
    BY <2>1, EditFrame, EditInserts, EditColumns, Zenon DEF Inserts
  <2>2. CASE CoreDNSRestart \/ CoreDNSReloads \/ (\E j \in Jobs : Expire(j)) \/ UNCHANGED vars
    BY <2>2, Zenon DEF CoreDNSRestart, CoreDNSReloads, Expire, LeaseExpires, vars, workerVars, storeVars
  <2>3. QED
    BY <2>1, <2>2, Zenon
<1>2. FilesSame
  <2>1. CASE CoreDNSRestart \/ CoreDNSReloads
    <3>1. coredns' = CoreDNSLoaded(coredns) /\ nginx' = nginx /\ coredns \in CoreDNSState
      BY <2>1, ZenonT(60) DEF CoreDNSRestart, CoreDNSReloads, CoreDNSStart, CoreDNSAutoReload, PipelineInv, TypeOK,
                         ControlTypeOK
    <3>2. QED
      BY <3>1, LoadedIs, Zenon DEF FilesSame
  <2>2. CASE Edit \/ (\E j \in Jobs : Expire(j)) \/ UNCHANGED vars
    <3>1. UNCHANGED <<nginx, coredns>>
      BY <2>2, Zenon DEF Edit, Expire, vars, controlVars
    <3>2. QED
      BY <3>1, SameFiles, Zenon
  <2>3. QED
    BY <2>1, <2>2, Zenon
<1>3. GoodSame
    BY <1>1, KnownGoodSame, Zenon DEF GoodSame
<1>4. Changed' = Changed
    BY <1>1, Zenon DEF Changed
<1>5. QED
    BY <1>1, <1>2, <1>3, <1>4, TrackedKeep, Zenon

(***************************************************************************)
(* Steps that keep the last applied configuration in reach: all but the    *)
(* starts of Nginx and the helper, a failed rollback and a promotion that  *)
(* succeeds although a call failed.                                        *)
(***************************************************************************)
LEMMA TrackedStep ==
    ASSUME BaseInv, RepairsChangeNothing, [Next]_vars, Calm', TrackedFacts,
           ~HelperRestart, ~NginxRestart,
           Promote => (NoFailure \/ OneFailure) /\ (pc' \in Forward => NoFailure),
           Rollback => NoFailure
    PROVE  TrackedFacts'
<1>1. /\ PipelineInv /\ RowsInv /\ WorkInv /\ ~Crash /\ ~LateHandler /\ Without({"late"})'
      /\ pc \in Forward => ServedFiles
    BY CalmStep, Zenon DEF BaseInv
<1>2. CASE Wake \/ Recover \/ Claim \/ List \/ Latest \/ Probe \/ Repair \/ Restart
    BY <1>2, TrackedIdle, Zenon
<1>3. CASE Start \/ Prepare \/ SetApplying
    BY <1>3, TrackedEarly, Zenon
<1>4. CASE Promote \/ Reload \/ Health \/ Rollback
    BY <1>1, <1>4, TrackedPromote, TrackedReload, TrackedHealth, TrackedRollback, Zenon
<1>5. CASE Applies
    BY <1>1, <1>5, TrackedApplies, Zenon DEF Applies, Forward
<1>6. CASE (SetRolledBack \/ SetFailed \/ MarkRevision \/ SetApplied) /\ ~Applies
    BY <1>1, <1>6, TrackedRecord, Zenon
<1>7. CASE CoreDNSRestart \/ CoreDNSReloads \/ Edit \/ (\E j \in Jobs : Expire(j)) \/ UNCHANGED vars
    BY <1>1, <1>7, TrackedAround, Zenon
<1>8. QED
    BY <1>1, <1>2, <1>3, <1>4, <1>5, <1>6, <1>7, Zenon DEF Next, WorkerStep

-----------------------------------------------------------------------------
(* A job that is going to be applied *)

LEMMA ForwardHope ==
    ASSUME PipelineInv, WorkInv, OrderFacts, SupersededHasOther, pc \in Forward
    PROVE  Hope
<1>1. pc \in Busy
    BY BusyIs, Zenon
<1>2. QED
    BY <1>1, BusyStatus, Zenon DEF SupersededHasOther, Hope

LEMMA ForwardHopeNext ==
    ASSUME PipelineInv', WorkInv', OrderFacts', SupersededHasOther', pc' \in Forward
    PROVE  Hope'
<1>1. pc' \in Busy
    BY BusyIs, Zenon
<1>2. status'[job'] = "failed" \/ Active(job)'
    BY <1>1, ZenonT(60) DEF PipelineInv, BusyHasJob, JobsHaveRevisions, WorkInv, CopyInv, OrderFacts, LostCopy, Active,
                Unfinished, Forward
<1>3. QED
    BY <1>1, <1>2, Zenon DEF SupersededHasOther, Hope

LEMMA BusyKeepsJob ==
    ASSUME [Next]_vars, pc \in Busy, pc' \in Busy
    PROVE  job' = job
<1>1. CASE Start \/ Prepare \/ SetApplying \/ Promote \/ Reload \/ Health
    BY <1>1, ErrorIsBusy, Zenon DEF Start, Prepare, SetApplying, Promote, Reload, Health, EndPoll, Busy
<1>2. CASE Rollback \/ SetRolledBack \/ SetFailed \/ MarkRevision \/ SetApplied
    BY <1>2, ErrorIsBusy, Zenon DEF Rollback, SetRolledBack, SetFailed, RecordOutcome, MarkRevision, SetApplied,
                             EndPoll, Busy
<1>3. ~(Wake \/ Recover \/ Claim \/ List \/ Latest \/ Probe \/ Repair \/ Restart \/ Crash)
    BY Zenon DEF Wake, Recover, Claim, List, Latest, Probe, Repair, Restart, Crash, EndPoll, Busy
<1>4. CASE LateHandler \/ HelperRestart \/ NginxRestart \/ CoreDNSRestart \/ CoreDNSReloads \/ Edit
           \/ (\E j \in Jobs : Expire(j)) \/ UNCHANGED vars
    BY <1>4, Zenon DEF LateHandler, HelperRestart, NginxRestart, CoreDNSRestart, CoreDNSReloads, Edit, Expire,
                       vars, workerVars
<1>5. QED
    BY <1>1, <1>2, <1>3, <1>4, ZenonT(60) DEF Next, WorkerStep

(* An edit leaves a job besides the worker's own. *)
LEMMA EditOther ==
    ASSUME PipelineInv, RowsInv, Edit
    PROVE  OtherActive' /\ SomeActive'
<1>1. PICK r \in Revs, k \in Jobs : Inserts(r, k)
    BY EditInserts, Zenon
<1>2. status[k] = "absent" /\ Active(k)' /\ UNCHANGED <<pc, job>>
    BY <1>1, EditFrame, Zenon DEF Inserts, Active, Unfinished
<1>3. pc \in Busy => k # job
    BY <1>2, Zenon DEF PipelineInv, BusyHasJob
<1>4. QED
    BY <1>2, <1>3, Zenon DEF OtherActive, SomeActive

(* The rows when a job is finished. *)
LEMMA FinishRow ==
    ASSUME PipelineInv, Applies \/ GivesUp
    PROVE  /\ pc \in Busy /\ pc' \notin Busy /\ job \in Jobs /\ status[job] # "absent"
           /\ \A j \in Jobs : j # job => status'[j] = status[j]
           /\ UNCHANGED <<kind, rev, marked, controlVars>>
<1>1. pc \in Busy /\ pc' \notin Busy
    BY BusyIs, Zenon DEF Applies, GivesUp, EndPoll, Forward, Failing
<1>2. job \in Jobs /\ status[job] # "absent"
    BY <1>1, Zenon DEF PipelineInv, BusyHasJob
<1>3. \E s \in Statuses : status' = [status EXCEPT ![job] = s]
    BY Zenon DEF Applies, GivesUp, SetStatus, UpdateStatus, Statuses
<1>4. UNCHANGED <<kind, rev, marked, controlVars>>
    BY Zenon DEF Applies, GivesUp, SetStatus, UpdateStatus
<1>5. QED
    BY <1>1, <1>2, <1>3, <1>4, Zenon DEF PipelineInv, TypeOK, StoreTypeOK

(* Another unfinished job is not lost, whatever the step. *)
LEMMA OtherStays ==
    ASSUME BaseInv, [Next]_vars, OtherActive
    PROVE  Hope'
<1>1. PipelineInv /\ RowsInv
    BY Zenon DEF BaseInv
<1>2. PICK j \in Jobs : Active(j) /\ (pc \in Busy => j # job)
    BY Zenon DEF OtherActive
<1>3. CASE ActiveSame
  <2>1. Active(j)'
    BY <1>2, <1>3, Zenon DEF ActiveSame, Active
  <2>2. CASE pc' \notin Busy
    BY <2>1, <2>2, Zenon DEF OtherActive, Hope
  <2>3. CASE pc' \in Busy /\ pc \in Busy
    BY <1>2, <2>1, <2>3, BusyKeepsJob, Zenon DEF OtherActive, Hope
  <2>4. CASE pc' \in Busy /\ pc \notin Busy
    BY <1>1, <2>4, GetsBusy, Zenon DEF Hope, Forward, Active, Unfinished
  <2>5. QED
    BY <2>2, <2>3, <2>4, Zenon
<1>4. CASE Edit
    BY <1>1, <1>4, EditOther, Zenon DEF Hope
<1>5. CASE Applies \/ GivesUp
    BY <1>1, <1>2, <1>5, FinishRow, Zenon DEF OtherActive, Hope, Active
<1>6. ~Enlists
    BY <1>2, Zenon DEF SomeActive, Enlists
<1>7. QED
    BY <1>1, <1>3, <1>4, <1>5, <1>6, StoreCases, Zenon

LEMMA SupersededStep ==
    ASSUME BaseInv, [Next]_vars, Calm', SupersededHasOther
    PROVE  SupersededHasOther'
<1> SUFFICES ASSUME pc' \in Busy, status'[job'] = "failed" PROVE OtherActive'
    BY Zenon DEF SupersededHasOther
<1>1. PipelineInv /\ RowsInv /\ WorkInv /\ OrderFacts
    BY CalmStep, Zenon DEF BaseInv
<1>2. CASE ActiveSame
  <2>1. pc \in Busy
    BY <1>1, GetsBusy, Zenon
  <2>2. job' = job
    BY <2>1, BusyKeepsJob, Zenon
  <2>3. job \in Jobs /\ status[job] = "failed"
    BY <1>1, <1>2, <2>1, <2>2, BusyStatus, Zenon DEF ActiveSame, Active, Unfinished
  <2>4. OtherActive
    BY <2>1, <2>3, Zenon DEF SupersededHasOther
  <2>5. QED
    BY <1>2, <2>1, <2>2, <2>4, Zenon DEF OtherActive, ActiveSame, Active
<1>3. CASE Edit
    BY <1>1, <1>3, EditOther, Zenon
<1>4. ~(Applies \/ GivesUp)
    BY <1>1, FinishRow, Zenon
<1>5. ~Enlists
    BY <1>1, GetsBusy, BusyIs, Zenon DEF Enlists, Busy
<1>6. QED
    BY <1>1, <1>2, <1>3, <1>4, <1>5, StoreCases, Zenon

LEMMA NoRepairsStep ==
    ASSUME BaseInv, [Next]_vars, NoRepairs, RepairIsBlocked
    PROVE  NoRepairs'
<1>1. PipelineInv /\ RowsInv
    BY Zenon DEF BaseInv
<1>2. CASE ActiveSame
    BY <1>2, Zenon DEF ActiveSame, NoRepairs
<1>3. CASE Edit
  <2>1. PICK r \in Revs, k \in Jobs : Inserts(r, k)
    BY <1>1, <1>3, EditInserts, Zenon
  <2>2. QED
    BY <2>1, Zenon DEF Inserts, NoRepairs
<1>4. CASE Applies \/ GivesUp
    BY <1>1, <1>4, FinishRow, Zenon DEF NoRepairs
<1>5. ~Enlists
    BY Zenon DEF RepairIsBlocked, Enlists
<1>6. QED
    BY <1>1, <1>2, <1>3, <1>4, <1>5, StoreCases, Zenon

(* A calm attempt goes on until its job is applied. *)
LEMMA HopeStep ==
    ASSUME BaseInv, BaseInv', [Next]_vars, Calm', NoFailure, SupersededHasOther', OrderFacts', Hope
    PROVE  Hope' \/ Applies
<1>1. CASE OtherActive
    BY <1>1, OtherStays, Zenon
<1>2. CASE pc \in Forward /\ Active(job)
  <2>1. pc \in Busy /\ pc \notin Failing /\ status[job] # "failed" /\ ~GivesUp
    BY <1>2, BusyIs, Zenon DEF Active, Unfinished, Forward, Failing, GivesUp
  <2>2. Goes \/ Applies
    BY <2>1, Onward, Zenon DEF Ends
  <2>3. CASE Goes
    <3>1. pc' \in Forward
      BY <2>1, <2>3, BusyIs, Zenon DEF Goes
    <3>2. QED
      BY <3>1, ForwardHopeNext, Zenon DEF BaseInv
  <2>4. QED
    BY <2>2, <2>3, Zenon
<1>3. QED
    BY <1>1, <1>2, Zenon DEF Hope

(* A failing call in a calm behaviour is the first thing that goes wrong. *)
LEMMA FailureBefore ==
    ASSUME BaseInv, [Next]_vars, Calm', ~NoFailure
    PROVE  OneFailure /\ Without({"fail"}) /\ Without(Troubles) /\ wrong'["restart"] = 0
<1>1. Calm /\ WrongType /\ WrongType' /\ Grows
    BY CalmStep, Zenon
<1>2. /\ wrong["fail"] \in Nat /\ wrong'["fail"] \in Nat /\ wrong["restart"] \in Nat /\ wrong'["restart"] \in Nat
      /\ wrong["fail"] <= wrong'["fail"] /\ wrong["restart"] <= wrong'["restart"] /\ wrong'["fail"] <= 1
    BY <1>1, Zenon DEF WrongType, Grows, Troubles, Calm
<1>3. wrong["fail"] = 0 /\ wrong'["fail"] = 1
    BY <1>2 DEF NoFailure
<1>4. wrong'["restart"] = 0
    BY <1>3 DEF Calm, SoundStarts, Without
<1>5. wrong["restart"] = 0
    BY <1>2, <1>4
<1>6. wrong["late"] = 0 /\ wrong["store"] = 0 /\ wrong["crash"] = 0
    BY <1>1, Zenon DEF Calm, Without
<1>7. QED
    BY <1>3, <1>4, <1>5, <1>6 DEF OneFailure, Without, Troubles

LEMMA RestartCounts ==
    ASSUME WrongType, HelperRestart \/ NginxRestart \/ CoreDNSRestart
    PROVE  wrong'["restart"] # 0
<1>1. "restart" \in Troubles /\ "fail" \in Troubles /\ "restart" # "fail" /\ wrong["restart"] \in Nat
    BY Zenon DEF WrongType, Troubles
<1>2. ASSUME GoesWrong("restart", 1) PROVE wrong'["restart"] # 0
    BY <1>1, <1>2, TroubleKinds, GoesWrongGrows
<1>3. ASSUME GoWrong("restart", 1, "fail", 1) PROVE wrong'["restart"] # 0
    BY <1>1, <1>3, TroubleKinds, GoWrongGrows
<1>4. QED
    BY <1>2, <1>3, Zenon DEF HelperRestart, NginxRestart, CoreDNSRestart

(* A start in a calm behaviour comes without a failing call. *)
LEMMA RestartBefore ==
    ASSUME BaseInv, [Next]_vars, Calm', HelperRestart \/ NginxRestart
    PROVE  /\ Without({"fail"})' /\ Without({"fail"}) /\ NoFailure
           /\ NginxRestart => \E recreated \in BOOLEAN : NginxStart(recreated, {})
<1>1. WrongType /\ WrongType' /\ Grows /\ (Without({"fail"})' => Without({"fail"}))
    BY CalmStep, Zenon
<1>2. /\ "restart" \in Troubles /\ "fail" \in Troubles /\ "restart" # "fail"
      /\ wrong["fail"] \in Nat /\ wrong["restart"] \in Nat
    BY <1>1, Zenon DEF WrongType, Troubles
<1>3. wrong'["restart"] # 0
    BY <1>1, RestartCounts, Zenon
<1>4. wrong'["fail"] = 0 /\ Without({"fail"})'
    BY <1>3, Zenon DEF Calm, SoundStarts, Without
<1>5. ~GoWrong("restart", 1, "fail", 1)
    BY <1>1, <1>2, <1>4, TroubleKinds, GoWrongGrows
<1>6. NginxRestart => \E recreated \in BOOLEAN : NginxStart(recreated, {})
    BY <1>5, Zenon DEF NginxRestart
<1>7. NoFailure
    BY <1>1, <1>4, Zenon DEF NoFailure, Without
<1>8. QED
    BY <1>1, <1>4, <1>6, <1>7, Zenon

(* Without an unfinished job the starts find the last applied files. *)
LEMMA RestartIdle ==
    ASSUME BaseInv, FreshInv, UnfailedInv, [Next]_vars, Calm', TrackedFacts, ~Hope,
           HelperRestart \/ NginxRestart
    PROVE  TrackedFacts'
<1>1. /\ PipelineInv /\ RowsInv /\ WorkInv /\ OrderFacts /\ Calm
      /\ NginxRestart => \E recreated \in BOOLEAN : NginxStart(recreated, {})
    BY CalmStep, RestartBefore, Zenon DEF BaseInv
<1>2. GivenUpIsSuperseded /\ SupersededLeavesTwo /\ AppliedOrActive
    BY <1>1, RestartBefore, Zenon DEF UnfailedInv
<1>3. ~OtherActive /\ ~TwoActive
    BY TwoIsOther, Zenon DEF Hope
<1>4. pc \notin Busy
    BY <1>1, <1>2, <1>3, BusyStatus, BusyIs, Zenon DEF GivenUpIsSuperseded, SupersededLeavesTwo, Hope
<1>5. promoted = {} /\ Changed = {} /\ ~SomeActive
    BY <1>1, <1>3, <1>4, ChangedIs, Zenon DEF WorkInv, LoopInv, OtherActive, SomeActive
<1>6. UNCHANGED <<pc, promoted, undo, rev, appliedLog>>
    BY Zenon DEF HelperRestart, NginxRestart, workerVars, storeVars
<1>7. GoodSame
    BY <1>1, <1>6, KnownGoodSame, Zenon DEF GoodSame
<1>8. /\ nginx.active = KnownGood /\ (appliedLog # <<>> => nginx.stable = KnownGood)
      /\ coredns.corefile = KnownGood /\ coredns.zones = KnownGood
    BY <1>5, Zenon DEF TrackedFacts
<1>9. appliedLog = <<>> => FreshFacts
    BY <1>2, <1>5, FreshIs, Zenon DEF AppliedOrActive, NoneStored
<1>10. nginx \in NginxState /\ KnownGood # None /\ (appliedLog # <<>> => KnownGood # Baked)
    BY <1>1, KnownGoodIs, Zenon DEF PipelineInv, TypeOK, ControlTypeOK
<1>11. CASE HelperRestart
  <2>1. ~Seedable
    BY <1>8, <1>9, <1>10, Zenon DEF Seedable, FreshFacts, Services
  <2>2. UNCHANGED <<nginx, coredns>>
    BY <1>11, <2>1, Zenon DEF HelperRestart, StartupSeed, controlVars
  <2>3. QED
    BY <1>5, <1>6, <1>7, <2>2, SameFiles, TrackedUnchanged, Zenon
<1>12. CASE NginxRestart
  <2>1. PICK recreated \in BOOLEAN : NginxStart(recreated, {})
    BY <1>1, <1>12, Zenon
  <2>2. coredns' = coredns /\ nginx'.stable = nginx.stable
    BY <1>10, <2>1, Zenon DEF NginxStart, NginxState
  <2>3. nginx'.active = nginx.active
    <3>1. CASE appliedLog # <<>>
      BY <1>8, <1>10, <2>1, <3>1, Zenon DEF NginxStart, NginxState
    <3>2. CASE appliedLog = <<>>
      <4>1. nginx.active = Baked /\ nginx.stable = None /\ nginx.prev = None /\ candidate["nginx"] = None
        BY <1>9, <3>2, Zenon DEF FreshFacts, Services
      <4>2. QED
        BY <1>10, <2>1, <4>1, Zenon DEF NginxStart, NginxState
    <3>3. QED
      BY <3>1, <3>2, Zenon
  <2>4. FilesSame
    BY <1>5, <2>2, <2>3, Zenon DEF FilesSame
  <2>5. QED
    BY <1>5, <1>6, <1>7, <2>4, TrackedUnchanged, Zenon
<1>13. QED
    BY <1>11, <1>12, Zenon

(* The reconciliation *)

(* The steps that can happen while the worker is at the probe or the repair. *)
LEMMA AtProbe ==
    ASSUME BaseInv, [Next]_vars, Calm', pc' \in {"probe", "repair"}
    PROVE  \/ Latest /\ pc' = "probe"
           \/ Probe /\ pc' = "repair"
           \/ Edit
           \/ /\ NginxRestart /\ UNCHANGED <<pc, target, status>>
           \/ /\ UNCHANGED <<pc, target, status, nginx>>
<1>1. ~Crash /\ ~LateHandler
    BY CalmStep, Zenon
<1>2. ~(Start \/ Prepare \/ SetApplying \/ Promote \/ Reload \/ Health)
    BY ErrorIsBusy, Zenon DEF Start, Prepare, SetApplying, Promote, Reload, Health, NextCandidate, EndPoll
<1>3. ~(Rollback \/ SetRolledBack \/ SetFailed \/ MarkRevision \/ SetApplied)
    BY ErrorIsBusy, Zenon DEF Rollback, SetRolledBack, SetFailed, RecordOutcome, MarkRevision, SetApplied, EndPoll
<1>4. ~(Wake \/ Recover \/ Claim \/ List \/ Repair \/ Restart)
    BY ZenonT(60) DEF Wake, Recover, Claim, List, Repair, Restart, EndPoll
<1>5. Latest => pc' = "probe"
    BY Zenon DEF Latest, EndPoll
<1>6. Probe => pc' = "repair"
    BY Zenon DEF Probe, EndPoll
<1>7. CASE HelperRestart \/ CoreDNSRestart \/ CoreDNSReloads \/ (\E j \in Jobs : Expire(j)) \/ UNCHANGED vars
    BY <1>7, ZenonT(60) DEF HelperRestart, StartupSeed, CoreDNSRestart, CoreDNSStart, CoreDNSReloads, CoreDNSAutoReload,
                  Expire, LeaseExpires, vars, workerVars, storeVars, controlVars
<1>8. CASE NginxRestart
    BY <1>8, Zenon DEF NginxRestart, workerVars, storeVars
<1>9. QED
    BY <1>1, <1>2, <1>3, <1>4, <1>5, <1>6, <1>7, <1>8, ZenonT(60) DEF Next, WorkerStep

(* With no unfinished job the reconcile target is the last applied revision. *)
LEMMA TargetIsKnownGood ==
    ASSUME PipelineInv, RowsInv, ~Unmarked, NEW r \in Revs, LatestApplied(r)
    PROVE  appliedLog # <<>> /\ r = KnownGood
<1>1. CASE appliedLog = <<>>
  <2>1. marked = {} /\ AppliedWithMark = {}
    BY <1>1, Zenon DEF Unmarked, AppliedWithMark
  <2>2. r = None
    BY <2>1, Zenon DEF LatestApplied
  <2>3. QED
    BY <2>2, RevisionsAssumption, Zenon
<1>2. CASE appliedLog # <<>>
  <2>1. Len(appliedLog) \in AppliedWithMark /\ appliedLog \in Seq(Jobs)
    BY <1>2, KnownGoodIs, ZenonT(60) DEF Unmarked, AppliedWithMark, PipelineInv, TypeOK, StoreTypeOK
  <2>2. PICK i \in AppliedWithMark : (\A k \in AppliedWithMark : k <= i) /\ r = rev[appliedLog[i]]
    BY <2>1, Zenon DEF LatestApplied
  <2>3. i = Len(appliedLog)
    BY <2>1, <2>2 DEF AppliedWithMark
  <2>4. QED
    BY <1>2, <2>2, <2>3, KnownGoodIs, Zenon
<1>3. QED
    BY <1>1, <1>2, Zenon

(* Nothing unfinished leaves no hope but what the files already are. *)
LEMMA IdleIsTracked ==
    ASSUME BaseInv, Tracked \/ Hope, Unmarked => Hope, pc \notin Busy, ~SomeActive
    PROVE  /\ ~Unmarked /\ promoted = {} /\ nginx.active = KnownGood
           /\ appliedLog # <<>> => nginx.stable = KnownGood
           /\ coredns.corefile = KnownGood /\ coredns.zones = KnownGood
<1>1. ~Hope
    BY BusyIs, OtherIsSome, Zenon DEF Hope
<1>2. promoted = {} /\ Changed = {}
    BY ChangedIs, Zenon DEF BaseInv, WorkInv, LoopInv
<1>3. TrackedFacts
    BY <1>1, <1>2, TrackedIs, Zenon
<1>4. QED
    BY <1>1, <1>2, <1>3, Zenon DEF TrackedFacts

(* An Nginx that serves a revision serves it after a start as well. *)
LEMMA HealthyStart ==
    ASSUME nginx \in NginxState, NEW r \in Revs, NginxHealthy(nginx, r), NEW recreated \in BOOLEAN,
           NginxStart(recreated, {})
    PROVE  NginxHealthy(nginx', r)
<1>1. r # None /\ nginx.stable = r
    BY RevisionsAssumption, Zenon DEF NginxHealthy
<1>2. nginx'.active = r /\ nginx'.stable = r
    BY <1>1, Zenon DEF NginxStart, NginxState
<1>3. QED
    BY <1>2, Zenon DEF NginxHealthy

LEMMA ProbeStep ==
    ASSUME BaseInv, [Next]_vars, Calm', Tracked \/ Hope, Unmarked => Hope, ProbeFindsNoDrift
    PROVE  ProbeFindsNoDrift'
<1> SUFFICES ASSUME pc' \in {"probe", "repair"} PROVE SomeActive' \/ NginxHealthy(nginx', target')
    BY Zenon DEF ProbeFindsNoDrift
<1>1. PipelineInv /\ RowsInv /\ WorkInv /\ nginx \in NginxState
    BY Zenon DEF BaseInv, PipelineInv, TypeOK, ControlTypeOK
<1>2. CASE Latest
  <2>1. PICK r \in Revs : LatestApplied(r) /\ target' = r /\ UNCHANGED <<storeVars, controlVars>>
    BY <1>2, Zenon DEF Latest, EndPoll
  <2>2. UNCHANGED <<status, nginx>> /\ pc \notin Busy
    BY <1>2, <2>1, Zenon DEF Latest, Busy, storeVars, controlVars
  <2>3. CASE SomeActive
    BY <2>2, <2>3, Zenon DEF SomeActive, Active
  <2>4. CASE ~SomeActive
    <3>1. nginx.active = KnownGood /\ (appliedLog # <<>> => nginx.stable = KnownGood) /\ ~Unmarked
      BY <2>2, <2>4, IdleIsTracked, Zenon
    <3>2. appliedLog # <<>> /\ r = KnownGood
      BY <1>1, <2>1, <3>1, TargetIsKnownGood, Zenon
    <3>3. QED
      BY <2>1, <2>2, <3>1, <3>2, Zenon DEF NginxHealthy
  <2>5. QED
    BY <2>3, <2>4, Zenon
<1>3. CASE Edit
    BY <1>1, <1>3, EditOther, Zenon
<1>4. CASE NginxRestart /\ UNCHANGED <<pc, target, status>>
  <2>1. PICK recreated \in BOOLEAN : NginxStart(recreated, {})
    BY <1>4, RestartBefore, Zenon
  <2>2. target \in Revs
    BY <1>1, <1>4, Zenon DEF PipelineInv, TargetChosen
  <2>3. NginxHealthy(nginx, target) => NginxHealthy(nginx', target)
    BY <1>1, <2>1, <2>2, HealthyStart, Zenon
  <2>4. QED
    BY <1>4, <2>3, Zenon DEF ProbeFindsNoDrift, SomeActive, Active
<1>5. CASE UNCHANGED <<pc, target, status, nginx>>
    BY <1>5, Zenon DEF ProbeFindsNoDrift, SomeActive, Active, NginxHealthy
<1>6. CASE Probe /\ pc' = "repair"
  <2>1. "nginx" \in Services
    BY Zenon DEF Services
  <2>2. pc = "probe" /\ UNCHANGED <<status, target, nginx>>
    BY <1>6, <2>1, HealthChangesNothing, Zenon DEF Probe, EndPoll, storeVars, controlVars
  <2>3. QED
    BY <2>2, Zenon DEF ProbeFindsNoDrift, SomeActive, Active
<1>7. QED
    BY <1>2, <1>3, <1>4, <1>5, <1>6, AtProbe, Zenon

LEMMA RepairStep ==
    ASSUME BaseInv, [Next]_vars, Calm', NoFailure, ProbeFindsNoDrift, RepairIsBlocked
    PROVE  RepairIsBlocked'
<1> SUFFICES ASSUME pc' = "repair" PROVE SomeActive'
    BY Zenon DEF RepairIsBlocked
<1>1. PipelineInv /\ RowsInv /\ WrongType /\ Without({"late"})'
    BY CalmStep, Zenon DEF BaseInv
<1>2. CASE Probe
  <2>1. pc = "probe" /\ UNCHANGED status /\ Call("health", "nginx", target, "drift")
    BY <1>2, Zenon DEF Probe, EndPoll, storeVars
  <2>2. ~NginxHealthy(nginx, target)
    <3>1. "nginx" \in Services
      BY Zenon DEF Services
    <3>2. QED
      BY <1>1, <2>1, <3>1, HealthCall, Zenon
  <2>3. QED
    BY <2>1, <2>2, Zenon DEF ProbeFindsNoDrift, SomeActive, Active
<1>3. CASE Edit
    BY <1>1, <1>3, EditOther, Zenon
<1>4. CASE UNCHANGED <<pc, status>>
    BY <1>4, Zenon DEF RepairIsBlocked, SomeActive, Active
<1>5. QED
    BY <1>2, <1>3, <1>4, AtProbe, Zenon

LEMMA UnfailedStep ==
    ASSUME BaseInv, UnfailedInv, CalmInv, [Next]_vars
    PROVE  UnfailedInv'
<1> SUFFICES ASSUME Calm', Without({"fail"})' PROVE UnfailedFacts' /\ NoRepairs' /\ RepairIsBlocked'
    BY Zenon DEF UnfailedInv, UnfailedFacts
<1>1. Calm /\ Without({"fail"})
    BY CalmStep, Zenon
<1>2. NoRepairs /\ RepairIsBlocked /\ ProbeFindsNoDrift
    BY <1>1, Zenon DEF UnfailedInv, CalmInv
<1>3. NoFailure
    BY <1>1, Zenon DEF NoFailure, Without
<1>4. QED
    BY <1>2, <1>3, UnfailedFactsStep, NoRepairsStep, RepairStep, Zenon

(* A repair is taken by the poll that stores it, and no poll gives it back. *)
LEMMA RepairsClaimedStep ==
    ASSUME BaseInv, [Next]_vars, Calm', RepairsAreClaimed
    PROVE  RepairsAreClaimed'
<1> SUFFICES ASSUME NEW j \in Jobs, kind'[j] = "repair", status'[j] = "queued" PROVE FALSE
    BY Zenon DEF RepairsAreClaimed
<1>1. PipelineInv /\ RowsInv /\ OrderFacts /\ status \in [Jobs -> Statuses] /\ ~StoreError
    BY CalmStep, Zenon DEF BaseInv, PipelineInv, TypeOK, StoreTypeOK
<1>2. CASE UNCHANGED <<status, kind>>
    BY <1>2, Zenon DEF RepairsAreClaimed
<1>3. CASE Recover
  <2>1. pc \notin Busy /\ RecoverStale
    BY <1>1, <1>3, Zenon DEF Recover, Busy
  <2>2. \A i \in Jobs : status[i] \notin {"validating", "applying"}
    BY <1>1, <2>1, Zenon DEF OrderFacts, OneAtATime
  <2>3. status'[j] = status[j] /\ UNCHANGED kind
    BY <2>1, <2>2, Zenon DEF RecoverStale, Stale
  <2>4. QED
    BY <2>3, Zenon DEF RepairsAreClaimed
<1>4. CASE Claim
  <2>1. CASE \E i \in Jobs : ClaimNext(i)
    <3>1. PICK i \in Jobs : ClaimNext(i)
      BY <2>1, Zenon
    <3>2. (status'[j] = status[j] \/ status'[j] = "validating") /\ UNCHANGED kind
      BY <1>1, <3>1, Zenon DEF ClaimNext
    <3>3. QED
      BY <3>2, Zenon DEF RepairsAreClaimed
  <2>2. CASE UNCHANGED storeVars
    BY <1>2, <2>2, Zenon DEF storeVars
  <2>3. QED
    BY <1>1, <1>4, <2>1, <2>2, Zenon DEF Claim
<1>5. CASE Repair
  <2>1. CASE \E i \in Jobs : EnqueueIfNotActive(i, target)
    BY <1>1, <2>1, EnlistsRow, Zenon DEF RepairsAreClaimed
  <2>2. CASE UNCHANGED storeVars
    BY <1>2, <2>2, Zenon DEF storeVars
  <2>3. QED
    BY <1>1, <1>5, <2>1, <2>2, Zenon DEF Repair
<1>6. CASE Edit
  <2>1. PICK r \in Revs, k \in Jobs : Inserts(r, k)
    BY <1>1, <1>6, EditInserts, Zenon
  <2>2. status[j] # "absent" /\ kind[j] = "repair"
    BY <2>1, Zenon DEF Inserts
  <2>3. QED
    BY <2>1, <2>2, Zenon DEF Inserts, RepairsAreClaimed
<1>7. CASE MarkRevision
    BY <1>1, <1>2, <1>7, Zenon DEF MarkRevision, MarkApplied
<1>8. CASE SetApplying \/ SetRolledBack \/ SetFailed \/ SetApplied
  <2>1. \/ UNCHANGED storeVars
        \/ SetStatus("applying") \/ SetStatus("rolled-back") \/ SetStatus("failed") \/ SetStatus("applied")
    BY <1>8, Zenon DEF SetApplying, SetRolledBack, SetFailed, SetApplied, RecordOutcome, SetStatusError, StoreError
  <2>2. UNCHANGED storeVars \/ (UNCHANGED kind /\ status'[j] = status[j])
    BY <1>1, <2>1, ZenonT(60) DEF SetStatus, UpdateStatus
  <2>3. QED
    BY <2>2, Zenon DEF storeVars, RepairsAreClaimed
<1>9. QED
    BY <1>2, <1>3, <1>4, <1>5, <1>6, <1>7, <1>8, StoreQuiet, Zenon DEF jobVars

(***************************************************************************)
(* A repair promotes the revision that is in place already.  It starts     *)
(* after the one call that failed, so nothing else goes wrong during it.   *)
(***************************************************************************)
LEMMA RepairsChangeNothingStep ==
    ASSUME BaseInv, BaseInv', UnfailedInv, [Next]_vars, Calm, Calm', Tracked \/ Hope, Unmarked => Hope,
           ProbeFindsNoDrift, RepairsAreClaimed, RepairsChangeNothing
    PROVE  RepairsChangeNothing'
<1> SUFFICES ASSUME pc' \in Busy, kind'[job'] = "repair" PROVE rev'[job'] = KnownGood' /\ TrackedFacts'
  <2>1. promoted' \subseteq Services
    BY Zenon DEF BaseInv, WorkInv, LoopInv
  <2>2. QED
    BY <2>1, TrackedIsNext, Zenon DEF RepairsChangeNothing
<1>1. PipelineInv /\ RowsInv /\ WorkInv /\ promoted \subseteq Services
    BY Zenon DEF BaseInv, WorkInv, LoopInv
<1>2. CASE pc \notin Busy
  <2>1. CASE Repair
    <3>1. PICK j \in Jobs : EnqueueIfNotActive(j, target) /\ job' = j
      BY <1>2, <2>1, Zenon DEF Repair, EndPoll, Busy
    <3>2. pc = "repair" /\ ~SomeActive
      BY <2>1, <3>1, Zenon DEF Repair, EnqueueIfNotActive, SomeActive, Active
    <3>3. target = KnownGood
      BY <1>2, <3>2, IdleIsTracked, Zenon DEF ProbeFindsNoDrift, NginxHealthy
    <3>4. TrackedFacts
      BY <1>1, <1>2, <3>2, BusyIs, OtherIsSome, TrackedIs, Zenon DEF Hope
    <3>5. QED
      BY <1>1, <2>1, <3>1, <3>3, <3>4, EnlistsRow, TrackedIdle, Zenon
  <2>2. CASE Claim
    <3>1. PICK j \in Jobs : ClaimNext(j) /\ job' = j
      BY <1>2, <2>2, Zenon DEF Claim, EndPoll, Busy
    <3>2. status[j] = "queued" /\ UNCHANGED kind
      BY <3>1, Zenon DEF ClaimNext
    <3>3. QED
      BY <3>1, <3>2, Zenon DEF RepairsAreClaimed
  <2>3. QED
    BY <1>1, <1>2, <2>1, <2>2, GetsBusy, Zenon
<1>3. CASE pc \in Busy
  <2>1. job' = job /\ job \in Jobs /\ status[job] # "absent"
    BY <1>1, <1>3, BusyKeepsJob, Zenon DEF PipelineInv, BusyHasJob
  <2>2. rev'[job] = rev[job] /\ kind'[job] = kind[job] /\ KnownGood' = KnownGood
    <3>1. CASE Edit
      BY <1>1, <2>1, <3>1, EditKeepsRow, EditInserts, EditColumns, KnownGoodSame, Zenon DEF Inserts
    <3>2. CASE ActiveSame
      BY <1>1, <3>2, KnownGoodSame, Zenon DEF ActiveSame
    <3>3. ~Applies /\ ~GivesUp
      BY <1>1, FinishRow, Zenon
    <3>4. ~Enlists
      BY <1>3, Zenon DEF Enlists, Busy
    <3>5. QED
      BY <1>1, <3>1, <3>2, <3>3, <3>4, StoreCases, Zenon
  <2>3. rev[job] = KnownGood /\ TrackedFacts
    BY <1>1, <1>3, <2>1, <2>2, TrackedIs, Zenon DEF RepairsChangeNothing
  <2>4. ~Without({"fail"})
    BY <2>1, <2>2, Zenon DEF UnfailedInv, NoRepairs
  <2>5. NoFailure /\ ~HelperRestart /\ ~NginxRestart
    BY <2>4, FailureBefore, RestartBefore, Zenon
  <2>6. QED
    BY <2>1, <2>2, <2>3, <2>5, TrackedStep, Zenon
<1>4. QED
    BY <1>2, <1>3, Zenon

(* A revision without its mark is about to be applied or replaced. *)
LEMMA UnmarkedStep ==
    ASSUME BaseInv, BaseInv', UnfailedInv, [Next]_vars, Calm', Unmarked => Hope,
           SupersededHasOther', OrderFacts'
    PROVE  Unmarked' => Hope'
<1> SUFFICES ASSUME Unmarked' PROVE Hope'
    BY Zenon
<1>1. PipelineInv /\ RowsInv /\ WorkInv /\ Calm
    BY CalmStep, Zenon DEF BaseInv
<1>2. ~Applies
  <2>1. ASSUME Applies PROVE FALSE
    BY <1>1, <2>1, AppliesRow, Zenon DEF Unmarked
  <2>2. QED
    BY <2>1, Zenon
<1>3. ASSUME pc' \in Forward PROVE Hope'
    BY <1>3, ForwardHopeNext, Zenon DEF BaseInv
<1>4. CASE ActiveSame /\ UNCHANGED marked
  <2>1. Unmarked
    BY <1>1, <1>4, KnownGoodSame, Zenon DEF ActiveSame, Unmarked
  <2>2. CASE NoFailure
    BY <1>2, <2>1, <2>2, HopeStep, Zenon
  <2>3. CASE ~NoFailure
    <3>1. UnmarkedLeavesTwo
      BY <1>1, <2>3, FailureBefore, Zenon DEF UnfailedInv
    <3>2. CASE TwoActive
      BY <3>2, TwoIsOther, OtherStays, Zenon
    <3>3. CASE pc = "setApplied" /\ status[job] = "applying"
      BY <1>2, <1>3, <3>3, AtSetApplied, Zenon DEF Forward
    <3>4. QED
      BY <2>1, <3>1, <3>2, <3>3, Zenon DEF UnmarkedLeavesTwo
  <2>4. QED
    BY <2>2, <2>3, Zenon
<1>5. CASE Marks
    BY <1>3, <1>5, Zenon DEF Marks, Forward
<1>6. CASE Edit
    BY <1>1, <1>6, EditOther, Zenon DEF Hope
<1>7. CASE GivesUp
  <2>1. UNCHANGED <<rev, marked, appliedLog>>
    BY <1>7, Zenon DEF GivesUp, SetStatus, UpdateStatus
  <2>2. Unmarked /\ pc \notin Forward
    BY <1>1, <1>7, <2>1, KnownGoodSame, Zenon DEF Unmarked, GivesUp, Forward
  <2>3. QED
    BY <2>2, OtherStays, Zenon DEF Hope
<1>8. CASE Enlists
    BY <1>3, <1>8, Zenon DEF Enlists, Forward
<1>9. QED
    BY <1>1, <1>2, <1>4, <1>5, <1>6, <1>7, <1>8, StoreCases, Zenon

(* The last applied files are in place or in reach, or a job replaces them. *)
LEMMA RecoverableStep ==
    ASSUME BaseInv, BaseInv', FreshInv, UnfailedInv, CalmInv, [Next]_vars, Calm', SupersededHasOther', OrderFacts'
    PROVE  TrackedFacts' \/ Hope'
<1>1. /\ PipelineInv /\ RowsInv /\ WorkInv /\ Calm /\ (pc \in Forward => ServedFiles)
      /\ promoted \subseteq Services
    BY CalmStep, Zenon DEF BaseInv, WorkInv, LoopInv
<1>2. /\ Tracked \/ Hope
      /\ RepairsChangeNothing
    BY <1>1, Zenon DEF CalmInv
<1>3. CASE ~NoFailure
  <2>1. OneFailure /\ Without({"fail"}) /\ Without(Troubles)
    BY <1>3, FailureBefore, Zenon
  <2>2. TrackedFacts /\ GivenUpIsSuperseded /\ SupersededLeavesTwo
    BY <1>1, <2>1, TrackedIs, Zenon DEF CalmInv, UnfailedInv
  <2>3. ~HelperRestart /\ ~NginxRestart
    BY <1>3, RestartBefore, Zenon
  <2>4. CASE Rollback
    <3>1. pc = "rollback" /\ pc \in Busy
      BY <2>4, BusyIs, Zenon DEF Rollback, Failing
    <3>2. TwoActive
      BY <2>2, <3>1, Zenon DEF GivenUpIsSuperseded, SupersededLeavesTwo, Failing
    <3>3. QED
      BY <3>2, TwoIsOther, OtherStays, Zenon
  <2>5. CASE pc' \in Forward
    BY <2>5, ForwardHopeNext, Zenon DEF BaseInv
  <2>6. CASE ~Rollback /\ pc' \notin Forward
    BY <1>2, <2>1, <2>2, <2>3, <2>6, TrackedStep, Zenon
  <2>7. QED
    BY <2>4, <2>5, <2>6, Zenon
<1>4. CASE NoFailure /\ Hope
  <2>1. Hope' \/ Applies
    BY <1>4, HopeStep, Zenon
  <2>2. ASSUME Applies PROVE TrackedFacts'
    BY <1>1, <1>2, <2>2, TrackedApplies, Zenon DEF Applies, Forward
  <2>3. QED
    BY <2>1, <2>2, Zenon
<1>5. CASE NoFailure /\ ~Hope
  <2>1. TrackedFacts
    BY <1>1, <1>2, <1>5, TrackedIs, Zenon
  <2>2. CASE HelperRestart \/ NginxRestart
    BY <1>5, <2>1, <2>2, RestartIdle, Zenon
  <2>3. CASE ~HelperRestart /\ ~NginxRestart
    BY <1>2, <1>5, <2>1, <2>3, TrackedStep, Zenon
  <2>4. QED
    BY <2>2, <2>3, Zenon
<1>6. QED
    BY <1>3, <1>4, <1>5, Zenon

LEMMA CalmInvStep ==
    ASSUME BaseInv, FreshInv, UnfailedInv, CalmInv, [Next]_vars
    PROVE  CalmInv'
<1>1. BaseInv' /\ PipelineInv /\ WrongType /\ WrongType' /\ promoted \subseteq Services /\ promoted' \subseteq Services
    BY BaseStep, ZenonT(60) DEF BaseInv, PipelineInv, TypeOK, WrongType, WorkInv, LoopInv
<1>2. ASSUME Without(Troubles)' PROVE Tracked'
  <2>1. Grows /\ Troubles \in SUBSET Troubles
    BY <1>1, StepGrows, Zenon
  <2>2. Without(Troubles)
    BY <1>1, <1>2, <2>1, WithoutBefore, Zenon
  <2>3. \A b \in Troubles : wrong[b] = 0 /\ wrong'[b] = 0
    BY <1>2, <2>2, Zenon DEF Without
  <2>4. /\ wrong["fail"] = 0 /\ wrong'["fail"] = 0 /\ wrong'["store"] = 0 /\ wrong'["late"] = 0
        /\ wrong'["crash"] = 0 /\ wrong'["restart"] = 0
    BY <2>3, Zenon DEF Troubles
  <2>5. Calm' /\ NoFailure
    BY <2>4 DEF Calm, SoundStarts, Without, NoFailure
  <2>6. ~HelperRestart /\ ~NginxRestart
    BY <1>1, <2>4, RestartCounts, Zenon
  <2>7. Calm
    BY <2>5, CalmStep, Zenon
  <2>8. TrackedFacts /\ RepairsChangeNothing
    BY <1>1, <2>2, <2>7, TrackedIs, Zenon DEF CalmInv
  <2>9. QED
    BY <1>1, <2>5, <2>6, <2>8, TrackedStep, TrackedIsNext, Zenon
<1>3. ASSUME Calm'
      PROVE  /\ Tracked' \/ Hope'
             /\ Unmarked' => Hope'
             /\ SupersededHasOther' /\ ProbeFindsNoDrift' /\ RepairsAreClaimed' /\ RepairsChangeNothing'
  <2>1. Calm
    BY <1>3, CalmStep, Zenon
  <2>2. /\ Tracked \/ Hope
        /\ Unmarked => Hope
        /\ SupersededHasOther /\ ProbeFindsNoDrift /\ RepairsAreClaimed /\ RepairsChangeNothing
    BY <2>1, Zenon DEF CalmInv
  <2>3. OrderFacts'
    BY <1>1, <1>3, Zenon DEF BaseInv, OrderInv, OrderFacts, Calm, Without
  <2>4. SupersededHasOther'
    BY <1>3, <2>2, SupersededStep, Zenon
  <2>5. Unmarked' => Hope'
    BY <1>1, <1>3, <2>2, <2>3, <2>4, UnmarkedStep, Zenon
  <2>6. ProbeFindsNoDrift' /\ RepairsAreClaimed' /\ RepairsChangeNothing'
    BY <1>1, <1>3, <2>1, <2>2, ProbeStep, RepairsClaimedStep, RepairsChangeNothingStep, Zenon
  <2>7. Tracked' \/ Hope'
    BY <1>1, <1>3, <2>3, <2>4, RecoverableStep, TrackedIsNext, Zenon
  <2>8. QED
    BY <2>4, <2>5, <2>6, <2>7, Zenon
<1>4. QED
    BY <1>2, <1>3, Zenon DEF CalmInv

(* What a rollback restores *)

Undoable == wrong["fail"] + wrong["store"] <= 1 /\ Without({"late", "crash", "restart"})

(* Whatever goes wrong while a job can be undone is the first thing to go wrong. *)
LEMMA UndoableBefore ==
    ASSUME BaseInv, [Next]_vars, Undoable'
    PROVE  /\ Undoable /\ Prompt' /\ ~Crash /\ ~LateHandler /\ WrongType
           /\ ~HelperRestart /\ ~NginxRestart /\ ~CoreDNSRestart
           /\ ~NoFailure => OneFailure
           /\ ~NoFailure \/ StoreError => Without(Troubles)
<1>1. PipelineInv /\ PipelineInv' /\ WrongType /\ WrongType'
    BY BaseStep, Zenon DEF BaseInv, PipelineInv, TypeOK, WrongType
<1>2. Grows
    BY <1>1, StepGrows, Zenon
<1>3. wrong'["late"] = 0 /\ wrong'["crash"] = 0 /\ wrong'["restart"] = 0 /\ wrong'["fail"] + wrong'["store"] <= 1
    BY Zenon DEF Undoable, Without
<1>4. \A b \in Troubles : wrong[b] \in Nat /\ wrong'[b] \in Nat /\ wrong[b] <= wrong'[b]
    BY <1>1, <1>2, Zenon DEF WrongType, Grows
<1>5. /\ wrong["late"] = 0 /\ wrong["crash"] = 0 /\ wrong["restart"] = 0
      /\ wrong["fail"] \in Nat /\ wrong["store"] \in Nat /\ wrong'["fail"] \in Nat /\ wrong'["store"] \in Nat
      /\ wrong["fail"] <= wrong'["fail"] /\ wrong["store"] <= wrong'["store"]
    BY <1>3, <1>4 DEF Troubles
<1>6. Undoable /\ Prompt' /\ Without({"late"})
    BY <1>3, <1>5 DEF Undoable, Without, Prompt, SoundStarts
<1>7. ~Crash
  <2>1. "crash" # "late" /\ 0 + 1 # 0
    OBVIOUS
  <2>2. QED
    BY <1>1, <1>3, <1>5, <2>1, TroubleKinds, GoesWrongGrows, GoWrongGrows DEF Crash
<1>8. ~LateHandler
    BY <1>6, ServedIs, Zenon DEF BaseInv, LateHandler
<1>9. ~HelperRestart /\ ~NginxRestart /\ ~CoreDNSRestart
    BY <1>1, <1>3, RestartCounts, Zenon
<1>10. ~NoFailure => OneFailure
    BY <1>3, <1>5 DEF NoFailure, OneFailure
<1>11. ~NoFailure \/ StoreError => wrong["fail"] = 0 /\ wrong["store"] = 0
    BY <1>1, <1>3, <1>5, StoreErrorGrows DEF NoFailure
<1>12. QED
    BY <1>1, <1>5, <1>6, <1>7, <1>8, <1>9, <1>10, <1>11, Zenon DEF Without, Troubles

(* A rollback begins, or a job is about to be recorded as rolled back. *)
LEMMA UndoBegins ==
    ASSUME BaseInv, CalmInv, [Next]_vars, Undoable', pc \notin {"rollback", "setRolledBack"},
           pc' \in {"rollback", "setRolledBack"}, Active(job)'
    PROVE  TrackedFacts'
<1>1. /\ PipelineInv /\ RowsInv /\ WorkInv /\ promoted \subseteq Services
      /\ Prompt' /\ Without({"late"})' /\ ~Crash /\ ~LateHandler
      /\ ~NoFailure => OneFailure
      /\ ~NoFailure \/ StoreError => Without(Troubles)
    BY UndoableBefore, Zenon DEF BaseInv, WorkInv, LoopInv, Prompt
<1>2. Without(Troubles) => TrackedFacts
    BY <1>1, TrackedIs, Zenon DEF CalmInv
<1>3. pc' \in Failing /\ pc' \notin Forward /\ pc' \in Busy
    BY BusyIs, Zenon DEF Failing, Forward
<1>4. CASE Promote \/ Reload \/ Health
  <2>1. pc \notin Failing /\ UNCHANGED status
    BY <1>4, Zenon DEF Promote, Reload, Health, Failing, storeVars
  <2>2. ~NoFailure
    <3>1. ASSUME NoFailure PROVE FALSE
      <4>1. Goes
        BY <1>1, <1>4, <3>1, OnwardCalls, Zenon
      <4>2. QED
        BY <1>3, <2>1, <4>1, Zenon DEF Goes, Active, Unfinished
    <3>2. QED
      BY <3>1, Zenon
  <2>3. QED
    BY <1>1, <1>2, <1>3, <1>4, <2>2, TrackedPromote, TrackedReload, TrackedHealth, Zenon
<1>5. CASE MarkRevision
  <2>1. StoreError /\ ~Applies
    BY <1>5, Zenon DEF MarkRevision, Applies
  <2>2. QED
    BY <1>1, <1>2, <1>5, <2>1, TrackedRecord, Zenon
<1>6. CASE SetApplied \/ SetFailed
  <2>1. /\ ApplyError
        /\ \/ pc = "setApplied" /\ SetStatusError("applied")
           \/ pc = "setFailed" /\ SetStatusError("failed")
    BY <1>3, <1>6, BusyIs, Zenon DEF SetApplied, SetFailed, RecordOutcome, EndPoll, Forward, Failing
  <2>2. promoted # {} /\ ~Applies /\ job' = job
    BY <2>1, <1>3, BusyIs, Zenon DEF ApplyError, Applies, EndPoll, Forward, Failing
  <2>3. local = "applying" /\ status[job] \in {"applying", "failed"}
    BY <1>1, <2>1, <2>2, BusyIs, Zenon DEF WorkInv, CopyInv, Forward, Failing
  <2>4. StoreError
    <3>1. ASSUME ~StoreError PROVE FALSE
      <4>1. status[job] = "failed" /\ UNCHANGED status
        BY <2>1, <2>3, <3>1, Zenon DEF SetStatusError, Transition, storeVars
      <4>2. QED
        BY <2>2, <4>1, Zenon DEF Active, Unfinished
    <3>2. QED
      BY <3>1, Zenon
  <2>5. QED
    BY <1>1, <1>2, <1>6, <2>2, <2>4, TrackedRecord, Zenon
<1>7. ~(Start \/ Prepare \/ SetApplying)
  <2>1. ASSUME Start \/ Prepare \/ SetApplying PROVE FALSE
    <3>1. promoted = {}
      BY <1>1, <2>1, Zenon DEF Start, Prepare, SetApplying, WorkInv, LoopInv
    <3>2. QED
      BY <2>1, <3>1, ZenonT(60) DEF Start, Prepare, SetApplying, NextCandidate, ApplyError, EndPoll
  <2>2. QED
    BY <2>1, Zenon
<1>8. ~(Wake \/ Recover \/ Claim \/ List \/ Latest \/ Probe \/ Repair \/ Restart \/ Rollback \/ SetRolledBack)
    BY ZenonT(60) DEF Wake, Recover, Claim, List, Latest, Probe, Repair, Restart, Rollback, SetRolledBack, RecordOutcome, EndPoll
<1>9. ~(\/ HelperRestart \/ NginxRestart \/ CoreDNSRestart \/ CoreDNSReloads \/ Edit
        \/ (\E j \in Jobs : Expire(j)) \/ UNCHANGED vars)
    BY Zenon DEF HelperRestart, NginxRestart, CoreDNSRestart, CoreDNSReloads, Edit, Expire, vars, workerVars
<1>10. QED
    BY <1>1, <1>4, <1>5, <1>6, <1>7, <1>8, <1>9, ZenonT(60) DEF Next, WorkerStep

(* A rollback goes on. *)
LEMMA UndoGoesOn ==
    ASSUME BaseInv, UnfailedInv, UndoInv, [Next]_vars, Undoable', pc \in {"rollback", "setRolledBack"},
           pc' \in {"rollback", "setRolledBack"}, Active(job)'
    PROVE  TrackedFacts'
<1>1. /\ PipelineInv /\ RowsInv /\ WorkInv /\ promoted \subseteq Services /\ Undoable
      /\ Prompt' /\ Without({"late"})' /\ ~Crash /\ ~LateHandler
      /\ ~HelperRestart /\ ~NginxRestart /\ ~CoreDNSRestart
      /\ ~NoFailure => Without(Troubles)
    BY UndoableBefore, Zenon DEF BaseInv, WorkInv, LoopInv, Prompt
<1>2. pc \in Busy /\ pc \in Failing /\ pc' \in Busy
    BY BusyIs, Zenon DEF Failing
<1>3. job' = job /\ job \in Jobs /\ status[job] # "absent"
    BY <1>1, <1>2, BusyKeepsJob, Zenon DEF PipelineInv, BusyHasJob
<1>4. ASSUME Active(job) PROVE TrackedFacts
    BY <1>1, <1>4, TrackedIs, Zenon DEF UndoInv, Undoable
<1>5. CASE Rollback
  <2>1. Active(job)
    BY <1>3, <1>5, Zenon DEF Rollback, storeVars, Active
  <2>2. NoFailure
    <3>1. ASSUME ~NoFailure PROVE FALSE
      <4>1. Without(Troubles)
        BY <1>1, <3>1, Zenon
      <4>2. /\ wrong["fail"] = 0 /\ wrong["store"] = 0 /\ wrong["late"] = 0
            /\ wrong["crash"] = 0 /\ wrong["restart"] = 0
        BY <4>1, Zenon DEF Without, Troubles
      <4>3. Calm /\ Without({"fail"})
        BY <4>2 DEF Calm, SoundStarts, Without
      <4>4. status[job] = "failed"
        BY <1>2, <4>3, Zenon DEF UnfailedInv, GivenUpIsSuperseded
      <4>5. QED
        BY <2>1, <4>4, Zenon DEF Active, Unfinished
    <3>2. QED
      BY <3>1, Zenon
  <2>3. QED
    BY <1>1, <1>4, <1>5, <2>1, <2>2, TrackedRollback, Zenon
<1>6. CASE SetRolledBack
  <2>1. ~Applies /\ SetStatusError("rolled-back")
    BY <1>2, <1>6, BusyIs, Zenon DEF SetRolledBack, RecordOutcome, EndPoll, Applies, Forward, Failing
  <2>2. Active(job)
    BY <1>3, <2>1, Zenon DEF SetStatusError, StoreError, storeVars, Active
  <2>3. QED
    BY <1>1, <1>4, <1>6, <2>1, <2>2, TrackedRecord, Zenon
<1>7. CASE CoreDNSReloads \/ Edit \/ (\E j \in Jobs : Expire(j)) \/ UNCHANGED vars
  <2>1. CASE Edit
    BY <1>1, <1>3, <1>4, <2>1, EditKeepsRow, TrackedAround, Zenon DEF Active, Unfinished
  <2>2. CASE CoreDNSReloads \/ (\E j \in Jobs : Expire(j)) \/ UNCHANGED vars
    <3>1. UNCHANGED status
      BY <2>2, Zenon DEF CoreDNSReloads, Expire, LeaseExpires, vars, storeVars
    <3>2. Active(job)
      BY <1>3, <3>1, Zenon DEF Active
    <3>3. QED
      BY <1>1, <1>4, <2>2, <3>2, TrackedAround, Zenon
  <2>3. QED
    BY <1>7, <2>1, <2>2, Zenon
<1>8. ~(Wake \/ Recover \/ Claim \/ List \/ Latest \/ Probe \/ Repair \/ Restart)
    BY Zenon DEF Wake, Recover, Claim, List, Latest, Probe, Repair, Restart
<1>9. ~(\/ Start \/ Prepare \/ SetApplying \/ Promote \/ Reload \/ Health \/ SetFailed \/ MarkRevision \/ SetApplied)
    BY Zenon DEF Start, Prepare, SetApplying, Promote, Reload, Health, SetFailed, RecordOutcome, MarkRevision, SetApplied
<1>10. QED
    BY <1>1, <1>5, <1>6, <1>7, <1>8, <1>9, Zenon DEF Next, WorkerStep

LEMMA UndoStep ==
    ASSUME BaseInv, UnfailedInv, CalmInv, UndoInv, [Next]_vars
    PROVE  UndoInv'
<1> SUFFICES ASSUME Undoable', pc' \in {"rollback", "setRolledBack"}, Active(job)' PROVE Tracked'
    BY Zenon DEF UndoInv, Undoable
<1>1. promoted' \subseteq Services
    BY BaseStep, Zenon DEF BaseInv, WorkInv, LoopInv
<1>2. TrackedFacts'
    BY UndoBegins, UndoGoesOn, Zenon
<1>3. QED
    BY <1>1, <1>2, TrackedIsNext, Zenon

-----------------------------------------------------------------------------
(* The invariant and what follows from it *)

LEMMA InitApply == Init => ApplyInv
<1> SUFFICES ASSUME Init PROVE ApplyInv
    BY Zenon
<1>1. PipelineInv
    BY InitInv, Zenon
<1>2. /\ pc = "recover" /\ pc \notin Busy /\ pc \notin Forward /\ pc \notin Failing
      /\ promoted = {} /\ job = None /\ late = {}
    BY BusyIs, Zenon DEF Init, Forward, Failing
<1>3. /\ \A j \in Jobs : status[j] = "absent"
      /\ marked = {} /\ appliedLog = <<>>
    BY Zenon DEF Init, StoreInit
<1>4. /\ nginx.active = Baked /\ nginx.stable = None /\ nginx.prev = None
      /\ coredns.corefile = Baked /\ coredns.zones = Baked
      /\ candidate = [s \in Services |-> None]
    BY Zenon DEF Init, ControlInit
<1>5. \A j \in Jobs : ~Active(j)
    BY <1>3, Zenon DEF Active, Unfinished
<1>6. RowsInv
    BY <1>3 DEF RowsInv
<1>7. CopyInv /\ LoopInv
    BY <1>2, BusyIs, Zenon DEF CopyInv, LoopInv, Forward, Failing
<1>8. FreshInv
    BY <1>2, <1>3, <1>4, ZenonT(60) DEF FreshInv
<1>9. OrderInv
    BY <1>2, <1>3, <1>5, Zenon DEF OrderInv, OneAtATime, InOrder, LostCopy
<1>10. ServedInv
    BY <1>2, Zenon DEF ServedInv
<1>11. ~Unmarked /\ KnownGood = Baked
    BY <1>3, Zenon DEF Unmarked, KnownGood
<1>12. UnfailedInv
    BY <1>2, <1>3, <1>5, <1>11, Zenon
    DEF UnfailedInv, GivenUpIsSuperseded, SupersededLeavesTwo, AppliedOrActive, NewerThanActive,
        NewerThanKnownGood, UnmarkedLeavesTwo, NoRepairs, RepairIsBlocked
<1>13. TrackedFacts
    BY <1>2, <1>3, <1>4, <1>11, ChangedIs, Zenon DEF TrackedFacts
<1>14. Tracked
    BY <1>2, <1>13, TrackedIs, Zenon
<1>15. CalmInv
    BY <1>2, <1>3, <1>11, <1>14, Zenon
    DEF CalmInv, SupersededHasOther, ProbeFindsNoDrift, RepairsAreClaimed, RepairsChangeNothing
<1>16. UndoInv
    BY <1>14, Zenon DEF UndoInv
<1>17. QED
    BY <1>1, <1>6, <1>7, <1>8, <1>9, <1>10, <1>12, <1>15, <1>16, Zenon DEF ApplyInv

LEMMA ApplyInvStep == ApplyInv /\ [Next]_vars => ApplyInv'
<1> SUFFICES ASSUME ApplyInv, [Next]_vars PROVE ApplyInv'
    BY Zenon
<1>1. BaseInv /\ FreshInv /\ UnfailedInv /\ CalmInv /\ UndoInv /\ PipelineInv /\ RowsInv
    BY Zenon DEF ApplyInv, BaseInv, WorkInv
<1>2. BaseInv'
    BY <1>1, BaseStep, Zenon
<1>3. FreshInv' /\ UnfailedInv' /\ CalmInv' /\ UndoInv'
    BY <1>1, FreshStep, UnfailedStep, CalmInvStep, UndoStep, Zenon
<1>4. QED
    BY <1>2, <1>3, Zenon DEF ApplyInv, BaseInv, WorkInv

(***************************************************************************)
(* The whole inductive invariant of the pipeline: which rows exist, what   *)
(* Orchestrator.Apply has promoted and loaded at each of its calls, in     *)
(* which order PollOnce takes the jobs, and that the files of the last     *)
(* applied job are in place, can be restored by rollback, or are about to  *)
(* be replaced by an unfinished job.                                       *)
(***************************************************************************)
THEOREM ApplyInvariant == Spec => []ApplyInv
BY InitApply, ApplyInvStep, PTL DEF Spec

(***************************************************************************)
(* A job that Orchestrator.Apply records as applied is in the files of its *)
(* services and loaded by them, for any number of jobs, failing calls,     *)
(* kills and lost store calls.                                             *)
(***************************************************************************)
THEOREM AppliedJobsAreServed == Spec => AppliedIsServed
<1>1. ApplyInv /\ [Next]_vars
      => [\A j \in Jobs : Becomes(j, "applied") /\ Without({"late"}) /\ SoundStarts => Serves(j)]_vars
  <2> SUFFICES ASSUME ApplyInv, [Next]_vars, NEW j \in Jobs, Becomes(j, "applied"), Without({"late"}), SoundStarts
               PROVE  Serves(j)
    BY Zenon
  <2>1. pc = "setApplied" /\ j = job
    BY RecordedBy, Zenon DEF ApplyInv
  <2>2. promoted = Targets(job) /\ Loaded = promoted
    BY <2>1, Zenon DEF ApplyInv, LoopInv, Loaded
  <2>3. ServedFiles
    BY <2>1, ServedIs, Zenon DEF ApplyInv, Prompt, Forward
  <2>4. QED
    BY <2>1, <2>2, <2>3, Zenon DEF Serves, ServedFiles, Targets, Services
<1>2. QED
    BY <1>1, ApplyInvariant, PTL DEF Spec, AppliedIsServed

(***************************************************************************)
(* PollOnce never applies an older job over a newer one of another         *)
(* revision, unless a kill or a lost store call had it claimed again.      *)
(***************************************************************************)
THEOREM JobsAreAppliedInOrder == Spec => NoStaleOverNewer
<1>1. ApplyInv /\ [Next]_vars
      => [\A i, j \in Jobs : Becomes(i, "applied") /\ i < j /\ status[j] = "applied" /\ Without({"store", "crash"})
              => rev[i] = rev[j]]_vars
  <2> SUFFICES ASSUME ApplyInv, [Next]_vars, NEW i \in Jobs, NEW j \in Jobs, Becomes(i, "applied"), i < j,
                      status[j] = "applied", Without({"store", "crash"})
               PROVE  rev[i] = rev[j]
    BY Zenon
  <2>1. i = job /\ status[job] = "applying"
    BY RecordedBy, Zenon DEF ApplyInv
  <2>2. Active(i)
    BY <2>1, Zenon DEF Active, Unfinished
  <2>3. status[j] \in {"absent", "queued", "failed"}
    BY <2>2, Zenon DEF ApplyInv, OrderInv, InOrder
  <2>4. QED
    BY <2>3, Zenon
<1>2. QED
    BY <1>1, ApplyInvariant, PTL DEF Spec, NoStaleOverNewer

(***************************************************************************)
(* When a job is recorded as rolled back, rollbackNginx and                *)
(* rollbackCoreDNS have put the files of the last applied job back,        *)
(* whichever single call or store call failed.                             *)
(***************************************************************************)
THEOREM RollbackRestoresKnownGood == Spec => RollbackRestores
<1>1. ApplyInv /\ [Next]_vars
      => [\A j \in Jobs :
            (/\ Becomes(j, "rolled-back")
             /\ wrong["fail"] + wrong["store"] <= 1 /\ Without({"late", "crash", "restart"})) =>
                /\ nginx.active = KnownGood
                /\ coredns.corefile = KnownGood /\ coredns.zones = KnownGood]_vars
  <2> SUFFICES ASSUME ApplyInv, [Next]_vars, NEW j \in Jobs, Becomes(j, "rolled-back"),
                      wrong["fail"] + wrong["store"] <= 1, Without({"late", "crash", "restart"})
               PROVE  nginx.active = KnownGood /\ coredns.corefile = KnownGood /\ coredns.zones = KnownGood
    BY Zenon
  <2>1. pc = "setRolledBack" /\ status[job] = "applying"
    BY RecordedBy, Zenon DEF ApplyInv
  <2>2. Tracked
    BY <2>1, Zenon DEF ApplyInv, UndoInv, Active, Unfinished
  <2>3. TrackedFacts /\ Changed = {}
    BY <2>1, <2>2, TrackedIs, ChangedIs, Zenon DEF ApplyInv, LoopInv
  <2>4. QED
    BY <2>3, Zenon DEF TrackedFacts
<1>2. QED
    BY <1>1, ApplyInvariant, PTL DEF Spec, RollbackRestores

(***************************************************************************)
(* With every job finished and the worker idle, Nginx and CoreDNS have the *)
(* files of one snapshot, whatever single call of Orchestrator.Apply       *)
(* failed and however many jobs were superseded by imports.                *)
(***************************************************************************)
THEOREM SnapshotsAreNotMixed == Spec => []NoMixedSnapshot
<1>1. ApplyInv => NoMixedSnapshot
  <2> SUFFICES ASSUME ApplyInv, pc \in {"wait", "down"}, Calm, \A j \in Jobs : status[j] \notin Unfinished
               PROVE  coredns.corefile = coredns.zones /\ nginx.active = coredns.corefile
    BY Zenon DEF NoMixedSnapshot, Calm
  <2>1. BaseInv /\ (Tracked \/ Hope) /\ (Unmarked => Hope)
    BY Zenon DEF ApplyInv, BaseInv, WorkInv, CalmInv
  <2>2. pc \notin Busy /\ ~SomeActive
    BY Zenon DEF Busy, SomeActive, Active
  <2>3. QED
    BY <2>1, <2>2, IdleIsTracked, Zenon
<1>2. QED
    BY <1>1, ApplyInvariant, PTL
=============================================================================
