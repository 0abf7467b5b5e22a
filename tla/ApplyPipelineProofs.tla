------------------------ MODULE ApplyPipelineProofs ------------------------
(***************************************************************************)
(* Proofs about the apply pipeline, for any number of jobs, revisions,     *)
(* edits, failures, crashes and restarts: the job rows, the worker's copy  *)
(* of its job, the order of the jobs, what the services have loaded, and   *)
(* which jobs are unfinished.                                              *)
(***************************************************************************)
EXTENDS ApplyInvariants, TLAPS

-----------------------------------------------------------------------------
(* The store's transactions keep its types. *)

LEMMA EnqueueType ==
    ASSUME StoreTypeOK, NEW r \in Revs, Enqueue(r)
    PROVE  StoreTypeOK'
BY DEF StoreTypeOK, Enqueue, InsertJob, Statuses, Kinds

LEMMA ImportType ==
    ASSUME StoreTypeOK, NEW r \in Revs, Import(r)
    PROVE  StoreTypeOK'
BY DEF StoreTypeOK, Import, InsertJob, Supersede, Statuses, Kinds

LEMMA ClaimType ==
    ASSUME StoreTypeOK, NEW j \in Jobs, ClaimNext(j)
    PROVE  StoreTypeOK'
BY Zenon DEF StoreTypeOK, ClaimNext, Statuses

LEMMA RecoverType ==
    ASSUME StoreTypeOK, RecoverStale
    PROVE  StoreTypeOK'
BY Zenon DEF StoreTypeOK, RecoverStale, Statuses

LEMMA ExpireType ==
    ASSUME StoreTypeOK, NEW j \in Jobs, LeaseExpires(j)
    PROVE  StoreTypeOK'
BY Zenon DEF StoreTypeOK, LeaseExpires

LEMMA RepairType ==
    ASSUME StoreTypeOK, NEW j \in Jobs, NEW r \in Revs, EnqueueIfNotActive(j, r)
    PROVE  StoreTypeOK'
BY Zenon DEF StoreTypeOK, EnqueueIfNotActive, InsertJob, Statuses, Kinds

LEMMA UpdateType ==
    ASSUME StoreTypeOK, NEW j \in Jobs, NEW s \in Statuses, UpdateStatus(j, s)
    PROVE  StoreTypeOK'
BY DEF StoreTypeOK, UpdateStatus

LEMMA MarkType ==
    ASSUME StoreTypeOK, NEW r, MarkApplied(r)
    PROVE  StoreTypeOK'
BY Zenon DEF StoreTypeOK, MarkApplied

-----------------------------------------------------------------------------
(* The control operations keep the types of the data plane. *)

LEMMA NginxFields ==
    ASSUME NEW n \in NginxState, NEW f \in Files, NEW g \in Files, NEW h \in Files
    PROVE  /\ {n.active, n.running, n.stable, n.prev, n.backup} \subseteq Files
           /\ [n EXCEPT !.active = f] \in NginxState
           /\ [n EXCEPT !.running = f] \in NginxState
           /\ [n EXCEPT !.stable = f] \in NginxState
           /\ [n EXCEPT !.prev = f] \in NginxState
           /\ [n EXCEPT !.backup = f] \in NginxState
           /\ [n EXCEPT !.active = f, !.prev = g] \in NginxState
           /\ [n EXCEPT !.active = f, !.stable = g] \in NginxState
           /\ [n EXCEPT !.stable = f, !.active = g] \in NginxState
           /\ [n EXCEPT !.active = f, !.backup = g] \in NginxState
           /\ [n EXCEPT !.active = f, !.running = g] \in NginxState
           /\ [n EXCEPT !.active = f, !.prev = g, !.stable = h] \in NginxState
BY Zenon DEF NginxState

LEMMA CoreDNSFields ==
    ASSUME NEW c \in CoreDNSState, NEW f \in Files, NEW g \in Files
    PROVE  /\ {c.corefile, c.zones, c.prevCorefile, c.prevZones} \subseteq Files
           /\ [c EXCEPT !.corefile = f] \in CoreDNSState
           /\ [c EXCEPT !.zones = f] \in CoreDNSState
           /\ [c EXCEPT !.prevCorefile = f] \in CoreDNSState
           /\ [c EXCEPT !.prevZones = f] \in CoreDNSState
           /\ [c EXCEPT !.runCorefile = f, !.runZones = g] \in CoreDNSState
           /\ [c EXCEPT !.zones = f, !.corefile = g] \in CoreDNSState
BY Zenon DEF CoreDNSState

LEMMA FixedFiles == None \in Files /\ Baked \in Files
BY Zenon DEF Files

LEMMA OutcomeState == ASSUME NEW st, NEW reply, NEW cost PROVE Outcome(st, reply, cost).st = st
BY Zenon DEF Outcome

LEMMA PromoteNginxType ==
    ASSUME NEW n \in NginxState, NEW r \in Files, NEW o \in PromoteNginx(n, r)
    PROVE  o.st \in NginxState
<1> DEFINE saved == [n EXCEPT !.backup = n.active]
           done  == [saved EXCEPT !.active = r, !.prev = n.active, !.stable = r]
<1>1. n.active \in Files /\ n.backup \in Files
    BY NginxFields, Zenon
<1>2. saved \in NginxState
    BY <1>1, NginxFields, Zenon
<1> HIDE DEF saved
<1>3. done \in NginxState
    BY <1>1, <1>2, NginxFields, Zenon
<1>4. /\ [saved EXCEPT !.prev = n.active] \in NginxState
      /\ [saved EXCEPT !.active = r] \in NginxState
      /\ [saved EXCEPT !.active = r, !.prev = n.active] \in NginxState
    BY <1>1, <1>2, NginxFields, Zenon
<1> HIDE DEF done
<1>5. [done EXCEPT !.prev = None] \in NginxState /\ [done EXCEPT !.backup = n.backup] \in NginxState
    BY <1>1, <1>3, NginxFields, FixedFiles, Zenon
<1>6. \/ o = Outcome(done, "ok", 0)
      \/ o = Outcome([done EXCEPT !.prev = None], "ok", 1)
      \/ o = Outcome([done EXCEPT !.backup = n.backup], "ok", 1)
      \/ o = Outcome(n, "refused", 1)
      \/ o = Outcome(saved, "refused", 1)
      \/ o = Outcome([saved EXCEPT !.prev = n.active], "refused", 1)
      \/ o = Outcome([saved EXCEPT !.active = r], "refused", 2)
      \/ o = Outcome([saved EXCEPT !.active = r, !.prev = n.active], "refused", 2)
    BY Zenon DEF PromoteNginx, saved, done
<1>7. QED
    BY <1>2, <1>3, <1>4, <1>5, <1>6, OutcomeState

LEMMA NginxType ==
    ASSUME NEW n \in NginxState, NEW r \in Files, NEW o,
           o \in ReloadNginx(n) \cup HealthNginx(n, r) \cup RollbackNginx(n)
    PROVE  o.st \in NginxState
<1>1. {n.active, n.prev, n.backup, None} \subseteq Files
    BY NginxFields, FixedFiles, Zenon
<1>2. /\ [n EXCEPT !.running = n.active] \in NginxState
      /\ [n EXCEPT !.stable = n.prev] \in NginxState
      /\ [n EXCEPT !.stable = n.prev, !.active = n.prev] \in NginxState
      /\ [n EXCEPT !.active = n.backup] \in NginxState
      /\ [n EXCEPT !.active = n.backup, !.stable = None] \in NginxState
    BY <1>1, NginxFields, Zenon
<1>3. CASE o \in ReloadNginx(n)
    BY <1>2, <1>3, OutcomeState DEF ReloadNginx
<1>4. CASE o \in HealthNginx(n, r)
    BY <1>4, OutcomeState DEF HealthNginx
<1>5. CASE o \in RollbackNginx(n)
    BY <1>2, <1>5, OutcomeState DEF RollbackNginx
<1>6. QED
    BY <1>3, <1>4, <1>5, Zenon

LEMMA CoreDNSLoadedType == ASSUME NEW c \in CoreDNSState PROVE CoreDNSLoaded(c) \in CoreDNSState
<1>1. c.corefile \in Files /\ c.zones \in Files
    BY CoreDNSFields, FixedFiles, Zenon
<1>2. QED
    BY <1>1, CoreDNSFields, Zenon DEF CoreDNSLoaded

LEMMA PromoteCoreDNSType ==
    ASSUME NEW c \in CoreDNSState, NEW r \in Files, NEW o \in PromoteCoreDNS(c, r)
    PROVE  o.st \in CoreDNSState
<1> DEFINE half  == [c EXCEPT !.prevCorefile = c.corefile]
           saved == [half EXCEPT !.prevZones = c.zones]
<1>1. c.corefile \in Files /\ c.zones \in Files /\ None \in Files
    BY CoreDNSFields, FixedFiles, Zenon
<1>2. half \in CoreDNSState
    BY <1>1, CoreDNSFields, Zenon
<1> HIDE DEF half
<1>3. saved \in CoreDNSState /\ [half EXCEPT !.prevZones = None] \in CoreDNSState
    BY <1>1, <1>2, CoreDNSFields, Zenon
<1> HIDE DEF saved
<1>4. /\ [saved EXCEPT !.zones = r, !.corefile = r] \in CoreDNSState
      /\ [saved EXCEPT !.zones = None] \in CoreDNSState
      /\ [saved EXCEPT !.zones = r] \in CoreDNSState
      /\ [saved EXCEPT !.corefile = r] \in CoreDNSState
    BY <1>1, <1>3, CoreDNSFields, Zenon
<1>5. \/ o = Outcome([saved EXCEPT !.zones = r, !.corefile = r], "ok", 0)
      \/ o = Outcome(c, "refused", 1)
      \/ o = Outcome(half, "refused", 1)
      \/ o = Outcome([half EXCEPT !.prevZones = None], "refused", 1)
      \/ o = Outcome(saved, "refused", 1)
      \/ o = Outcome([saved EXCEPT !.zones = None], "refused", 2)
      \/ o = Outcome([saved EXCEPT !.zones = r], "refused", 2)
      \/ o = Outcome([saved EXCEPT !.corefile = r], "refused", 2)
    BY Zenon DEF PromoteCoreDNS, half, saved
<1>6. QED
    BY <1>2, <1>3, <1>4, <1>5, OutcomeState

LEMMA RollbackCoreDNSType ==
    ASSUME NEW c \in CoreDNSState, NEW o \in RollbackCoreDNS(c)
    PROVE  o.st \in CoreDNSState
<1> DEFINE file == [c EXCEPT !.corefile = c.prevCorefile]
<1>1. c.prevCorefile \in Files /\ c.prevZones \in Files /\ None \in Files
    BY CoreDNSFields, FixedFiles, Zenon
<1>2. file \in CoreDNSState
    BY <1>1, CoreDNSFields, Zenon
<1> HIDE DEF file
<1>3. [file EXCEPT !.zones = c.prevZones] \in CoreDNSState /\ [file EXCEPT !.zones = None] \in CoreDNSState
    BY <1>1, <1>2, CoreDNSFields, Zenon
<1>4. \/ o = Outcome(c, "refused", 0)
      \/ o = Outcome([file EXCEPT !.zones = c.prevZones], "ok", 0)
      \/ o = Outcome(c, "refused", 1)
      \/ o = Outcome(file, "refused", 1)
      \/ o = Outcome([file EXCEPT !.zones = None], "refused", 1)
    BY Zenon DEF RollbackCoreDNS, file
<1>5. QED
    BY <1>2, <1>3, <1>4, OutcomeState

LEMMA CoreDNSType ==
    ASSUME NEW c \in CoreDNSState, NEW o, o \in ReloadCoreDNS(c) \cup HealthCoreDNS(c)
    PROVE  o.st \in CoreDNSState
BY CoreDNSLoadedType, OutcomeState DEF ReloadCoreDNS, HealthCoreDNS

Ops == {"promote", "reload", "health", "rollback"}

LEMMA HandleType ==
    ASSUME ControlTypeOK, NEW op \in Ops, NEW s, NEW r \in Files, NEW reply, NEW n,
           Handle(op, s, r, reply, n)
    PROVE  ControlTypeOK'
<1>1. CASE s = "nginx"
    <2>1. PICK o \in NginxOutcomes(op, r) : nginx' = o.st
        BY <1>1, Zenon DEF Handle
    <2>2. o.st \in NginxState
        BY <2>1, NginxType, PromoteNginxType, Zenon DEF NginxOutcomes, Ops, ControlTypeOK
    <2>3. QED
        BY <1>1, <2>1, <2>2, Zenon DEF Handle, ControlTypeOK
<1>2. CASE s = "coredns"
    <2>1. PICK o \in CoreDNSOutcomes(op, r) : coredns' = o.st
        BY <1>2, Zenon DEF Handle
    <2>2. o.st \in CoreDNSState
        BY <2>1, CoreDNSType, PromoteCoreDNSType, RollbackCoreDNSType, Zenon
           DEF CoreDNSOutcomes, Ops, ControlTypeOK
    <2>3. QED
        BY <1>2, <2>1, <2>2, Zenon DEF Handle, ControlTypeOK
<1>3. QED
    BY <1>1, <1>2, Zenon DEF Handle

WrongType == wrong \in [Troubles -> Nat]

LEMMA GoesWrongType ==
    ASSUME WrongType, NEW b \in Troubles, NEW n \in Nat, GoesWrong(b, n)
    PROVE  WrongType'
BY DEF WrongType, GoesWrong

LEMMA GoWrongType ==
    ASSUME WrongType, NEW b \in Troubles, NEW n \in Nat, NEW c \in Troubles, NEW m \in Nat,
           b # c, GoWrong(b, n, c, m)
    PROVE  WrongType'
BY DEF WrongType, GoWrong

EnvType == ControlTypeOK /\ late \subseteq Requests /\ WrongType

LEMMA CallType ==
    ASSUME EnvType, NEW op \in Ops, NEW s, NEW r \in Files, NEW reply, Call(op, s, r, reply)
    PROVE  EnvType'
<1>0. {"fail", "late"} \subseteq Troubles /\ "fail" # "late" /\ 0..2 \subseteq Nat /\ 1 \in Nat
    BY DEF Troubles
<1>1. CASE (\E n \in 0..2 : Handle(op, s, r, reply, n) /\ GoesWrong("fail", n)) /\ UNCHANGED late
    BY <1>0, <1>1, HandleType, GoesWrongType, Zenon DEF EnvType
<1>2. CASE /\ \E n \in 0..2, lost \in {"ok", "drift", "refused"} :
                 Handle(op, s, r, lost, n) /\ GoWrong("late", 1, "fail", n)
           /\ UNCHANGED late
    BY <1>0, <1>2, HandleType, GoWrongType, Zenon DEF EnvType
<1>3. CASE /\ GoesWrong("late", 1)
           /\ late' = late \cup ({[op |-> op, svc |-> s, rev |-> r]} \cap Requests)
           /\ UNCHANGED controlVars
    BY <1>0, <1>3, GoesWrongType, Zenon DEF EnvType, ControlTypeOK, controlVars
<1>4. CASE GoesWrong("fail", 1) /\ UNCHANGED <<controlVars, late>>
    BY <1>0, <1>4, GoesWrongType, Zenon DEF EnvType, ControlTypeOK, controlVars
<1>5. QED
    BY <1>1, <1>2, <1>3, <1>4, Zenon DEF Call
-----------------------------------------------------------------------------
(***************************************************************************)
(* PipelineInv falls into the part about the store, the part about the     *)
(* worker and the types of everything else.                                *)
(***************************************************************************)
SInv == StoreTypeOK /\ JobsHaveRevisions

WorkerTypeOK ==
    /\ pc \in Locations
    /\ job \in Jobs \cup {None}
    /\ local \in Statuses \cup {""}
    /\ svc \in Services
    /\ promoted \subseteq Services
    /\ undo \subseteq Services
    /\ undone \in BOOLEAN
    /\ inner \in BOOLEAN
    /\ target \in Revs \cup {None}

WInv == WorkerTypeOK /\ BusyHasJob /\ TargetChosen /\ MarkedBeforeApplied

LEMMA Parts == PipelineInv <=> SInv /\ WInv /\ EnvType
BY Zenon DEF PipelineInv, TypeOK, SInv, WInv, WorkerTypeOK, EnvType, WrongType

LEMMA PartsNext == PipelineInv' <=> SInv' /\ WInv' /\ EnvType'
BY Zenon DEF PipelineInv, TypeOK, SInv, WInv, WorkerTypeOK, EnvType, WrongType

(* Rows stay, and keep their revision. *)
RowsKept == \A j \in Jobs : status[j] # "absent" => status'[j] # "absent" /\ rev'[j] = rev[j]

LEMMA StoreSame ==
    ASSUME SInv, UNCHANGED storeVars
    PROVE  SInv' /\ RowsKept
BY Zenon DEF SInv, StoreTypeOK, JobsHaveRevisions, RowsKept, storeVars

LEMMA StoreEdit ==
    ASSUME SInv, NEW r \in Revs, Enqueue(r) \/ Import(r)
    PROVE  SInv' /\ RowsKept
<1>1. StoreTypeOK'
    BY EnqueueType, ImportType, Zenon DEF SInv
<1>2. CASE Enqueue(r)
    BY <1>1, <1>2 DEF SInv, StoreTypeOK, JobsHaveRevisions, RowsKept, Enqueue, InsertJob, FreshJob
<1>3. CASE Import(r)
    BY <1>1, <1>3, ZenonT(60)
    DEF SInv, StoreTypeOK, JobsHaveRevisions, RowsKept, Import, InsertJob, FreshJob, Supersede
<1>4. QED
    BY <1>2, <1>3, Zenon

LEMMA StoreClaim ==
    ASSUME SInv, NEW j \in Jobs, ClaimNext(j)
    PROVE  SInv' /\ RowsKept /\ status'[j] # "absent"
BY ClaimType, Zenon DEF SInv, StoreTypeOK, JobsHaveRevisions, RowsKept, ClaimNext

LEMMA StoreRecover ==
    ASSUME SInv, RecoverStale
    PROVE  SInv' /\ RowsKept
BY RecoverType, Zenon DEF SInv, StoreTypeOK, JobsHaveRevisions, RowsKept, RecoverStale, Stale

LEMMA StoreExpire ==
    ASSUME SInv, NEW j \in Jobs, LeaseExpires(j)
    PROVE  SInv' /\ RowsKept
BY ExpireType, Zenon DEF SInv, StoreTypeOK, JobsHaveRevisions, RowsKept, LeaseExpires

LEMMA StoreRepair ==
    ASSUME SInv, NEW j \in Jobs, NEW r \in Revs, EnqueueIfNotActive(j, r)
    PROVE  SInv' /\ RowsKept /\ status'[j] # "absent"
BY RepairType, Zenon
DEF SInv, StoreTypeOK, JobsHaveRevisions, RowsKept, EnqueueIfNotActive, InsertJob, FreshJob

LEMMA StoreUpdate ==
    ASSUME SInv, NEW j \in Jobs, NEW s \in Statuses \ {"absent"}, status[j] # "absent",
           UpdateStatus(j, s)
    PROVE  SInv' /\ RowsKept
BY UpdateType, Zenon DEF SInv, StoreTypeOK, JobsHaveRevisions, RowsKept, UpdateStatus

LEMMA StoreMark ==
    ASSUME SInv, NEW r, MarkApplied(r)
    PROVE  SInv' /\ RowsKept
BY MarkType, Zenon DEF SInv, StoreTypeOK, JobsHaveRevisions, RowsKept, MarkApplied

(* The worker's part, by where the worker goes. *)
LEMMA WorkerIdle ==
    ASSUME NEW next \in {"down", "wait", "recover", "claim", "list", "latest"}, EndPoll(next)
    PROVE  WInv'
BY Zenon DEF EndPoll, WInv, WorkerTypeOK, BusyHasJob, TargetChosen, MarkedBeforeApplied, Busy,
       Locations, Services

LEMMA WorkerBusy ==
    ASSUME WorkerTypeOK', pc' \in Busy \ {"setApplied"}, job' \in Jobs, status'[job'] # "absent"
    PROVE  WInv'
BY Zenon DEF WInv, BusyHasJob, TargetChosen, MarkedBeforeApplied, Busy

LEMMA WorkerError ==
    ASSUME WInv, RowsKept, pc \in Busy, local' \in Statuses \cup {""}, ApplyError
    PROVE  WInv'
<1>1. WorkerTypeOK'
    BY Zenon DEF WInv, WorkerTypeOK, ApplyError, Locations
<1>2. job' = job /\ job \in Jobs /\ status'[job] # "absent" /\ pc' \in Busy \ {"setApplied"}
    BY Zenon DEF WInv, BusyHasJob, ApplyError, RowsKept, Busy, Locations
<1>3. QED
    BY <1>1, <1>2, WorkerBusy, Zenon

(* The steps around the worker do not move it. *)
LEMMA WorkerSame ==
    ASSUME WInv, RowsKept, UNCHANGED workerVars,
           \A j \in Jobs : status[j] # "absent" /\ status'[j] = "applying"
                           => /\ status[j] = "applying"
                              /\ rev[j] \in marked => rev[j] \in marked',
           current' = current
    PROVE  WInv'
<1>1. WorkerTypeOK'
    BY Zenon DEF WInv, WorkerTypeOK, workerVars
<1>2. BusyHasJob' /\ TargetChosen'
    BY Zenon DEF WInv, BusyHasJob, TargetChosen, workerVars, RowsKept
<1>3. MarkedBeforeApplied'
    BY Zenon DEF WInv, BusyHasJob, MarkedBeforeApplied, workerVars, RowsKept, Busy, Locations
<1>4. QED
    BY <1>1, <1>2, <1>3, Zenon DEF WInv
-----------------------------------------------------------------------------
(* Everything else, and a failed store call. *)
LEMMA EnvSame ==
    ASSUME EnvType, UNCHANGED <<controlVars, late, wrong>>
    PROVE  EnvType'
BY Zenon DEF EnvType, ControlTypeOK, controlVars, WrongType

LEMMA EnvGoesWrong ==
    ASSUME EnvType, UNCHANGED <<controlVars, late>>, NEW b \in Troubles, NEW n \in Nat, GoesWrong(b, n)
    PROVE  EnvType'
BY GoesWrongType, Zenon DEF EnvType, ControlTypeOK, controlVars

LEMMA StoreErrorInv ==
    ASSUME SInv, EnvType, StoreError
    PROVE  SInv' /\ RowsKept /\ EnvType'
<1>1. "store" \in Troubles /\ 1 \in Nat
    BY Zenon DEF Troubles
<1>2. QED
    BY <1>1, StoreSame, EnvGoesWrong, Zenon DEF StoreError

LEMMA SetStatusErrorInv ==
    ASSUME SInv, EnvType, NEW s, SetStatusError(s)
    PROVE  SInv' /\ RowsKept /\ EnvType'
BY StoreErrorInv, StoreSame, EnvSame, Zenon DEF SetStatusError

LEMMA SetStatusInv ==
    ASSUME SInv, WInv, EnvType, pc \in Busy, NEW s \in Statuses \ {"absent"}, SetStatus(s)
    PROVE  SInv' /\ RowsKept /\ EnvType'
BY StoreUpdate, EnvSame, Zenon DEF SetStatus, WInv, BusyHasJob

LEMMA JobRevision ==
    ASSUME SInv, WInv, pc \in Busy
    PROVE  job \in Jobs /\ status[job] # "absent" /\ rev[job] \in Revs /\ rev[job] \in Files
BY Zenon DEF SInv, WInv, JobsHaveRevisions, BusyHasJob, Files

LEMMA NextCandidateType ==
    ASSUME NEW loop \in Locations, NEW next \in Locations, NextCandidate(loop, next)
    PROVE  pc' \in {loop, next} /\ svc' \in Services
BY Zenon DEF NextCandidate, FirstService, Services

-----------------------------------------------------------------------------
(* PollOnce *)

LEMMA PollInv ==
    ASSUME SInv, WInv, EnvType, Wake \/ Recover \/ List \/ Restart
    PROVE  SInv' /\ WInv' /\ EnvType'
<1>1. CASE Wake
    BY <1>1, StoreSame, EnvSame, WorkerIdle, Zenon DEF Wake
<1>2. CASE Recover
    BY <1>2, StoreRecover, StoreErrorInv, EnvSame, WorkerIdle, Zenon DEF Recover
<1>3. CASE List
    BY <1>3, StoreSame, StoreErrorInv, EnvSame, WorkerIdle, Zenon DEF List
<1>4. CASE Restart
    BY <1>4, StoreSame, EnvSame, WorkerIdle, Zenon DEF Restart
<1>5. QED
    BY <1>1, <1>2, <1>3, <1>4, Zenon

LEMMA ClaimInv ==
    ASSUME SInv, WInv, EnvType, Claim
    PROVE  SInv' /\ WInv' /\ EnvType'
<1>1. ASSUME NEW j \in Jobs, ClaimNext(j), job' = j, pc' = "start",
             UNCHANGED <<local, svc, promoted, undo, undone, inner, target>>,
             UNCHANGED <<controlVars, late, wrong>>
      PROVE  SInv' /\ WInv' /\ EnvType'
    <2>1. SInv' /\ EnvType' /\ status'[j] # "absent"
        BY <1>1, StoreClaim, EnvSame, Zenon
    <2>2. WorkerTypeOK' /\ pc' \in Busy \ {"setApplied"}
        BY <1>1, Zenon DEF WInv, WorkerTypeOK, Busy, Locations
    <2>3. QED
        BY <1>1, <2>1, <2>2, WorkerBusy, Zenon
<1>2. QED
    BY <1>1, StoreSame, EnvSame, StoreErrorInv, WorkerIdle, Zenon DEF Claim

LEMMA LatestInv ==
    ASSUME SInv, WInv, EnvType, Latest
    PROVE  SInv' /\ WInv' /\ EnvType'
<1>1. ASSUME NEW r \in Revs, target' = r, pc' = "probe",
             UNCHANGED <<job, local, svc, promoted, undo, undone, inner>>,
             UNCHANGED <<storeVars, controlVars, late, wrong>>
      PROVE  SInv' /\ WInv' /\ EnvType'
    <2>1. SInv' /\ EnvType'
        BY <1>1, StoreSame, EnvSame, Zenon
    <2>2. WInv'
        BY <1>1, Zenon DEF WInv, WorkerTypeOK, BusyHasJob, TargetChosen, MarkedBeforeApplied,
                    Busy, Locations
    <2>3. QED
        BY <2>1, <2>2, Zenon
<1>2. QED
    BY <1>1, StoreSame, EnvSame, StoreErrorInv, WorkerIdle, Zenon DEF Latest

LEMMA ProbeInv ==
    ASSUME SInv, WInv, EnvType, Probe
    PROVE  SInv' /\ WInv' /\ EnvType'
<1>1. target \in Files /\ "health" \in Ops
    BY Zenon DEF Probe, WInv, TargetChosen, Files, Ops
<1>2. SInv' /\ EnvType'
    BY <1>1, StoreSame, CallType, Zenon DEF Probe
<1>3. CASE pc' = "repair" /\ UNCHANGED <<job, local, svc, promoted, undo, undone, inner, target>>
    BY <1>2, <1>3, Zenon DEF Probe, WInv, WorkerTypeOK, BusyHasJob, TargetChosen, MarkedBeforeApplied,
                Busy, Locations
<1>4. CASE EndPoll("wait")
    BY <1>2, <1>4, WorkerIdle, Zenon
<1>5. QED
    BY <1>2, <1>3, <1>4, Zenon DEF Probe

LEMMA RepairInv ==
    ASSUME SInv, WInv, EnvType, Repair
    PROVE  SInv' /\ WInv' /\ EnvType'
<1>1. ASSUME NEW j \in Jobs, EnqueueIfNotActive(j, target), job' = j, pc' = "start",
             UNCHANGED <<local, svc, promoted, undo, undone, inner, target>>,
             UNCHANGED <<controlVars, late, wrong>>
      PROVE  SInv' /\ WInv' /\ EnvType'
    <2>1. target \in Revs
        BY Zenon DEF Repair, WInv, TargetChosen
    <2>2. SInv' /\ EnvType' /\ status'[j] # "absent"
        BY <1>1, <2>1, StoreRepair, EnvSame, Zenon
    <2>3. WorkerTypeOK' /\ pc' \in Busy \ {"setApplied"}
        BY <1>1, Zenon DEF WInv, WorkerTypeOK, Busy, Locations
    <2>4. QED
        BY <1>1, <2>2, <2>3, WorkerBusy, Zenon
<1>2. QED
    BY <1>1, StoreSame, EnvSame, StoreErrorInv, WorkerIdle, Zenon DEF Repair
-----------------------------------------------------------------------------
(* Apply *)

LEMMA StartInv ==
    ASSUME SInv, WInv, EnvType, Start
    PROVE  SInv' /\ WInv' /\ EnvType'
<1>1. pc \in Busy /\ "fail" \in Troubles /\ 1 \in Nat
    BY Zenon DEF Start, Busy, Locations, Troubles
<1>2. CASE /\ local' = "validating"
           /\ svc' = FirstService(job)
           /\ UNCHANGED <<job, promoted, undo, undone, inner, target>>
           /\ \/ pc' = "prepare" /\ UNCHANGED wrong
              \/ pc' = "setFailed" /\ GoesWrong("fail", 1)
           /\ UNCHANGED <<storeVars, controlVars, late>>
    <2>1. SInv' /\ RowsKept
        BY <1>2, StoreSame, Zenon
    <2>2. EnvType'
        BY <1>1, <1>2, EnvSame, EnvGoesWrong, Zenon
    <2>3. WorkerTypeOK' /\ pc' \in Busy \ {"setApplied"}
        BY <1>2, Zenon DEF WInv, WorkerTypeOK, Busy, Locations, FirstService, Services, Statuses
    <2>4. job' \in Jobs /\ status'[job'] # "absent"
        BY <1>1, <1>2, <2>1, JobRevision, Zenon DEF RowsKept
    <2>5. QED
        BY <2>1, <2>2, <2>3, <2>4, WorkerBusy, Zenon
<1>3. QED
    BY <1>2, StoreSame, EnvSame, StoreErrorInv, WorkerIdle, Zenon DEF Start

LEMMA PrepareInv ==
    ASSUME SInv, WInv, EnvType, Prepare
    PROVE  SInv' /\ WInv' /\ EnvType'
<1>1. pc \in Busy /\ "fail" \in Troubles /\ 1 \in Nat
    BY Zenon DEF Prepare, Busy, Locations, Troubles
<1>2. SInv' /\ RowsKept
    BY StoreSame, Zenon DEF Prepare
<1>3. job \in Jobs /\ status'[job] # "absent" /\ rev[job] \in Files
    BY <1>1, <1>2, JobRevision, Zenon DEF RowsKept
<1>4. ControlTypeOK'
    BY <1>3, Zenon DEF Prepare, WriteCandidate, EnvType, ControlTypeOK, controlVars, WInv, WorkerTypeOK
<1>5. EnvType'
    BY <1>1, <1>4, GoesWrongType, Zenon DEF Prepare, EnvType, WrongType
<1>6. CASE /\ NextCandidate("prepare", "setApplying")
           /\ UNCHANGED <<job, promoted, undo, undone, inner, target>>
    <2>1. pc' \in {"prepare", "setApplying"} /\ svc' \in Services
        BY <1>6, NextCandidateType, Zenon DEF Locations
    <2>2. WorkerTypeOK' /\ pc' \in Busy \ {"setApplied"}
        BY <1>6, <2>1, Zenon DEF Prepare, WInv, WorkerTypeOK, Busy, Locations
    <2>3. QED
        BY <1>2, <1>3, <1>5, <1>6, <2>2, WorkerBusy, Zenon
<1>7. CASE pc' = "setFailed" /\ inner' = TRUE /\ UNCHANGED <<job, svc, promoted, undo, undone, target>>
    <2>1. WorkerTypeOK' /\ pc' \in Busy \ {"setApplied"}
        BY <1>7, Zenon DEF Prepare, WInv, WorkerTypeOK, Busy, Locations
    <2>2. QED
        BY <1>2, <1>3, <1>5, <1>7, <2>1, WorkerBusy, Zenon
<1>8. CASE ApplyError
    <2>1. local' \in Statuses \cup {""}
        BY Zenon DEF Prepare, WInv, WorkerTypeOK
    <2>2. QED
        BY <1>1, <1>2, <1>5, <1>8, <2>1, WorkerError, Zenon
<1>9. QED
    BY <1>6, <1>7, <1>8, Zenon DEF Prepare

LEMMA SetApplyingInv ==
    ASSUME SInv, WInv, EnvType, SetApplying
    PROVE  SInv' /\ WInv' /\ EnvType'
<1>1. pc \in Busy /\ "applying" \in Statuses \ {"absent"}
    BY Zenon DEF SetApplying, Busy, Locations, Statuses
<1>2. SInv' /\ RowsKept /\ EnvType'
    BY <1>1, SetStatusInv, SetStatusErrorInv, Zenon DEF SetApplying
<1>3. CASE /\ local' = "applying"
           /\ pc' = "promote"
           /\ UNCHANGED <<job, svc, promoted, undo, undone, inner, target>>
    <2>1. WorkerTypeOK' /\ pc' \in Busy \ {"setApplied"}
        BY <1>1, <1>3, Zenon DEF WInv, WorkerTypeOK, Busy, Locations
    <2>2. job' \in Jobs /\ status'[job'] # "absent"
        BY <1>1, <1>2, <1>3, JobRevision, Zenon DEF RowsKept
    <2>3. QED
        BY <1>2, <2>1, <2>2, WorkerBusy, Zenon
<1>4. CASE local' = "" /\ ApplyError
    BY <1>1, <1>2, <1>4, WorkerError, Zenon
<1>5. QED
    BY <1>3, <1>4, Zenon DEF SetApplying

LEMMA PromoteInv ==
    ASSUME SInv, WInv, EnvType, Promote
    PROVE  SInv' /\ WInv' /\ EnvType'
<1>1. pc \in Busy /\ "promote" \in Ops
    BY Zenon DEF Promote, Busy, Locations, Ops
<1>2. SInv' /\ RowsKept
    BY StoreSame, Zenon DEF Promote
<1>3. job \in Jobs /\ status'[job] # "absent" /\ rev[job] \in Files
    BY <1>1, <1>2, JobRevision, Zenon DEF RowsKept
<1>4. EnvType'
    BY <1>1, <1>3, CallType, Zenon DEF Promote
<1>5. CASE /\ promoted' = promoted \cup {svc}
           /\ NextCandidate("promote", "reload")
           /\ UNCHANGED <<job, undo, undone, inner, target>>
    <2>1. pc' \in {"promote", "reload"} /\ svc' \in Services
        BY <1>5, NextCandidateType, Zenon DEF Locations
    <2>2. WorkerTypeOK' /\ pc' \in Busy \ {"setApplied"}
        BY <1>5, <2>1, Zenon DEF Promote, WInv, WorkerTypeOK, Busy, Locations
    <2>3. QED
        BY <1>2, <1>3, <1>4, <1>5, <2>2, WorkerBusy, Zenon
<1>6. CASE ApplyError
    <2>1. local' \in Statuses \cup {""}
        BY Zenon DEF Promote, WInv, WorkerTypeOK
    <2>2. QED
        BY <1>1, <1>2, <1>4, <1>6, <2>1, WorkerError, Zenon
<1>7. QED
    BY <1>5, <1>6, Zenon DEF Promote

LEMMA ReloadInv ==
    ASSUME SInv, WInv, EnvType, Reload
    PROVE  SInv' /\ WInv' /\ EnvType'
<1>1. pc \in Busy /\ "reload" \in Ops
    BY Zenon DEF Reload, Busy, Locations, Ops
<1>2. SInv' /\ RowsKept
    BY StoreSame, Zenon DEF Reload
<1>3. job \in Jobs /\ status'[job] # "absent" /\ rev[job] \in Files
    BY <1>1, <1>2, JobRevision, Zenon DEF RowsKept
<1>4. EnvType'
    BY <1>1, <1>3, CallType, Zenon DEF Reload
<1>5. CASE pc' = "health" /\ UNCHANGED <<job, svc, promoted, undo, undone, inner, target>>
    <2>1. WorkerTypeOK' /\ pc' \in Busy \ {"setApplied"}
        BY <1>5, Zenon DEF Reload, WInv, WorkerTypeOK, Busy, Locations
    <2>2. QED
        BY <1>2, <1>3, <1>4, <1>5, <2>1, WorkerBusy, Zenon
<1>6. CASE ApplyError
    <2>1. local' \in Statuses \cup {""}
        BY Zenon DEF Reload, WInv, WorkerTypeOK
    <2>2. QED
        BY <1>1, <1>2, <1>4, <1>6, <2>1, WorkerError, Zenon
<1>7. QED
    BY <1>5, <1>6, Zenon DEF Reload

LEMMA HealthInv ==
    ASSUME SInv, WInv, EnvType, Health
    PROVE  SInv' /\ WInv' /\ EnvType'
<1>1. pc \in Busy /\ "health" \in Ops
    BY Zenon DEF Health, Busy, Locations, Ops
<1>2. SInv' /\ RowsKept
    BY StoreSame, Zenon DEF Health
<1>3. job \in Jobs /\ status'[job] # "absent" /\ rev[job] \in Files
    BY <1>1, <1>2, JobRevision, Zenon DEF RowsKept
<1>4. EnvType'
    BY <1>1, <1>3, CallType, Zenon DEF Health
<1>5. CASE /\ NextCandidate("reload", "markApplied")
           /\ UNCHANGED <<job, promoted, undo, undone, inner, target>>
    <2>1. pc' \in {"reload", "markApplied"} /\ svc' \in Services
        BY <1>5, NextCandidateType, Zenon DEF Locations
    <2>2. WorkerTypeOK' /\ pc' \in Busy \ {"setApplied"}
        BY <1>5, <2>1, Zenon DEF Health, WInv, WorkerTypeOK, Busy, Locations
    <2>3. QED
        BY <1>2, <1>3, <1>4, <1>5, <2>2, WorkerBusy, Zenon
<1>6. CASE /\ pc' = "rollback" /\ undo' = promoted /\ undone' = TRUE /\ inner' = TRUE
           /\ UNCHANGED <<job, svc, promoted, target>>
    <2>1. WorkerTypeOK' /\ pc' \in Busy \ {"setApplied"}
        BY <1>6, Zenon DEF Health, WInv, WorkerTypeOK, Busy, Locations
    <2>2. QED
        BY <1>2, <1>3, <1>4, <1>6, <2>1, WorkerBusy, Zenon
<1>7. CASE ApplyError
    <2>1. local' \in Statuses \cup {""}
        BY Zenon DEF Health, WInv, WorkerTypeOK
    <2>2. QED
        BY <1>1, <1>2, <1>4, <1>7, <2>1, WorkerError, Zenon
<1>8. QED
    BY <1>5, <1>6, <1>7, Zenon DEF Health

LEMMA RollbackInv ==
    ASSUME SInv, WInv, EnvType, Rollback
    PROVE  SInv' /\ WInv' /\ EnvType'
<1>1. pc \in Busy /\ "rollback" \in Ops
    BY Zenon DEF Rollback, Busy, Locations, Ops
<1>2. SInv' /\ RowsKept
    BY StoreSame, Zenon DEF Rollback
<1>3. job \in Jobs /\ status'[job] # "absent" /\ rev[job] \in Files
    BY <1>1, <1>2, JobRevision, Zenon DEF RowsKept
<1>4. EnvType'
    BY <1>1, <1>3, CallType, Zenon DEF Rollback
<1>5. pc' \in {"rollback", "setRolledBack", "setFailed"}
    BY Zenon DEF Rollback
<1>6. undone' \in BOOLEAN
    BY Zenon DEF Rollback
<1>7. WorkerTypeOK' /\ pc' \in Busy \ {"setApplied"}
    BY <1>5, <1>6, Zenon DEF Rollback, WInv, WorkerTypeOK, Busy, Locations
<1>8. job' = job
    BY Zenon DEF Rollback
<1>9. QED
    BY <1>2, <1>3, <1>4, <1>7, <1>8, WorkerBusy, Zenon

LEMMA OutcomeInv ==
    ASSUME SInv, WInv, EnvType, NEW at \in Busy, NEW s \in Statuses \ {"absent"},
           RecordOutcome(at, s)
    PROVE  SInv' /\ WInv' /\ EnvType'
<1>1. SInv' /\ RowsKept /\ EnvType'
    BY SetStatusInv, SetStatusErrorInv, Zenon DEF RecordOutcome
<1>2. CASE ApplyError /\ UNCHANGED local
    <2>1. local' \in Statuses \cup {""}
        BY <1>2, Zenon DEF WInv, WorkerTypeOK
    <2>2. QED
        BY <1>1, <1>2, <2>1, WorkerError, Zenon DEF RecordOutcome
<1>3. CASE EndPoll("recover") \/ EndPoll("wait")
    BY <1>1, <1>3, WorkerIdle, Zenon
<1>4. QED
    BY <1>2, <1>3, Zenon DEF RecordOutcome

LEMMA MarkRevisionInv ==
    ASSUME SInv, WInv, EnvType, MarkRevision
    PROVE  SInv' /\ WInv' /\ EnvType'
<1>1. pc \in Busy
    BY Zenon DEF MarkRevision, Busy, Locations
<1>2. SInv' /\ RowsKept /\ EnvType'
    BY StoreMark, EnvSame, StoreErrorInv, Zenon DEF MarkRevision
<1>3. CASE /\ MarkApplied(rev[job])
           /\ pc' = "setApplied"
           /\ UNCHANGED <<job, svc, promoted, undo, undone, inner, target>>
    <2>1. WorkerTypeOK'
        BY <1>3, Zenon DEF MarkRevision, WInv, WorkerTypeOK, Locations
    <2>2. BusyHasJob' /\ TargetChosen'
        BY <1>1, <1>2, <1>3, JobRevision, Zenon DEF BusyHasJob, TargetChosen, RowsKept
    <2>3. MarkedBeforeApplied'
        BY <1>3, Zenon DEF MarkedBeforeApplied, MarkApplied
    <2>4. QED
        BY <1>2, <2>1, <2>2, <2>3, Zenon DEF WInv
<1>4. CASE ApplyError
    <2>1. local' \in Statuses \cup {""}
        BY Zenon DEF MarkRevision, WInv, WorkerTypeOK
    <2>2. QED
        BY <1>1, <1>2, <1>4, <2>1, WorkerError, Zenon
<1>5. QED
    BY <1>3, <1>4, Zenon DEF MarkRevision

LEMMA SetAppliedInv ==
    ASSUME SInv, WInv, EnvType, SetApplied
    PROVE  SInv' /\ WInv' /\ EnvType'
<1>1. pc \in Busy /\ "applied" \in Statuses \ {"absent"}
    BY Zenon DEF SetApplied, Busy, Locations, Statuses
<1>2. SInv' /\ RowsKept /\ EnvType'
    BY <1>1, SetStatusInv, SetStatusErrorInv, Zenon DEF SetApplied
<1>3. CASE EndPoll("recover")
    BY <1>2, <1>3, WorkerIdle, Zenon
<1>4. CASE ApplyError /\ UNCHANGED local
    <2>1. local' \in Statuses \cup {""}
        BY <1>4, Zenon DEF WInv, WorkerTypeOK
    <2>2. QED
        BY <1>1, <1>2, <1>4, <2>1, WorkerError, Zenon
<1>5. QED
    BY <1>3, <1>4, Zenon DEF SetApplied

-----------------------------------------------------------------------------
(* The steps around the worker *)

LEMMA OutstandingType ==
    ASSUME SInv, WInv
    PROVE  Outstanding \subseteq Requests
<1>1. NextUndo \in Services /\ svc \in Services
    BY Zenon DEF NextUndo, Services, WInv, WorkerTypeOK
<1>2. pc \in {"promote", "reload", "rollback"} => rev[job] \in Revs
    BY JobRevision, Zenon DEF Busy, Locations
<1>3. QED
    BY <1>1, <1>2 DEF Outstanding, Requests

LEMMA CrashInv ==
    ASSUME SInv, WInv, EnvType, Crash
    PROVE  SInv' /\ WInv' /\ EnvType'
<1>1. {"crash", "late"} \subseteq Troubles /\ "crash" # "late" /\ 1 \in Nat
    BY Zenon DEF Troubles
<1>2. SInv' /\ WInv'
    BY StoreSame, WorkerIdle, Zenon DEF Crash
<1>3. WrongType'
    BY <1>1, GoesWrongType, GoWrongType, Zenon DEF Crash, EnvType
<1>4. late' \subseteq Requests
    BY OutstandingType, Zenon DEF Crash, EnvType
<1>5. QED
    BY <1>2, <1>3, <1>4, Zenon DEF Crash, EnvType, ControlTypeOK, controlVars

LEMMA NothingHappened ==
    ASSUME SInv, WInv, UNCHANGED <<storeVars, workerVars>>
    PROVE  SInv' /\ WInv'
<1>1. SInv' /\ RowsKept
    BY StoreSame, Zenon
<1>2. UNCHANGED <<status, rev, marked, current>>
    BY Zenon DEF storeVars
<1>3. QED
    BY <1>1, <1>2, WorkerSame, Zenon

LEMMA LateHandlerInv ==
    ASSUME SInv, WInv, EnvType, LateHandler
    PROVE  SInv' /\ WInv' /\ EnvType'
<1>1. SInv' /\ WInv'
    BY NothingHappened, Zenon DEF LateHandler
<1>2. PICK q \in late, reply \in Replies, n \in 0..2 :
         Handle(q.op, q.svc, q.rev, reply, n) /\ GoesWrong("fail", n) /\ late' = late \ {q}
    BY Zenon DEF LateHandler
<1>3. q.op \in Ops /\ q.rev \in Files /\ "fail" \in Troubles /\ n \in Nat
    BY <1>2 DEF EnvType, Requests, Ops, Files, Troubles
<1>4. ControlTypeOK' /\ WrongType'
    BY <1>2, <1>3, HandleType, GoesWrongType, Zenon DEF EnvType
<1>5. QED
    BY <1>1, <1>2, <1>4, Zenon DEF EnvType

LEMMA HelperRestartInv ==
    ASSUME SInv, WInv, EnvType, HelperRestart
    PROVE  SInv' /\ WInv' /\ EnvType'
<1>1. SInv' /\ WInv'
    BY NothingHappened, Zenon DEF HelperRestart
<1>2. "restart" \in Troubles /\ 1 \in Nat
    BY Zenon DEF Troubles
<1>3. WrongType' /\ late' \subseteq Requests
    BY <1>2, GoesWrongType, Zenon DEF HelperRestart, EnvType
<1>4. CASE StartupSeed
    <2>1. candidate["coredns"] \in Files
        BY Zenon DEF EnvType, ControlTypeOK, Services
    <2>2. [coredns EXCEPT !.corefile = candidate["coredns"]] \in CoreDNSState
        BY <2>1, CoreDNSFields, Zenon DEF EnvType, ControlTypeOK
    <2>3. coredns' \in CoreDNSState
        BY <1>4, <2>2, CoreDNSLoadedType, Zenon DEF StartupSeed
    <2>4. QED
        BY <1>1, <1>3, <1>4, <2>3, Zenon DEF StartupSeed, EnvType, ControlTypeOK
<1>5. CASE UNCHANGED controlVars
    BY <1>1, <1>3, <1>5, Zenon DEF EnvType, ControlTypeOK, controlVars
<1>6. QED
    BY <1>4, <1>5, Zenon DEF HelperRestart

LEMMA NginxStartType ==
    ASSUME ControlTypeOK, NEW recreated \in BOOLEAN, NEW bad, NginxStart(recreated, bad)
    PROVE  ControlTypeOK'
<1> DEFINE layer == IF recreated THEN [nginx EXCEPT !.active = Baked, !.backup = None] ELSE nginx
           good(f) == f # None /\ f \notin bad
           conf == IF good(nginx.stable) THEN nginx.stable
                   ELSE IF good(nginx.prev) THEN nginx.prev
                   ELSE IF good(candidate["nginx"]) THEN candidate["nginx"]
                   ELSE layer.active
<1>1. layer \in NginxState
    BY NginxFields, FixedFiles, Zenon DEF ControlTypeOK
<1> HIDE DEF layer
<1>2. {nginx.stable, nginx.prev, candidate["nginx"], layer.active} \subseteq Files
    BY <1>1, NginxFields, FixedFiles, Zenon DEF ControlTypeOK, Services
<1>3. conf \in Files
    BY <1>2, Zenon
<1>4. nginx' = [layer EXCEPT !.active = conf, !.running = conf]
    BY Zenon DEF NginxStart, layer
<1> HIDE DEF conf
<1>5. nginx' \in NginxState
    BY <1>1, <1>3, <1>4, NginxFields, Zenon
<1>6. QED
    BY <1>5, Zenon DEF NginxStart, ControlTypeOK

LEMMA NginxRestartInv ==
    ASSUME SInv, WInv, EnvType, NginxRestart
    PROVE  SInv' /\ WInv' /\ EnvType'
<1>1. SInv' /\ WInv'
    BY NothingHappened, Zenon DEF NginxRestart
<1>2. {"restart", "fail"} \subseteq Troubles /\ "restart" # "fail" /\ 1 \in Nat
    BY Zenon DEF Troubles
<1>3. WrongType' /\ ControlTypeOK'
    BY <1>2, GoesWrongType, GoWrongType, NginxStartType, Zenon DEF NginxRestart, EnvType
<1>4. QED
    BY <1>1, <1>3, Zenon DEF NginxRestart, EnvType

LEMMA CoreDNSLoadsInv ==
    ASSUME SInv, WInv, EnvType, CoreDNSRestart \/ CoreDNSReloads
    PROVE  SInv' /\ WInv' /\ EnvType'
<1>1. SInv' /\ WInv'
    BY NothingHappened, Zenon DEF CoreDNSRestart, CoreDNSReloads
<1>2. "restart" \in Troubles /\ 1 \in Nat
    BY Zenon DEF Troubles
<1>3. WrongType' /\ late' \subseteq Requests
    BY <1>2, GoesWrongType, Zenon DEF CoreDNSRestart, CoreDNSReloads, EnvType, WrongType
<1>4. ControlTypeOK'
    BY CoreDNSLoadedType, Zenon DEF CoreDNSRestart, CoreDNSReloads, CoreDNSStart, CoreDNSAutoReload,
       EnvType, ControlTypeOK
<1>5. QED
    BY <1>1, <1>3, <1>4, Zenon DEF EnvType

LEMMA EditInv ==
    ASSUME SInv, WInv, EnvType, Edit
    PROVE  SInv' /\ WInv' /\ EnvType'
<1>1. PICK r \in Revs : Enqueue(r) \/ Import(r)
    BY Zenon DEF Edit
<1>2. SInv' /\ RowsKept
    BY <1>1, StoreEdit, Zenon
<1>3. ASSUME NEW j \in Jobs, status[j] # "absent", status'[j] = "applying"
      PROVE  status[j] = "applying" /\ (rev[j] \in marked => rev[j] \in marked')
    <2>1. CASE Enqueue(r)
        BY <1>3, <2>1, Zenon DEF Enqueue, InsertJob, FreshJob, SInv, StoreTypeOK
    <2>2. CASE Import(r)
        BY <1>3, <2>2, Zenon DEF Import, InsertJob, FreshJob, Supersede, Unfinished, SInv, StoreTypeOK
    <2>3. QED
        BY <1>1, <2>1, <2>2, Zenon
<1>4. current' = current
    BY <1>1, Zenon DEF Enqueue, Import
<1>5. WInv'
    BY <1>2, <1>3, <1>4, WorkerSame, Zenon DEF Edit
<1>6. QED
    BY <1>2, <1>5, EnvSame, Zenon DEF Edit

LEMMA ExpireInv ==
    ASSUME SInv, WInv, EnvType, NEW j \in Jobs, Expire(j)
    PROVE  SInv' /\ WInv' /\ EnvType'
<1>1. SInv' /\ RowsKept
    BY StoreExpire, Zenon DEF Expire
<1>2. UNCHANGED <<status, rev, marked, current>>
    BY Zenon DEF Expire, LeaseExpires
<1>3. WInv'
    BY <1>1, <1>2, WorkerSame, Zenon DEF Expire
<1>4. QED
    BY <1>1, <1>3, EnvSame, Zenon DEF Expire

-----------------------------------------------------------------------------
(* The invariant *)

LEMMA InitInv == Init => PipelineInv
<1> SUFFICES ASSUME Init PROVE PipelineInv
    BY Zenon
<1>1. SInv
    <2>1. <<>> \in Seq(Jobs)
        OBVIOUS
    <2>2. QED
        BY <2>1, Zenon DEF Init, StoreInit, SInv, StoreTypeOK, JobsHaveRevisions, Statuses, Kinds
<1>2. WInv
    BY Zenon DEF Init, WInv, WorkerTypeOK, BusyHasJob, TargetChosen, MarkedBeforeApplied, Busy,
           Locations, Services
<1>3. ControlTypeOK
    BY Zenon DEF Init, ControlInit, ControlTypeOK, NginxState, CoreDNSState, Files
<1>4. EnvType
    <2>1. WrongType
        BY Zenon DEF Init, WrongType
    <2>2. QED
        BY <1>3, <2>1, Zenon DEF Init, EnvType
<1>5. QED
    BY <1>1, <1>2, <1>4, Parts, Zenon

LEMMA WorkerStepInv ==
    ASSUME SInv, WInv, EnvType, WorkerStep
    PROVE  SInv' /\ WInv' /\ EnvType'
<1>1. {"setRolledBack", "setFailed"} \subseteq Busy /\ {"rolled-back", "failed"} \subseteq Statuses \ {"absent"}
    BY Zenon DEF Busy, Locations, Statuses
<1>2. CASE SetRolledBack \/ SetFailed
    BY <1>1, <1>2, OutcomeInv, Zenon DEF SetRolledBack, SetFailed
<1>3. QED
    BY <1>2, PollInv, ClaimInv, LatestInv, ProbeInv, RepairInv, StartInv, PrepareInv,
       SetApplyingInv, PromoteInv, ReloadInv, HealthInv, RollbackInv, MarkRevisionInv,
       SetAppliedInv, Zenon
    DEF WorkerStep

LEMMA NextInv == PipelineInv /\ [Next]_vars => PipelineInv'
<1> SUFFICES ASSUME PipelineInv, [Next]_vars PROVE PipelineInv'
    BY Zenon
<1> USE Parts, PartsNext
<1>1. CASE Next
    BY <1>1, WorkerStepInv, CrashInv, LateHandlerInv, HelperRestartInv, NginxRestartInv,
       CoreDNSLoadsInv, EditInv, ExpireInv, Zenon
    DEF Next
<1>2. CASE UNCHANGED vars
    BY <1>2, NothingHappened, EnvSame, Zenon DEF vars
<1>3. QED
    BY <1>1, <1>2, Zenon

(***************************************************************************)
(* Every reachable state satisfies PipelineInv: stored jobs name a         *)
(* revision, a busy worker has a stored job, and between MarkApplied and   *)
(* the status change (apply.go) a job that is still applying is the marked *)
(* and current one.                                                        *)
(***************************************************************************)
THEOREM PipelineInvariant == Spec => []PipelineInv
BY InitInv, NextInv, PTL DEF Spec

(* Every reachable state of the store, the helper and the worker is well-typed. *)
THEOREM TypeCorrect == Spec => []TypeOK
<1>1. PipelineInv => TypeOK
    BY Zenon DEF PipelineInv
<1>2. QED
    BY <1>1, PipelineInvariant, PTL

-----------------------------------------------------------------------------
(* The job lifecycle *)

LEMMA UpdateIsLifecycleStep ==
    ASSUME SInv, NEW j \in Jobs, NEW s \in {"applying", "applied", "failed", "rolled-back"},
           UpdateStatus(j, s)
    PROVE  Lifecycle!Next
<1>1. CASE s = "applying"
    <2>1. Lifecycle!Begin(j)
        BY <1>1, Zenon DEF UpdateStatus, Transition, Lifecycle!Begin, SInv, StoreTypeOK, Statuses
    <2>2. QED
        BY <2>1, Zenon DEF Lifecycle!Next, Lifecycle!Jobs, Jobs
<1>2. CASE s \in {"applied", "failed", "rolled-back"}
    <2>1. s \in Lifecycle!Terminal
        BY <1>2, Zenon DEF Lifecycle!Terminal
    <2>2. Lifecycle!Finish(j, s)
        BY <1>2, <2>1, Zenon DEF UpdateStatus, Transition, Lifecycle!Finish, SInv, StoreTypeOK, Statuses
    <2>3. QED
        BY <2>1, <2>2, Zenon DEF Lifecycle!Next, Lifecycle!Jobs, Jobs
<1>3. QED
    BY <1>1, <1>2, Zenon

LEMMA EditIsLifecycleStep ==
    ASSUME SInv, NEW r \in Revs, Enqueue(r) \/ Import(r)
    PROVE  Lifecycle!Next
<1>1. CASE Enqueue(r)
    <2>1. PICK j \in Jobs : InsertJob(j, r, "ordinary") /\ status' = [status EXCEPT ![j] = "queued"]
        BY <1>1, Zenon DEF Enqueue
    <2>2. Lifecycle!Create(j, {})
        BY <2>1, Zenon DEF InsertJob, FreshJob, Lifecycle!Create, Lifecycle!Jobs, Jobs, SInv, StoreTypeOK
    <2>3. QED
        BY <2>2, Zenon DEF Lifecycle!Next, Lifecycle!Jobs, Jobs
<1>2. CASE Import(r)
    <2> DEFINE S == {i \in Jobs : rev[i] = r /\ status[i] \in Unfinished}
    <2>1. PICK j \in Jobs : /\ InsertJob(j, r, "import")
                            /\ status' = [Supersede(r) EXCEPT ![j] = "queued"]
        BY <1>2, Zenon DEF Import
    <2>2. S \in SUBSET Jobs /\ \A i \in S : status[i] \in Lifecycle!Unfinished
        BY Zenon DEF Unfinished, Lifecycle!Unfinished, Lifecycle!Claimed
    <2>3. Lifecycle!Create(j, S)
        BY <2>1, <2>2, Zenon DEF InsertJob, FreshJob, Supersede, Lifecycle!Create, Lifecycle!Jobs, Jobs
    <2>4. QED
        BY <2>2, <2>3, Zenon DEF Lifecycle!Next, Lifecycle!Jobs, Jobs
<1>3. QED
    BY <1>1, <1>2, Zenon

LEMMA ClaimIsLifecycleStep ==
    ASSUME NEW j \in Jobs, ClaimNext(j)
    PROVE  Lifecycle!Next
<1>1. Lifecycle!Claim(j)
    BY Zenon DEF ClaimNext, Lifecycle!Claim, Lifecycle!Jobs, Jobs
<1>2. QED
    BY <1>1, Zenon DEF Lifecycle!Next, Lifecycle!Jobs, Jobs

LEMMA RepairIsLifecycleStep ==
    ASSUME NEW j \in Jobs, NEW r, EnqueueIfNotActive(j, r)
    PROVE  Lifecycle!Next
<1>1. Lifecycle!CreateRepair(j)
    BY Zenon DEF EnqueueIfNotActive, InsertJob, FreshJob, Unfinished, Lifecycle!CreateRepair,
           Lifecycle!Unfinished, Lifecycle!Claimed, Lifecycle!Jobs, Jobs
<1>2. QED
    BY <1>1, Zenon DEF Lifecycle!Next, Lifecycle!Jobs, Jobs

LEMMA RecoverIsLifecycleStep ==
    ASSUME SInv, RecoverStale
    PROVE  Lifecycle!Next
<1>1. Stale \in SUBSET Jobs /\ Lifecycle!Requeue(Stale)
    BY Zenon DEF RecoverStale, Stale, SInv, StoreTypeOK, Lifecycle!Requeue, Lifecycle!Claimed,
           Lifecycle!Jobs, Jobs
<1>2. QED
    BY <1>1, Zenon DEF Lifecycle!Next, Lifecycle!Jobs, Jobs

LEMMA LifecycleStep ==
    ASSUME PipelineInv, [Next]_vars
    PROVE  [Lifecycle!Next]_status
<1> SUFFICES ASSUME status' # status PROVE Lifecycle!Next
    BY Zenon
<1> USE Parts
<1>1. CASE Recover \/ Claim \/ Repair \/ Edit
    BY <1>1, RecoverIsLifecycleStep, ClaimIsLifecycleStep, RepairIsLifecycleStep,
       EditIsLifecycleStep, Zenon
    DEF Recover, Claim, Repair, Edit, StoreError, storeVars
<1>2. ASSUME NEW s \in {"applying", "applied", "failed", "rolled-back"}, pc \in Busy,
             SetStatus(s) \/ SetStatusError(s)
      PROVE  Lifecycle!Next
    BY <1>2, UpdateIsLifecycleStep, JobRevision, Zenon
    DEF SetStatus, SetStatusError, StoreError, storeVars
<1>3. {"setApplying", "setApplied", "setFailed", "setRolledBack"} \subseteq Busy
    BY Zenon DEF Busy, Locations
<1>4. CASE SetApplying \/ SetApplied \/ SetFailed \/ SetRolledBack
    BY <1>2, <1>3, <1>4, Zenon DEF SetApplying, SetApplied, SetFailed, SetRolledBack, RecordOutcome
<1>5. ~(Wake \/ List \/ Latest \/ Probe \/ Start \/ Prepare \/ Promote \/ Reload \/ Health
        \/ Rollback \/ MarkRevision \/ Restart)
    BY Zenon DEF Wake, List, Latest, Probe, Start, Prepare, Promote, Reload, Health, Rollback,
           MarkRevision, MarkApplied, Restart, StoreError, storeVars
<1>6. ~(Crash \/ LateHandler \/ HelperRestart \/ NginxRestart \/ CoreDNSRestart
        \/ CoreDNSReloads \/ \E j \in Jobs : Expire(j))
    BY Zenon DEF Crash, LateHandler, HelperRestart, NginxRestart, CoreDNSRestart, CoreDNSReloads,
           Expire, LeaseExpires, storeVars
<1>7. Next
    BY Zenon DEF vars, storeVars
<1>8. QED
    BY <1>1, <1>4, <1>5, <1>6, <1>7, Zenon DEF Next, WorkerStep

(***************************************************************************)
(* The pipeline implements the job lifecycle: whatever fails, crashes or   *)
(* runs late, a job only takes the lifecycle's steps.                      *)
(***************************************************************************)
THEOREM ImplementsLifecycle == Spec => LifecycleSpec
<1>1. Init => Lifecycle!Init
    BY Zenon DEF Init, StoreInit, Lifecycle!Init, Lifecycle!Jobs, Jobs
<1>2. PipelineInv /\ [Next]_vars => [Lifecycle!Next]_status
    BY LifecycleStep, Zenon
<1>3. QED
    BY <1>1, <1>2, PipelineInvariant, PTL DEF Spec, LifecycleSpec, Lifecycle!Spec

LEMMA OutcomeStays ==
    ASSUME PipelineInv, [Next]_vars, NEW j \in Jobs, status[j] \in Terminal
    PROVE  status'[j] = status[j]
<1>1. [Lifecycle!Next]_status /\ status \in [Jobs -> Statuses]
    BY LifecycleStep, Zenon DEF PipelineInv, TypeOK, StoreTypeOK
<1>2. QED
    BY <1>1, Zenon DEF Lifecycle!Next, Lifecycle!Requeue, Lifecycle!Create, Lifecycle!CreateRepair,
                Lifecycle!Claim, Lifecycle!Begin, Lifecycle!Finish, Lifecycle!Jobs, Jobs,
                Lifecycle!Unfinished, Lifecycle!Claimed, Terminal

(***************************************************************************)
(* A finished job keeps its outcome (Store.Update, RecoverStale and the    *)
(* superseding import never touch one).                                    *)
(***************************************************************************)
THEOREM FinishedJobsKeepOutcome == Spec => TerminalIsFinal
<1>1. PipelineInv /\ [Next]_vars
      => [\A j \in Jobs : status[j] \in Terminal => status'[j] = status[j]]_vars
    BY OutcomeStays, Zenon
<1>2. QED
    BY <1>1, PipelineInvariant, PTL DEF Spec, TerminalIsFinal

(* A status that ends a job well, and the call that records it. *)
LEMMA RecordedBy ==
    ASSUME PipelineInv, [Next]_vars, NEW j \in Jobs, NEW s \in {"applied", "rolled-back"}, Becomes(j, s)
    PROVE  /\ pc = IF s = "applied" THEN "setApplied" ELSE "setRolledBack"
           /\ j = job /\ status[job] = "applying"
<1>1. status \in [Jobs -> Statuses] /\ status'[j] = s /\ status[j] # s
    BY Zenon DEF PipelineInv, TypeOK, StoreTypeOK, Becomes
<1>2. s \notin {"absent", "queued", "validating", "applying", "failed"}
    BY Zenon
<1>3. ~(Recover \/ Claim \/ Repair)
    BY <1>1, <1>2, Zenon DEF Recover, RecoverStale, Claim, ClaimNext, Repair, EnqueueIfNotActive, StoreError, storeVars
<1>4. ~Edit
    BY <1>1, <1>2, Zenon DEF Edit, Enqueue, Import, Supersede
<1>5. ~(Wake \/ List \/ Latest \/ Probe \/ Start \/ Prepare \/ Promote \/ Reload \/ Health
        \/ Rollback \/ MarkRevision \/ Restart)
    BY <1>1, Zenon DEF Wake, List, Latest, Probe, Start, Prepare, Promote, Reload, Health, Rollback,
                       MarkRevision, MarkApplied, Restart, StoreError, storeVars
<1>6. ~(Crash \/ LateHandler \/ HelperRestart \/ NginxRestart \/ CoreDNSRestart
        \/ CoreDNSReloads \/ \E i \in Jobs : Expire(i))
    BY <1>1, Zenon DEF Crash, LateHandler, HelperRestart, NginxRestart, CoreDNSRestart,
                       CoreDNSReloads, Expire, LeaseExpires, storeVars
<1>7. SetApplying \/ SetFailed \/ SetRolledBack \/ SetApplied
    BY <1>1, <1>3, <1>4, <1>5, <1>6, Zenon DEF Next, WorkerStep, vars, storeVars
<1>8. \/ pc = "setApplying" /\ UpdateStatus(job, "applying")
      \/ pc = "setFailed" /\ UpdateStatus(job, "failed")
      \/ pc = "setRolledBack" /\ UpdateStatus(job, "rolled-back")
      \/ pc = "setApplied" /\ UpdateStatus(job, "applied")
    BY <1>1, <1>7, Zenon DEF SetApplying, SetFailed, SetRolledBack, SetApplied, RecordOutcome, SetStatus,
                             SetStatusError, StoreError, storeVars
<1>9. PICK t \in {"applying", "failed", "rolled-back", "applied"} :
          /\ status' = [status EXCEPT ![job] = t]
          /\ t = "rolled-back" => pc = "setRolledBack"
          /\ t = "applied" => pc = "setApplied"
          /\ Transition(status[job], t)
    BY <1>8, Zenon DEF UpdateStatus
<1>10. j = job /\ t = s
    BY <1>1, <1>2, <1>9, Zenon
<1>11. QED
    BY <1>9, <1>10, Zenon DEF Transition

(***************************************************************************)
(* A job is recorded as applied only while its revision carries applied_at *)
(* and is the current one.                                                 *)
(***************************************************************************)
THEOREM AppliedJobsAreMarked == Spec => AppliedIsMarked
<1>1. PipelineInv /\ [Next]_vars
      => [\A j \in Jobs : Becomes(j, "applied") => rev[j] \in marked /\ current = rev[j]]_vars
    <2> SUFFICES ASSUME PipelineInv, [Next]_vars, NEW j \in Jobs, Becomes(j, "applied")
                 PROVE  rev[j] \in marked /\ current = rev[j]
        BY Zenon
    <2>1. pc = "setApplied" /\ j = job /\ status[job] = "applying"
        BY RecordedBy, Zenon
    <2>2. QED
        BY <2>1, Zenon DEF PipelineInv, MarkedBeforeApplied
<1>2. QED
    BY <1>1, PipelineInvariant, PTL DEF Spec, AppliedIsMarked

-----------------------------------------------------------------------------
(* The rows of the jobs *)

(* The columns that the invariants are about. *)
jobVars == <<status, rev, kind, marked, latest, appliedLog>>

(* Only these steps write job rows or revisions. *)
LEMMA StoreQuiet ==
    ASSUME [Next]_vars,
           ~(\/ Recover \/ Claim \/ Repair \/ Edit \/ SetApplying \/ SetRolledBack \/ SetFailed
             \/ MarkRevision \/ SetApplied)
    PROVE  UNCHANGED jobVars
<1>1. CASE Wake \/ List \/ Latest \/ Probe \/ Start \/ Prepare \/ Promote \/ Reload \/ Health
           \/ Rollback \/ Restart
    BY <1>1, Zenon DEF Wake, List, Latest, Probe, Start, Prepare, Promote, Reload, Health, Rollback,
                Restart, StoreError, storeVars, jobVars
<1>2. CASE Crash \/ LateHandler \/ HelperRestart \/ NginxRestart \/ CoreDNSRestart \/ CoreDNSReloads
    BY <1>2, Zenon DEF Crash, LateHandler, HelperRestart, NginxRestart, CoreDNSRestart, CoreDNSReloads,
                storeVars, jobVars
<1>3. CASE \E j \in Jobs : Expire(j)
    BY <1>3, Zenon DEF Expire, LeaseExpires, jobVars
<1>4. CASE UNCHANGED vars
    BY <1>4, Zenon DEF vars, storeVars, jobVars
<1>5. QED
    BY <1>1, <1>2, <1>3, <1>4, Zenon DEF Next, WorkerStep

LEMMA RowsSame ==
    ASSUME RowsInv, UNCHANGED jobVars
    PROVE  RowsInv'
BY Zenon DEF RowsInv, jobVars

(* What an edit does to a row that exists. *)
LEMMA EditRow ==
    ASSUME SInv, NEW r \in Revs, Enqueue(r) \/ Import(r), NEW j \in Jobs, status[j] # "absent"
    PROVE  /\ rev'[j] = rev[j] /\ kind'[j] = kind[j]
           /\ \/ status'[j] = status[j]
              \/ Import(r) /\ rev[j] = r /\ Active(j) /\ status'[j] = "failed"
BY ZenonT(60) DEF SInv, StoreTypeOK, Enqueue, Import, InsertJob, FreshJob, Supersede, Active

(* The row that an edit inserts. *)
LEMMA EditNew ==
    ASSUME SInv, NEW r \in Revs, Enqueue(r) \/ Import(r)
    PROVE  \E j \in Jobs : /\ FreshJob(j)
                           /\ status'[j] = "queued" /\ rev'[j] = r
                           /\ kind'[j] = IF r \in ImportRevs THEN "import" ELSE "ordinary"
                           /\ \A i \in Jobs : i # j /\ status[i] = "absent" => status'[i] = "absent"
<1>1. CASE Enqueue(r)
    BY <1>1 DEF SInv, StoreTypeOK, Enqueue, InsertJob, FreshJob
<1>2. CASE Import(r)
  <2>1. PICK j \in Jobs : InsertJob(j, r, "import") /\ status' = [Supersede(r) EXCEPT ![j] = "queued"]
    BY <1>2, Zenon DEF Import
  <2>2. r \in ImportRevs
    BY <1>2, Zenon DEF Import
  <2>3. \A i \in Jobs : i # j /\ status[i] = "absent" => status'[i] = "absent"
    BY <2>1, Zenon DEF Supersede, Unfinished
  <2>4. FreshJob(j) /\ status'[j] = "queued" /\ rev'[j] = r /\ kind'[j] = "import"
    BY <2>1, Zenon DEF InsertJob, Supersede, SInv, StoreTypeOK
  <2>5. QED
    BY <2>2, <2>3, <2>4, Zenon
<1>3. QED
    BY <1>1, <1>2, Zenon

LEMMA RowsEdit ==
    ASSUME SInv, RowsInv, NEW r \in Revs, Enqueue(r) \/ Import(r)
    PROVE  RowsInv'
<1>1. PICK j \in Jobs : /\ FreshJob(j)
                        /\ status'[j] = "queued" /\ rev'[j] = r
                        /\ kind'[j] = IF r \in ImportRevs THEN "import" ELSE "ordinary"
                        /\ \A i \in Jobs : i # j /\ status[i] = "absent" => status'[i] = "absent"
    BY EditNew, Zenon
<1>2. \A i \in Jobs : i # j /\ status'[i] # "absent" =>
         status[i] # "absent" /\ rev'[i] = rev[i] /\ kind'[i] = kind[i]
    BY <1>1, EditRow, Zenon
<1>3. \A i \in Jobs : status[i] # "absent" => status'[i] # "absent"
    BY EditRow, Zenon
<1>4. \A i, k \in Jobs : i < k /\ status'[k] # "absent" => status'[i] # "absent"
    BY <1>1, <1>2, <1>3, Zenon DEF RowsInv, FreshJob
<1>5. \A i \in Jobs : /\ status'[i] # "absent" /\ kind'[i] = "ordinary" => rev'[i] \notin ImportRevs
                      /\ status'[i] # "absent" /\ kind'[i] = "import" => rev'[i] \in ImportRevs
    BY <1>1, <1>2, Zenon DEF RowsInv
<1>6. \A n \in DOMAIN appliedLog : status'[appliedLog[n]] = "applied"
  <2> SUFFICES ASSUME NEW n \in DOMAIN appliedLog PROVE status'[appliedLog[n]] = "applied"
    BY Zenon
  <2>1. appliedLog[n] \in Jobs /\ status[appliedLog[n]] = "applied"
    BY DEF RowsInv, SInv, StoreTypeOK
  <2>2. QED
    BY <2>1, EditRow, Zenon DEF Active, Unfinished
<1>7. appliedLog' = appliedLog
    BY Zenon DEF Enqueue, Import
<1>8. QED
    BY <1>4, <1>5, <1>6, <1>7, Zenon DEF RowsInv

LEMMA RowsClaim ==
    ASSUME SInv, RowsInv, NEW j \in Jobs, ClaimNext(j)
    PROVE  RowsInv'
<1>1. \A i \in Jobs : status'[i] = status[i] \/ (status[i] = "queued" /\ status'[i] = "validating")
    BY Zenon DEF ClaimNext, SInv, StoreTypeOK
<1>2. UNCHANGED <<rev, kind, appliedLog>> /\ \A n \in DOMAIN appliedLog : appliedLog[n] \in Jobs
    BY DEF ClaimNext, SInv, StoreTypeOK
<1>3. QED
    BY <1>1, <1>2 DEF RowsInv

LEMMA RowsRecover ==
    ASSUME SInv, RowsInv, RecoverStale
    PROVE  RowsInv'
<1>1. \A i \in Jobs : \/ status'[i] = status[i]
                      \/ status[i] \in {"validating", "applying"} /\ status'[i] = "queued"
    BY Zenon DEF RecoverStale, Stale
<1>2. UNCHANGED <<rev, kind, appliedLog>> /\ \A n \in DOMAIN appliedLog : appliedLog[n] \in Jobs
    BY DEF RecoverStale, SInv, StoreTypeOK
<1>3. QED
    BY <1>1, <1>2 DEF RowsInv

LEMMA RowsRepair ==
    ASSUME SInv, RowsInv, NEW j \in Jobs, NEW r \in Revs, EnqueueIfNotActive(j, r)
    PROVE  RowsInv'
<1>1. /\ FreshJob(j) /\ status'[j] = "validating" /\ kind'[j] = "repair"
      /\ \A i \in Jobs : i # j => status'[i] = status[i] /\ rev'[i] = rev[i] /\ kind'[i] = kind[i]
    BY Zenon DEF EnqueueIfNotActive, InsertJob, SInv, StoreTypeOK
<1>2. UNCHANGED appliedLog /\ \A n \in DOMAIN appliedLog : appliedLog[n] \in Jobs
    BY DEF EnqueueIfNotActive, SInv, StoreTypeOK
<1>3. \A i, k \in Jobs : i < k /\ status'[k] # "absent" => status'[i] # "absent"
    BY <1>1, Zenon DEF RowsInv, FreshJob
<1>4. QED
    BY <1>1, <1>2, <1>3, ZenonT(60) DEF RowsInv, FreshJob

LEMMA RowsUpdate ==
    ASSUME SInv, RowsInv, NEW j \in Jobs, status[j] # "absent", NEW s \in Statuses \ {"absent"},
           UpdateStatus(j, s)
    PROVE  RowsInv'
<1>1. /\ status'[j] = s /\ status[j] # "applied"
      /\ \A i \in Jobs : i # j => status'[i] = status[i]
      /\ UNCHANGED <<rev, kind>>
    BY Zenon DEF UpdateStatus, Transition, SInv, StoreTypeOK
<1>2. \A n \in DOMAIN appliedLog : appliedLog[n] \in Jobs /\ status'[appliedLog[n]] = "applied"
    BY <1>1 DEF RowsInv, SInv, StoreTypeOK
<1>3. \A n \in DOMAIN appliedLog' : status'[appliedLog'[n]] = "applied"
  <2>1. CASE s = "applied"
    <3>1. appliedLog' = Append(appliedLog, j) /\ appliedLog \in Seq(Jobs)
      BY <2>1, Zenon DEF UpdateStatus, SInv, StoreTypeOK
    <3>2. QED
      BY <1>1, <1>2, <2>1, <3>1
  <2>2. CASE s # "applied"
    BY <1>2, <2>2, Zenon DEF UpdateStatus
  <2>3. QED
    BY <2>1, <2>2, Zenon
<1>4. QED
    BY <1>1, <1>3 DEF RowsInv

LEMMA RowsStep ==
    ASSUME PipelineInv, RowsInv, [Next]_vars
    PROVE  RowsInv'
<1> USE Parts
<1>1. CASE Edit
    BY <1>1, RowsEdit, Zenon DEF Edit
<1>2. CASE Claim
    BY <1>2, RowsClaim, RowsSame, Zenon DEF Claim, StoreError, storeVars, jobVars
<1>3. CASE Recover
    BY <1>3, RowsRecover, RowsSame, Zenon DEF Recover, StoreError, storeVars, jobVars
<1>4. CASE Repair
    BY <1>4, RowsRepair, RowsSame, Zenon DEF Repair, StoreError, storeVars, jobVars, WInv, TargetChosen
<1>5. ASSUME pc \in Busy, NEW s \in Statuses \ {"absent"}, SetStatus(s) \/ SetStatusError(s)
      PROVE  RowsInv'
  <2>1. CASE SetStatus(s)
    BY <1>5, <2>1, RowsUpdate, JobRevision, Zenon DEF SetStatus
  <2>2. CASE SetStatusError(s)
    BY <2>2, RowsSame, Zenon DEF SetStatusError, StoreError, storeVars, jobVars
  <2>3. QED
    BY <1>5, <2>1, <2>2, Zenon
<1>6. /\ {"setApplying", "setApplied", "setFailed", "setRolledBack"} \subseteq Busy
      /\ {"applying", "applied", "failed", "rolled-back"} \subseteq Statuses \ {"absent"}
    BY Zenon DEF Busy, Locations, Statuses
<1>7. CASE SetApplying \/ SetApplied \/ SetFailed \/ SetRolledBack
    BY <1>5, <1>6, <1>7, Zenon DEF SetApplying, SetApplied, SetFailed, SetRolledBack, RecordOutcome
<1>8. CASE MarkRevision
    BY <1>8, Zenon DEF MarkRevision, MarkApplied, StoreError, storeVars, RowsInv
<1>9. QED
    BY <1>1, <1>2, <1>3, <1>4, <1>7, <1>8, StoreQuiet, RowsSame, Zenon

-----------------------------------------------------------------------------
(* The worker's copy of its job, and its loops *)

LEMMA BusyIs == Busy = Forward \cup Failing
BY Zenon DEF Busy, Locations, Forward, Failing

WorkInv == CopyInv /\ LoopInv

LEMMA WorkIdle ==
    ASSUME NEW next \in {"down", "wait", "recover", "claim", "list", "latest"}, EndPoll(next)
    PROVE  WorkInv'
BY BusyIs, Zenon DEF EndPoll, WorkInv, CopyInv, LoopInv, Forward, Failing, Services

(* Around a worker that does not move. *)
LEMMA WorkSame ==
    ASSUME WInv, WorkInv, UNCHANGED workerVars,
           \A j \in Jobs : status[j] # "absent" =>
              kind'[j] = kind[j] /\ status'[j] \in {status[j], "failed"}
    PROVE  WorkInv'
<1>1. UNCHANGED <<pc, job, local, svc, promoted, undo>>
    BY Zenon DEF workerVars
<1>2. pc \in Busy => kind'[job] = kind[job] /\ status'[job] \in {status[job], "failed"}
    BY Zenon DEF WInv, BusyHasJob
<1>3. CopyInv'
    BY <1>1, <1>2, BusyIs, Zenon DEF WorkInv, CopyInv, Forward, Failing
<1>4. LoopInv'
    BY <1>1, <1>2, BusyIs, Zenon DEF WorkInv, LoopInv, Forward, Failing, Targets, FirstService
<1>5. QED
    BY <1>3, <1>4, Zenon DEF WorkInv

(* Between the loops: the next candidate, or the next phase. *)
LEMMA NextCandidateIs ==
    ASSUME svc \in Targets(job), NEW loop, NEW next, NextCandidate(loop, next)
    PROVE  \/ svc = "coredns" /\ pc' = loop /\ svc' = "nginx" /\ kind[job] # "repair"
           \/ svc = "nginx" /\ pc' = next /\ svc' = FirstService(job)
BY Zenon DEF NextCandidate, Targets, Services

LEMMA WorkError ==
    ASSUME WInv, WorkInv, pc \in Busy \ {"start"}, ApplyError, local' = local,
           UNCHANGED <<status, kind>>
    PROVE  WorkInv'
<1>1. UNCHANGED <<job, promoted, svc, local, status, kind>> /\ undo' = promoted
    BY Zenon DEF ApplyError
<1>2. promoted = {} => pc' = "setFailed"
    BY Zenon DEF ApplyError
<1>3. promoted # {} => /\ pc' = "rollback"
                       /\ pc \notin {"prepare", "setApplying"}
                       /\ pc = "setFailed" => local = "applying"
    BY Zenon DEF ApplyError, WorkInv, LoopInv, CopyInv
<1>4. local \in {"", "validating", "applying"} /\ (local # "" => status[job] \in {local, "failed"})
    BY BusyIs, Zenon DEF WorkInv, CopyInv, Forward, Failing
<1>5. promoted # {} => local = "applying"
    BY <1>3, <1>4, BusyIs, Zenon DEF WorkInv, CopyInv, Forward, Failing
<1>6. pc' \in {"setFailed", "rollback"}
    BY <1>2, <1>3, Zenon
<1>7. CopyInv'
    BY <1>1, <1>2, <1>4, <1>5, <1>6, Zenon DEF CopyInv
<1>8. LoopInv'
    BY <1>1, <1>2, <1>6, BusyIs, Zenon DEF WorkInv, LoopInv, Forward, Failing
<1>9. QED
    BY <1>7, <1>8, Zenon DEF WorkInv

LEMMA WorkStart ==
    ASSUME SInv, WInv, WorkInv, Start
    PROVE  WorkInv'
<1>1. CASE EndPoll("wait")
    BY <1>1, WorkIdle, Zenon
<1>2. CASE /\ status[job] = "validating"
           /\ local' = "validating"
           /\ svc' = FirstService(job)
           /\ UNCHANGED <<job, promoted, undo, undone, inner, target>>
           /\ pc' \in {"prepare", "setFailed"}
           /\ UNCHANGED storeVars
  <2>1. promoted = {} /\ UNCHANGED <<status, kind>>
    BY <1>2, Zenon DEF Start, WorkInv, LoopInv, storeVars
  <2>2. svc' \in Targets(job)'
    BY <1>2, <2>1, Zenon DEF Targets, FirstService, Services
  <2>3. CopyInv'
    BY <1>2, <2>1, Zenon DEF CopyInv
  <2>4. LoopInv'
    BY <1>2, <2>1, <2>2, BusyIs, Zenon DEF LoopInv, Forward, Failing
  <2>5. QED
    BY <2>3, <2>4, Zenon DEF WorkInv
<1>3. QED
    BY <1>1, <1>2, Zenon DEF Start

LEMMA WorkPrepare ==
    ASSUME SInv, WInv, WorkInv, Prepare
    PROVE  WorkInv'
<1>1. pc = "prepare" /\ UNCHANGED <<status, kind, local>>
    BY Zenon DEF Prepare, storeVars
<1>2. promoted = {} /\ svc \in Targets(job) /\ local = "validating" /\ status[job] \in {"validating", "failed"}
    BY <1>1, Zenon DEF WorkInv, LoopInv, CopyInv
<1>3. CASE NextCandidate("prepare", "setApplying") /\ UNCHANGED <<job, promoted, undo, undone, inner, target>>
  <2>1. \/ svc = "coredns" /\ pc' = "prepare" /\ svc' = "nginx" /\ kind[job] # "repair"
        \/ svc = "nginx" /\ pc' = "setApplying" /\ svc' = FirstService(job)
    BY <1>2, <1>3, NextCandidateIs, Zenon
  <2>2. svc' \in Targets(job)' /\ (pc' = "setApplying" => svc' = FirstService(job)')
    BY <1>1, <1>3, <2>1, Zenon DEF Targets, FirstService, Services
  <2>3. pc' \in {"prepare", "setApplying"}
    BY <2>1, Zenon
  <2>4. QED
    BY <1>1, <1>2, <1>3, <2>2, <2>3, BusyIs, Zenon DEF WorkInv, CopyInv, LoopInv, Forward, Failing
<1>4. CASE pc' = "setFailed" /\ UNCHANGED <<job, svc, promoted, undo, undone, target>>
    BY <1>1, <1>2, <1>4, BusyIs, Zenon DEF WorkInv, CopyInv, LoopInv, Forward, Failing
<1>5. CASE ApplyError
    BY <1>1, <1>5, WorkError, BusyIs, Zenon DEF Forward
<1>6. QED
    BY <1>3, <1>4, <1>5, Zenon DEF Prepare

LEMMA WorkSetApplying ==
    ASSUME SInv, WInv, WorkInv, SetApplying
    PROVE  WorkInv'
<1>1. pc = "setApplying" /\ pc \in Busy
    BY BusyIs, Zenon DEF SetApplying, Forward
<1>2. /\ promoted = {} /\ svc \in Targets(job) /\ svc = FirstService(job) /\ job \in Jobs
      /\ status \in [Jobs -> Statuses]
    BY <1>1, JobRevision, Zenon DEF WorkInv, LoopInv, SInv, StoreTypeOK
<1>3. CASE /\ SetStatus("applying") /\ local' = "applying" /\ pc' = "promote"
           /\ UNCHANGED <<job, svc, promoted, undo, undone, inner, target>>
  <2>1. status'[job] = "applying" /\ kind' = kind
    BY <1>2, <1>3, Zenon DEF SetStatus, UpdateStatus
  <2>2. promoted' = Targets(job)' \ (IF svc' = "coredns" THEN Services ELSE {"nginx"})
    BY <1>2, <1>3, <2>1, Zenon DEF Targets, FirstService, Services
  <2>3. CopyInv'
    BY <1>3, <2>1, Zenon DEF CopyInv
  <2>4. LoopInv'
    BY <1>2, <1>3, <2>1, <2>2, BusyIs, Zenon DEF LoopInv, Targets, Forward, Failing
  <2>5. QED
    BY <2>3, <2>4, Zenon DEF WorkInv
<1>4. CASE SetStatusError("applying") /\ local' = "" /\ ApplyError
  <2>1. pc' = "setFailed" /\ UNCHANGED <<job, svc, promoted>>
    BY <1>2, <1>4, Zenon DEF ApplyError
  <2>2. QED
    BY <1>2, <1>4, <2>1, BusyIs, Zenon DEF WorkInv, CopyInv, LoopInv, Forward, Failing
<1>5. QED
    BY <1>3, <1>4, Zenon DEF SetApplying

LEMMA WorkPromote ==
    ASSUME SInv, WInv, WorkInv, Promote
    PROVE  WorkInv'
<1>1. pc = "promote" /\ UNCHANGED <<status, kind, local>>
    BY Zenon DEF Promote, storeVars
<1>2. /\ promoted = Targets(job) \ (IF svc = "coredns" THEN Services ELSE {"nginx"})
      /\ svc \in Targets(job) /\ local = "applying" /\ status[job] \in {"applying", "failed"}
    BY <1>1, BusyIs, Zenon DEF WorkInv, LoopInv, CopyInv, Forward
<1>3. CASE /\ promoted' = promoted \cup {svc}
           /\ NextCandidate("promote", "reload") /\ UNCHANGED <<job, undo, undone, inner, target>>
  <2>1. \/ svc = "coredns" /\ pc' = "promote" /\ svc' = "nginx" /\ kind[job] # "repair"
        \/ svc = "nginx" /\ pc' = "reload" /\ svc' = FirstService(job)
    BY <1>2, <1>3, NextCandidateIs, Zenon
  <2>2. svc' \in Targets(job)' /\ promoted' \subseteq Services
    BY <1>1, <1>2, <1>3, <2>1, Zenon DEF Targets, FirstService, Services
  <2>3. /\ pc' = "promote" => promoted' = Targets(job)' \ (IF svc' = "coredns" THEN Services ELSE {"nginx"})
        /\ pc' = "reload" => promoted' = Targets(job)'
    BY <1>1, <1>2, <1>3, <2>1, Zenon DEF Targets, FirstService, Services
  <2>4. pc' \in {"promote", "reload"}
    BY <2>1, Zenon
  <2>5. QED
    BY <1>1, <1>2, <1>3, <2>2, <2>3, <2>4, BusyIs, Zenon DEF WorkInv, CopyInv, LoopInv, Forward, Failing
<1>4. CASE ApplyError
    BY <1>1, <1>4, WorkError, BusyIs, Zenon DEF Forward
<1>5. QED
    BY <1>3, <1>4, Zenon DEF Promote

LEMMA WorkReload ==
    ASSUME SInv, WInv, WorkInv, Reload
    PROVE  WorkInv'
<1>1. pc = "reload" /\ UNCHANGED <<status, kind, local>>
    BY Zenon DEF Reload, storeVars
<1>2. CASE pc' = "health" /\ UNCHANGED <<job, svc, promoted, undo, undone, inner, target>>
    BY <1>1, <1>2, BusyIs, Zenon DEF WorkInv, CopyInv, LoopInv, Targets, Forward, Failing
<1>3. CASE ApplyError
    BY <1>1, <1>3, WorkError, BusyIs, Zenon DEF Forward
<1>4. QED
    BY <1>2, <1>3, Zenon DEF Reload

LEMMA WorkHealth ==
    ASSUME SInv, WInv, WorkInv, Health
    PROVE  WorkInv'
<1>1. pc = "health" /\ UNCHANGED <<status, kind, local>>
    BY Zenon DEF Health, storeVars
<1>2. /\ promoted = Targets(job) /\ svc \in Targets(job)
      /\ local = "applying" /\ status[job] \in {"applying", "failed"}
    BY <1>1, BusyIs, Zenon DEF WorkInv, LoopInv, CopyInv, Forward
<1>3. CASE /\ NextCandidate("reload", "markApplied")
           /\ UNCHANGED <<job, promoted, undo, undone, inner, target>>
  <2>1. \/ svc = "coredns" /\ pc' = "reload" /\ svc' = "nginx" /\ kind[job] # "repair"
        \/ svc = "nginx" /\ pc' = "markApplied" /\ svc' = FirstService(job)
    BY <1>2, <1>3, NextCandidateIs, Zenon
  <2>2. svc' \in Targets(job)' /\ promoted' = Targets(job)' /\ promoted' \subseteq Services
    BY <1>1, <1>2, <1>3, <2>1, Zenon DEF Targets, FirstService, Services
  <2>3. pc' \in {"reload", "markApplied"}
    BY <2>1, Zenon
  <2>4. QED
    BY <1>1, <1>2, <1>3, <2>2, <2>3, BusyIs, Zenon DEF WorkInv, CopyInv, LoopInv, Forward, Failing
<1>4. CASE /\ pc' = "rollback" /\ undo' = promoted /\ undone' = TRUE /\ inner' = TRUE
           /\ UNCHANGED <<job, svc, promoted, target>>
  <2>1. promoted # {} /\ promoted \subseteq Services
    BY <1>2, Zenon DEF Targets, Services
  <2>2. QED
    BY <1>1, <1>2, <1>4, <2>1, BusyIs, Zenon DEF WorkInv, CopyInv, LoopInv, Forward, Failing
<1>5. CASE ApplyError
    BY <1>1, <1>5, WorkError, BusyIs, Zenon DEF Forward
<1>6. QED
    BY <1>3, <1>4, <1>5, Zenon DEF Health

LEMMA WorkRollback ==
    ASSUME SInv, WInv, WorkInv, Rollback
    PROVE  WorkInv'
<1>1. pc = "rollback" /\ UNCHANGED <<status, kind, local, job, svc, promoted>>
    BY Zenon DEF Rollback, storeVars
<1>2. undo' \subseteq undo /\ (pc' = "rollback" => undo' # {})
    BY Zenon DEF Rollback
<1>3. pc' \in {"rollback", "setRolledBack", "setFailed"}
    BY Zenon DEF Rollback
<1>4. /\ local = "applying" /\ status[job] \in {"applying", "failed"}
      /\ undo \subseteq promoted /\ promoted \subseteq Services
    BY <1>1, BusyIs, Zenon DEF WorkInv, LoopInv, CopyInv, Failing
<1>5. QED
    BY <1>1, <1>2, <1>3, <1>4, BusyIs, Zenon DEF WorkInv, CopyInv, LoopInv, Forward, Failing

LEMMA WorkOutcome ==
    ASSUME SInv, WInv, WorkInv, SetRolledBack \/ SetFailed
    PROVE  WorkInv'
<1>1. pc \in {"setRolledBack", "setFailed"}
    BY Zenon DEF SetRolledBack, SetFailed, RecordOutcome
<1>2. CASE EndPoll("recover") \/ EndPoll("wait")
    BY <1>2, WorkIdle, Zenon
<1>3. ASSUME NEW s, SetStatusError(s), ApplyError, UNCHANGED local PROVE WorkInv'
    BY <1>1, <1>3, WorkError, BusyIs, Zenon DEF Failing, SetStatusError, StoreError, storeVars
<1>4. QED
    BY <1>2, <1>3, Zenon DEF SetRolledBack, SetFailed, RecordOutcome

LEMMA WorkMarkRevision ==
    ASSUME SInv, WInv, WorkInv, MarkRevision
    PROVE  WorkInv'
<1>1. pc = "markApplied" /\ UNCHANGED <<status, kind, local>>
    BY Zenon DEF MarkRevision, MarkApplied, StoreError, storeVars
<1>2. CASE pc' = "setApplied" /\ UNCHANGED <<job, svc, promoted, undo, undone, inner, target>>
    BY <1>1, <1>2, BusyIs, Zenon DEF WorkInv, CopyInv, LoopInv, Targets, Forward, Failing
<1>3. CASE ApplyError
    BY <1>1, <1>3, WorkError, BusyIs, Zenon DEF Forward
<1>4. QED
    BY <1>2, <1>3, Zenon DEF MarkRevision

LEMMA WorkSetApplied ==
    ASSUME SInv, WInv, WorkInv, SetApplied
    PROVE  WorkInv'
<1>1. pc = "setApplied"
    BY Zenon DEF SetApplied
<1>2. CASE EndPoll("recover")
    BY <1>2, WorkIdle, Zenon
<1>3. CASE SetStatusError("applied") /\ ApplyError /\ UNCHANGED local
    BY <1>1, <1>3, WorkError, BusyIs, Zenon DEF Forward, SetStatusError, StoreError, storeVars
<1>4. QED
    BY <1>2, <1>3, Zenon DEF SetApplied

LEMMA WorkPoll ==
    ASSUME SInv, WInv, WorkInv,
           Wake \/ Recover \/ Claim \/ List \/ Latest \/ Probe \/ Repair \/ Restart \/ Crash
    PROVE  WorkInv'
<1>1. ASSUME NEW next \in {"down", "wait", "recover", "claim", "list", "latest"}, EndPoll(next)
      PROVE  WorkInv'
    BY <1>1, WorkIdle, Zenon
<1>2. ASSUME NEW j \in Jobs, pc \notin Busy, status'[j] = "validating", job' = j, pc' = "start",
             UNCHANGED <<local, svc, promoted, undo, undone, inner, target>>
      PROVE  WorkInv'
    BY <1>2, BusyIs, Zenon DEF WorkInv, CopyInv, LoopInv, Forward, Failing
<1>3. ASSUME pc \notin Busy, pc' \in {"probe", "repair"},
             UNCHANGED <<job, local, svc, promoted, undo, undone, inner>>
      PROVE  WorkInv'
    BY <1>3, BusyIs, Zenon DEF WorkInv, CopyInv, LoopInv, Forward, Failing
<1>4. CASE Wake \/ Recover \/ List \/ Restart \/ Crash
    BY <1>1, <1>4, Zenon DEF Wake, Recover, List, Restart, Crash
<1>5. CASE Claim
  <2>1. pc \notin Busy /\ \A j \in Jobs : ClaimNext(j) => status'[j] = "validating"
    BY <1>5, BusyIs, Zenon DEF Claim, Forward, Failing, ClaimNext, SInv, StoreTypeOK
  <2>2. QED
    BY <1>1, <1>2, <1>5, <2>1, Zenon DEF Claim
<1>6. CASE Repair
  <2>1. pc \notin Busy /\ \A j \in Jobs : EnqueueIfNotActive(j, target) => status'[j] = "validating"
    BY <1>6, BusyIs, Zenon DEF Repair, Forward, Failing, EnqueueIfNotActive, SInv, StoreTypeOK
  <2>2. QED
    BY <1>1, <1>2, <1>6, <2>1, Zenon DEF Repair
<1>7. CASE Latest \/ Probe
  <2>1. pc \notin Busy
    BY <1>7, BusyIs, Zenon DEF Latest, Probe, Forward, Failing
  <2>2. QED
    BY <1>1, <1>3, <1>7, <2>1, Zenon DEF Latest, Probe
<1>8. QED
    BY <1>4, <1>5, <1>6, <1>7, Zenon

LEMMA WorkStep ==
    ASSUME PipelineInv, WorkInv, [Next]_vars
    PROVE  WorkInv'
<1> USE Parts
<1>1. CASE WorkerStep \/ Crash
    BY <1>1, WorkPoll, WorkStart, WorkPrepare, WorkSetApplying, WorkPromote, WorkReload, WorkHealth,
       WorkRollback, WorkOutcome, WorkMarkRevision, WorkSetApplied, Zenon
    DEF WorkerStep
<1>2. CASE Edit
  <2>1. PICK r \in Revs : Enqueue(r) \/ Import(r)
    BY <1>2, Zenon DEF Edit
  <2>2. UNCHANGED workerVars
    BY <1>2, Zenon DEF Edit
  <2>3. QED
    BY <2>1, <2>2, EditRow, WorkSame, Zenon
<1>3. CASE UNCHANGED workerVars /\ UNCHANGED jobVars
    BY <1>3, WorkSame, Zenon DEF jobVars
<1>4. CASE LateHandler \/ HelperRestart \/ NginxRestart \/ CoreDNSRestart \/ CoreDNSReloads
           \/ (\E j \in Jobs : Expire(j)) \/ UNCHANGED vars
    BY <1>3, <1>4, Zenon DEF LateHandler, HelperRestart, NginxRestart, CoreDNSRestart, CoreDNSReloads,
                      Expire, LeaseExpires, vars, storeVars, jobVars
<1>5. QED
    BY <1>1, <1>2, <1>4, Zenon DEF Next

-----------------------------------------------------------------------------
(* What goes wrong *)

(* What has gone wrong stays on record. *)
Grows == \A b \in Troubles : wrong[b] <= wrong'[b]

LEMMA GoesWrongGrows ==
    ASSUME WrongType, NEW b \in Troubles, NEW n \in Nat, GoesWrong(b, n)
    PROVE  Grows /\ wrong'[b] = wrong[b] + n /\ \A c \in Troubles : c # b => wrong'[c] = wrong[c]
BY DEF WrongType, GoesWrong, Grows

LEMMA GoWrongGrows ==
    ASSUME WrongType, NEW b \in Troubles, NEW n \in Nat, NEW c \in Troubles, NEW m \in Nat,
           b # c, GoWrong(b, n, c, m)
    PROVE  /\ Grows /\ wrong'[b] = wrong[b] + n /\ wrong'[c] = wrong[c] + m
           /\ \A d \in Troubles : d \notin {b, c} => wrong'[d] = wrong[d]
BY DEF WrongType, GoWrong, Grows

LEMMA SameGrows == ASSUME WrongType, UNCHANGED wrong PROVE Grows
BY DEF WrongType, Grows

LEMMA TroubleKinds ==
    /\ {"fail", "store", "late", "crash", "restart"} = Troubles
    /\ 0 \in Nat /\ 1 \in Nat /\ 0..2 \subseteq Nat
BY DEF Troubles

LEMMA StoreErrorGrows ==
    ASSUME WrongType, StoreError
    PROVE  Grows /\ wrong'["store"] = wrong["store"] + 1
BY TroubleKinds, GoesWrongGrows, Zenon DEF StoreError

LEMMA SetStatusErrorGrows ==
    ASSUME WrongType, NEW s, SetStatusError(s)
    PROVE  Grows
BY StoreErrorGrows, SameGrows, Zenon DEF SetStatusError

LEMMA CallGrows ==
    ASSUME WrongType, NEW op, NEW s, NEW r, NEW reply, Call(op, s, r, reply)
    PROVE  Grows
<1>1. "fail" # "late" /\ "fail" \in Troubles /\ "late" \in Troubles
    BY TroubleKinds, Zenon
<1>2. QED
    BY <1>1, TroubleKinds, GoesWrongGrows, GoWrongGrows, Zenon DEF Call

LEMMA StepGrows ==
    ASSUME WrongType, [Next]_vars
    PROVE  Grows
<1>1. CASE Wake \/ Recover \/ Claim \/ List \/ Latest \/ Repair \/ Restart
    BY <1>1, StoreErrorGrows, SameGrows, Zenon DEF Wake, Recover, Claim, List, Latest, Repair, Restart
<1>2. CASE Probe \/ Promote \/ Reload \/ Health \/ Rollback
    BY <1>2, CallGrows, Zenon DEF Probe, Promote, Reload, Health, Rollback
<1>3. CASE Start \/ Prepare
    BY <1>3, TroubleKinds, GoesWrongGrows, StoreErrorGrows, SameGrows, Zenon DEF Start, Prepare
<1>4. CASE SetApplying \/ SetRolledBack \/ SetFailed \/ SetApplied \/ MarkRevision
    BY <1>4, StoreErrorGrows, SetStatusErrorGrows, SameGrows, Zenon
    DEF SetApplying, SetRolledBack, SetFailed, RecordOutcome, SetApplied, SetStatus, MarkRevision
<1>5. CASE Crash \/ LateHandler
  <2>1. "crash" # "late"
    BY Zenon
  <2>2. QED
    BY <1>5, <2>1, TroubleKinds, GoesWrongGrows, GoWrongGrows, Zenon DEF Crash, LateHandler
<1>6. CASE HelperRestart \/ NginxRestart \/ CoreDNSRestart
  <2>1. "restart" # "fail"
    BY Zenon
  <2>2. QED
    BY <1>6, <2>1, TroubleKinds, GoesWrongGrows, GoWrongGrows, Zenon
    DEF HelperRestart, NginxRestart, CoreDNSRestart
<1>7. CASE CoreDNSReloads \/ Edit \/ (\E j \in Jobs : Expire(j)) \/ UNCHANGED vars
    BY <1>7, SameGrows, Zenon DEF CoreDNSReloads, Edit, Expire, vars
<1>8. QED
    BY <1>1, <1>2, <1>3, <1>4, <1>5, <1>6, <1>7, Zenon DEF Next, WorkerStep

LEMMA WithoutBefore ==
    ASSUME WrongType, WrongType', Grows, NEW K \in SUBSET Troubles, Without(K)'
    PROVE  Without(K)
BY DEF WrongType, Grows, Without

-----------------------------------------------------------------------------
(* The order of the jobs *)

Orderly == Without({"store", "crash"})
OrderFacts == OneAtATime /\ InOrder /\ LostCopy

LEMMA OrderlyBefore ==
    ASSUME PipelineInv, PipelineInv', [Next]_vars, Orderly'
    PROVE  Orderly /\ ~StoreError /\ ~Crash
<1>1. WrongType /\ WrongType'
    BY Zenon DEF PipelineInv, TypeOK, WrongType
<1>2. Grows
    BY <1>1, StepGrows, Zenon
<1>3. {"store", "crash"} \in SUBSET Troubles
    BY TroubleKinds, Zenon
<1>4. Orderly
    BY <1>1, <1>2, <1>3, WithoutBefore, Zenon DEF Orderly
<1>5. wrong'["store"] = 0 /\ wrong["store"] = 0 /\ wrong'["crash"] = 0 /\ wrong["crash"] = 0
    BY <1>4, Zenon DEF Orderly, Without
<1>6. ~StoreError
    BY <1>1, <1>5, StoreErrorGrows
<1>7. ~Crash
  <2>1. "crash" # "late" /\ 0 + 1 # 0
    OBVIOUS
  <2>2. QED
    BY <1>1, <1>5, <2>1, TroubleKinds, GoesWrongGrows, GoWrongGrows DEF Crash
<1>8. QED
    BY <1>4, <1>6, <1>7, Zenon

LEMMA OrderKeep ==
    ASSUME OrderFacts, UNCHANGED status, LostCopy',
           \/ pc' \in Busy /\ job' = job
           \/ \A j \in Jobs : status[j] \notin {"validating", "applying"}
    PROVE  OrderFacts'
BY Zenon DEF OrderFacts, OneAtATime, InOrder, Active

LEMMA OrderIdle ==
    ASSUME OrderFacts, UNCHANGED status, pc \notin Busy, pc' # "setFailed"
    PROVE  OrderFacts'
<1>1. \A j \in Jobs : status[j] \notin {"validating", "applying"}
    BY Zenon DEF OrderFacts, OneAtATime
<1>2. LostCopy'
    BY Zenon DEF LostCopy
<1>3. QED
    BY <1>1, <1>2, OrderKeep, Zenon

(* The worker gives up a job that an import has superseded. *)
LEMMA OrderSuperseded ==
    ASSUME OrderFacts, UNCHANGED status, status[job] = "failed", pc' # "setFailed"
    PROVE  OrderFacts'
<1>1. \A j \in Jobs : status[j] \notin {"validating", "applying"}
    BY Zenon DEF OrderFacts, OneAtATime
<1>2. LostCopy'
    BY Zenon DEF LostCopy
<1>3. QED
    BY <1>1, <1>2, OrderKeep, Zenon

LEMMA OrderRecover ==
    ASSUME SInv, OrderFacts, pc \notin Busy, RecoverStale, pc' # "setFailed"
    PROVE  OrderFacts'
<1>1. \A j \in Jobs : status[j] \notin {"validating", "applying"}
    BY Zenon DEF OrderFacts, OneAtATime
<1>2. status' = status
    BY <1>1, Zenon DEF RecoverStale, Stale, SInv, StoreTypeOK
<1>3. QED
    BY <1>2, OrderIdle, Zenon

LEMMA OrderClaim ==
    ASSUME SInv, RowsInv, OrderFacts, pc \notin Busy, NEW j \in Jobs, ClaimNext(j),
           pc' = "start", job' = j
    PROVE  OrderFacts'
<1>1. \A i \in Jobs : status[i] \notin {"validating", "applying"}
    BY Zenon DEF OrderFacts, OneAtATime
<1>2. /\ status[j] = "queued" /\ status'[j] = "validating"
      /\ \A i \in Jobs : i < j => status[i] # "queued"
      /\ \A i \in Jobs : i # j => status'[i] = status[i]
    BY Zenon DEF ClaimNext, SInv, StoreTypeOK
<1>3. OneAtATime'
    BY <1>1, <1>2, BusyIs, Zenon DEF OneAtATime, Forward
<1>4. InOrder'
  <2> SUFFICES ASSUME NEW i \in Jobs, NEW k \in Jobs, i < k, status'[i] \in Unfinished
               PROVE  status'[k] \in {"absent", "queued", "failed"}
    BY Zenon DEF InOrder, Active
  <2>1. status[i] \in Unfinished
    BY <1>2, Zenon DEF Unfinished
  <2>2. i # j => status[i] = "queued"
    BY <1>1, <2>1, Zenon DEF Unfinished
  <2>3. k # j
    BY <1>2, <2>2, Zenon
  <2>4. QED
    BY <1>2, <2>1, <2>3, Zenon DEF OrderFacts, InOrder, Active
<1>5. QED
    BY <1>3, <1>4, Zenon DEF OrderFacts, LostCopy

LEMMA OrderRepair ==
    ASSUME SInv, RowsInv, OrderFacts, NEW j \in Jobs, NEW r, EnqueueIfNotActive(j, r),
           pc' = "start", job' = j
    PROVE  OrderFacts'
<1>1. /\ \A i \in Jobs : status[i] \notin Unfinished
      /\ status[j] = "absent" /\ status'[j] = "validating"
      /\ \A i \in Jobs : i # j => status'[i] = status[i]
    BY Zenon DEF EnqueueIfNotActive, InsertJob, FreshJob, SInv, StoreTypeOK
<1>2. OneAtATime'
    BY <1>1, BusyIs, Zenon DEF OneAtATime, Forward, Unfinished
<1>3. InOrder'
  <2> SUFFICES ASSUME NEW i \in Jobs, NEW k \in Jobs, i < k, status'[i] \in Unfinished
               PROVE  status'[k] = "absent"
    BY Zenon DEF InOrder, Active
  <2>1. i = j
    BY <1>1, Zenon
  <2>2. k # j
    BY <2>1, StoreAssumption DEF Jobs
  <2>3. QED
    BY <1>1, <2>1, <2>2, Zenon DEF RowsInv
<1>4. QED
    BY <1>2, <1>3, Zenon DEF OrderFacts, LostCopy

(* The worker records a status of its job. *)
LEMMA OrderUpdate ==
    ASSUME SInv, WInv, OrderFacts, pc \in Busy, NEW s \in {"applying", "applied", "failed", "rolled-back"},
           UpdateStatus(job, s),
           \/ pc' \in Busy \ {"setFailed"} /\ job' = job
           \/ s # "applying" /\ pc' # "setFailed"
    PROVE  OrderFacts'
<1>1. job \in Jobs
    BY Zenon DEF WInv, BusyHasJob
<1>2. /\ status[job] \in {"validating", "applying"} /\ status'[job] = s
      /\ \A i \in Jobs : i # job => status'[i] = status[i]
    BY <1>1, Zenon DEF UpdateStatus, Transition, SInv, StoreTypeOK
<1>3. OneAtATime'
    BY <1>1, <1>2, Zenon DEF OrderFacts, OneAtATime
<1>4. InOrder'
  <2> SUFFICES ASSUME NEW i \in Jobs, NEW k \in Jobs, i < k, status'[i] \in Unfinished
               PROVE  status'[k] \in {"absent", "queued", "failed"}
    BY Zenon DEF InOrder, Active
  <2>1. status[i] \in Unfinished
    BY <1>2, Zenon DEF Unfinished
  <2>2. status[k] \in {"absent", "queued", "failed"}
    BY <2>1, Zenon DEF OrderFacts, InOrder, Active
  <2>3. QED
    BY <1>2, <2>2, Zenon
<1>5. QED
    BY <1>3, <1>4, Zenon DEF OrderFacts, LostCopy

LEMMA OrderEdit ==
    ASSUME SInv, WInv, RowsInv, OrderFacts, NEW r \in Revs, Enqueue(r) \/ Import(r), UNCHANGED workerVars
    PROVE  OrderFacts'
<1>1. PICK j \in Jobs : /\ FreshJob(j)
                        /\ status'[j] = "queued" /\ rev'[j] = r
                        /\ kind'[j] = IF r \in ImportRevs THEN "import" ELSE "ordinary"
                        /\ \A i \in Jobs : i # j /\ status[i] = "absent" => status'[i] = "absent"
    BY EditNew, Zenon
<1>2. \A i \in Jobs : i # j => status'[i] \in {status[i], "failed"}
    BY <1>1, EditRow, Zenon
<1>3. UNCHANGED <<pc, job, local>>
    BY Zenon DEF workerVars
<1>4. OneAtATime'
    BY <1>1, <1>2, <1>3, Zenon DEF OrderFacts, OneAtATime
<1>5. InOrder'
  <2> SUFFICES ASSUME NEW i \in Jobs, NEW k \in Jobs, i < k, status'[i] \in Unfinished
               PROVE  status'[k] \in {"absent", "queued", "failed"}
    BY Zenon DEF InOrder, Active
  <2>1. CASE k = j
    BY <1>1, <2>1, Zenon
  <2>2. CASE i = j /\ k # j
    <3>1. status[k] = "absent"
      BY <1>1, <2>2, Zenon DEF RowsInv, FreshJob
    <3>2. QED
      BY <1>2, <2>2, <3>1, Zenon
  <2>3. CASE i # j /\ k # j
    <3>1. status[i] \in Unfinished
      BY <1>2, <2>3, Zenon DEF Unfinished
    <3>2. QED
      BY <1>2, <2>3, <3>1, Zenon DEF OrderFacts, InOrder, Active
  <2>4. QED
    BY <2>1, <2>2, <2>3, Zenon
<1>6. LostCopy'
  <2>1. pc = "setFailed" => job \in Jobs /\ status[job] # "absent"
    BY BusyIs, Zenon DEF WInv, BusyHasJob, Failing
  <2>2. pc = "setFailed" => status'[job] \in {status[job], "failed"}
    BY <2>1, EditRow, Zenon
  <2>3. QED
    BY <1>3, <2>2, Zenon DEF OrderFacts, LostCopy
<1>7. QED
    BY <1>4, <1>5, <1>6, Zenon DEF OrderFacts

(* A step of an attempt that goes on. *)
LEMMA OrderBusy ==
    ASSUME OrderFacts, UNCHANGED <<status, job>>, pc' \in Busy, local' # ""
    PROVE  OrderFacts'
BY OrderKeep, Zenon DEF LostCopy

LEMMA ErrorIsBusy == ASSUME ApplyError PROVE pc' \in {"rollback", "setFailed"} /\ pc' \in Busy /\ job' = job
BY BusyIs, Zenon DEF ApplyError, Failing

(* Without a store error a refused status means that the job was superseded. *)
LEMMA RefusedIsSuperseded ==
    ASSUME WorkInv, OrderFacts, ~StoreError,
           \/ pc = "setApplying" /\ SetStatusError("applying")
           \/ pc = "setRolledBack" /\ SetStatusError("rolled-back")
           \/ pc = "setFailed" /\ SetStatusError("failed")
           \/ pc = "setApplied" /\ SetStatusError("applied")
    PROVE  status[job] = "failed" /\ UNCHANGED storeVars
BY BusyIs, Zenon DEF WorkInv, CopyInv, OrderFacts, LostCopy, SetStatusError, Transition, Forward, Failing

LEMMA OrderPoll ==
    ASSUME SInv, RowsInv, OrderFacts, ~StoreError,
           Wake \/ Recover \/ Claim \/ List \/ Latest \/ Probe \/ Repair \/ Restart
    PROVE  OrderFacts'
<1>1. pc \notin Busy
    BY BusyIs, Zenon DEF Wake, Recover, Claim, List, Latest, Probe, Repair, Restart, Forward, Failing
<1>2. CASE Wake \/ List \/ Latest \/ Probe \/ Restart
  <2>1. UNCHANGED status /\ pc' # "setFailed"
    BY <1>2, Zenon DEF Wake, List, Latest, Probe, Restart, EndPoll, StoreError, storeVars
  <2>2. QED
    BY <1>1, <2>1, OrderIdle, Zenon
<1>3. CASE Recover
    BY <1>1, <1>3, OrderRecover, Zenon DEF Recover, EndPoll
<1>4. CASE Claim
  <2>1. CASE UNCHANGED storeVars /\ EndPoll("list")
    BY <1>1, <2>1, OrderIdle, Zenon DEF EndPoll, storeVars
  <2>2. QED
    BY <1>1, <1>4, <2>1, OrderClaim, Zenon DEF Claim
<1>5. CASE Repair
  <2>1. CASE UNCHANGED storeVars /\ EndPoll("wait")
    BY <1>1, <2>1, OrderIdle, Zenon DEF EndPoll, storeVars
  <2>2. QED
    BY <1>1, <1>5, <2>1, OrderRepair, Zenon DEF Repair
<1>6. QED
    BY <1>2, <1>3, <1>4, <1>5, Zenon

LEMMA OrderApply ==
    ASSUME SInv, WInv, WorkInv, OrderFacts, ~StoreError,
           Start \/ Prepare \/ Promote \/ Reload \/ Health \/ Rollback \/ MarkRevision
    PROVE  OrderFacts'
<1>1. CASE Start
  <2>1. CASE status[job] = "validating"
    <3>1. UNCHANGED <<status, job>> /\ pc' \in {"prepare", "setFailed"} /\ local' = "validating"
      BY <1>1, <2>1, Zenon DEF Start, storeVars
    <3>2. QED
      BY <3>1, OrderBusy, BusyIs, Zenon DEF Forward, Failing
  <2>2. CASE status[job] # "validating"
    <3>1. status[job] = "failed" /\ UNCHANGED status /\ pc' # "setFailed"
      BY <1>1, <2>2, Zenon DEF Start, WorkInv, CopyInv, EndPoll, storeVars
    <3>2. QED
      BY <3>1, OrderSuperseded, Zenon
  <2>3. QED
    BY <2>1, <2>2, Zenon
<1>2. CASE Prepare \/ Promote \/ Reload \/ Health \/ Rollback \/ MarkRevision
  <2>1. UNCHANGED <<status, job, local>> /\ local # ""
    BY <1>2, BusyIs, Zenon DEF Prepare, Promote, Reload, Health, Rollback, MarkRevision, MarkApplied, ApplyError,
       StoreError, storeVars, WorkInv, CopyInv, Forward, Failing
  <2>2. pc' \in Busy
    <3>1. CASE ApplyError
      BY <3>1, ErrorIsBusy, Zenon
    <3>2. CASE Prepare /\ ~ApplyError
      BY <3>2, BusyIs, Zenon DEF Prepare, NextCandidate, Forward, Failing
    <3>3. CASE Promote /\ ~ApplyError
      BY <3>3, BusyIs, Zenon DEF Promote, NextCandidate, Forward
    <3>4. CASE Health /\ ~ApplyError
      BY <3>4, BusyIs, Zenon DEF Health, NextCandidate, Forward, Failing
    <3>5. CASE (Reload \/ Rollback \/ MarkRevision) /\ ~ApplyError
      BY <3>5, BusyIs, Zenon DEF Reload, Rollback, MarkRevision, Forward, Failing
    <3>6. QED
      BY <1>2, <3>1, <3>2, <3>3, <3>4, <3>5, Zenon
  <2>3. QED
    BY <2>1, <2>2, OrderBusy, Zenon
<1>3. QED
    BY <1>1, <1>2, Zenon

LEMMA OrderStatus ==
    ASSUME SInv, WInv, WorkInv, OrderFacts, ~StoreError,
           SetApplying \/ SetRolledBack \/ SetFailed \/ SetApplied
    PROVE  OrderFacts'
<1>1. pc \in Busy
    BY BusyIs, Zenon DEF SetApplying, SetRolledBack, SetFailed, SetApplied, RecordOutcome, Forward, Failing
<1>2. CASE SetApplying
  <2>1. CASE SetStatus("applying") /\ pc' = "promote" /\ job' = job
    BY <1>1, <2>1, OrderUpdate, BusyIs, Zenon DEF SetStatus, Forward
  <2>2. CASE SetStatusError("applying") /\ ApplyError
    <3>1. status[job] = "failed" /\ UNCHANGED status
      BY <1>2, <2>2, RefusedIsSuperseded, Zenon DEF SetApplying, storeVars
    <3>2. QED
      BY <2>2, <3>1, ErrorIsBusy, OrderKeep, Zenon DEF LostCopy
  <2>3. QED
    BY <1>2, <2>1, <2>2, Zenon DEF SetApplying
<1>3. ASSUME NEW s \in {"applied", "failed", "rolled-back"}, SetStatus(s), EndPoll("recover")
      PROVE  OrderFacts'
    BY <1>1, <1>3, OrderUpdate, Zenon DEF SetStatus, EndPoll
<1>4. ASSUME status[job] = "failed", UNCHANGED storeVars, ApplyError \/ EndPoll("wait")
      PROVE  OrderFacts'
  <2>1. UNCHANGED status
    BY <1>4, Zenon DEF storeVars
  <2>2. CASE ApplyError
    BY <1>4, <2>1, <2>2, ErrorIsBusy, OrderKeep, Zenon DEF LostCopy
  <2>3. CASE EndPoll("wait")
    BY <1>4, <2>1, <2>3, OrderSuperseded, Zenon DEF EndPoll
  <2>4. QED
    BY <1>4, <2>2, <2>3, Zenon
<1>5. CASE SetRolledBack
    BY <1>3, <1>4, <1>5, RefusedIsSuperseded, Zenon DEF SetRolledBack, RecordOutcome
<1>6. CASE SetFailed
    BY <1>3, <1>4, <1>6, RefusedIsSuperseded, Zenon DEF SetFailed, RecordOutcome
<1>7. CASE SetApplied
    BY <1>3, <1>4, <1>7, RefusedIsSuperseded, Zenon DEF SetApplied
<1>8. QED
    BY <1>2, <1>5, <1>6, <1>7, Zenon

LEMMA OrderStep ==
    ASSUME PipelineInv, PipelineInv', RowsInv, WorkInv, OrderInv, [Next]_vars
    PROVE  OrderInv'
<1> SUFFICES ASSUME Orderly' PROVE OrderFacts'
    BY Zenon DEF OrderInv, Orderly, OrderFacts
<1>1. Orderly /\ ~StoreError /\ ~Crash
    BY OrderlyBefore, Zenon
<1>2. SInv /\ WInv /\ OrderFacts
    BY <1>1, Parts, Zenon DEF OrderInv, Orderly, OrderFacts
<1>3. CASE WorkerStep
    BY <1>1, <1>2, <1>3, OrderPoll, OrderApply, OrderStatus, Zenon DEF WorkerStep
<1>4. CASE Edit
    BY <1>2, <1>4, OrderEdit, Zenon DEF Edit
<1>5. CASE UNCHANGED workerVars /\ UNCHANGED status
    BY <1>2, <1>5, Zenon DEF OrderFacts, OneAtATime, InOrder, LostCopy, Active, workerVars
<1>6. CASE LateHandler \/ HelperRestart \/ NginxRestart \/ CoreDNSRestart \/ CoreDNSReloads
           \/ (\E j \in Jobs : Expire(j)) \/ UNCHANGED vars
    BY <1>5, <1>6, Zenon DEF LateHandler, HelperRestart, NginxRestart, CoreDNSRestart, CoreDNSReloads,
                      Expire, LeaseExpires, vars, storeVars
<1>7. QED
    BY <1>1, <1>3, <1>4, <1>6, Zenon DEF Next

-----------------------------------------------------------------------------
(* What the control operations do to the files, by reply and number of failing calls. *)

LEMMA PromoteNginxEffect ==
    ASSUME NEW n \in NginxState, NEW r, NEW o \in PromoteNginx(n, r)
    PROVE  /\ o.st.running = n.running
           /\ o.reply \in {"ok", "refused"} /\ o.cost \in 0..2
           /\ o.reply = "ok" => /\ o.st.active = r /\ o.st.stable = r
                                /\ o.cost = 0 => o.st.prev = n.active
           /\ o.reply = "refused" => /\ o.cost # 0
                                     /\ o.cost = 1 => o.st.active = n.active /\ o.st.stable = n.stable
<1> DEFINE saved    == [n EXCEPT !.backup = n.active]
           done     == [saved EXCEPT !.active = r, !.prev = n.active, !.stable = r]
           unsaved  == [done EXCEPT !.prev = None]
           nobackup == [done EXCEPT !.backup = n.backup]
           kept     == [saved EXCEPT !.prev = n.active]
           stuck    == [saved EXCEPT !.active = r]
           half     == [saved EXCEPT !.active = r, !.prev = n.active]
<1>1. /\ done.running = n.running /\ done.active = r /\ done.stable = r /\ done.prev = n.active
      /\ unsaved.running = n.running /\ unsaved.active = r /\ unsaved.stable = r
      /\ nobackup.running = n.running /\ nobackup.active = r /\ nobackup.stable = r
    BY Zenon DEF NginxState
<1>2. /\ saved.running = n.running /\ saved.active = n.active /\ saved.stable = n.stable
      /\ kept.running = n.running /\ kept.active = n.active /\ kept.stable = n.stable
      /\ stuck.running = n.running /\ half.running = n.running
    BY Zenon DEF NginxState
<1>3. o \in {Outcome(done, "ok", 0), Outcome(unsaved, "ok", 1), Outcome(nobackup, "ok", 1),
            Outcome(n, "refused", 1), Outcome(saved, "refused", 1), Outcome(kept, "refused", 1),
            Outcome(stuck, "refused", 2), Outcome(half, "refused", 2)}
    BY Zenon DEF PromoteNginx
<1> HIDE DEF saved, done, unsaved, nobackup, kept, stuck, half
<1>4. QED
    BY <1>1, <1>2, <1>3 DEF Outcome

LEMMA ReloadNginxEffect ==
    ASSUME NEW n \in NginxState, NEW o \in ReloadNginx(n)
    PROVE  /\ o.st.active = n.active /\ o.st.stable = n.stable /\ o.st.prev = n.prev
           /\ o.reply \in {"ok", "refused"}
           /\ o.reply = "ok" => o.st.running = n.active
           /\ o.reply = "refused" => o.cost # 0
BY DEF ReloadNginx, Outcome, NginxState

LEMMA HealthNginxEffect ==
    ASSUME NEW n, NEW r, NEW o \in HealthNginx(n, r)
    PROVE  /\ o.st = n /\ o.reply \in {"ok", "drift", "refused"}
           /\ o.reply = "drift" => ~NginxHealthy(n, r) \/ o.cost # 0
           /\ o.reply = "refused" => o.cost # 0
BY DEF HealthNginx, Outcome

LEMMA RollbackNginxEffect ==
    ASSUME NEW n \in NginxState, NEW o \in RollbackNginx(n)
    PROVE  /\ o.st.prev = n.prev
           /\ n.prev # None /\ o.cost = 0 =>
                 o.reply = "ok" /\ o.st.active = n.prev /\ o.st.stable = n.prev
<1> DEFINE back   == [n EXCEPT !.stable = n.prev, !.active = n.prev]
           half   == [n EXCEPT !.stable = n.prev]
           older  == [n EXCEPT !.active = n.backup, !.stable = None]
           active == [n EXCEPT !.active = n.backup]
<1>1. /\ back.prev = n.prev /\ back.active = n.prev /\ back.stable = n.prev
      /\ half.prev = n.prev /\ older.prev = n.prev /\ active.prev = n.prev
    BY Zenon DEF NginxState
<1>2. \/ o \in {Outcome(back, "ok", 0), Outcome(n, "refused", 1), Outcome(half, "refused", 2)}
      \/ /\ n.prev = None
         /\ o \in {Outcome(older, "ok", 0), Outcome(n, "refused", 1), Outcome(active, "refused", 1),
                   Outcome(n, "refused", 0)}
    BY SMT DEF RollbackNginx
<1> HIDE DEF back, half, older, active
<1>3. QED
    BY <1>1, <1>2 DEF Outcome

LEMMA PromoteCoreDNSEffect ==
    ASSUME NEW c \in CoreDNSState, NEW r, NEW o \in PromoteCoreDNS(c, r)
    PROVE  /\ o.reply \in {"ok", "refused"} /\ o.cost \in 0..2
           /\ o.reply = "ok" => /\ o.cost = 0 /\ o.st.corefile = r /\ o.st.zones = r
                                /\ o.st.prevCorefile = c.corefile /\ o.st.prevZones = c.zones
           /\ o.reply = "refused" => /\ o.cost # 0
                                     /\ o.cost = 1 => o.st.corefile = c.corefile /\ o.st.zones = c.zones
<1> DEFINE half   == [c EXCEPT !.prevCorefile = c.corefile]
           saved  == [half EXCEPT !.prevZones = c.zones]
           done   == [saved EXCEPT !.zones = r, !.corefile = r]
           nozone == [half EXCEPT !.prevZones = None]
<1>1. /\ done.corefile = r /\ done.zones = r
      /\ done.prevCorefile = c.corefile /\ done.prevZones = c.zones
      /\ half.corefile = c.corefile /\ half.zones = c.zones
      /\ saved.corefile = c.corefile /\ saved.zones = c.zones
      /\ nozone.corefile = c.corefile /\ nozone.zones = c.zones
    BY Zenon DEF CoreDNSState
<1>2. \/ o \in {Outcome(done, "ok", 0), Outcome(c, "refused", 1), Outcome(half, "refused", 1),
               Outcome(nozone, "refused", 1), Outcome(saved, "refused", 1)}
      \/ \E st : o = Outcome(st, "refused", 2)
    BY Zenon DEF PromoteCoreDNS
<1> HIDE DEF half, saved, done, nozone
<1>3. QED
    BY <1>1, <1>2 DEF Outcome

LEMMA LoadedIs ==
    ASSUME NEW c \in CoreDNSState
    PROVE  /\ CoreDNSLoaded(c).corefile = c.corefile /\ CoreDNSLoaded(c).zones = c.zones
           /\ CoreDNSLoaded(c).prevCorefile = c.prevCorefile /\ CoreDNSLoaded(c).prevZones = c.prevZones
           /\ CoreDNSLoaded(c).runCorefile = c.corefile /\ CoreDNSLoaded(c).runZones = c.zones
BY Zenon DEF CoreDNSLoaded, CoreDNSState

LEMMA ReloadCoreDNSEffect ==
    ASSUME NEW c \in CoreDNSState, NEW o \in ReloadCoreDNS(c)
    PROVE  /\ o.st.corefile = c.corefile /\ o.st.zones = c.zones
           /\ o.st.prevCorefile = c.prevCorefile /\ o.st.prevZones = c.prevZones
           /\ o.reply \in {"ok", "refused"}
           /\ o.reply = "ok" => o.st.runCorefile = c.corefile /\ o.st.runZones = c.zones
           /\ o.reply = "refused" => o.cost # 0
BY LoadedIs DEF ReloadCoreDNS, Outcome

LEMMA HealthCoreDNSEffect ==
    ASSUME NEW c, NEW o \in HealthCoreDNS(c)
    PROVE  /\ o.st = c /\ o.reply \in {"ok", "refused"}
           /\ o.reply = "refused" => o.cost # 0
BY DEF HealthCoreDNS, Outcome

LEMMA RollbackCoreDNSEffect ==
    ASSUME NEW c \in CoreDNSState, NEW o \in RollbackCoreDNS(c)
    PROVE  /\ o.st.prevCorefile = c.prevCorefile /\ o.st.prevZones = c.prevZones
           /\ c.prevCorefile # None /\ o.cost = 0 =>
                 o.reply = "ok" /\ o.st.corefile = c.prevCorefile /\ o.st.zones = c.prevZones
<1> DEFINE file == [c EXCEPT !.corefile = c.prevCorefile]
           both == [file EXCEPT !.zones = c.prevZones]
           lost == [file EXCEPT !.zones = None]
<1>1. /\ both.prevCorefile = c.prevCorefile /\ both.prevZones = c.prevZones
      /\ both.corefile = c.prevCorefile /\ both.zones = c.prevZones
      /\ file.prevCorefile = c.prevCorefile /\ file.prevZones = c.prevZones
      /\ lost.prevCorefile = c.prevCorefile /\ lost.prevZones = c.prevZones
    BY Zenon DEF CoreDNSState
<1>2. \/ o = Outcome(c, "refused", 0) /\ c.prevCorefile = None
      \/ o \in {Outcome(both, "ok", 0), Outcome(c, "refused", 1), Outcome(file, "refused", 1),
               Outcome(lost, "refused", 1)}
    BY Zenon DEF RollbackCoreDNS
<1> HIDE DEF file, both, lost
<1>3. QED
    BY <1>1, <1>2 DEF Outcome

(* The only thing that a step can let go wrong is failing calls. *)
FailsOnly == \A b \in Troubles : b # "fail" => wrong'[b] = wrong[b]

(* No client timed out: the handler ran and its reply arrived, or nothing ran. *)
LEMMA PromptCall ==
    ASSUME WrongType, NEW op, NEW s, NEW r, NEW reply, Call(op, s, r, reply), Without({"late"})'
    PROVE  /\ UNCHANGED late /\ FailsOnly
           /\ \E n \in 0..2 :
                 /\ wrong'["fail"] = wrong["fail"] + n
                 /\ \/ Handle(op, s, r, reply, n)
                    \/ reply = "error" /\ n = 1 /\ UNCHANGED controlVars
<1>1. wrong'["late"] = 0
    BY Zenon DEF Without
<1>2. "fail" \in Troubles /\ "late" \in Troubles /\ "late" # "fail" /\ wrong["late"] \in Nat
    BY Zenon DEF Troubles, WrongType
<1>3. CASE (\E n \in 0..2 : Handle(op, s, r, reply, n) /\ GoesWrong("fail", n)) /\ UNCHANGED late
  <2>1. PICK n \in 0..2 : Handle(op, s, r, reply, n) /\ GoesWrong("fail", n)
    BY <1>3, Zenon
  <2>2. FailsOnly /\ wrong'["fail"] = wrong["fail"] + n
    BY <1>2, <2>1, TroubleKinds, GoesWrongGrows, Zenon DEF FailsOnly
  <2>3. QED
    BY <1>3, <2>1, <2>2, Zenon
<1>4. ASSUME NEW n \in 0..2, GoWrong("late", 1, "fail", n)
      PROVE  FALSE
    BY <1>1, <1>2, <1>4, TroubleKinds, GoWrongGrows
<1>5. ~GoesWrong("late", 1)
    BY <1>1, <1>2, TroubleKinds, GoesWrongGrows
<1>6. CASE reply = "error" /\ GoesWrong("fail", 1) /\ UNCHANGED <<controlVars, late>>
  <2>1. FailsOnly /\ wrong'["fail"] = wrong["fail"] + 1 /\ 1 \in 0..2
    BY <1>2, <1>6, TroubleKinds, GoesWrongGrows DEF FailsOnly
  <2>2. QED
    BY <1>6, <2>1, Zenon
<1>7. QED
    BY <1>3, <1>4, <1>5, <1>6, Zenon DEF Call

LEMMA NginxHandled ==
    ASSUME NEW op, NEW r, NEW reply, NEW n, Handle(op, "nginx", r, reply, n)
    PROVE  /\ UNCHANGED <<candidate, coredns>>
           /\ \E o \in NginxOutcomes(op, r) : nginx' = o.st /\ reply = o.reply /\ n = o.cost
BY Zenon DEF Handle

LEMMA CoreDNSHandled ==
    ASSUME NEW op, NEW r, NEW reply, NEW n, Handle(op, "coredns", r, reply, n)
    PROVE  /\ UNCHANGED <<candidate, nginx>>
           /\ \E o \in CoreDNSOutcomes(op, r) : coredns' = o.st /\ reply = o.reply /\ n = o.cost
BY Zenon DEF Handle

LEMMA OutcomesAre ==
    ASSUME NEW r
    PROVE  /\ NginxOutcomes("promote", r) = PromoteNginx(nginx, r)
           /\ NginxOutcomes("reload", r) = ReloadNginx(nginx)
           /\ NginxOutcomes("health", r) = HealthNginx(nginx, r)
           /\ NginxOutcomes("rollback", r) = RollbackNginx(nginx)
           /\ CoreDNSOutcomes("promote", r) = PromoteCoreDNS(coredns, r)
           /\ CoreDNSOutcomes("reload", r) = ReloadCoreDNS(coredns)
           /\ CoreDNSOutcomes("health", r) = HealthCoreDNS(coredns)
           /\ CoreDNSOutcomes("rollback", r) = RollbackCoreDNS(coredns)
BY Zenon DEF NginxOutcomes, CoreDNSOutcomes

(* What a step does to the files of one service, and to nothing else. *)
NginxOnly == UNCHANGED <<candidate, coredns, late>> /\ FailsOnly
CoreDNSOnly == UNCHANGED <<candidate, nginx, late>> /\ FailsOnly
NoFailure == wrong'["fail"] = wrong["fail"]
OneFailure == wrong'["fail"] = wrong["fail"] + 1

LEMMA PromoteNginxCall ==
    ASSUME WrongType, ControlTypeOK, NEW r, NEW reply, Call("promote", "nginx", r, reply),
           Without({"late"})'
    PROVE  /\ NginxOnly /\ nginx'.running = nginx.running
           /\ reply = "ok" => /\ nginx'.active = r /\ nginx'.stable = r
                              /\ NoFailure => nginx'.prev = nginx.active
           /\ reply # "ok" => /\ wrong'["fail"] > wrong["fail"]
                              /\ OneFailure => nginx'.active = nginx.active /\ nginx'.stable = nginx.stable
<1>1. PICK n \in 0..2 : /\ wrong'["fail"] = wrong["fail"] + n
                        /\ \/ Handle("promote", "nginx", r, reply, n)
                           \/ reply = "error" /\ n = 1 /\ UNCHANGED controlVars
    BY PromptCall
<1>2. UNCHANGED late /\ FailsOnly /\ wrong["fail"] \in Nat
    BY PromptCall, Zenon DEF WrongType, Troubles
<1>3. CASE reply = "error" /\ n = 1 /\ UNCHANGED controlVars
    BY <1>1, <1>2, <1>3 DEF controlVars, NginxOnly
<1>4. CASE Handle("promote", "nginx", r, reply, n)
  <2>1. UNCHANGED <<candidate, coredns>>
    BY <1>4, NginxHandled, Zenon
  <2>2. PICK o \in PromoteNginx(nginx, r) : nginx' = o.st /\ reply = o.reply /\ n = o.cost
    BY <1>4, NginxHandled, OutcomesAre
  <2>3. nginx \in NginxState
    BY Zenon DEF ControlTypeOK
  <2>4. QED
    BY <1>1, <1>2, <2>1, <2>2, <2>3, PromoteNginxEffect DEF NginxOnly, NoFailure, OneFailure
<1>5. QED
    BY <1>1, <1>3, <1>4, Zenon

LEMMA PromoteCoreDNSCall ==
    ASSUME WrongType, ControlTypeOK, NEW r, NEW reply, Call("promote", "coredns", r, reply),
           Without({"late"})'
    PROVE  /\ CoreDNSOnly
           /\ reply = "ok" => /\ coredns'.corefile = r /\ coredns'.zones = r /\ NoFailure
                              /\ coredns'.prevCorefile = coredns.corefile
                              /\ coredns'.prevZones = coredns.zones
           /\ reply # "ok" => /\ wrong'["fail"] > wrong["fail"]
                              /\ OneFailure => /\ coredns'.corefile = coredns.corefile
                                               /\ coredns'.zones = coredns.zones
<1>1. PICK n \in 0..2 : /\ wrong'["fail"] = wrong["fail"] + n
                        /\ \/ Handle("promote", "coredns", r, reply, n)
                           \/ reply = "error" /\ n = 1 /\ UNCHANGED controlVars
    BY PromptCall
<1>2. UNCHANGED late /\ FailsOnly /\ wrong["fail"] \in Nat
    BY PromptCall, Zenon DEF WrongType, Troubles
<1>3. CASE reply = "error" /\ n = 1 /\ UNCHANGED controlVars
    BY <1>1, <1>2, <1>3 DEF controlVars, CoreDNSOnly
<1>4. CASE Handle("promote", "coredns", r, reply, n)
  <2>1. UNCHANGED <<candidate, nginx>>
    BY <1>4, CoreDNSHandled, Zenon
  <2>2. PICK o \in PromoteCoreDNS(coredns, r) : coredns' = o.st /\ reply = o.reply /\ n = o.cost
    BY <1>4, CoreDNSHandled, OutcomesAre
  <2>3. coredns \in CoreDNSState
    BY Zenon DEF ControlTypeOK
  <2>4. QED
    BY <1>1, <1>2, <2>1, <2>2, <2>3, PromoteCoreDNSEffect DEF CoreDNSOnly, NoFailure, OneFailure
<1>5. QED
    BY <1>1, <1>3, <1>4, Zenon

(* A call that ran in the helper, or did not. *)
LEMMA NginxCall ==
    ASSUME WrongType, NEW op, NEW r, NEW reply, Call(op, "nginx", r, reply), Without({"late"})'
    PROVE  /\ NginxOnly
           /\ \/ reply = "error" /\ OneFailure /\ UNCHANGED nginx
              \/ \E o \in NginxOutcomes(op, r) :
                    nginx' = o.st /\ reply = o.reply /\ wrong'["fail"] = wrong["fail"] + o.cost
<1>1. UNCHANGED late /\ FailsOnly
    BY PromptCall, Zenon
<1>2. PICK n \in 0..2 : /\ wrong'["fail"] = wrong["fail"] + n
                        /\ \/ Handle(op, "nginx", r, reply, n)
                           \/ reply = "error" /\ n = 1 /\ UNCHANGED controlVars
    BY PromptCall
<1>3. CASE reply = "error" /\ n = 1 /\ UNCHANGED controlVars
    BY <1>1, <1>2, <1>3, Zenon DEF controlVars, NginxOnly, OneFailure
<1>4. CASE Handle(op, "nginx", r, reply, n)
    BY <1>1, <1>2, <1>4, NginxHandled DEF NginxOnly
<1>5. QED
    BY <1>2, <1>3, <1>4, Zenon

LEMMA CoreDNSCall ==
    ASSUME WrongType, NEW op, NEW r, NEW reply, Call(op, "coredns", r, reply), Without({"late"})'
    PROVE  /\ CoreDNSOnly
           /\ \/ reply = "error" /\ OneFailure /\ UNCHANGED coredns
              \/ \E o \in CoreDNSOutcomes(op, r) :
                    coredns' = o.st /\ reply = o.reply /\ wrong'["fail"] = wrong["fail"] + o.cost
<1>1. UNCHANGED late /\ FailsOnly
    BY PromptCall, Zenon
<1>2. PICK n \in 0..2 : /\ wrong'["fail"] = wrong["fail"] + n
                        /\ \/ Handle(op, "coredns", r, reply, n)
                           \/ reply = "error" /\ n = 1 /\ UNCHANGED controlVars
    BY PromptCall
<1>3. CASE reply = "error" /\ n = 1 /\ UNCHANGED controlVars
    BY <1>1, <1>2, <1>3, Zenon DEF controlVars, CoreDNSOnly, OneFailure
<1>4. CASE Handle(op, "coredns", r, reply, n)
    BY <1>1, <1>2, <1>4, CoreDNSHandled DEF CoreDNSOnly
<1>5. QED
    BY <1>2, <1>3, <1>4, Zenon

LEMMA ReloadNginxCall ==
    ASSUME WrongType, ControlTypeOK, NEW r, NEW reply, Call("reload", "nginx", r, reply),
           Without({"late"})'
    PROVE  /\ NginxOnly
           /\ nginx'.active = nginx.active /\ nginx'.stable = nginx.stable /\ nginx'.prev = nginx.prev
           /\ reply = "ok" => nginx'.running = nginx.active
           /\ reply # "ok" => ~NoFailure
<1>1. wrong["fail"] \in Nat /\ nginx \in NginxState
    BY Zenon DEF WrongType, Troubles, ControlTypeOK
<1>2. NginxOnly
    BY NginxCall, Zenon
<1>3. CASE reply = "error" /\ OneFailure /\ UNCHANGED nginx
    BY <1>1, <1>2, <1>3 DEF OneFailure, NoFailure
<1>4. CASE \E o \in ReloadNginx(nginx) :
              nginx' = o.st /\ reply = o.reply /\ wrong'["fail"] = wrong["fail"] + o.cost
  <2>1. PICK o \in ReloadNginx(nginx) :
              nginx' = o.st /\ reply = o.reply /\ wrong'["fail"] = wrong["fail"] + o.cost
    BY <1>4, Zenon
  <2>2. o.cost \in Nat
    BY DEF ReloadNginx, Outcome
  <2>3. QED
    BY <1>1, <1>2, <2>1, <2>2, ReloadNginxEffect DEF NoFailure
<1>5. QED
    BY <1>3, <1>4, NginxCall, OutcomesAre

LEMMA ReloadCoreDNSCall ==
    ASSUME WrongType, ControlTypeOK, NEW r, NEW reply, Call("reload", "coredns", r, reply),
           Without({"late"})'
    PROVE  /\ CoreDNSOnly
           /\ coredns'.corefile = coredns.corefile /\ coredns'.zones = coredns.zones
           /\ coredns'.prevCorefile = coredns.prevCorefile /\ coredns'.prevZones = coredns.prevZones
           /\ reply = "ok" => coredns'.runCorefile = coredns.corefile /\ coredns'.runZones = coredns.zones
           /\ reply # "ok" => ~NoFailure
<1>1. wrong["fail"] \in Nat /\ coredns \in CoreDNSState
    BY Zenon DEF WrongType, Troubles, ControlTypeOK
<1>2. CoreDNSOnly
    BY CoreDNSCall, Zenon
<1>3. CASE reply = "error" /\ OneFailure /\ UNCHANGED coredns
    BY <1>1, <1>2, <1>3 DEF OneFailure, NoFailure
<1>4. CASE \E o \in ReloadCoreDNS(coredns) :
              coredns' = o.st /\ reply = o.reply /\ wrong'["fail"] = wrong["fail"] + o.cost
  <2>1. PICK o \in ReloadCoreDNS(coredns) :
              coredns' = o.st /\ reply = o.reply /\ wrong'["fail"] = wrong["fail"] + o.cost
    BY <1>4, Zenon
  <2>2. o.cost \in Nat
    BY DEF ReloadCoreDNS, Outcome
  <2>3. QED
    BY <1>1, <1>2, <2>1, <2>2, ReloadCoreDNSEffect DEF NoFailure
<1>5. QED
    BY <1>3, <1>4, CoreDNSCall, OutcomesAre

(* Health checks read. *)
LEMMA HealthCall ==
    ASSUME WrongType, NEW s \in Services, NEW r, NEW reply, Call("health", s, r, reply),
           Without({"late"})'
    PROVE  /\ UNCHANGED <<controlVars, late>> /\ FailsOnly
           /\ reply = "drift" => s = "nginx" /\ (NoFailure => ~NginxHealthy(nginx, r))
           /\ reply \in {"refused", "error"} => ~NoFailure
<1>1. wrong["fail"] \in Nat
    BY Zenon DEF WrongType, Troubles
<1>2. CASE s = "nginx"
  <2>1. NginxOnly
    BY <1>2, NginxCall, Zenon
  <2>2. CASE reply = "error" /\ OneFailure /\ UNCHANGED nginx
    BY <1>1, <2>1, <2>2 DEF OneFailure, NoFailure, NginxOnly, controlVars
  <2>3. CASE \E o \in HealthNginx(nginx, r) :
                nginx' = o.st /\ reply = o.reply /\ wrong'["fail"] = wrong["fail"] + o.cost
    <3>1. PICK o \in HealthNginx(nginx, r) :
                nginx' = o.st /\ reply = o.reply /\ wrong'["fail"] = wrong["fail"] + o.cost
      BY <2>3, Zenon
    <3>2. o.cost \in Nat
      BY DEF HealthNginx, Outcome
    <3>3. QED
      BY <1>1, <1>2, <2>1, <3>1, <3>2, HealthNginxEffect DEF NoFailure, NginxOnly, controlVars
  <2>4. QED
    BY <1>2, <2>2, <2>3, NginxCall, OutcomesAre
<1>3. CASE s = "coredns"
  <2>1. CoreDNSOnly
    BY <1>3, CoreDNSCall, Zenon
  <2>2. CASE reply = "error" /\ OneFailure /\ UNCHANGED coredns
    BY <1>1, <2>1, <2>2 DEF OneFailure, NoFailure, CoreDNSOnly, controlVars
  <2>3. CASE \E o \in HealthCoreDNS(coredns) :
                coredns' = o.st /\ reply = o.reply /\ wrong'["fail"] = wrong["fail"] + o.cost
    <3>1. PICK o \in HealthCoreDNS(coredns) :
                coredns' = o.st /\ reply = o.reply /\ wrong'["fail"] = wrong["fail"] + o.cost
      BY <2>3, Zenon
    <3>2. o.cost \in Nat
      BY DEF HealthCoreDNS, Outcome
    <3>3. QED
      BY <1>1, <2>1, <3>1, <3>2, HealthCoreDNSEffect DEF NoFailure, CoreDNSOnly, controlVars
  <2>4. QED
    BY <1>3, <2>2, <2>3, CoreDNSCall, OutcomesAre
<1>4. QED
    BY <1>2, <1>3, Zenon DEF Services

LEMMA RollbackNginxCall ==
    ASSUME WrongType, ControlTypeOK, NEW r, NEW reply, Call("rollback", "nginx", r, reply),
           Without({"late"})'
    PROVE  /\ NginxOnly /\ nginx'.prev = nginx.prev
           /\ nginx.prev # None /\ NoFailure =>
                 reply = "ok" /\ nginx'.active = nginx.prev /\ nginx'.stable = nginx.prev
<1>1. wrong["fail"] \in Nat /\ nginx \in NginxState
    BY Zenon DEF WrongType, Troubles, ControlTypeOK
<1>2. NginxOnly
    BY NginxCall, Zenon
<1>3. CASE reply = "error" /\ OneFailure /\ UNCHANGED nginx
    BY <1>1, <1>2, <1>3 DEF OneFailure, NoFailure
<1>4. CASE \E o \in RollbackNginx(nginx) :
              nginx' = o.st /\ reply = o.reply /\ wrong'["fail"] = wrong["fail"] + o.cost
  <2>1. PICK o \in RollbackNginx(nginx) :
              nginx' = o.st /\ reply = o.reply /\ wrong'["fail"] = wrong["fail"] + o.cost
    BY <1>4, Zenon
  <2>2. o.cost \in Nat
    BY DEF RollbackNginx, Outcome
  <2>3. QED
    BY <1>1, <1>2, <2>1, <2>2, RollbackNginxEffect DEF NoFailure
<1>5. QED
    BY <1>3, <1>4, NginxCall, OutcomesAre

LEMMA RollbackCoreDNSCall ==
    ASSUME WrongType, ControlTypeOK, NEW r, NEW reply, Call("rollback", "coredns", r, reply),
           Without({"late"})'
    PROVE  /\ CoreDNSOnly
           /\ coredns'.prevCorefile = coredns.prevCorefile /\ coredns'.prevZones = coredns.prevZones
           /\ coredns.prevCorefile # None /\ NoFailure =>
                 /\ reply = "ok" /\ coredns'.corefile = coredns.prevCorefile
                 /\ coredns'.zones = coredns.prevZones
<1>1. wrong["fail"] \in Nat /\ coredns \in CoreDNSState
    BY Zenon DEF WrongType, Troubles, ControlTypeOK
<1>2. CoreDNSOnly
    BY CoreDNSCall, Zenon
<1>3. CASE reply = "error" /\ OneFailure /\ UNCHANGED coredns
    BY <1>1, <1>2, <1>3 DEF OneFailure, NoFailure
<1>4. CASE \E o \in RollbackCoreDNS(coredns) :
              coredns' = o.st /\ reply = o.reply /\ wrong'["fail"] = wrong["fail"] + o.cost
  <2>1. PICK o \in RollbackCoreDNS(coredns) :
              coredns' = o.st /\ reply = o.reply /\ wrong'["fail"] = wrong["fail"] + o.cost
    BY <1>4, Zenon
  <2>2. o.cost \in Nat
    BY DEF RollbackCoreDNS, Outcome
  <2>3. QED
    BY <1>1, <1>2, <2>1, <2>2, RollbackCoreDNSEffect DEF NoFailure
<1>5. QED
    BY <1>3, <1>4, CoreDNSCall, OutcomesAre

-----------------------------------------------------------------------------
(* What the services have loaded *)

Prompt == Without({"late"}) /\ SoundStarts

ServedFiles ==
    /\ "nginx" \in promoted => nginx.active = rev[job] /\ nginx.stable = rev[job]
    /\ "nginx" \in Loaded => nginx.running = rev[job]
    /\ "coredns" \in promoted => coredns.corefile = rev[job] /\ coredns.zones = rev[job]
    /\ "coredns" \in Loaded => coredns.runCorefile = rev[job] /\ coredns.runZones = rev[job]

LEMMA ServedIs ==
    ServedInv <=> (Without({"late"}) => late = {}) /\ (Prompt /\ pc \in Forward => ServedFiles)
BY Zenon DEF ServedInv, Prompt, ServedFiles

LEMMA LoadedIsPromoted == ASSUME WorkInv PROVE Loaded \subseteq promoted
BY BusyIs, Zenon DEF WorkInv, LoopInv, Loaded, Forward, Services, Targets

LEMMA PromptBefore ==
    ASSUME PipelineInv, PipelineInv', [Next]_vars
    PROVE  /\ Without({"late"})' => Without({"late"})
           /\ Prompt' => Prompt
<1>1. WrongType /\ WrongType'
    BY Zenon DEF PipelineInv, TypeOK, WrongType
<1>2. Grows
    BY <1>1, StepGrows, Zenon
<1>3. {"late"} \in SUBSET Troubles /\ {"fail"} \in SUBSET Troubles /\ {"restart"} \in SUBSET Troubles
    BY TroubleKinds, Zenon
<1>4. QED
    BY <1>1, <1>2, <1>3, WithoutBefore, Zenon DEF Prompt, SoundStarts

(* No request outlives its client. *)
LEMMA LateStep ==
    ASSUME PipelineInv, PipelineInv', ServedInv, [Next]_vars, Without({"late"})'
    PROVE  late' = {}
<1>1. late = {} /\ WrongType /\ wrong'["late"] = 0 /\ wrong["late"] \in Nat
    BY PromptBefore, ServedIs, Zenon DEF PipelineInv, TypeOK, WrongType, Without, Troubles
<1>2. CASE Wake \/ Recover \/ Claim \/ List \/ Latest \/ Repair \/ Restart \/ Start \/ Prepare \/ MarkRevision
    BY <1>1, <1>2, Zenon DEF Wake, Recover, Claim, List, Latest, Repair, Restart, Start, Prepare, MarkRevision,
                             StoreError
<1>3. CASE SetApplying \/ SetRolledBack \/ SetFailed \/ SetApplied
    BY <1>1, <1>3, Zenon
    DEF SetApplying, SetRolledBack, SetFailed, RecordOutcome, SetApplied, SetStatus, SetStatusError, StoreError
<1>4. CASE Probe \/ Promote \/ Reload \/ Health \/ Rollback
    BY <1>1, <1>4, PromptCall, Zenon DEF Probe, Promote, Reload, Health, Rollback
<1>5. CASE Crash
  <2>1. "crash" # "late" /\ "late" \in Troubles /\ "crash" \in Troubles
    BY Zenon DEF Troubles
  <2>2. ~GoWrong("crash", 1, "late", 1)
    BY <1>1, <2>1, TroubleKinds, GoWrongGrows
  <2>3. QED
    BY <1>1, <1>5, <2>2, Zenon DEF Crash
<1>6. CASE LateHandler \/ HelperRestart \/ NginxRestart \/ CoreDNSRestart
    BY <1>1, <1>6, Zenon DEF LateHandler, HelperRestart, NginxRestart, CoreDNSRestart
<1>7. CASE CoreDNSReloads \/ Edit \/ (\E j \in Jobs : Expire(j)) \/ UNCHANGED vars
    BY <1>1, <1>7, Zenon DEF CoreDNSReloads, Edit, Expire, vars
<1>8. QED
    BY <1>2, <1>3, <1>4, <1>5, <1>6, <1>7, Zenon DEF Next, WorkerStep

(* What an attempt that has promoted nothing serves does not matter yet. *)
LEMMA ServedEarly ==
    ASSUME WorkInv', pc' \in {"start", "prepare", "setApplying"}
    PROVE  ServedFiles'
<1>1. promoted' = {} /\ Loaded' = {}
    BY LoadedIsPromoted, BusyIs, Zenon DEF WorkInv, LoopInv, Forward, Loaded
<1>2. QED
    BY <1>1, Zenon DEF ServedFiles

LEMMA ServedPromote ==
    ASSUME PipelineInv, WorkInv, ServedFiles, Promote, pc' \in Forward, Without({"late"})'
    PROVE  ServedFiles'
<1>1. PICK reply \in Replies :
          /\ Call("promote", svc, rev[job], reply)
          /\ IF reply = "ok"
             THEN /\ promoted' = promoted \cup {svc}
                  /\ NextCandidate("promote", "reload")
                  /\ UNCHANGED <<job, undo, undone, inner, target>>
             ELSE ApplyError
    BY Zenon DEF Promote
<1>2. pc = "promote" /\ UNCHANGED <<rev, kind>>
    BY Zenon DEF Promote, storeVars
<1>3. reply = "ok"
    BY <1>1, ErrorIsBusy, Zenon DEF Forward
<1>4. WrongType /\ ControlTypeOK
    BY Zenon DEF PipelineInv, TypeOK, WrongType
<1>5. svc \in Targets(job) /\ promoted = Targets(job) \ (IF svc = "coredns" THEN Services ELSE {"nginx"})
    BY <1>2, Zenon DEF WorkInv, LoopInv
<1>6. job' = job /\ promoted' = promoted \cup {svc}
    BY <1>1, <1>3, Zenon
<1>7. CASE svc = "coredns"
  <2>1. promoted' = {"coredns"} /\ pc' = "promote"
    BY <1>1, <1>3, <1>5, <1>6, <1>7, Zenon DEF NextCandidate, Targets, Services
  <2>2. Loaded' = {}
    BY <2>1, Zenon DEF Loaded
  <2>3. coredns'.corefile = rev[job] /\ coredns'.zones = rev[job]
    BY <1>1, <1>3, <1>4, <1>7, PromoteCoreDNSCall, Zenon
  <2>4. QED
    BY <1>2, <1>6, <2>1, <2>2, <2>3, Zenon DEF ServedFiles
<1>8. CASE svc = "nginx"
  <2>1. pc' = "reload" /\ svc' = FirstService(job)
    BY <1>1, <1>3, <1>8, Zenon DEF NextCandidate
  <2>2. Loaded' = {}
    BY <1>5, <1>6, <1>8, <2>1, Zenon DEF Loaded, FirstService, Targets, Services
  <2>3. nginx'.active = rev[job] /\ nginx'.stable = rev[job] /\ coredns' = coredns
    BY <1>1, <1>3, <1>4, <1>8, PromoteNginxCall, Zenon DEF NginxOnly
  <2>4. QED
    BY <1>2, <1>6, <1>8, <2>2, <2>3, Zenon DEF ServedFiles
<1>9. QED
    BY <1>5, <1>7, <1>8, Zenon DEF Targets, Services

LEMMA ServedReload ==
    ASSUME PipelineInv, WorkInv, ServedFiles, Reload, pc' \in Forward, Without({"late"})'
    PROVE  ServedFiles'
<1>1. PICK reply \in Replies :
          /\ Call("reload", svc, rev[job], reply)
          /\ IF reply = "ok"
             THEN pc' = "health" /\ UNCHANGED <<job, svc, promoted, undo, undone, inner, target>>
             ELSE ApplyError
    BY Zenon DEF Reload
<1>2. pc = "reload" /\ UNCHANGED <<rev, kind>>
    BY Zenon DEF Reload, storeVars
<1>3. reply = "ok"
    BY <1>1, ErrorIsBusy, Zenon DEF Forward
<1>4. WrongType /\ ControlTypeOK
    BY Zenon DEF PipelineInv, TypeOK, WrongType
<1>5. svc \in Targets(job) /\ promoted = Targets(job)
    BY <1>2, Zenon DEF WorkInv, LoopInv
<1>6. UNCHANGED <<job, promoted, svc, rev>> /\ pc' = "health"
    BY <1>1, <1>2, <1>3, Zenon
<1>7. CASE svc = "coredns"
  <2>1. Loaded' = {"coredns"} /\ "coredns" \in promoted
    BY <1>5, <1>6, <1>7, Zenon DEF Loaded
  <2>2. /\ coredns'.corefile = coredns.corefile /\ coredns'.zones = coredns.zones
        /\ coredns'.runCorefile = coredns.corefile /\ coredns'.runZones = coredns.zones
        /\ nginx' = nginx
    BY <1>1, <1>3, <1>4, <1>7, ReloadCoreDNSCall, Zenon DEF CoreDNSOnly
  <2>3. QED
    BY <1>6, <2>1, <2>2, Zenon DEF ServedFiles
<1>8. CASE svc = "nginx"
  <2>1. Loaded' = promoted /\ Loaded = promoted \ {"nginx"} /\ "nginx" \in promoted
    BY <1>2, <1>5, <1>6, <1>8, Zenon DEF Loaded
  <2>2. /\ nginx'.active = nginx.active /\ nginx'.stable = nginx.stable /\ nginx'.running = nginx.active
        /\ coredns' = coredns
    BY <1>1, <1>3, <1>4, <1>8, ReloadNginxCall, Zenon DEF NginxOnly
  <2>3. QED
    BY <1>6, <2>1, <2>2, Zenon DEF ServedFiles
<1>9. QED
    BY <1>5, <1>7, <1>8, Zenon DEF Targets, Services

LEMMA ServedHealth ==
    ASSUME PipelineInv, WorkInv, ServedFiles, Health, pc' \in Forward, Without({"late"})'
    PROVE  ServedFiles'
<1>1. PICK reply \in Replies :
          /\ Call("health", svc, rev[job], reply)
          /\ \/ /\ reply = "ok"
                /\ NextCandidate("reload", "markApplied")
                /\ UNCHANGED <<job, promoted, undo, undone, inner, target>>
             \/ pc' = "rollback"
             \/ ApplyError
    BY Zenon DEF Health
<1>2. pc = "health" /\ UNCHANGED <<rev, kind>>
    BY Zenon DEF Health, storeVars
<1>3. NextCandidate("reload", "markApplied") /\ UNCHANGED <<job, promoted, rev>>
    BY <1>1, <1>2, ErrorIsBusy, Zenon DEF Forward
<1>4. svc \in Targets(job) /\ promoted = Targets(job) /\ svc \in Services
    BY <1>2, Zenon DEF WorkInv, LoopInv, Targets, Services
<1>5. UNCHANGED <<nginx, coredns>>
    BY <1>1, <1>4, HealthCall, Zenon DEF PipelineInv, TypeOK, WrongType, controlVars
<1>6. Loaded' \subseteq Loaded
    BY <1>2, <1>3, <1>4, Zenon DEF Loaded, NextCandidate, Targets, Services
<1>7. QED
    BY <1>3, <1>5, <1>6, Zenon DEF ServedFiles

LEMMA BusyRow ==
    ASSUME PipelineInv, pc \in Forward
    PROVE  job \in Jobs /\ status[job] # "absent" /\ rev[job] \in Revs /\ rev[job] # None /\ rev[job] # Baked
BY BusyIs, RevisionsAssumption, ControlAssumption, Zenon DEF PipelineInv, BusyHasJob, JobsHaveRevisions

(* An edit does not touch the row the worker works on. *)
LEMMA EditKeepsRow ==
    ASSUME PipelineInv, Edit, NEW j \in Jobs, status[j] # "absent"
    PROVE  rev'[j] = rev[j] /\ kind'[j] = kind[j] /\ status'[j] \in {status[j], "failed"}
<1>1. PICK r \in Revs : Enqueue(r) \/ Import(r)
    BY Zenon DEF Edit
<1>2. SInv
    BY Parts, Zenon
<1>3. QED
    BY <1>1, <1>2, EditRow, Zenon

LEMMA ServedRestart ==
    ASSUME PipelineInv, PipelineInv', WorkInv, pc \in Forward, ServedFiles, Prompt',
           HelperRestart \/ NginxRestart \/ CoreDNSRestart \/ CoreDNSReloads
    PROVE  ServedFiles'
<1>1. UNCHANGED <<pc, job, svc, promoted, rev>>
    BY Zenon DEF HelperRestart, NginxRestart, CoreDNSRestart, CoreDNSReloads, workerVars, storeVars
<1>2. Loaded' = Loaded /\ Loaded \subseteq promoted
    BY <1>1, LoadedIsPromoted, Zenon DEF Loaded
<1>3. rev[job] # None /\ rev[job] # Baked
    BY BusyRow, Zenon
<1>4. nginx \in NginxState /\ coredns \in CoreDNSState
    BY Zenon DEF PipelineInv, TypeOK, ControlTypeOK
<1>5. CASE HelperRestart
  <2>1. CASE StartupSeed
    <3>1. coredns.corefile = Baked /\ nginx' = nginx
      BY <2>1, Zenon DEF StartupSeed, Seedable
    <3>2. "coredns" \notin promoted
      BY <1>3, <3>1, Zenon DEF ServedFiles
    <3>3. QED
      BY <1>1, <1>2, <3>1, <3>2, Zenon DEF ServedFiles
  <2>2. CASE UNCHANGED controlVars
    BY <1>1, <1>2, <2>2, Zenon DEF ServedFiles, controlVars
  <2>3. QED
    BY <1>5, <2>1, <2>2, Zenon DEF HelperRestart
<1>6. CASE NginxRestart
  <2>1. PICK recreated \in BOOLEAN :
          \/ NginxStart(recreated, {}) /\ GoesWrong("restart", 1)
          \/ \E f \in Files : NginxStart(recreated, {f}) /\ GoWrong("restart", 1, "fail", 1)
    BY <1>6, Zenon DEF NginxRestart
  <2>2. ~GoWrong("restart", 1, "fail", 1)
    <3>1. WrongType /\ "restart" # "fail" /\ "restart" \in Troubles /\ "fail" \in Troubles
      BY Zenon DEF PipelineInv, TypeOK, WrongType, Troubles
    <3>2. wrong["restart"] \in Nat /\ wrong["fail"] \in Nat
      BY <3>1, Zenon DEF WrongType
    <3>3. wrong'["restart"] = 0 \/ wrong'["fail"] = 0
      BY Zenon DEF Prompt, SoundStarts, Without
    <3>4. QED
      BY <3>1, <3>2, <3>3, TroubleKinds, GoWrongGrows
  <2>3. NginxStart(recreated, {}) /\ coredns' = coredns
    BY <2>1, <2>2, Zenon DEF NginxStart
  <2>4. CASE "nginx" \in promoted
    <3>1. nginx.stable = rev[job] /\ nginx.stable # None
      BY <1>3, <2>4, Zenon DEF ServedFiles
    <3>2. nginx'.active = rev[job] /\ nginx'.running = rev[job] /\ nginx'.stable = rev[job]
      BY <1>4, <2>3, <3>1, Zenon DEF NginxStart, NginxState
    <3>3. QED
      BY <1>1, <1>2, <2>3, <3>2, Zenon DEF ServedFiles
  <2>5. CASE "nginx" \notin promoted
    BY <1>1, <1>2, <2>3, <2>5, Zenon DEF ServedFiles
  <2>6. QED
    BY <2>4, <2>5, Zenon
<1>7. CASE CoreDNSRestart \/ CoreDNSReloads
  <2>1. coredns' = CoreDNSLoaded(coredns) /\ nginx' = nginx
    BY <1>7, Zenon DEF CoreDNSRestart, CoreDNSReloads, CoreDNSStart, CoreDNSAutoReload
  <2>2. QED
    BY <1>1, <1>2, <1>4, <2>1, LoadedIs, Zenon DEF ServedFiles
<1>8. QED
    BY <1>5, <1>6, <1>7, Zenon

(* Every step keeps what the attempt has put in place. *)
LEMMA ServedStep ==
    ASSUME PipelineInv, PipelineInv', WorkInv, WorkInv', ServedInv, [Next]_vars
    PROVE  ServedInv'
<1>1. Without({"late"})' => late' = {}
    BY LateStep, Zenon
<1>2. ASSUME Prompt', pc' \in Forward
      PROVE  ServedFiles'
  <2>1. Prompt /\ Without({"late"})' /\ Without({"late"})
    BY <1>2, PromptBefore, Zenon DEF Prompt
  <2>2. pc \in Forward => ServedFiles
    BY <2>1, ServedIs, Zenon
  <2>3. CASE pc' \in {"start", "prepare", "setApplying"}
    BY <2>3, ServedEarly, Zenon
  <2>4. CASE /\ UNCHANGED <<nginx, coredns, job, promoted>> /\ rev'[job] = rev[job]
             /\ Loaded' \subseteq Loaded /\ pc \in Forward
    BY <2>2, <2>4, Zenon DEF ServedFiles
  <2>5. CASE Promote \/ Reload \/ Health
    BY <1>2, <2>1, <2>2, <2>5, ServedPromote, ServedReload, ServedHealth, Zenon DEF Promote, Reload, Health, Forward
  <2>6. CASE HelperRestart \/ NginxRestart \/ CoreDNSRestart \/ CoreDNSReloads
    <3>1. pc' = pc
      BY <2>6, Zenon DEF HelperRestart, NginxRestart, CoreDNSRestart, CoreDNSReloads, workerVars
    <3>2. QED
      BY <1>2, <2>2, <2>6, <3>1, ServedRestart, Zenon
  <2>7. CASE LateHandler
    BY <2>1, <2>7, ServedIs, Zenon DEF LateHandler
  <2>8. CASE Edit
    <3>1. UNCHANGED <<nginx, coredns, pc, svc, job, promoted>>
      BY <2>8, Zenon DEF Edit, controlVars, workerVars
    <3>2. rev'[job] = rev[job]
      BY <1>2, <2>8, <3>1, BusyRow, EditKeepsRow, Zenon
    <3>3. QED
      BY <1>2, <2>4, <3>1, <3>2, Zenon DEF Loaded
  <2>9. CASE (\E j \in Jobs : Expire(j)) \/ UNCHANGED vars
    <3>1. UNCHANGED <<nginx, coredns, pc, svc, job, promoted, rev>>
      BY <2>9, Zenon DEF Expire, LeaseExpires, controlVars, workerVars, vars, storeVars
    <3>2. QED
      BY <1>2, <2>4, <3>1, Zenon DEF Loaded
  <2>10. CASE SetApplying
    <3>1. ~ApplyError
      BY <1>2, ErrorIsBusy, Zenon DEF Forward
    <3>2. /\ pc = "setApplying" /\ pc' = "promote"
          /\ UNCHANGED <<job, svc, promoted, rev, nginx, coredns>>
      BY <2>10, <3>1, Zenon DEF SetApplying, SetStatus, UpdateStatus, controlVars
    <3>3. Loaded' = {}
      BY <3>1, <3>2, Zenon DEF Loaded
    <3>4. QED
      BY <2>4, <3>1, <3>2, <3>3, Zenon DEF Forward
  <2>11. CASE MarkRevision
    <3>1. ~ApplyError
      BY <1>2, ErrorIsBusy, Zenon DEF Forward
    <3>2. /\ pc = "markApplied" /\ pc' = "setApplied"
          /\ UNCHANGED <<job, svc, promoted, rev, nginx, coredns>>
      BY <2>11, <3>1, Zenon DEF MarkRevision, MarkApplied, controlVars
    <3>3. Loaded' = Loaded
      BY <3>1, <3>2, Zenon DEF Loaded
    <3>4. QED
      BY <2>4, <3>1, <3>2, <3>3, Zenon DEF Forward
  <2>12. CASE Claim \/ Repair \/ Start \/ Prepare
    <3>1. pc' \in {"start", "prepare", "setApplying"} \/ pc' \notin Forward
      BY <2>12, ErrorIsBusy, Zenon DEF Claim, Repair, Start, Prepare, NextCandidate, EndPoll, Forward
    <3>2. QED
      BY <1>2, <2>3, <3>1, Zenon
  <2>13. CASE Wake \/ Recover \/ List \/ Latest \/ Probe \/ Rollback \/ SetRolledBack \/ SetFailed
              \/ SetApplied \/ Restart \/ Crash
    <3>1. pc' \notin Forward
      BY <2>13, ErrorIsBusy, Zenon
      DEF Wake, Recover, List, Latest, Probe, Rollback, SetRolledBack, SetFailed, RecordOutcome, SetApplied,
          Restart, Crash, EndPoll, Forward
    <3>2. QED
      BY <1>2, <3>1, Zenon
  <2>14. QED
    BY <2>5, <2>6, <2>7, <2>8, <2>9, <2>10, <2>11, <2>12, <2>13, Zenon DEF Next, WorkerStep
<1>3. QED
  <2>1. ServedInv' <=> (Without({"late"})' => late' = {}) /\ (Prompt' /\ pc' \in Forward => ServedFiles')
    BY Zenon DEF ServedInv, Prompt, ServedFiles
  <2>2. QED
    BY <1>1, <1>2, <2>1, Zenon

-----------------------------------------------------------------------------
(* Steps of behaviours in which little goes wrong *)

(* Everything shown so far. *)
BaseInv == PipelineInv /\ RowsInv /\ WorkInv /\ OrderInv /\ ServedInv

LEMMA BaseStep ==
    ASSUME BaseInv, [Next]_vars
    PROVE  BaseInv'
BY NextInv, RowsStep, WorkStep, OrderStep, ServedStep, Zenon DEF BaseInv

(* Calm steps *)

LEMMA CalmIs ==
    ASSUME WrongType, Calm
    PROVE  /\ wrong["late"] = 0 /\ wrong["store"] = 0 /\ wrong["crash"] = 0
           /\ wrong["fail"] = 0 \/ (wrong["fail"] = 1 /\ wrong["restart"] = 0)
           /\ Orderly /\ Prompt /\ Without({"late"})
<1>1. wrong["late"] = 0 /\ wrong["store"] = 0 /\ wrong["crash"] = 0 /\ wrong["fail"] <= 1 /\ SoundStarts
    BY Zenon DEF Calm, Without
<1>2. wrong["fail"] \in Nat
    BY Zenon DEF WrongType, Troubles
<1>3. wrong["fail"] = 0 \/ (wrong["fail"] = 1 /\ wrong["restart"] = 0)
    BY <1>1, <1>2 DEF SoundStarts, Without
<1>4. QED
    BY <1>1, <1>3, Zenon DEF Orderly, Prompt, Without

Quiet == Calm /\ Without({"fail"})

LEMMA CalmStep ==
    ASSUME BaseInv, [Next]_vars, Calm'
    PROVE  /\ Calm /\ OrderFacts /\ late = {} /\ ~StoreError /\ ~Crash /\ ~LateHandler
           /\ pc \in Forward => ServedFiles
           /\ Without({"late"})' /\ Prompt' /\ WrongType /\ WrongType' /\ Grows
           /\ Without({"fail"})' => Without({"fail"})
<1>1. BaseInv' /\ PipelineInv /\ PipelineInv' /\ WrongType /\ WrongType'
    BY BaseStep, Zenon DEF BaseInv, PipelineInv, TypeOK, WrongType
<1>2. Grows
    BY <1>1, StepGrows, Zenon
<1>3. Orderly' /\ Prompt' /\ Without({"late"})'
  <2>1. wrong'["late"] = 0 /\ wrong'["store"] = 0 /\ wrong'["crash"] = 0 /\ SoundStarts'
    BY Zenon DEF Calm, Without
  <2>2. QED
    BY <2>1, Zenon DEF Orderly, Prompt, Without
<1>4. Orderly /\ ~StoreError /\ ~Crash
    BY <1>1, <1>3, OrderlyBefore, Zenon
<1>5. Prompt /\ Without({"late"})
    BY <1>1, <1>3, PromptBefore, Zenon
<1>6. late = {} /\ (pc \in Forward => ServedFiles)
    BY <1>5, ServedIs, Zenon DEF BaseInv
<1>7. ~LateHandler
    BY <1>6, Zenon DEF LateHandler
<1>8. OrderFacts
    BY <1>4, Zenon DEF BaseInv, OrderInv, Orderly, OrderFacts
<1>9. Calm
  <2>1. wrong["fail"] <= wrong'["fail"] /\ wrong'["fail"] <= 1 /\ wrong["fail"] \in Nat /\ wrong'["fail"] \in Nat
    BY <1>1, <1>2, Zenon DEF Calm, Grows, WrongType, Troubles
  <2>2. wrong["late"] = 0 /\ wrong["store"] = 0 /\ wrong["crash"] = 0
    BY <1>4, <1>5, Zenon DEF Orderly, Without
  <2>3. QED
    BY <1>5, <2>1, <2>2 DEF Calm, Prompt, Without
<1>10. Without({"fail"})' => Without({"fail"})
  <2>1. {"fail"} \in SUBSET Troubles
    BY TroubleKinds, Zenon
  <2>2. QED
    BY <1>1, <1>2, <2>1, WithoutBefore, Zenon
<1>11. QED
    BY <1>1, <1>2, <1>3, <1>4, <1>6, <1>7, <1>8, <1>9, <1>10, Zenon

(* A busy worker's row. *)
LEMMA BusyStatus ==
    ASSUME PipelineInv, WorkInv, OrderFacts, pc \in Busy
    PROVE  /\ job \in Jobs /\ status[job] # "absent" /\ rev[job] \in Revs
           /\ status[job] = "failed" \/ Active(job)
BY BusyIs, Zenon DEF PipelineInv, BusyHasJob, JobsHaveRevisions, WorkInv, CopyInv, OrderFacts, LostCopy, Active,
              Unfinished, Forward, Failing

LEMMA TwoIsOther == ASSUME TwoActive PROVE OtherActive
BY Zenon DEF TwoActive, OtherActive

LEMMA OtherIsSome == ASSUME OtherActive PROVE SomeActive
BY Zenon DEF OtherActive, SomeActive

LEMMA KnownGoodIs ==
    ASSUME PipelineInv, RowsInv
    PROVE  /\ KnownGood \in Revs \cup {Baked} /\ KnownGood # None
           /\ appliedLog # <<>> => /\ KnownGood \in Revs /\ KnownGood # Baked
                                   /\ appliedLog[Len(appliedLog)] \in Jobs
                                   /\ KnownGood = rev[appliedLog[Len(appliedLog)]]
                                   /\ status[appliedLog[Len(appliedLog)]] = "applied"
                                   /\ Len(appliedLog) \in DOMAIN appliedLog
           /\ appliedLog = <<>> => KnownGood = Baked
<1>1. appliedLog \in Seq(Jobs)
    BY Zenon DEF PipelineInv, TypeOK, StoreTypeOK
<1>2. CASE appliedLog # <<>>
  <2>1. Len(appliedLog) \in DOMAIN appliedLog /\ appliedLog[Len(appliedLog)] \in Jobs
    BY <1>1, <1>2
  <2>2. status[appliedLog[Len(appliedLog)]] = "applied" /\ KnownGood = rev[appliedLog[Len(appliedLog)]]
    BY <1>2, <2>1, Zenon DEF RowsInv, KnownGood
  <2>3. KnownGood \in Revs
    BY <2>1, <2>2, Zenon DEF PipelineInv, JobsHaveRevisions
  <2>4. QED
    BY <1>2, <2>1, <2>2, <2>3, RevisionsAssumption, ControlAssumption, Zenon
<1>3. CASE appliedLog = <<>>
    BY <1>3, ControlAssumption, Zenon DEF KnownGood
<1>4. QED
    BY <1>2, <1>3, Zenon

(* The last applied configuration only changes when a job is applied. *)
LEMMA KnownGoodSame ==
    ASSUME PipelineInv, RowsInv, UNCHANGED appliedLog, UNCHANGED rev \/ Edit
    PROVE  KnownGood' = KnownGood
<1>1. CASE appliedLog = <<>>
    BY <1>1, Zenon DEF KnownGood
<1>2. CASE appliedLog # <<>>
  <2>1. rev'[appliedLog[Len(appliedLog)]] = rev[appliedLog[Len(appliedLog)]]
    <3>1. CASE UNCHANGED rev
      BY <3>1, Zenon
    <3>2. CASE Edit
      BY <1>2, <3>2, KnownGoodIs, EditKeepsRow, Zenon
    <3>3. QED
      BY <3>1, <3>2, Zenon
  <2>2. QED
    BY <1>2, <2>1, Zenon DEF KnownGood
<1>3. QED
    BY <1>1, <1>2, Zenon

-----------------------------------------------------------------------------
(* Before the first job *)

(* Rows stay. *)
LEMMA RowsStay ==
    ASSUME PipelineInv, RowsInv, [Next]_vars, NEW j \in Jobs, status[j] # "absent"
    PROVE  status'[j] # "absent"
<1>1. status \in [Jobs -> Statuses] /\ SInv
    BY Parts, Zenon DEF PipelineInv, TypeOK, StoreTypeOK
<1>2. CASE Edit
    BY <1>2, EditKeepsRow, Zenon
<1>3. CASE Recover \/ Claim \/ Repair
    BY <1>1, <1>3, Zenon DEF Recover, RecoverStale, Claim, ClaimNext, Repair, EnqueueIfNotActive, StoreError, storeVars
<1>4. CASE SetApplying \/ SetRolledBack \/ SetFailed \/ SetApplied \/ MarkRevision
    BY <1>1, <1>4, Zenon DEF SetApplying, SetRolledBack, SetFailed, RecordOutcome, SetApplied, SetStatus,
                      UpdateStatus, SetStatusError, MarkRevision, MarkApplied, StoreError, storeVars
<1>5. CASE UNCHANGED jobVars
    BY <1>5, Zenon DEF jobVars
<1>6. QED
    BY <1>2, <1>3, <1>4, <1>5, StoreQuiet, Zenon

NoneStored == \A j \in Jobs : status[j] = "absent"

FreshFacts ==
    /\ marked = {} /\ appliedLog = <<>> /\ late = {}
    /\ nginx.active = Baked /\ nginx.stable = None /\ nginx.prev = None
    /\ coredns.corefile = Baked /\ coredns.zones = Baked
    /\ candidate = [s \in Services |-> None]

LEMMA FreshIs == FreshInv <=> (NoneStored => FreshFacts)
BY Zenon DEF FreshInv, NoneStored, FreshFacts

(* Before the first job the starts find nothing to install. *)
LEMMA FreshRestart ==
    ASSUME PipelineInv, FreshFacts, HelperRestart \/ NginxRestart \/ CoreDNSRestart \/ CoreDNSReloads
    PROVE  FreshFacts'
<1>1. UNCHANGED <<marked, appliedLog>> /\ nginx \in NginxState /\ coredns \in CoreDNSState
    BY Zenon DEF HelperRestart, NginxRestart, CoreDNSRestart, CoreDNSReloads, storeVars, PipelineInv, TypeOK,
           ControlTypeOK
<1>2. candidate["coredns"] = None /\ candidate["nginx"] = None
    BY Zenon DEF FreshFacts, Services
<1>3. CASE HelperRestart
  <2>1. ~Seedable
    BY <1>2, Zenon DEF Seedable
  <2>2. UNCHANGED <<nginx, coredns, candidate>> /\ late' = {}
    BY <1>3, <2>1, Zenon DEF HelperRestart, StartupSeed, controlVars
  <2>3. QED
    BY <1>1, <2>2, Zenon DEF FreshFacts
<1>4. CASE NginxRestart
  <2>1. PICK recreated \in BOOLEAN, bad \in SUBSET Files : NginxStart(recreated, bad)
    BY <1>4, Zenon DEF NginxRestart
  <2>2. UNCHANGED <<coredns, candidate, late>>
    BY <1>4, <2>1, Zenon DEF NginxRestart, NginxStart
  <2>3. nginx'.active = Baked /\ nginx'.stable = None /\ nginx'.prev = None
    BY <1>1, <1>2, <2>1, Zenon DEF NginxStart, NginxState, FreshFacts
  <2>4. QED
    BY <1>1, <2>2, <2>3, Zenon DEF FreshFacts
<1>5. CASE CoreDNSRestart \/ CoreDNSReloads
  <2>1. coredns' = CoreDNSLoaded(coredns) /\ UNCHANGED <<nginx, candidate, late>>
    BY <1>5, Zenon DEF CoreDNSRestart, CoreDNSReloads, CoreDNSStart, CoreDNSAutoReload
  <2>2. coredns'.corefile = Baked /\ coredns'.zones = Baked
    BY <1>1, <2>1, LoadedIs, Zenon DEF FreshFacts
  <2>3. QED
    BY <1>1, <2>1, <2>2, Zenon DEF FreshFacts
<1>6. QED
    BY <1>3, <1>4, <1>5, Zenon

(* A health check changes nothing, whatever becomes of it. *)
LEMMA HealthChangesNothing ==
    ASSUME NEW s \in Services, NEW r, NEW reply, Call("health", s, r, reply)
    PROVE  UNCHANGED <<controlVars, late>>
<1>1. [op |-> "health", svc |-> s, rev |-> r] \notin Requests
    BY Zenon DEF Requests
<1>2. ASSUME NEW re, NEW n, Handle("health", s, r, re, n)
      PROVE  UNCHANGED controlVars
  <2>1. CASE s = "nginx"
    <3>1. UNCHANGED <<candidate, coredns>>
      BY <1>2, <2>1, NginxHandled, Zenon
    <3>2. PICK o \in HealthNginx(nginx, r) : nginx' = o.st
      BY <1>2, <2>1, NginxHandled, OutcomesAre
    <3>3. QED
      BY <3>1, <3>2, HealthNginxEffect, Zenon DEF controlVars
  <2>2. CASE s = "coredns"
    <3>1. UNCHANGED <<candidate, nginx>>
      BY <1>2, <2>2, CoreDNSHandled, Zenon
    <3>2. PICK o \in HealthCoreDNS(coredns) : coredns' = o.st
      BY <1>2, <2>2, CoreDNSHandled, OutcomesAre
    <3>3. QED
      BY <3>1, <3>2, HealthCoreDNSEffect, Zenon DEF controlVars
  <2>3. QED
    BY <2>1, <2>2, Zenon DEF Services
<1>3. UNCHANGED controlVars
    BY <1>2, Zenon DEF Call
<1>4. late' = late
  <2>1. late \cup ({[op |-> "health", svc |-> s, rev |-> r]} \cap Requests) = late
    BY <1>1, Zenon
  <2>2. QED
    BY <2>1, Zenon DEF Call
<1>5. QED
    BY <1>3, <1>4, Zenon

LEMMA FreshStep ==
    ASSUME PipelineInv, RowsInv, FreshInv, [Next]_vars
    PROVE  FreshInv'
<1> SUFFICES ASSUME NoneStored' PROVE FreshFacts'
    BY Zenon DEF FreshInv, NoneStored, FreshFacts
<1>1. NoneStored /\ FreshFacts
    BY RowsStay, FreshIs, Zenon DEF NoneStored
<1>2. pc \notin Busy
    BY <1>1, Zenon DEF PipelineInv, BusyHasJob, NoneStored
<1>3. CASE UNCHANGED <<marked, appliedLog, late, nginx, coredns, candidate>>
    BY <1>1, <1>3, Zenon DEF FreshFacts
<1>4. CASE Wake \/ Recover \/ Claim \/ List \/ Latest \/ Restart
    BY <1>3, <1>4, Zenon DEF Wake, Recover, RecoverStale, Claim, ClaimNext, List, Latest, Restart, StoreError,
                      storeVars, controlVars
<1>5. CASE Repair
    BY <1>3, <1>5, Zenon DEF Repair, EnqueueIfNotActive, StoreError, storeVars, controlVars
<1>6. CASE Probe
  <2>1. "nginx" \in Services
    BY Zenon DEF Services
  <2>2. UNCHANGED <<controlVars, late, storeVars>>
    BY <1>6, <2>1, HealthChangesNothing, Zenon DEF Probe
  <2>3. QED
    BY <1>3, <2>2, Zenon DEF controlVars, storeVars
<1>7. ~(Start \/ Prepare \/ SetApplying \/ Promote \/ Reload \/ Health \/ Rollback \/ SetRolledBack
        \/ SetFailed \/ MarkRevision \/ SetApplied)
    BY <1>2, Zenon DEF Start, Prepare, SetApplying, Promote, Reload, Health, Rollback, SetRolledBack, SetFailed,
                RecordOutcome, MarkRevision, SetApplied, Busy, Locations
<1>8. CASE Crash
  <2>1. Outstanding = {}
    BY <1>2, Zenon DEF Outstanding, Busy, Locations
  <2>2. QED
    BY <1>3, <1>8, <2>1, Zenon DEF Crash, storeVars, controlVars
<1>9. CASE LateHandler
    BY <1>1, <1>9, Zenon DEF LateHandler, FreshFacts
<1>10. CASE HelperRestart \/ NginxRestart \/ CoreDNSRestart \/ CoreDNSReloads
    BY <1>1, <1>10, FreshRestart, Zenon
<1>11. CASE Edit
  <2>1. PICK r \in Revs : Enqueue(r) \/ Import(r)
    BY <1>11, Zenon DEF Edit
  <2>2. SInv
    BY Parts, Zenon
  <2>3. \E j \in Jobs : status'[j] = "queued"
    BY <2>1, <2>2, EditNew, Zenon
  <2>4. QED
    BY <2>3, Zenon DEF NoneStored
<1>12. CASE (\E j \in Jobs : Expire(j)) \/ UNCHANGED vars
    BY <1>3, <1>12, Zenon DEF Expire, LeaseExpires, controlVars, storeVars, vars
<1>13. QED
    BY <1>4, <1>5, <1>6, <1>7, <1>8, <1>9, <1>10, <1>11, <1>12, Zenon DEF Next, WorkerStep

-----------------------------------------------------------------------------
(* What a step does to the unfinished jobs *)

ActiveSame ==
    /\ \A j \in Jobs : /\ status'[j] \in Unfinished <=> status[j] \in Unfinished
                       /\ status'[j] = "absent" <=> status[j] = "absent"
    /\ UNCHANGED <<rev, kind, latest, appliedLog>>

(* The worker records that its job was applied, or that it gives it up. *)
Applies == pc = "setApplied" /\ SetStatus("applied") /\ EndPoll("recover")
GivesUp == \/ pc = "setRolledBack" /\ SetStatus("rolled-back") /\ EndPoll("recover")
           \/ pc = "setFailed" /\ SetStatus("failed") /\ EndPoll("recover")
Marks == /\ pc = "markApplied" /\ pc' = "setApplied"
         /\ marked' = marked \cup {rev[job]}
         /\ UNCHANGED <<status, job, controlVars>>

(* The reconciliation stores and takes a job of its own. *)
Enlists ==
    /\ pc = "repair" /\ pc' = "start" /\ ~SomeActive
    /\ \E j \in Jobs : EnqueueIfNotActive(j, target) /\ job' = j
    /\ UNCHANGED <<marked, promoted, controlVars>>

(* What a step does to the job rows. *)
LEMMA StoreCases ==
    ASSUME PipelineInv, [Next]_vars
    PROVE  \/ ActiveSame /\ UNCHANGED marked
           \/ Edit
           \/ ActiveSame /\ Marks
           \/ Applies
           \/ GivesUp
           \/ Enlists
<1>1. status \in [Jobs -> Statuses]
    BY Zenon DEF PipelineInv, TypeOK, StoreTypeOK
<1>2. CASE UNCHANGED jobVars
    BY <1>2, Zenon DEF jobVars, ActiveSame
<1>3. CASE Recover
  <2>1. CASE RecoverStale
    <3>1. \A j \in Jobs : \/ status'[j] = status[j]
                          \/ status[j] \in {"validating", "applying"} /\ status'[j] = "queued"
      BY <2>1, Zenon DEF RecoverStale, Stale
    <3>2. QED
      BY <2>1, <3>1, Zenon DEF RecoverStale, ActiveSame, Unfinished
  <2>2. CASE StoreError
    BY <1>2, <2>2, Zenon DEF StoreError, storeVars, jobVars
  <2>3. QED
    BY <1>3, <2>1, <2>2, Zenon DEF Recover
<1>4. CASE Claim
  <2>1. CASE \E j \in Jobs : ClaimNext(j)
    <3>1. PICK j \in Jobs : ClaimNext(j)
      BY <2>1, Zenon
    <3>2. \A i \in Jobs : status'[i] = status[i] \/ (status[i] = "queued" /\ status'[i] = "validating")
      BY <1>1, <3>1, Zenon DEF ClaimNext
    <3>3. QED
      BY <3>1, <3>2, Zenon DEF ClaimNext, ActiveSame, Unfinished
  <2>2. CASE UNCHANGED storeVars
    BY <1>2, <2>2, Zenon DEF storeVars, jobVars
  <2>3. QED
    BY <1>4, <2>1, <2>2, Zenon DEF Claim, StoreError
<1>5. CASE Repair
  <2>1. CASE UNCHANGED storeVars
    BY <1>2, <2>1, Zenon DEF storeVars, jobVars
  <2>2. CASE \E j \in Jobs : EnqueueIfNotActive(j, target)
    <3>1. ~SomeActive /\ UNCHANGED marked
      BY <2>2, Zenon DEF EnqueueIfNotActive, InsertJob, SomeActive, Active
    <3>2. CASE UNCHANGED storeVars
      BY <2>1, <3>2, Zenon
    <3>3. CASE \E j \in Jobs : /\ EnqueueIfNotActive(j, target) /\ job' = j /\ pc' = "start"
                               /\ UNCHANGED <<promoted, controlVars>>
      BY <1>5, <3>1, <3>3, Zenon DEF Repair, Enlists
    <3>4. QED
      BY <1>5, <3>2, <3>3, Zenon DEF Repair, StoreError
  <2>3. QED
    BY <1>5, <2>1, <2>2, Zenon DEF Repair, StoreError
<1>6. CASE SetApplying
  <2>1. CASE SetStatus("applying")
    <3>1. \A i \in Jobs : status'[i] = status[i] \/ (status[i] \in Unfinished /\ status'[i] = "applying")
      BY <1>1, <2>1, Zenon DEF SetStatus, UpdateStatus, Transition, Unfinished
    <3>2. UNCHANGED <<rev, kind, latest, appliedLog, marked>>
      BY <2>1, Zenon DEF SetStatus, UpdateStatus
    <3>3. QED
      BY <3>1, <3>2, Zenon DEF ActiveSame, Unfinished
  <2>2. CASE SetStatusError("applying")
    BY <1>2, <2>2, Zenon DEF SetStatusError, StoreError, storeVars, jobVars
  <2>3. QED
    BY <1>6, <2>1, <2>2, Zenon DEF SetApplying
<1>7. CASE SetRolledBack \/ SetFailed
    BY <1>2, <1>7, Zenon DEF SetRolledBack, SetFailed, RecordOutcome, GivesUp, SetStatusError, StoreError,
                             storeVars, jobVars
<1>8. CASE SetApplied
    BY <1>2, <1>8, Zenon DEF SetApplied, Applies, SetStatusError, StoreError, storeVars, jobVars
<1>9. CASE MarkRevision
    BY <1>2, <1>9, Zenon DEF MarkRevision, MarkApplied, Marks, ActiveSame, StoreError, storeVars, jobVars
<1>10. QED
    BY <1>2, <1>3, <1>4, <1>5, <1>6, <1>7, <1>8, <1>9, StoreQuiet, Zenon

(* Only Apply makes the worker busy. *)
LEMMA GetsBusy ==
    ASSUME PipelineInv, [Next]_vars, pc \notin Busy, pc' \in Busy
    PROVE  /\ Claim \/ Repair
           /\ pc' = "start" /\ status'[job'] = "validating" /\ UNCHANGED <<controlVars, promoted>>
<1>1. status \in [Jobs -> Statuses]
    BY Zenon DEF PipelineInv, TypeOK, StoreTypeOK
<1>2. CASE Claim
  <2>1. PICK j \in Jobs : /\ ClaimNext(j) /\ job' = j /\ pc' = "start"
                          /\ UNCHANGED <<controlVars, promoted>>
    BY <1>2, Zenon DEF Claim, EndPoll, Busy
  <2>2. QED
    BY <1>1, <1>2, <2>1, Zenon DEF ClaimNext
<1>3. CASE Repair
  <2>1. PICK j \in Jobs : /\ EnqueueIfNotActive(j, target) /\ job' = j /\ pc' = "start"
                          /\ UNCHANGED <<controlVars, promoted>>
    BY <1>3, Zenon DEF Repair, EndPoll, Busy
  <2>2. QED
    BY <1>1, <1>3, <2>1, Zenon DEF EnqueueIfNotActive
<1>4. ~(Wake \/ Recover \/ List \/ Latest \/ Probe \/ Restart \/ Crash)
    BY Zenon DEF Wake, Recover, List, Latest, Probe, Restart, Crash, EndPoll, Busy
<1>5. ~(Start \/ Prepare \/ SetApplying \/ Promote \/ Reload \/ Health \/ Rollback \/ SetRolledBack
        \/ SetFailed \/ MarkRevision \/ SetApplied)
    BY Zenon DEF Start, Prepare, SetApplying, Promote, Reload, Health, Rollback, SetRolledBack, SetFailed,
           RecordOutcome, MarkRevision, SetApplied, Busy, Locations
<1>6. ~(\/ LateHandler \/ HelperRestart \/ NginxRestart \/ CoreDNSRestart \/ CoreDNSReloads \/ Edit
        \/ (\E j \in Jobs : Expire(j)) \/ UNCHANGED vars)
    BY Zenon DEF LateHandler, HelperRestart, NginxRestart, CoreDNSRestart, CoreDNSReloads, Edit, Expire, vars,
                 workerVars
<1>7. QED
    BY <1>2, <1>3, <1>4, <1>5, <1>6, Zenon DEF Next, WorkerStep

Goes == pc' \in Busy /\ job' = job /\ (pc' \in Failing => pc \in Failing \/ status[job] = "failed")
Ends == pc' \notin Busy /\ (status[job] = "failed" \/ Applies \/ GivesUp)

(* The calls of an attempt that goes forward. *)
LEMMA OnwardCalls ==
    ASSUME BaseInv, [Next]_vars, Prompt', NoFailure, Promote \/ Reload \/ Health
    PROVE  Goes
<1>0. PipelineInv /\ PipelineInv' /\ WrongType /\ ControlTypeOK
    BY BaseStep, Zenon DEF BaseInv, PipelineInv, TypeOK, WrongType
<1>1. /\ Without({"late"})' /\ WrongType /\ ControlTypeOK /\ (pc \in Forward => ServedFiles)
    BY <1>0, PromptBefore, ServedIs, Zenon DEF Prompt, BaseInv
<1>2. pc \in {"promote", "reload", "health"} /\ svc \in Targets(job) /\ svc \in Services
    BY Zenon DEF Promote, Reload, Health, BaseInv, WorkInv, LoopInv, Targets, Services
<1>3. wrong["fail"] \in Nat
    BY <1>1, Zenon DEF WrongType, Troubles
<1>4. CASE Promote
  <2>1. PICK reply \in Replies : /\ Call("promote", svc, rev[job], reply)
                                 /\ reply = "ok" => NextCandidate("promote", "reload") /\ UNCHANGED job
    BY <1>4, Zenon DEF Promote
  <2>2. reply = "ok"
    BY <1>1, <1>2, <1>3, <2>1, PromoteNginxCall, PromoteCoreDNSCall DEF NoFailure, Services
  <2>3. QED
    BY <2>1, <2>2, BusyIs, Zenon DEF NextCandidate, Goes, Forward, Failing
<1>5. CASE Reload
  <2>1. PICK reply \in Replies : /\ Call("reload", svc, rev[job], reply)
                                 /\ reply = "ok" => pc' = "health" /\ UNCHANGED job
    BY <1>5, Zenon DEF Reload
  <2>2. reply = "ok"
    BY <1>1, <1>2, <2>1, ReloadNginxCall, ReloadCoreDNSCall, Zenon DEF Services
  <2>3. QED
    BY <2>1, <2>2, BusyIs, Zenon DEF Goes, Forward, Failing
<1>6. CASE Health
  <2>1. PICK reply \in Replies : /\ Call("health", svc, rev[job], reply)
                                 /\ reply = "ok" => NextCandidate("reload", "markApplied") /\ UNCHANGED job
    BY <1>6, Zenon DEF Health
  <2>2. reply # "drift"
    <3>1. ASSUME svc = "nginx" PROVE NginxHealthy(nginx, rev[job])
      <4>1. pc = "health" /\ pc \in Forward
        BY <1>6, Zenon DEF Health, Forward
      <4>2. "nginx" \in promoted
        BY <1>2, <3>1, <4>1, Zenon DEF BaseInv, WorkInv, LoopInv
      <4>3. QED
        BY <1>1, <4>1, <4>2, Zenon DEF ServedFiles, NginxHealthy
    <3>2. QED
      BY <1>1, <1>2, <2>1, <3>1, HealthCall, Zenon
  <2>3. reply = "ok"
    BY <1>1, <1>2, <2>1, <2>2, HealthCall, Zenon DEF Replies
  <2>4. QED
    BY <2>1, <2>3, BusyIs, Zenon DEF NextCandidate, Goes, Forward, Failing
<1>7. QED
    BY <1>4, <1>5, <1>6, Zenon

(* A calm attempt is only given up when its job was superseded. *)
LEMMA Onward ==
    ASSUME BaseInv, [Next]_vars, Calm', NoFailure, pc \in Busy
    PROVE  Goes \/ Ends
<1>1. /\ ~StoreError /\ ~Crash /\ ~LateHandler /\ OrderFacts /\ WorkInv /\ wrong["fail"] \in Nat /\ WrongType
    BY CalmStep, Zenon DEF BaseInv, WrongType, Troubles
<1>2. ~GoesWrong("fail", 1)
    BY <1>1, TroubleKinds, GoesWrongGrows DEF NoFailure
<1>3. CASE Start
  <2>1. pc = "start" /\ (status[job] = "validating" => pc' = "prepare" /\ job' = job)
    BY <1>1, <1>2, <1>3, Zenon DEF Start
  <2>2. status[job] # "validating" => status[job] = "failed" /\ pc' = "wait"
    BY <1>1, <1>3, <2>1, Zenon DEF Start, EndPoll, WorkInv, CopyInv
  <2>3. QED
    BY <2>1, <2>2, BusyIs, Zenon DEF Goes, Ends, Forward, Failing
<1>4. CASE Prepare
    BY <1>2, <1>4, BusyIs, Zenon DEF Prepare, NextCandidate, Goes, Forward, Failing
<1>5. CASE SetApplying
  <2>1. CASE SetStatusError("applying")
    BY <1>1, <1>5, <2>1, RefusedIsSuperseded, ErrorIsBusy, Zenon
    DEF SetApplying, Goes, SetStatus, SetStatusError, UpdateStatus
  <2>2. CASE pc' = "promote" /\ job' = job
    BY <2>2, BusyIs, Zenon DEF Goes, Forward, Failing
  <2>3. QED
    BY <1>5, <2>1, <2>2, Zenon DEF SetApplying
<1>6. CASE Promote \/ Reload \/ Health
    BY <1>6, CalmStep, OnwardCalls, Zenon
<1>7. CASE Rollback
    BY <1>7, BusyIs, Zenon DEF Rollback, Goes, Failing
<1>8. CASE SetRolledBack \/ SetFailed
  <2>1. CASE GivesUp
    BY <2>1, BusyIs, Zenon DEF GivesUp, EndPoll, Ends, Forward, Failing
  <2>2. CASE ~GivesUp
    <3>1. /\ \/ pc = "setRolledBack" /\ SetStatusError("rolled-back")
             \/ pc = "setFailed" /\ SetStatusError("failed")
          /\ ApplyError \/ EndPoll("wait")
      BY <1>8, <2>2, Zenon DEF SetRolledBack, SetFailed, RecordOutcome, GivesUp
    <3>2. status[job] = "failed"
      BY <1>1, <3>1, RefusedIsSuperseded, Zenon
    <3>3. QED
      BY <3>1, <3>2, ErrorIsBusy, BusyIs, Zenon DEF EndPoll, Goes, Ends, Forward, Failing
  <2>3. QED
    BY <2>1, <2>2, Zenon
<1>9. CASE MarkRevision
    BY <1>1, <1>9, BusyIs, Zenon DEF MarkRevision, Goes, Forward, Failing
<1>10. CASE SetApplied
  <2>1. CASE Applies
    BY <2>1, BusyIs, Zenon DEF Applies, EndPoll, Ends, Forward, Failing
  <2>2. CASE ~Applies
    <3>1. pc = "setApplied" /\ SetStatusError("applied") /\ ApplyError
      BY <1>10, <2>2, Zenon DEF SetApplied, Applies
    <3>2. status[job] = "failed"
      BY <1>1, <3>1, RefusedIsSuperseded, Zenon
    <3>3. QED
      BY <3>1, <3>2, ErrorIsBusy, Zenon DEF Goes
  <2>3. QED
    BY <2>1, <2>2, Zenon
<1>11. ~(Wake \/ Recover \/ Claim \/ List \/ Latest \/ Probe \/ Repair \/ Restart)
    BY Zenon DEF Wake, Recover, Claim, List, Latest, Probe, Repair, Restart, Busy
<1>12. CASE \/ HelperRestart \/ NginxRestart \/ CoreDNSRestart \/ CoreDNSReloads \/ Edit
            \/ (\E j \in Jobs : Expire(j)) \/ UNCHANGED vars
  <2>1. UNCHANGED <<pc, job>>
    BY <1>12, Zenon DEF HelperRestart, NginxRestart, CoreDNSRestart, CoreDNSReloads, Edit, Expire, vars, workerVars
  <2>2. QED
    BY <2>1, Zenon DEF Goes
<1>13. QED
    BY <1>1, <1>3, <1>4, <1>5, <1>6, <1>7, <1>8, <1>9, <1>10, <1>11, <1>12, Zenon DEF Next, WorkerStep

(* An edit for revision r inserts row k and replaces what it supersedes. *)
Inserts(r, k) ==
    /\ Enqueue(r) \/ Import(r)
    /\ status[k] = "absent" /\ status'[k] = "queued" /\ rev'[k] = r /\ kind'[k] # "repair"
    /\ \A i \in Jobs : status[i] # "absent" =>
          /\ i < k /\ i # k /\ rev'[i] = rev[i] /\ kind'[i] = kind[i]
          /\ \/ status'[i] = status[i]
             \/ Import(r) /\ rev[i] = r /\ Active(i) /\ status'[i] = "failed"
    /\ \A i \in Jobs : i # k /\ status[i] = "absent" => status'[i] = "absent"

LEMMA EditInserts ==
    ASSUME PipelineInv, RowsInv, Edit
    PROVE  \E r \in Revs, k \in Jobs : Inserts(r, k)
<1>1. PICK r \in Revs : Enqueue(r) \/ Import(r)
    BY Zenon DEF Edit
<1>2. SInv
    BY Parts, Zenon
<1>3. PICK k \in Jobs : /\ FreshJob(k)
                        /\ status'[k] = "queued" /\ rev'[k] = r
                        /\ kind'[k] = IF r \in ImportRevs THEN "import" ELSE "ordinary"
                        /\ \A i \in Jobs : i # k /\ status[i] = "absent" => status'[i] = "absent"
    BY <1>1, <1>2, EditNew, Zenon
<1>4. status[k] = "absent" /\ kind'[k] # "repair"
    BY <1>3, Zenon DEF FreshJob
<1>5. \A i \in Jobs : status[i] # "absent" => i < k /\ i # k
    BY <1>4, StoreAssumption DEF RowsInv, Jobs
<1>6. \A i \in Jobs : status[i] # "absent" =>
          /\ rev'[i] = rev[i] /\ kind'[i] = kind[i]
          /\ \/ status'[i] = status[i]
             \/ Import(r) /\ rev[i] = r /\ Active(i) /\ status'[i] = "failed"
    BY <1>1, <1>2, EditRow, Zenon
<1>7. QED
    BY <1>1, <1>3, <1>4, <1>5, <1>6, Zenon DEF Inserts

LEMMA EditColumns ==
    ASSUME NEW r, Enqueue(r) \/ Import(r)
    PROVE  /\ UNCHANGED appliedLog
           /\ Enqueue(r) => r \notin ImportRevs /\ marked' = marked
           /\ Import(r) => r \in ImportRevs /\ marked' = marked \ {r} /\ latest' = r
BY Zenon DEF Enqueue, Import

LEMMA EditFrame ==
    ASSUME Edit
    PROVE  UNCHANGED <<pc, job, promoted, undo, nginx, coredns, candidate, wrong>>
BY Zenon DEF Edit, controlVars, workerVars

(* A superseded revision gets a new job at once. *)
LEMMA InsertsKeepsTwo ==
    ASSUME NEW r \in Revs, NEW k \in Jobs, Inserts(r, k), TwoActive
    PROVE  TwoActive'
<1>1. PICK i, j \in Jobs : Active(i) /\ Active(j) /\ rev[i] # rev[j]
    BY Zenon DEF TwoActive
<1>2. /\ rev'[i] = rev[i] /\ rev'[j] = rev[j]
      /\ Active(k)' /\ rev'[k] = r
    BY <1>1, Zenon DEF Inserts, Active, Unfinished
<1>3. (Active(i)' \/ rev[i] = r) /\ (Active(j)' \/ rev[j] = r)
    BY <1>1, Zenon DEF Inserts, Active, Unfinished
<1>4. \E m \in Jobs : Active(m)' /\ rev'[m] = rev[i]
    BY <1>2, <1>3, Zenon
<1>5. \E m \in Jobs : Active(m)' /\ rev'[m] = rev[j]
    BY <1>2, <1>3, Zenon
<1>6. QED
    BY <1>1, <1>4, <1>5, Zenon DEF TwoActive

(* An import that is not a retry supersedes an older revision only. *)
LEMMA ImportIsNotLatest ==
    ASSUME PipelineInv, RowsInv, NoRepairs, NEW r, Import(r), NEW i \in Jobs, rev[i] = r,
           status[i] \in Unfinished \cup {"applied"}
    PROVE  latest # r
<1>1. r \in ImportRevs /\ ~ReusableImport(r)
    BY Zenon DEF Import
<1>2. status[i] # "absent" /\ kind[i] \in Kinds
    BY Zenon DEF Unfinished, PipelineInv, TypeOK, StoreTypeOK
<1>3. kind[i] = "import"
    BY <1>1, <1>2, Zenon DEF RowsInv, NoRepairs, Kinds
<1>4. QED
    BY <1>1, <1>3, Zenon DEF ReusableImport

UnfailedFacts ==
    /\ GivenUpIsSuperseded /\ SupersededLeavesTwo /\ AppliedOrActive
    /\ NewerThanActive /\ NewerThanKnownGood /\ UnmarkedLeavesTwo

LEMMA SameActive ==
    ASSUME ActiveSame
    PROVE  /\ TwoActive' <=> TwoActive
           /\ SomeActive' <=> SomeActive
BY Zenon DEF ActiveSame, TwoActive, SomeActive, Active

LEMMA AppliesRow ==
    ASSUME PipelineInv, Applies
    PROVE  /\ job \in Jobs /\ status[job] = "applying" /\ rev[job] \in marked /\ rev[job] \in Revs
           /\ status' = [status EXCEPT ![job] = "applied"]
           /\ UNCHANGED <<rev, kind, latest, marked, controlVars>>
           /\ appliedLog' # <<>> /\ KnownGood' = rev[job]
           /\ pc' = "recover" /\ promoted' = {}
<1>1. job \in Jobs /\ rev[job] \in Revs /\ pc = "setApplied"
    BY BusyIs, Zenon DEF Applies, Forward, PipelineInv, BusyHasJob, JobsHaveRevisions
<1>2. status[job] = "applying"
    BY Zenon DEF Applies, SetStatus, UpdateStatus, Transition
<1>3. rev[job] \in marked
    BY <1>1, <1>2, Zenon DEF PipelineInv, MarkedBeforeApplied
<1>4. /\ status' = [status EXCEPT ![job] = "applied"] /\ appliedLog' = Append(appliedLog, job)
      /\ UNCHANGED <<rev, kind, latest, marked, controlVars>> /\ pc' = "recover" /\ promoted' = {}
    BY Zenon DEF Applies, SetStatus, UpdateStatus, EndPoll
<1>5. appliedLog' # <<>> /\ appliedLog'[Len(appliedLog')] = job
  <2>1. appliedLog \in Seq(Jobs)
    BY Zenon DEF PipelineInv, TypeOK, StoreTypeOK
  <2>2. /\ Append(appliedLog, job) # <<>>
        /\ Append(appliedLog, job)[Len(Append(appliedLog, job))] = job
    BY <1>1, <2>1
  <2>3. QED
    BY <1>4, <2>2, Zenon
<1>6. KnownGood' = rev[job]
    BY <1>4, <1>5, Zenon DEF KnownGood
<1>7. QED
    BY <1>1, <1>2, <1>3, <1>4, <1>5, <1>6, Zenon

(* An import can supersede the job the worker works on. *)
LEMMA UnfailedEdit ==
    ASSUME PipelineInv, RowsInv, WorkInv, OrderFacts, NoRepairs, UnfailedFacts, Edit
    PROVE  UnfailedFacts'
<1>1. PICK r \in Revs, k \in Jobs : Inserts(r, k)
    BY EditInserts, Zenon
<1>2. UNCHANGED <<pc, job>>
    BY EditFrame, Zenon
<1>3. Active(k)' /\ rev'[k] = r /\ status[k] = "absent"
    BY <1>1, Zenon DEF Inserts, Active, Unfinished
<1>4. UNCHANGED appliedLog /\ KnownGood' = KnownGood
    BY <1>1, EditColumns, KnownGoodSame, Zenon DEF Inserts
<1>5. pc \in Busy => /\ job \in Jobs /\ status[job] # "absent"
                     /\ status[job] = "failed" \/ Active(job)
    BY BusyStatus, Zenon
<1>6. ASSUME NEW i \in Jobs, Active(i)', i # k
      PROVE  Active(i) /\ rev'[i] = rev[i] /\ i < k
    BY <1>1, <1>6, Zenon DEF Inserts, Active, Unfinished
<1>7. TwoActive => TwoActive'
    BY <1>1, InsertsKeepsTwo, Zenon
<1>8. GivenUpIsSuperseded'
  <2> SUFFICES ASSUME pc' \in Failing PROVE status'[job'] = "failed"
    BY Zenon DEF GivenUpIsSuperseded
  <2>1. status[job] = "failed" /\ job \in Jobs
    BY <1>2, <1>5, BusyIs, Zenon DEF UnfailedFacts, GivenUpIsSuperseded
  <2>2. QED
    BY <1>1, <1>2, <2>1, Zenon DEF Inserts
<1>9. SupersededLeavesTwo'
  <2> SUFFICES ASSUME pc' \in Busy, status'[job'] = "failed" PROVE TwoActive'
    BY Zenon DEF SupersededLeavesTwo
  <2>1. CASE status[job] = "failed"
    BY <1>2, <1>7, <2>1, Zenon DEF UnfailedFacts, SupersededLeavesTwo
  <2>2. CASE status[job] # "failed"
    <3>1. Active(job) /\ job \in Jobs
      BY <1>2, <1>5, <2>2, Zenon
    <3>2. Import(r) /\ rev[job] = r /\ r \in ImportRevs
      BY <1>1, <1>2, <1>5, <2>2, EditColumns, Zenon DEF Inserts
    <3>3. latest # r
      BY <3>1, <3>2, ImportIsNotLatest, Zenon DEF Active
    <3>4. PICK j \in Jobs : Active(j) /\ rev[j] # r
      BY <3>1, <3>2, <3>3, Zenon DEF UnfailedFacts, NewerThanActive
    <3>5. Active(j)' /\ rev'[j] = rev[j]
      BY <1>1, <3>4, Zenon DEF Inserts, Active, Unfinished
    <3>6. QED
      BY <1>3, <3>4, <3>5, Zenon DEF TwoActive
  <2>3. QED
    BY <2>1, <2>2, Zenon
<1>10. AppliedOrActive'
    BY <1>3, Zenon DEF AppliedOrActive, SomeActive
<1>11. NewerThanActive'
  <2> SUFFICES ASSUME NEW i \in Jobs, Active(i)', rev'[i] \in ImportRevs, latest' # rev'[i]
               PROVE  i < k /\ rev'[k] # rev'[i]
    BY <1>3, Zenon DEF NewerThanActive
  <2>1. Enqueue(r) => r \notin ImportRevs
    BY EditColumns, Zenon
  <2>2. Import(r) => latest' = r
    BY EditColumns, Zenon
  <2>3. rev'[i] # r
    BY <1>1, <2>1, <2>2, Zenon DEF Inserts
  <2>4. i # k
    BY <1>3, <2>3, Zenon
  <2>5. QED
    BY <1>3, <1>6, <2>3, <2>4, Zenon
<1>12. NewerThanKnownGood'
  <2> SUFFICES ASSUME KnownGood' \in ImportRevs, latest' # KnownGood' PROVE rev'[k] # KnownGood'
    BY <1>3, Zenon DEF NewerThanKnownGood
  <2>1. Enqueue(r) => r \notin ImportRevs
    BY EditColumns, Zenon
  <2>2. Import(r) => latest' = r
    BY EditColumns, Zenon
  <2>3. QED
    BY <1>1, <1>3, <2>1, <2>2, Zenon DEF Inserts
<1>13. UnmarkedLeavesTwo'
  <2> SUFFICES ASSUME Unmarked' PROVE TwoActive' \/ (pc' = "setApplied" /\ status'[job'] = "applying")
    BY Zenon DEF UnmarkedLeavesTwo
  <2>1. CASE Unmarked
    <3>1. CASE TwoActive
      BY <1>7, <3>1, Zenon
    <3>2. CASE pc = "setApplied" /\ status[job] = "applying"
      <4>1. status'[job] = "applying" \/ status'[job] = "failed"
        BY <1>1, <1>5, <3>2, BusyIs, Zenon DEF Inserts, Forward
      <4>2. pc' \in Busy
        BY <1>2, <3>2, BusyIs, Zenon DEF Forward
      <4>3. QED
        BY <1>2, <1>9, <3>2, <4>1, <4>2, Zenon DEF SupersededLeavesTwo
    <3>3. QED
      BY <2>1, <3>1, <3>2, Zenon DEF UnfailedFacts, UnmarkedLeavesTwo
  <2>2. CASE ~Unmarked
    <3>1. Import(r) /\ appliedLog # <<>> /\ KnownGood = r /\ r \in ImportRevs
      BY <1>1, <1>4, <2>2, EditColumns, Zenon DEF Unmarked, Inserts
    <3>2. latest # r
      BY <3>1, KnownGoodIs, ImportIsNotLatest, Zenon
    <3>3. PICK j \in Jobs : Active(j) /\ rev[j] # r
      BY <3>1, <3>2, Zenon DEF UnfailedFacts, NewerThanKnownGood
    <3>4. Active(j)' /\ rev'[j] = rev[j]
      BY <1>1, <3>3, Zenon DEF Inserts, Active, Unfinished
    <3>5. QED
      BY <1>3, <3>3, <3>4, Zenon DEF TwoActive
  <2>3. QED
    BY <2>1, <2>2, Zenon
<1>14. QED
    BY <1>8, <1>9, <1>10, <1>11, <1>12, <1>13, Zenon DEF UnfailedFacts

LEMMA UnfailedApplies ==
    ASSUME PipelineInv, OrderFacts, UnfailedFacts, Applies
    PROVE  UnfailedFacts'
<1>1. /\ job \in Jobs /\ status[job] = "applying" /\ rev[job] \in marked
      /\ status' = [status EXCEPT ![job] = "applied"]
      /\ UNCHANGED <<rev, latest, marked>>
      /\ appliedLog' # <<>> /\ KnownGood' = rev[job] /\ pc' = "recover"
    BY AppliesRow, Zenon
<1>2. pc' \notin Busy /\ pc' \notin Failing
    BY <1>1, BusyIs, Zenon DEF Forward, Failing
<1>3. \A i \in Jobs : /\ i # job /\ Active(i) => Active(i)'
                      /\ Active(i)' => i # job /\ Active(i)
    BY <1>1, Zenon DEF Active, Unfinished, PipelineInv, TypeOK, StoreTypeOK
<1>4. NewerThanActive'
  <2> SUFFICES ASSUME NEW i \in Jobs, Active(i)', rev[i] \in ImportRevs, latest # rev[i]
               PROVE  \E j \in Jobs : i < j /\ Active(j)' /\ rev[j] # rev[i]
    BY <1>1, Zenon DEF NewerThanActive
  <2>1. PICK j \in Jobs : i < j /\ Active(j) /\ rev[j] # rev[i]
    BY <1>3, Zenon DEF UnfailedFacts, NewerThanActive
  <2>2. j # job
    BY <1>1, <1>3, <2>1, Zenon DEF OrderFacts, InOrder
  <2>3. QED
    BY <1>3, <2>1, <2>2, Zenon
<1>5. NewerThanKnownGood'
  <2> SUFFICES ASSUME rev[job] \in ImportRevs, latest # rev[job]
               PROVE  \E j \in Jobs : Active(j)' /\ rev[j] # rev[job]
    BY <1>1, Zenon DEF NewerThanKnownGood
  <2>1. Active(job)
    BY <1>1, Zenon DEF Active, Unfinished
  <2>2. PICK j \in Jobs : Active(j) /\ rev[j] # rev[job]
    BY <1>1, <2>1, Zenon DEF UnfailedFacts, NewerThanActive
  <2>3. QED
    BY <1>3, <2>2, Zenon
<1>6. ~Unmarked'
    BY <1>1, Zenon DEF Unmarked
<1>7. QED
    BY <1>1, <1>2, <1>4, <1>5, <1>6, Zenon
    DEF UnfailedFacts, GivenUpIsSuperseded, SupersededLeavesTwo, AppliedOrActive, UnmarkedLeavesTwo

(* Nothing comes between MarkApplied and the status change but an import. *)
LEMMA AtSetApplied ==
    ASSUME BaseInv, [Next]_vars, Calm', pc = "setApplied", status[job] = "applying", ~Applies
    PROVE  pc' = pc /\ job' = job /\ status'[job] \in {"applying", "failed"}
<1>1. ~StoreError /\ ~Crash /\ ~LateHandler /\ OrderFacts /\ WorkInv /\ PipelineInv
    BY CalmStep, Zenon DEF BaseInv
<1>2. ~SetApplied
  <2>1. ~SetStatusError("applied")
    BY <1>1, RefusedIsSuperseded, Zenon
  <2>2. QED
    BY <2>1, Zenon DEF SetApplied, Applies
<1>3. ~(\/ Wake \/ Recover \/ Claim \/ List \/ Latest \/ Probe \/ Repair \/ Restart \/ Start \/ Prepare
        \/ SetApplying \/ Promote \/ Reload \/ Health \/ Rollback \/ SetRolledBack \/ SetFailed \/ MarkRevision)
    BY Zenon DEF Wake, Recover, Claim, List, Latest, Probe, Repair, Restart, Start, Prepare, SetApplying, Promote, Reload,
           Health, Rollback, SetRolledBack, SetFailed, RecordOutcome, MarkRevision
<1>4. CASE Edit
  <2>1. job \in Jobs /\ status[job] # "absent"
    BY <1>1, BusyIs, Zenon DEF PipelineInv, BusyHasJob, Forward
  <2>2. QED
    BY <1>1, <1>4, <2>1, EditFrame, EditKeepsRow, Zenon
<1>5. CASE HelperRestart \/ NginxRestart \/ CoreDNSRestart \/ CoreDNSReloads \/ (\E j \in Jobs : Expire(j))
           \/ UNCHANGED vars
  <2>1. UNCHANGED <<pc, job, status>>
    BY <1>5, Zenon DEF HelperRestart, NginxRestart, CoreDNSRestart, CoreDNSReloads, Expire, LeaseExpires, vars,
                  workerVars, storeVars
  <2>2. QED
    BY <2>1, Zenon
<1>6. QED
    BY <1>1, <1>2, <1>3, <1>4, <1>5, Zenon DEF Next, WorkerStep

(* A step that leaves the set of unfinished jobs alone. *)
LEMMA UnfailedKeep ==
    ASSUME BaseInv, [Next]_vars, Calm', NoFailure, UnfailedFacts, ActiveSame, UNCHANGED marked \/ Marks
    PROVE  UnfailedFacts'
<1>1. PipelineInv /\ RowsInv /\ WorkInv /\ OrderFacts
    BY CalmStep, Zenon DEF BaseInv
<1>2. UNCHANGED <<rev, latest, appliedLog>> /\ KnownGood' = KnownGood
    BY <1>1, KnownGoodSame, Zenon DEF ActiveSame
<1>3. (TwoActive' <=> TwoActive) /\ (SomeActive' <=> SomeActive)
    BY SameActive, Zenon
<1>4. ASSUME pc' \in Busy
      PROVE  /\ status'[job'] = "failed" => TwoActive
             /\ pc' \in Failing => status'[job'] = "failed"
  <2>1. CASE pc \notin Busy
    BY <1>1, <1>4, <2>1, GetsBusy, Zenon DEF Failing
  <2>2. CASE pc \in Busy
    <3>1. Goes
      BY <1>4, <2>2, Onward, Zenon DEF Ends
    <3>2. job' = job /\ job \in Jobs /\ status[job] # "absent" /\ (status[job] = "failed" \/ Active(job))
      BY <1>1, <2>2, <3>1, BusyStatus, Zenon DEF Goes
    <3>3. status[job] = "failed" => status'[job] = "failed"
      BY <1>1, <3>2, OutcomeStays, Zenon DEF Terminal
    <3>4. status'[job] = "failed" => status[job] = "failed"
      BY <3>2, Zenon DEF ActiveSame, Active, Unfinished
    <3>5. QED
      BY <2>2, <3>1, <3>2, <3>3, <3>4, Zenon DEF Goes, UnfailedFacts, GivenUpIsSuperseded, SupersededLeavesTwo
  <2>3. QED
    BY <2>1, <2>2, Zenon
<1>5. GivenUpIsSuperseded' /\ SupersededLeavesTwo'
    BY <1>3, <1>4, BusyIs, Zenon DEF GivenUpIsSuperseded, SupersededLeavesTwo
<1>6. AppliedOrActive'
    BY <1>2, <1>3, Zenon DEF UnfailedFacts, AppliedOrActive, ActiveSame
<1>7. NewerThanActive' /\ NewerThanKnownGood'
    BY <1>2, Zenon DEF UnfailedFacts, NewerThanActive, NewerThanKnownGood, ActiveSame, Active
<1>8. UnmarkedLeavesTwo'
  <2>1. CASE Marks
    <3>1. pc \in Busy /\ (status[job] = "failed" \/ status[job] = "applying")
      BY <1>1, <2>1, BusyIs, Zenon DEF Marks, Forward, WorkInv, CopyInv
    <3>2. QED
      BY <1>3, <2>1, <3>1, Zenon DEF Marks, UnfailedFacts, SupersededLeavesTwo, UnmarkedLeavesTwo
  <2>2. CASE UNCHANGED marked
    <3>1. Unmarked' <=> Unmarked
      BY <1>2, <2>2, Zenon DEF Unmarked
    <3>2. CASE pc = "setApplied" /\ status[job] = "applying"
      <4>1. pc \in Busy /\ Active(job)
        BY <3>2, BusyIs, Zenon DEF Forward, Active, Unfinished
      <4>2. job \in Jobs
        BY <1>1, <4>1, BusyStatus, Zenon
      <4>3. ~Applies
        BY <1>1, <4>2, AppliesRow, Zenon DEF ActiveSame, Unfinished, PipelineInv, TypeOK, StoreTypeOK
      <4>4. pc' = pc /\ job' = job /\ status'[job] \in {"applying", "failed"}
        BY <3>2, <4>3, AtSetApplied, Zenon
      <4>5. QED
        BY <3>2, <4>1, <4>2, <4>4, Zenon DEF UnmarkedLeavesTwo, ActiveSame, Active, Unfinished
    <3>3. QED
      BY <1>3, <3>1, <3>2, Zenon DEF UnfailedFacts, UnmarkedLeavesTwo
  <2>3. QED
    BY <2>1, <2>2, Zenon
<1>9. QED
    BY <1>5, <1>6, <1>7, <1>8, Zenon DEF UnfailedFacts

LEMMA UnfailedFactsStep ==
    ASSUME BaseInv, UnfailedInv, [Next]_vars, Calm', Without({"fail"})'
    PROVE  UnfailedFacts'
<1>1. /\ Calm /\ OrderFacts /\ Without({"fail"}) /\ PipelineInv /\ RowsInv /\ WorkInv
    BY CalmStep, Zenon DEF BaseInv
<1>2. UnfailedFacts /\ NoRepairs /\ RepairIsBlocked
    BY <1>1, Zenon DEF UnfailedInv, UnfailedFacts
<1>3. NoFailure
    BY <1>1, Zenon DEF NoFailure, Without
<1>4. ~GivesUp
  <2>1. ASSUME GivesUp PROVE FALSE
    <3>1. status[job] = "failed"
      BY <1>2, <2>1, Zenon DEF GivesUp, UnfailedFacts, GivenUpIsSuperseded, Failing
    <3>2. QED
      BY <2>1, <3>1, Zenon DEF GivesUp, SetStatus, UpdateStatus, Transition
  <2>2. QED
    BY <2>1, Zenon
<1>5. ~Enlists
    BY <1>2, Zenon DEF RepairIsBlocked, Enlists
<1>6. QED
    BY <1>1, <1>2, <1>3, <1>4, <1>5, StoreCases, UnfailedKeep, UnfailedEdit, UnfailedApplies, Zenon
=============================================================================
