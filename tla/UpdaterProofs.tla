---------------------------- MODULE UpdaterProofs ----------------------------
(***************************************************************************)
(* Proofs about the self-update and the conversion, for any set of         *)
(* requests and services and any number of releases, faults, crashes and   *)
(* attempts.                                                               *)
(***************************************************************************)
EXTENDS Updater, FiniteSetTheorems, TLAPS

-----------------------------------------------------------------------------
(* The inductive invariant. *)

ConverterAt == {"idle", "copy", "validate", "link", "mark", "sync", "unmark"}

Statuses == [status : {"running", "ok", "failed"}, target : Requests, completed : Nat]

RunTypes ==
    /\ pc \in [Requests -> Steps \cup {"unsent", "spawned", "return", "ended"}]
    /\ inFlight \in BOOLEAN
    /\ last \in Statuses \cup {None}

TypeOK ==
    /\ registry \in Nat
    /\ pulled \in [Services -> Nat] /\ running \in [Services -> Nat]
    /\ legacy \in BOOLEAN /\ marker \in BOOLEAN /\ up \in BOOLEAN
    /\ src \in Sources \cup {Absent}
    /\ out \in Sources \cup {Absent, {}}
    /\ cpc \in ConverterAt
    /\ RunTypes

(* What the converter holds: the snapshot it read, and once the copy is    *)
(* validated one in which nothing is unsound, first under the temporary    *)
(* and then under its name, until it is taken back.                        *)
ConversionInv ==
    /\ cpc \in {"copy", "validate", "link", "mark"} => ~marker
    /\ cpc = "validate" => src \in Sources /\ ReadTable(src)
    /\ cpc = "link" => src = tmp.rows
    /\ cpc \in {"mark", "sync"} => src = out
    /\ cpc = "unmark" => src # out
    /\ cpc \in {"link", "mark", "sync", "unmark"} => src \in Sources /\ src \cap Unsound = {}

(* One goroutine is past Enter, and the status tells where it is. *)
OneRun ==
    /\ \A p, q \in Running : p = q
    /\ inFlight <=> Running # {}

StatusTells ==
    \A q \in Requests : pc[q] \in Steps =>
        /\ last \in Statuses /\ last.status = "running"
        /\ last.completed \in 0..4 /\ pc[q] = pipelineSteps[last.completed + 1]

(* All services are pulled at the same release, which the database has. *)
Current(v) == OnPostgres(v) \/ Wait(v) \/ "marker" \in faults.kinds

RunInv ==
    \A q \in Requests :
        /\ pc[q] \in {"preflight", "restart", "verify", "bootstrap"} => pulled["api"] = pulled["worker"]
        /\ pc[q] \in {"verify", "bootstrap"} => running = pulled
        /\ pc[q] = "verify" /\ up => Current(running["worker"])
        /\ pc[q] = "bootstrap" => Current(running["worker"])

OkInv ==
    last # None /\ last.status = "ok" =>
        /\ last.completed = 5
        /\ running = pulled /\ pulled["api"] = pulled["worker"]
        /\ Current(running["worker"])

(* The data of a PostgreSQL release waits, and nothing hides it. *)
Waiting == legacy /\ faults.kinds \cap {"inspect", "marker"} = {}

LegacyInv ==
    Waiting =>
        /\ out # {}
        /\ running["api"] # 0 => out # Absent
        /\ \A q \in Requests : pc[q] = "restart" => out # Absent

UpdaterInv == TypeOK /\ ConversionInv /\ OneRun /\ StatusTells /\ RunInv /\ OkInv /\ LegacyInv

-----------------------------------------------------------------------------
(* The database. *)

LEMMA EntriesLength == ASSUME NEW v \in Nat PROVE Len(entries(v)) = v
<1>1. entries(v) \in Seq(Nat) /\ DOMAIN entries(v) = 1..v
    BY DEF entries
<1>2. QED
    BY <1>1

(* Open and Migrate: a database that exists stays, and an api that runs on *)
(* it has given it the schema of its release.                              *)
LEMMA StartedApi ==
    ASSUME TypeOK, NEW v \in Nat, ApiStarts(v), legacy' = legacy
    PROVE  /\ up' \in BOOLEAN
           /\ out' = out \/ (out = Absent /\ out' = {} /\ ~OnPostgres(v))
           /\ up' => OnPostgres(v)' \/ Wait(v)'
           /\ Wait(v) => Wait(v)'
<1>1. CASE OnPostgres(v)
  <2>1. up' = TRUE /\ UNCHANGED <<out, ledger>>
      BY <1>1, Zenon DEF ApiStarts
  <2>2. OnPostgres(v)' /\ (Wait(v) => Wait(v)')
      BY <1>1, <2>1, Zenon DEF OnPostgres, Wait
  <2>3. QED
      BY <2>1, <2>2, Zenon
<1>2. CASE ~OnPostgres(v)
  <2>1. /\ up' = (out = Absent \/ Recognized(v))
        /\ out' = IF out = Absent THEN {} ELSE out
        /\ ledger' = IF up' THEN entries(v) ELSE ledger
      BY <1>2, Zenon DEF ApiStarts, Migrate
  <2>2. up' \in BOOLEAN
      BY <2>1, Zenon
  <2>3. out' # Absent
      BY <2>1, ConversionAssumption, Zenon
  <2>4. Len(entries(v)) = v
      BY EntriesLength, Zenon
  <2>5. up' => Wait(v)'
      BY <2>1, <2>3, <2>4, Zenon DEF Wait
  <2>6. Wait(v) => Wait(v)'
      BY <2>1, <2>3, <2>4, Zenon DEF Wait
  <2>7. QED
      BY <1>2, <2>1, <2>2, <2>5, <2>6, Zenon
<1>3. QED
    BY <1>1, <1>2, Zenon

(* A copy that the checks accept is the snapshot, and has no unsound row. *)
LEMMA CheckedIsSound ==
    ASSUME NEW S, NEW D, ReadTable(S), Validate(S, D)
    PROVE  S = D.rows /\ S \cap Unsound = {}
BY Zenon DEF Plan, checkColumn, ReadTable, convertValue, Validate, tables, SameDigest, foreignKeys, secrets,
       revisions, snapshots, Unsound

LEMMA SourcesHaveRows == \A S \in Sources : S # {} /\ S # Absent
BY ConversionAssumption, Zenon DEF Sources

(* Whoever starts the api, the copy of the converter is not touched. *)
LEMMA ConversionStays ==
    ASSUME TypeOK, ConversionInv, UNCHANGED <<src, tmp, marker, cpc>>,
           out' = out \/ (out = Absent /\ out' = {})
    PROVE  ConversionInv'
<1>1. cpc \in {"mark", "sync"} => out # Absent
    BY SourcesHaveRows, Zenon DEF ConversionInv
<1>2. cpc = "unmark" => src # {}
    BY SourcesHaveRows, Zenon DEF ConversionInv
<1>3. QED
    BY <1>1, <1>2, Zenon DEF ConversionInv

-----------------------------------------------------------------------------
(* The goroutines. *)

RunsInv == RunTypes /\ OneRun /\ StatusTells

LEMMA RunsSame == ASSUME RunsInv, UNCHANGED applyVars PROVE RunsInv'
BY Zenon DEF RunsInv, RunTypes, OneRun, StatusTells, Running, applyVars

LEMMA StepNames ==
    /\ "return" \notin Steps /\ "ended" \notin Steps /\ "spawned" \notin Steps
    /\ pipelineSteps[1] = "pull" /\ pipelineSteps[2] = "preflight" /\ pipelineSteps[3] = "restart"
    /\ pipelineSteps[4] = "verify" /\ pipelineSteps[5] = "bootstrap"
BY Zenon DEF Steps, pipelineSteps

(* A goroutine in the pipeline is the only one, and its status is known. *)
LEMMA TheRunner ==
    ASSUME RunsInv, NEW q \in Requests, pc[q] \in Steps
    PROVE  /\ \A t \in Requests : t # q => pc[t] \notin Steps /\ t \notin Running
           /\ q \in Running /\ inFlight
           /\ last \in Statuses /\ last.status = "running"
           /\ last.completed \in 0..4 /\ pc[q] = pipelineSteps[last.completed + 1]
BY Zenon DEF RunsInv, OneRun, StatusTells, Running

(* Where the goroutine of q goes after a step. *)
Following(step) ==
    CASE step = "pull" -> "preflight" [] step = "preflight" -> "restart" [] step = "restart" -> "verify"
      [] step = "verify" -> "bootstrap" [] OTHER -> "return"

LEMMA StepGoesOn ==
    ASSUME RunsInv, NEW q \in Requests, pc[q] \in Steps, StepOK(q)
    PROVE  /\ pc' = [pc EXCEPT ![q] = Following(pc[q])]
           /\ last' \in Statuses
           /\ pc[q] # "bootstrap" => last'.status = "running" /\ last'.completed \in 0..4
                 /\ Following(pc[q]) = pipelineSteps[last'.completed + 1]
           /\ pc[q] = "bootstrap" => last'.status = "ok" /\ last'.completed = 5
<1> DEFINE c == last.completed
           m == c + 1
           w == IF m = 5 THEN "ok" ELSE last.status
<1>1. /\ last \in Statuses /\ last.status = "running"
      /\ c \in 0..4 /\ pc[q] = pipelineSteps[c + 1]
    BY TheRunner, Zenon
<1>2. /\ last' = [last EXCEPT !.completed = m, !.status = w]
      /\ pc' = [pc EXCEPT ![q] = IF m = 5 THEN "return" ELSE pipelineSteps[m + 1]]
    BY Zenon DEF StepOK
<1>3. m \in Nat /\ m \in 1..5 /\ w \in {"ok", "running"} /\ (m = 5 <=> w = "ok")
    BY <1>1
<1> HIDE DEF m, w, c
<1>4. last' \in Statuses /\ last'.completed = m /\ last'.status = w
    BY <1>1, <1>2, <1>3, Zenon DEF Statuses
<1>5. /\ m = 1 => pc[q] = "pull" /\ pipelineSteps[m + 1] = "preflight"
      /\ m = 2 => pc[q] = "preflight" /\ pipelineSteps[m + 1] = "restart"
      /\ m = 3 => pc[q] = "restart" /\ pipelineSteps[m + 1] = "verify"
      /\ m = 4 => pc[q] = "verify" /\ pipelineSteps[m + 1] = "bootstrap"
      /\ m = 5 => pc[q] = "bootstrap"
    BY <1>1, <1>3, StepNames DEF m
<1>6. m \in {1, 2, 3, 4, 5}
    BY <1>3
<1>7. Following(pc[q]) = IF m = 5 THEN "return" ELSE pipelineSteps[m + 1]
    BY <1>5, <1>6, Zenon DEF Following
<1>8. pc[q] = "bootstrap" <=> m = 5
    BY <1>5, <1>6, Zenon
<1>9. m # 5 => m \in 0..4
    BY <1>3
<1>10. QED
    BY <1>2, <1>3, <1>4, <1>7, <1>8, <1>9, Zenon

(* What a step of q's goroutine leaves, with or without an error. *)
LEMMA StepRuns ==
    ASSUME RunsInv, NEW q \in Requests, pc[q] \in Steps, StepOK(q) \/ StepFails(q)
    PROVE  RunsInv'
<1>1. /\ \A t \in Requests : t # q => pc[t] \notin Steps /\ t \notin Running
      /\ q \in Running /\ inFlight /\ inFlight' = inFlight /\ last \in Statuses
    BY TheRunner, Zenon DEF StepOK, StepFails
<1>2. pc \in [Requests -> Steps \cup {"unsent", "spawned", "return", "ended"}]
    BY Zenon DEF RunsInv, RunTypes
<1>3. PICK next \in Steps \cup {"return"} :
          /\ pc' = [pc EXCEPT ![q] = next] /\ last' \in Statuses
          /\ next \in Steps => /\ last'.status = "running" /\ last'.completed \in 0..4
                               /\ next = pipelineSteps[last'.completed + 1]
  <2>1. CASE StepOK(q)
    <3>1. Following(pc[q]) \in Steps \cup {"return"} /\ (pc[q] = "bootstrap" => Following(pc[q]) = "return")
        BY Zenon DEF Following, Steps
    <3>2. QED
        BY <2>1, <3>1, StepGoesOn, StepNames, Zenon
  <2>2. CASE StepFails(q)
    <3>1. last' = [last EXCEPT !.status = "failed"] /\ pc' = [pc EXCEPT ![q] = "return"]
        BY <2>2, Zenon DEF StepFails
    <3>2. last' \in Statuses
        BY <1>1, <3>1, Zenon DEF Statuses
    <3>3. QED
        BY <3>1, <3>2, StepNames, Zenon
  <2>3. QED
      BY <2>1, <2>2, Zenon
<1>4. pc'[q] = next /\ \A t \in Requests : t # q => pc'[t] = pc[t]
    BY <1>2, <1>3, Zenon
<1>5. Running' = {q}
    BY <1>1, <1>4, Zenon DEF Running
<1>6. OneRun'
    BY <1>1, <1>5, Zenon DEF OneRun
<1>7. StatusTells'
    BY <1>1, <1>3, <1>4, Zenon DEF StatusTells
<1>8. RunTypes'
    BY <1>1, <1>2, <1>3, Zenon DEF RunsInv, RunTypes
<1>9. QED
    BY <1>6, <1>7, <1>8, Zenon DEF RunsInv

(* A goroutine that is not in the pipeline comes or goes. *)
LEMMA OutsideRuns ==
    ASSUME RunsInv, NEW q \in Requests, pc[q] \notin Steps,
           NEW next \in {"unsent", "spawned", "return", "ended"}, pc' = [pc EXCEPT ![q] = next],
           UNCHANGED last,
           \/ q \notin Running /\ next # "return" /\ UNCHANGED inFlight
           \/ q \in Running /\ next # "return" /\ inFlight' = FALSE
    PROVE  RunsInv'
<1>1. pc \in [Requests -> Steps \cup {"unsent", "spawned", "return", "ended"}]
    BY Zenon DEF RunsInv, RunTypes
<1>2. pc'[q] = next /\ \A t \in Requests : t # q => pc'[t] = pc[t]
    BY <1>1, Zenon
<1>3. next \notin Steps \cup {"return"}
    BY Zenon DEF Steps
<1>4. Running' = Running \ {q}
    BY <1>2, <1>3, Zenon DEF Running
<1>5. OneRun'
    BY <1>4 DEF OneRun, RunsInv
<1>6. StatusTells'
    BY <1>2, <1>3, Zenon DEF StatusTells, RunsInv
<1>7. RunTypes'
    BY <1>1, Zenon DEF RunsInv, RunTypes
<1>8. QED
    BY <1>5, <1>6, <1>7, Zenon DEF RunsInv

LEMMA PostRuns == ASSUME RunsInv, NEW q \in Requests, Post(q) PROVE RunsInv'
<1>1. q \notin Running /\ pc[q] \notin Steps
    BY Zenon DEF Post, Running, Steps
<1>2. PICK next \in {"spawned", "ended"} : pc' = [pc EXCEPT ![q] = next]
    BY Zenon DEF Post, HandlerAnswer
<1>3. UNCHANGED <<inFlight, last>>
    BY Zenon DEF Post
<1>4. QED
    BY <1>1, <1>2, <1>3, OutsideRuns, Zenon

LEMMA ReturnRuns == ASSUME RunsInv, NEW q \in Requests, Return(q) PROVE RunsInv'
<1>1. q \in Running /\ pc[q] \notin Steps
    BY StepNames, Zenon DEF Return, Running
<1>2. QED
    BY <1>1, OutsideRuns, Zenon DEF Return

LEMMA EnterRuns == ASSUME RunsInv, NEW q \in Requests, Enter(q) PROVE RunsInv'
<1>1. q \notin Running /\ pc[q] \notin Steps
    BY Zenon DEF Enter, Running, Steps
<1>2. CASE q \in Malformed \/ inFlight
    BY <1>1, <1>2, OutsideRuns, Zenon DEF Enter
<1>3. CASE ~(q \in Malformed \/ inFlight)
  <2>1. /\ pc' = [pc EXCEPT ![q] = "pull"] /\ inFlight' = TRUE
        /\ last' = [status |-> "running", target |-> q, completed |-> 0]
      BY <1>3, Zenon DEF Enter
  <2>2. pc \in [Requests -> Steps \cup {"unsent", "spawned", "return", "ended"}]
      BY Zenon DEF RunsInv, RunTypes
  <2>3. last' \in Statuses /\ last'.status = "running" /\ last'.completed = 0
      BY <2>1, Zenon DEF Statuses
  <2>4. "pull" \in Steps /\ pipelineSteps[0 + 1] = "pull"
      BY StepNames DEF Steps
  <2>5. Running = {}
      BY <1>3, Zenon DEF RunsInv, OneRun
  <2>6. pc'[q] = "pull" /\ \A t \in Requests : t # q => pc'[t] = pc[t] /\ pc[t] \notin Steps
      BY <2>1, <2>2, <2>5, Zenon DEF Running
  <2>7. Running' = {q}
      BY <2>4, <2>5, <2>6, Zenon DEF Running
  <2>8. OneRun'
      BY <2>1, <2>7, Zenon DEF OneRun
  <2>9. StatusTells'
    <3>1. 0 \in 0..4
        OBVIOUS
    <3>2. QED
        BY <2>3, <2>4, <2>6, <3>1, Zenon DEF StatusTells
  <2>10. RunTypes'
      BY <2>1, <2>2, <2>3, <2>4, Zenon DEF RunTypes
  <2>11. QED
      BY <2>8, <2>9, <2>10, Zenon DEF RunsInv
<1>4. QED
    BY <1>2, <1>3, Zenon

LEMMA EndsRuns ==
    ASSUME RunsInv, ProcessEnds
    PROVE  RunsInv' /\ \A q \in Requests : pc'[q] \notin Steps
<1>1. pc \in [Requests -> Steps \cup {"unsent", "spawned", "return", "ended"}]
    BY Zenon DEF RunsInv, RunTypes
<1>2. \A q \in Requests : pc'[q] \in {"unsent", "ended"}
    BY <1>1, Zenon DEF ProcessEnds
<1>3. \A q \in Requests : pc'[q] \notin Steps \cup {"return"}
    BY <1>2, Zenon DEF Steps
<1>4. Running' = {}
    BY <1>3, Zenon DEF Running
<1>5. inFlight' = FALSE /\ last' = None
    BY Zenon DEF ProcessEnds
<1>6. RunTypes'
    BY <1>1, <1>2, <1>5, Zenon DEF RunTypes, ProcessEnds
<1>7. OneRun'
    BY <1>4, <1>5, Zenon DEF OneRun
<1>8. StatusTells'
    BY <1>3, Zenon DEF StatusTells
<1>9. QED
    BY <1>3, <1>6, <1>7, <1>8, Zenon DEF RunsInv

-----------------------------------------------------------------------------
(* What the steps need of each other. *)

FaultsGrow == faults.kinds \subseteq faults'.kinds

LEMMA FaultIsKept ==
    ASSUME NEW k, Fault(k) \/ UNCHANGED faults
    PROVE  /\ FaultsGrow
           /\ Fault(k) /\ k \in Remembered => k \in faults'.kinds
<1>1. CASE Fault(k)
  <2>1. faults'.kinds = faults.kinds \cup ({k} \cap Remembered)
      BY <1>1, Zenon DEF Fault
  <2>2. QED
      BY <2>1, Zenon DEF FaultsGrow
<1>2. QED
    BY <1>1, Zenon DEF FaultsGrow

LEMMA CurrentStays ==
    ASSUME NEW v, Current(v), legacy' = legacy, FaultsGrow, Wait(v) => Wait(v)' \/ "marker" \in faults'.kinds
    PROVE  Current(v)'
BY Zenon DEF Current, OnPostgres, FaultsGrow

LEMMA WaitingBefore == ASSUME FaultsGrow, legacy' = legacy, Waiting' PROVE Waiting
BY Zenon DEF FaultsGrow, Waiting

LEMMA RunsOfInv == UpdaterInv => RunsInv
BY Zenon DEF UpdaterInv, TypeOK, RunsInv

(* Neither the database nor the runs are touched. *)
LEMMA DatabaseSame ==
    ASSUME UpdaterInv, UNCHANGED <<pulled, running, applyVars, legacy, out, ledger>>, registry' \in Nat,
           up' \in BOOLEAN, up' => up, FaultsGrow, ConversionInv',
           src' \in Sources \cup {Absent}, marker' \in BOOLEAN, cpc' \in ConverterAt
    PROVE  UpdaterInv'
<1>1. TypeOK'
    BY Zenon DEF UpdaterInv, TypeOK, RunTypes, applyVars
<1>2. OneRun' /\ StatusTells'
    BY RunsOfInv, RunsSame, Zenon DEF RunsInv
<1>3. UNCHANGED <<pc, last>>
    BY Zenon DEF applyVars
<1>4. \A v : Current(v) => Current(v)'
    BY CurrentStays, Zenon DEF Wait
<1>5. RunInv'
    BY <1>3, <1>4, Zenon DEF UpdaterInv, RunInv
<1>6. OkInv'
    BY <1>3, <1>4, Zenon DEF UpdaterInv, OkInv
<1>7. LegacyInv'
    BY <1>3, WaitingBefore, Zenon DEF UpdaterInv, LegacyInv
<1>8. QED
    BY <1>1, <1>2, <1>5, <1>6, <1>7, Zenon DEF UpdaterInv

LEMMA QuietInv ==
    ASSUME UpdaterInv, UNCHANGED <<pulled, running, conversionVars, applyVars>>, registry' \in Nat, FaultsGrow
    PROVE  UpdaterInv'
<1>1. UNCHANGED <<legacy, src, tool, tmp, out, ledger, marker, cpc, up>>
    BY Zenon DEF conversionVars
<1>2. ConversionInv'
    BY <1>1, Zenon DEF UpdaterInv, ConversionInv
<1>3. /\ up' \in BOOLEAN /\ (up' => up) /\ src' \in Sources \cup {Absent} /\ marker' \in BOOLEAN
      /\ cpc' \in ConverterAt
    BY <1>1, Zenon DEF UpdaterInv, TypeOK
<1>4. QED
    BY <1>1, <1>2, <1>3, DatabaseSame, Zenon

-----------------------------------------------------------------------------
(* The conversion. *)

(* The steps of the converter that leave the database's name alone. *)
Beside(v) ==
    \/ BeginConvert(v) \/ Copy \/ Damage \/ ValidateCopy \/ writeMarker \/ RemoveMarker
    \/ ConvertFails \/ ConvertKilled \/ StopApplication
    \/ Link /\ out # Absent

(* What such a step leaves of the snapshot: all, nothing, or the one read. *)
LEMMA BesideEffect ==
    ASSUME NEW v, Beside(v)
    PROVE  /\ UNCHANGED <<legacy, out, ledger>>
           /\ up' = up \/ up' = FALSE
           /\ marker' = marker \/ marker' = TRUE \/ marker' = FALSE
           /\ src' \in Sources \cup {Absent, src}
           /\ cpc' = cpc \/ cpc' \in ConverterAt
<1>1. CASE BeginConvert(v) \/ StopApplication \/ Damage
    BY <1>1, Zenon DEF BeginConvert, StopApplication, Damage, ConverterAt
<1>2. CASE Copy
    BY <1>2, Zenon DEF Copy, RemoveTemporary, ConverterEnds, ConverterAt
<1>3. CASE ValidateCopy \/ ConvertFails \/ (Link /\ out # Absent)
    BY <1>3, Zenon DEF ValidateCopy, ConvertFails, Link, RemoveTemporary, ConverterEnds, ConverterAt
<1>4. CASE writeMarker \/ RemoveMarker \/ ConvertKilled
    BY <1>4, Zenon DEF writeMarker, RemoveMarker, ConvertKilled, ConverterEnds, ConverterAt
<1>5. QED
    BY <1>1, <1>2, <1>3, <1>4, Zenon DEF Beside

LEMMA BesideConversion == ASSUME ConversionInv, NEW v, Beside(v) PROVE ConversionInv'
<1>1. CASE cpc' = "idle"
    BY <1>1, Zenon DEF ConversionInv
<1>2. CASE BeginConvert(v)
    BY <1>2, Zenon DEF BeginConvert, ConversionInv
<1>3. CASE Copy /\ cpc' # "idle"
  <2>1. PICK S \in Sources : copyTable(S) /\ src' = S /\ cpc' = "validate" /\ marker' = marker
      BY <1>3, Zenon DEF Copy, RemoveTemporary, ConverterEnds
  <2>2. ReadTable(src')
      BY <2>1, Zenon DEF copyTable
  <2>3. ReadTable(src)'
      BY <2>2, Zenon DEF ReadTable, convertValue
  <2>4. QED
      BY <1>3, <2>1, <2>3, Zenon DEF Copy, ConversionInv
<1>4. CASE Damage
  <2>1. cpc = "validate" /\ UNCHANGED <<src, marker, cpc>>
      BY <1>4, Zenon DEF Damage
  <2>2. QED
      BY <2>1, Zenon DEF ConversionInv, ReadTable, convertValue
<1>5. CASE ValidateCopy /\ cpc' # "idle"
  <2>1. cpc = "validate" /\ Validate(src, tmp) /\ cpc' = "link" /\ UNCHANGED <<src, tmp, marker>>
      BY <1>5, Zenon DEF ValidateCopy, RemoveTemporary, ConverterEnds
  <2>2. src \in Sources /\ ReadTable(src) /\ ~marker
      BY <2>1, Zenon DEF ConversionInv
  <2>3. src = tmp.rows /\ src \cap Unsound = {}
      BY <2>1, <2>2, CheckedIsSound, Zenon
  <2>4. QED
      BY <2>1, <2>2, <2>3, Zenon DEF ConversionInv
<1>6. CASE writeMarker /\ cpc' # "idle"
  <2>1. cpc = "mark" /\ cpc' = "sync" /\ UNCHANGED <<src, out>>
      BY <1>6, Zenon DEF writeMarker, ConverterEnds
  <2>2. QED
      BY <2>1, Zenon DEF ConversionInv
<1>7. CASE StopApplication
  <2>1. UNCHANGED <<src, tmp, out, marker, cpc>>
      BY <1>7, Zenon DEF StopApplication
  <2>2. QED
      BY <2>1, Zenon DEF ConversionInv, ReadTable, convertValue
<1>8. CASE RemoveMarker \/ ConvertFails \/ ConvertKilled \/ (Link /\ out # Absent)
  <2>1. cpc' = "idle"
      BY <1>8, Zenon DEF RemoveMarker, ConvertFails, ConvertKilled, Link, RemoveTemporary, ConverterEnds
  <2>2. QED
      BY <1>1, <2>1, Zenon
<1>9. QED
    BY <1>1, <1>2, <1>3, <1>4, <1>5, <1>6, <1>7, <1>8, Zenon DEF Beside

LEMMA BesideInv ==
    ASSUME UpdaterInv, NEW v, UNCHANGED <<imageVars, applyVars>>, FaultsGrow, Beside(v)
    PROVE  UpdaterInv'
<1>1. UNCHANGED <<legacy, out, ledger>> /\ (up' = up \/ up' = FALSE)
    BY BesideEffect, Zenon
<1>2. UNCHANGED <<pulled, running>> /\ registry' \in Nat
    BY Zenon DEF imageVars, UpdaterInv, TypeOK
<1>3. up \in BOOLEAN /\ marker \in BOOLEAN /\ src \in Sources \cup {Absent} /\ cpc \in ConverterAt
    BY Zenon DEF UpdaterInv, TypeOK
<1>4. up' \in BOOLEAN /\ (up' => up)
  <2>1. CASE up' = up
      BY <1>3, <2>1, Zenon
  <2>2. CASE up' = FALSE
      BY <2>2, Zenon
  <2>3. QED
      BY <1>1, <2>1, <2>2, Zenon
<1>5. marker' \in BOOLEAN
    BY <1>3, BesideEffect, Zenon
<1>6. src' \in Sources \cup {Absent} /\ cpc' \in ConverterAt
    BY <1>3, BesideEffect, Zenon
<1>7. ConversionInv'
    BY BesideConversion, Zenon DEF UpdaterInv
<1>8. QED
    BY <1>1, <1>2, <1>4, <1>5, <1>6, <1>7, DatabaseSame, Zenon

(* os.Link: the copy appears.  No service has been waiting for a database. *)
LEMMA LinkInv ==
    ASSUME UpdaterInv, UNCHANGED <<imageVars, applyVars, faults>>, Link, out = Absent
    PROVE  UpdaterInv'
<1>1. /\ cpc = "link" /\ out' = tmp.rows /\ cpc' = "mark"
      /\ UNCHANGED <<legacy, src, marker, up>>
    BY Zenon DEF Link
<1>2. UNCHANGED <<registry, pulled, running, pc, last>> /\ FaultsGrow
    BY Zenon DEF imageVars, applyVars, FaultsGrow
<1>3. src = tmp.rows /\ src \in Sources /\ src \cap Unsound = {} /\ ~marker
    BY <1>1, Zenon DEF UpdaterInv, ConversionInv
<1>4. out' \in Sources /\ out' # {} /\ out' # Absent
    BY <1>1, <1>3, SourcesHaveRows, Zenon
<1>5. ConversionInv'
    BY <1>1, <1>3, Zenon DEF ConversionInv
<1>6. TypeOK'
  <2>1. "mark" \in ConverterAt
      BY Zenon DEF ConverterAt
  <2>2. QED
      BY <1>1, <1>2, <1>4, <2>1, RunsOfInv, RunsSame, Zenon DEF UpdaterInv, TypeOK, RunsInv
<1>7. OneRun' /\ StatusTells'
    BY RunsOfInv, RunsSame, Zenon DEF RunsInv
<1>8. \A v : Current(v) => Current(v)'
    BY <1>1, <1>2, CurrentStays, Zenon DEF Wait
<1>9. RunInv' /\ OkInv'
    BY <1>1, <1>2, <1>8, Zenon DEF UpdaterInv, RunInv, OkInv
<1>10. LegacyInv'
    BY <1>4, Zenon DEF LegacyInv
<1>11. QED
    BY <1>5, <1>6, <1>7, <1>9, <1>10, Zenon DEF UpdaterInv

(* The operator starts the containers again. *)
LEMMA StartInv ==
    ASSUME UpdaterInv, UNCHANGED <<imageVars, applyVars, faults>>, StartApplication(running["api"])
    PROVE  UpdaterInv'
<1>1. PICK v \in Nat : v = running["api"]
    BY UpdaterAssumption, Zenon DEF UpdaterInv, TypeOK
<1>2. UNCHANGED <<legacy, src, tool, tmp, marker, cpc>> /\ ApiStarts(v) /\ ~up
    BY <1>1, Zenon DEF StartApplication
<1>3. UNCHANGED <<registry, pulled, running, pc, last>> /\ FaultsGrow
    BY Zenon DEF imageVars, applyVars, FaultsGrow
<1>4. TypeOK /\ ConversionInv
    BY Zenon DEF UpdaterInv
<1>5. /\ up' \in BOOLEAN
      /\ out' = out \/ (out = Absent /\ out' = {} /\ ~OnPostgres(v))
      /\ up' => OnPostgres(v)' \/ Wait(v)'
      /\ Wait(v) => Wait(v)'
    BY <1>2, <1>4, StartedApi, Zenon
<1>6. ConversionInv'
    BY <1>2, <1>4, <1>5, ConversionStays, Zenon
<1>7. TypeOK'
    BY <1>2, <1>3, <1>4, <1>5, RunsOfInv, RunsSame, Zenon DEF TypeOK, RunsInv
<1>8. OneRun' /\ StatusTells'
    BY RunsOfInv, RunsSame, Zenon DEF RunsInv
<1>9. ASSUME running = pulled, pulled["api"] = pulled["worker"]
      PROVE  /\ up' => Current(running["worker"])'
             /\ Current(running["worker"]) => Current(running["worker"])'
  <2>1. running["worker"] = v /\ running' = running
      BY <1>1, <1>3, <1>9, Zenon
  <2>2. Current(v) => Current(v)'
      BY <1>2, <1>3, <1>5, CurrentStays, Zenon
  <2>3. up' => Current(v)'
      BY <1>5, Zenon DEF Current
  <2>4. QED
      BY <2>1, <2>2, <2>3, Zenon DEF Current, OnPostgres, Wait
<1>10. RunInv'
    BY <1>3, <1>9, Zenon DEF UpdaterInv, RunInv
<1>11. OkInv'
    BY <1>3, <1>9, Zenon DEF UpdaterInv, OkInv
<1>12. LegacyInv'
  <2> SUFFICES ASSUME Waiting' PROVE out' = out
      BY <1>2, <1>3, WaitingBefore, Zenon DEF UpdaterInv, LegacyInv
  <2>1. Waiting
      BY <1>2, <1>3, WaitingBefore, Zenon
  <2>2. v # 0 => out # Absent
      BY <1>1, <2>1, Zenon DEF UpdaterInv, LegacyInv
  <2>3. v = 0 => OnPostgres(v)
      BY <2>1, Zenon DEF OnPostgres, Waiting
  <2>4. QED
      BY <1>5, <2>2, <2>3, Zenon
<1>13. QED
    BY <1>6, <1>7, <1>8, <1>10, <1>11, <1>12, Zenon DEF UpdaterInv

(* The converter takes back what it could not certify. *)
LEMMA MarkerFailsInv ==
    ASSUME UpdaterInv, UNCHANGED <<imageVars, applyVars>>, MarkerFails, Fault("marker")
    PROVE  UpdaterInv'
<1>1. FaultsGrow /\ "marker" \in faults'.kinds
    BY FaultIsKept, Zenon DEF Remembered
<1>2. UNCHANGED <<registry, pulled, running, pc, last>>
    BY Zenon DEF imageVars, applyVars
<1>3. \A v : Current(v)'
    BY <1>1, Zenon DEF Current
<1>4. ~Waiting'
    BY <1>1, Zenon DEF Waiting
<1>5. TypeOK'
    BY <1>2, RunsOfInv, RunsSame, Zenon DEF MarkerFails, UpdaterInv, TypeOK, RunsInv, ConverterAt
<1>6. ConversionInv'
  <2>1. src \in Sources /\ src \cap Unsound = {} /\ UNCHANGED src /\ out' = Absent /\ cpc' = "unmark"
      BY Zenon DEF UpdaterInv, MarkerFails, ConversionInv
  <2>2. QED
      BY <2>1, SourcesHaveRows, Zenon DEF ConversionInv
<1>7. OneRun' /\ StatusTells'
    BY RunsOfInv, RunsSame, Zenon DEF RunsInv
<1>8. RunInv' /\ OkInv'
    BY <1>2, <1>3, Zenon DEF UpdaterInv, RunInv, OkInv
<1>9. LegacyInv'
    BY <1>4, Zenon DEF LegacyInv
<1>10. QED
    BY <1>5, <1>6, <1>7, <1>8, <1>9, Zenon DEF UpdaterInv

LEMMA ConvertInv == ASSUME UpdaterInv, Convert PROVE UpdaterInv'
<1>1. UNCHANGED <<imageVars, applyVars>>
    BY Zenon DEF Convert
<1>2. CASE StartApplication(running["api"]) /\ UNCHANGED faults
    BY <1>1, <1>2, StartInv, Zenon
<1>3. CASE MarkerFails /\ Fault("marker")
    BY <1>1, <1>3, MarkerFailsInv, Zenon
<1>4. CASE Link /\ out = Absent /\ UNCHANGED faults
    BY <1>1, <1>4, LinkInv, Zenon
<1>5. ASSUME NEW k, Beside(pulled["api"]), Fault(k) \/ UNCHANGED faults PROVE UpdaterInv'
  <2>1. FaultsGrow
      BY <1>5, FaultIsKept, Zenon
  <2>2. QED
      BY <1>1, <1>5, <2>1, BesideInv, Zenon
<1>6. QED
    BY <1>2, <1>3, <1>4, <1>5, Zenon DEF Convert, ConvertStep, Beside

-----------------------------------------------------------------------------
(* The pipeline. *)

(* The invariant but for the goroutines. *)
DataTypes ==
    /\ registry \in Nat
    /\ pulled \in [Services -> Nat] /\ running \in [Services -> Nat]
    /\ legacy \in BOOLEAN /\ marker \in BOOLEAN /\ up \in BOOLEAN
    /\ src \in Sources \cup {Absent}
    /\ out \in Sources \cup {Absent, {}}
    /\ cpc \in ConverterAt

LEMMA Parts ==
    UpdaterInv <=> DataTypes /\ ConversionInv /\ RunsInv /\ RunInv /\ OkInv /\ LegacyInv
BY Zenon DEF UpdaterInv, TypeOK, DataTypes, RunsInv

LEMMA Together ==
    ASSUME DataTypes', ConversionInv', RunsInv', RunInv', OkInv', LegacyInv'
    PROVE  UpdaterInv'
BY Zenon DEF UpdaterInv, TypeOK, DataTypes, RunsInv

LEMMA DaemonSame ==
    ASSUME UpdaterInv, UNCHANGED daemonVars
    PROVE  /\ DataTypes' /\ ConversionInv'
           /\ UNCHANGED <<registry, pulled, running, legacy, out, ledger, up>>
<1>1. UNCHANGED <<registry, pulled, running, legacy, src, tool, tmp, out, ledger, marker, cpc, up>>
    BY Zenon DEF daemonVars, imageVars, conversionVars
<1>2. QED
    BY <1>1, Parts, Zenon DEF DataTypes, ConversionInv, ReadTable, convertValue

(* docker compose up: the services run what was pulled, on a database that *)
(* the preflight has found.                                                *)
LEMMA Recreated ==
    ASSUME UpdaterInv, NEW q \in Requests, pc[q] = "restart", NEW S \in SUBSET Services, Recreate(S), FaultsGrow
    PROVE  /\ DataTypes' /\ ConversionInv' /\ pulled' = pulled /\ legacy' = legacy
           /\ Waiting' => out' = out /\ out # Absent /\ out # {}
           /\ S = Services => running' = pulled /\ \A v : v = pulled["api"] /\ up' => Current(v)'
<1>1. PICK v \in Nat : v = pulled["api"]
    BY UpdaterAssumption, Parts, Zenon DEF DataTypes
<1>2. /\ running' = [s \in Services |-> IF s \in S THEN pulled[s] ELSE running[s]]
      /\ UNCHANGED <<registry, pulled, legacy, src, tool, tmp, marker, cpc>>
    BY Zenon DEF Recreate
<1>3. /\ up' \in BOOLEAN /\ (out' = out \/ (out = Absent /\ out' = {}))
      /\ S = Services => \A w : w = pulled["api"] /\ up' => Current(w)'
  <2>1. CASE "api" \in S
    <3>1. ApiStarts(v) /\ TypeOK
        BY <1>1, <2>1, Zenon DEF Recreate, UpdaterInv
    <3>2. /\ up' \in BOOLEAN
          /\ out' = out \/ (out = Absent /\ out' = {} /\ ~OnPostgres(v))
          /\ up' => OnPostgres(v)' \/ Wait(v)'
        BY <1>2, <3>1, StartedApi, Zenon
    <3>3. QED
        BY <1>1, <3>2, Zenon DEF Current
  <2>2. CASE "api" \notin S
      BY <2>2, UpdaterAssumption, Parts, Zenon DEF Recreate, DataTypes
  <2>3. QED
      BY <2>1, <2>2, Zenon
<1>4. running' \in [Services -> Nat]
    BY <1>2, Parts, Zenon DEF DataTypes
<1>5. DataTypes'
    BY <1>2, <1>3, <1>4, Parts, Zenon DEF DataTypes
<1>6. ConversionInv'
    BY <1>2, <1>3, ConversionStays, Zenon DEF UpdaterInv
<1>7. Waiting' => out' = out /\ out # Absent /\ out # {}
    BY <1>2, <1>3, WaitingBefore, Parts, Zenon DEF LegacyInv
<1>8. S = Services => running' = pulled
    BY <1>2, Parts, Zenon DEF DataTypes
<1>9. QED
    BY <1>2, <1>3, <1>5, <1>6, <1>7, <1>8, Zenon

(* After a step that failed nothing more is promised. *)
LEMMA FailedStep ==
    ASSUME RunsInv, NEW q \in Requests, pc[q] \in Steps, StepFails(q)
    PROVE  /\ RunInv' /\ OkInv'
           /\ \A t \in Requests : pc'[t] \notin Steps
<1>1. /\ \A t \in Requests : t # q => pc[t] \notin Steps
      /\ last \in Statuses
    BY TheRunner, Zenon
<1>2. pc' = [pc EXCEPT ![q] = "return"] /\ last' = [last EXCEPT !.status = "failed"]
    BY Zenon DEF StepFails
<1>3. \A t \in Requests : pc'[t] \notin Steps
    BY <1>1, <1>2, StepNames, Zenon DEF RunsInv, RunTypes
<1>4. last'.status = "failed"
    BY <1>1, <1>2, Zenon DEF Statuses
<1>5. RunInv'
    BY <1>3, Zenon DEF RunInv, Steps
<1>6. QED
    BY <1>3, <1>4, <1>5, Zenon DEF OkInv

(* After a step that succeeded, the goroutine of q is the only one. *)
LEMMA GoodStep ==
    ASSUME RunsInv, NEW q \in Requests, pc[q] \in Steps, StepOK(q)
    PROVE  /\ pc'[q] = Following(pc[q])
           /\ \A t \in Requests : t # q => pc'[t] \notin Steps
           /\ pc[q] # "bootstrap" => last'.status = "running"
           /\ pc[q] = "bootstrap" => last'.completed = 5
<1>1. \A t \in Requests : t # q => pc[t] \notin Steps
    BY TheRunner, Zenon
<1>2. pc' = [pc EXCEPT ![q] = Following(pc[q])]
    BY StepGoesOn, Zenon
<1>3. pc'[q] = Following(pc[q]) /\ \A t \in Requests : t # q => pc'[t] = pc[t]
    BY <1>2, Zenon DEF RunsInv, RunTypes
<1>4. QED
    BY <1>1, <1>3, StepGoesOn, Zenon

LEMMA CallsInv ==
    ASSUME UpdaterInv, NEW q \in Requests, Post(q) \/ Enter(q) \/ Return(q)
    PROVE  UpdaterInv'
<1>1. RunsInv'
    BY Parts, PostRuns, EnterRuns, ReturnRuns, Zenon
<1>2. UNCHANGED <<daemonVars, faults>>
    BY Zenon DEF Post, Enter, Return
<1>3. DataTypes' /\ ConversionInv' /\ UNCHANGED <<pulled, running, legacy, out, ledger, up>>
    BY <1>2, DaemonSame, Zenon
<1>4. PICK next \in {"ended", "spawned", "pull"} : pc' = [pc EXCEPT ![q] = next]
    BY Zenon DEF Post, HandlerAnswer, Enter, Return
<1>5. \A t \in Requests : pc'[t] = pc[t] \/ pc'[t] \in {"ended", "spawned", "pull"}
    BY <1>4, Parts, Zenon DEF RunsInv, RunTypes
<1>6. last' = last \/ last'.status = "running"
    BY DEF Post, Enter, Return
<1>7. \A v : Current(v) => Current(v)'
    BY <1>2, <1>3, Zenon DEF Current, OnPostgres, Wait
<1>8. RunInv'
    BY <1>3, <1>5, <1>7, Parts, Zenon DEF RunInv
<1>9. OkInv'
    BY <1>3, <1>6, <1>7, Parts, Zenon DEF OkInv
<1>10. LegacyInv'
    BY <1>2, <1>3, <1>5, Parts, Zenon DEF LegacyInv, Waiting
<1>11. QED
    BY <1>1, <1>3, <1>8, <1>9, <1>10, Together, Zenon

LEMMA PulledImages ==
    ASSUME UpdaterInv, NEW S \in SUBSET Services, PullImages(S)
    PROVE  /\ DataTypes' /\ ConversionInv' /\ UNCHANGED <<running, legacy, out, ledger, up>>
           /\ S = Services => pulled'["api"] = pulled'["worker"]
<1>1. /\ pulled' = [s \in Services |-> IF s \in S THEN registry ELSE pulled[s]]
      /\ UNCHANGED <<registry, running, legacy, src, tool, tmp, out, ledger, marker, cpc, up>>
    BY Zenon DEF PullImages, conversionVars
<1>2. pulled' \in [Services -> Nat]
    BY <1>1, Parts, Zenon DEF DataTypes
<1>3. QED
    BY <1>1, <1>2, UpdaterAssumption, Parts, Zenon DEF DataTypes, ConversionInv

LEMMA PullInv == ASSUME UpdaterInv, NEW q \in Requests, Pull(q) PROVE UpdaterInv'
<1>1. pc[q] \in Steps /\ pc[q] = "pull" /\ RunsInv
    BY Parts, Zenon DEF Pull, Steps
<1>2. RunsInv'
    BY <1>1, StepRuns, Zenon DEF Pull
<1>3. FaultsGrow
    BY FaultIsKept, Zenon DEF Pull
<1>4. CASE PullImages(Services) /\ StepOK(q)
  <2>1. /\ DataTypes' /\ ConversionInv' /\ UNCHANGED <<running, legacy, out, ledger, up>>
        /\ pulled'["api"] = pulled'["worker"]
      BY <1>4, PulledImages, Zenon
  <2>2. /\ pc'[q] = "preflight" /\ last'.status = "running"
        /\ \A t \in Requests : t # q => pc'[t] \notin Steps
      BY <1>1, <1>4, GoodStep, Zenon DEF Following
  <2>3. RunInv'
      BY <2>1, <2>2, Zenon DEF RunInv, Steps
  <2>4. OkInv'
      BY <2>2, Zenon DEF OkInv
  <2>5. LegacyInv'
      BY <1>3, <2>1, <2>2, WaitingBefore, Parts, Zenon DEF LegacyInv, Steps
  <2>6. QED
      BY <1>2, <2>1, <2>3, <2>4, <2>5, Together, Zenon
<1>5. ASSUME NEW S \in SUBSET Services, PullImages(S), StepFails(q) PROVE UpdaterInv'
  <2>1. DataTypes' /\ ConversionInv' /\ UNCHANGED <<running, legacy, out, ledger, up>>
      BY <1>5, PulledImages, Zenon
  <2>2. RunInv' /\ OkInv' /\ \A t \in Requests : pc'[t] \notin Steps
      BY <1>1, <1>5, FailedStep, Zenon
  <2>3. LegacyInv'
      BY <1>3, <2>1, <2>2, WaitingBefore, Parts, Zenon DEF LegacyInv, Steps
  <2>4. QED
      BY <1>2, <2>1, <2>2, <2>3, Together, Zenon
<1>6. QED
    BY <1>4, <1>5, Zenon DEF Pull

LEMMA PreflightInv == ASSUME UpdaterInv, NEW q \in Requests, Preflight(q) PROVE UpdaterInv'
<1>1. pc[q] \in Steps /\ pc[q] = "preflight" /\ RunsInv
    BY Parts, Zenon DEF Preflight, Steps
<1>2. RunsInv'
    BY <1>1, StepRuns, Zenon DEF Preflight
<1>3. FaultsGrow
    BY FaultIsKept, Zenon DEF Preflight
<1>4. DataTypes' /\ ConversionInv' /\ UNCHANGED <<pulled, running, legacy, out, ledger, up>>
    BY DaemonSame, Zenon DEF Preflight
<1>5. CASE StepFails(q)
  <2>1. RunInv' /\ OkInv' /\ \A t \in Requests : pc'[t] \notin Steps
      BY <1>1, <1>5, FailedStep, Zenon
  <2>2. LegacyInv'
      BY <1>3, <1>4, <2>1, WaitingBefore, Parts, Zenon DEF LegacyInv, Steps
  <2>3. QED
      BY <1>2, <1>4, <2>1, <2>2, Together, Zenon
<1>6. CASE StepOK(q) /\ (~legacy \/ Fault("inspect") \/ out # Absent)
  <2>1. /\ pc'[q] = "restart" /\ last'.status = "running"
        /\ \A t \in Requests : t # q => pc'[t] \notin Steps
      BY <1>1, <1>6, GoodStep, Zenon DEF Following
  <2>2. RunInv'
      BY <1>1, <1>4, <2>1, Parts, Zenon DEF RunInv, Steps
  <2>3. OkInv'
      BY <2>1, Zenon DEF OkInv
  <2>4. Waiting' => out # Absent
      BY <1>4, <1>6, FaultIsKept, Zenon DEF Waiting, Remembered
  <2>5. LegacyInv'
      BY <1>3, <1>4, <2>1, <2>4, WaitingBefore, Parts, Zenon DEF LegacyInv, Steps
  <2>6. QED
      BY <1>2, <1>4, <2>2, <2>3, <2>5, Together, Zenon
<1>7. QED
    BY <1>5, <1>6, Zenon DEF Preflight

LEMMA RestartInv == ASSUME UpdaterInv, NEW q \in Requests, Restart(q) PROVE UpdaterInv'
<1>1. pc[q] \in Steps /\ pc[q] = "restart" /\ RunsInv
    BY Parts, Zenon DEF Restart, Steps
<1>2. RunsInv'
    BY <1>1, StepRuns, Zenon DEF Restart
<1>3. FaultsGrow
    BY FaultIsKept, Zenon DEF Restart
<1>4. CASE Recreate(Services) /\ StepOK(q)
  <2>1. /\ DataTypes' /\ ConversionInv' /\ pulled' = pulled /\ running' = pulled
        /\ Waiting' => out' = out /\ out # Absent /\ out # {}
        /\ \A v : v = pulled["api"] /\ up' => Current(v)'
      BY <1>1, <1>3, <1>4, Recreated, Zenon
  <2>2. /\ pc'[q] = "verify" /\ last'.status = "running"
        /\ \A t \in Requests : t # q => pc'[t] \notin Steps
      BY <1>1, <1>4, GoodStep, Zenon DEF Following
  <2>3. pulled["api"] = pulled["worker"]
      BY <1>1, Parts, Zenon DEF RunInv
  <2>4. PICK v : v = pulled["api"]
      BY Zenon
  <2>5. up' => Current(v)'
      BY <2>1, <2>4, Zenon
  <2>6. up' => Current(running["worker"])'
      BY <2>1, <2>3, <2>4, <2>5, Zenon DEF Current, OnPostgres, Wait
  <2>7. RunInv'
      BY <2>1, <2>2, <2>3, <2>6, Zenon DEF RunInv, Steps
  <2>8. OkInv'
      BY <2>2, Zenon DEF OkInv
  <2>9. LegacyInv'
      BY <2>1, Zenon DEF LegacyInv
  <2>10. QED
      BY <1>2, <2>1, <2>7, <2>8, <2>9, Together, Zenon
<1>5. ASSUME NEW S \in SUBSET Services, Recreate(S), StepFails(q) PROVE UpdaterInv'
  <2>1. DataTypes' /\ ConversionInv' /\ (Waiting' => out' = out /\ out # Absent /\ out # {})
      BY <1>1, <1>3, <1>5, Recreated, Zenon
  <2>2. RunInv' /\ OkInv'
      BY <1>1, <1>5, FailedStep, Zenon
  <2>3. LegacyInv'
      BY <2>1, Zenon DEF LegacyInv
  <2>4. QED
      BY <1>2, <2>1, <2>2, <2>3, Together, Zenon
<1>6. QED
    BY <1>4, <1>5, Zenon DEF Restart

LEMMA LastStepsInv == ASSUME UpdaterInv, NEW q \in Requests, Verify(q) \/ Bootstrap(q) PROVE UpdaterInv'
<1>1. pc[q] \in Steps /\ pc[q] \in {"verify", "bootstrap"} /\ RunsInv
    BY Parts, Zenon DEF Verify, Bootstrap, Steps
<1>2. RunsInv'
    BY <1>1, StepRuns, Zenon DEF Verify, Bootstrap
<1>3. FaultsGrow
    BY FaultIsKept, Zenon DEF Verify, Bootstrap
<1>4. DataTypes' /\ ConversionInv' /\ UNCHANGED <<pulled, running, legacy, out, ledger, up>>
    BY DaemonSame, Zenon DEF Verify, Bootstrap
<1>5. CASE StepFails(q)
  <2>1. RunInv' /\ OkInv' /\ \A t \in Requests : pc'[t] \notin Steps
      BY <1>1, <1>5, FailedStep, Zenon
  <2>2. LegacyInv'
      BY <1>3, <1>4, <2>1, WaitingBefore, Parts, Zenon DEF LegacyInv, Steps
  <2>3. QED
      BY <1>2, <1>4, <2>1, <2>2, Together, Zenon
<1>6. CASE StepOK(q) /\ (pc[q] = "verify" => up)
  <2>1. /\ pc'[q] \in {"bootstrap", "return"} /\ (pc[q] = "verify" => last'.status = "running")
        /\ pc[q] = "bootstrap" => last'.completed = 5
        /\ \A t \in Requests : t # q => pc'[t] \notin Steps
      BY <1>1, <1>6, GoodStep, Zenon DEF Following
  <2>2. running = pulled /\ pulled["api"] = pulled["worker"] /\ Current(running["worker"])
      BY <1>1, <1>6, Parts, Zenon DEF RunInv
  <2>3. UNCHANGED <<pulled, running, legacy, out, ledger, up>>
      BY <1>4, Zenon
  <2>4. running' = pulled' /\ pulled'["api"] = pulled'["worker"] /\ Current(running["worker"])'
    <3>1. Current(running["worker"])'
        BY <1>3, <2>2, <2>3, Zenon DEF Current, OnPostgres, Wait, FaultsGrow
    <3>2. QED
        BY <2>2, <2>3, <3>1, Zenon
  <2>5. RunInv' /\ OkInv'
    <3>1. RunInv'
        BY <2>1, <2>4, Zenon DEF RunInv, Steps
    <3>2. CASE pc[q] = "verify"
      <4>1. OkInv'
          BY <2>1, <3>2, Zenon DEF OkInv
      <4>2. QED
          BY <3>1, <4>1, Zenon
    <3>3. CASE pc[q] = "bootstrap"
      <4>1. OkInv'
          BY <2>1, <2>4, <3>3, Zenon DEF OkInv
      <4>2. QED
          BY <3>1, <4>1, Zenon
    <3>4. QED
        BY <1>1, <3>2, <3>3, Zenon
  <2>6. LegacyInv'
      BY <1>3, <1>4, <2>1, WaitingBefore, Parts, Zenon DEF LegacyInv, Steps
  <2>7. QED
      BY <1>2, <1>4, <2>5, <2>6, Together, Zenon
<1>7. QED
    BY <1>5, <1>6, Zenon DEF Verify, Bootstrap

(* The process ends in the middle of a command. *)
LEMMA EndsInv == ASSUME UpdaterInv, ProcessEnds, HalfDone, FaultsGrow PROVE UpdaterInv'
<1>1. RunsInv' /\ \A q \in Requests : pc'[q] \notin Steps
    BY EndsRuns, Parts, Zenon
<1>2. RunInv' /\ OkInv'
    BY <1>1, Zenon DEF RunInv, OkInv, Steps, ProcessEnds
<1>3. ASSUME UNCHANGED <<running, legacy, out>> PROVE LegacyInv'
    BY <1>1, <1>3, WaitingBefore, Parts, Zenon DEF LegacyInv, Steps
<1>4. DataTypes' /\ ConversionInv' /\ LegacyInv'
  <2>1. ASSUME NEW S \in SUBSET Services, PullImages(S) PROVE DataTypes' /\ ConversionInv' /\ LegacyInv'
      BY <1>3, <2>1, PulledImages, Zenon
  <2>2. ASSUME NEW S \in SUBSET Services, Recreate(S), NEW q \in Requests, pc[q] = "restart"
        PROVE  DataTypes' /\ ConversionInv' /\ LegacyInv'
      BY <2>2, Recreated, Zenon DEF LegacyInv
  <2>3. CASE UNCHANGED daemonVars
      BY <1>3, <2>3, DaemonSame, Zenon
  <2>4. QED
      BY <2>1, <2>2, <2>3, Zenon DEF HalfDone
<1>5. QED
    BY <1>1, <1>2, <1>4, Together, Zenon

-----------------------------------------------------------------------------
(* The invariant holds at the start and at every step. *)

LEMMA InitUpdater == ASSUME Init PROVE UpdaterInv
<1>1. /\ registry = 0 /\ pulled = [s \in Services |-> 0] /\ running = [s \in Services |-> 0]
      /\ pc = [q \in Requests |-> "unsent"] /\ inFlight = FALSE /\ last = None
      /\ legacy \in BOOLEAN /\ src = Absent /\ out = (IF legacy THEN Absent ELSE {})
      /\ marker = FALSE /\ cpc = "idle" /\ up = TRUE
    BY Zenon DEF Init, ConversionInit
<1>2. DataTypes
    BY <1>1, Zenon DEF DataTypes, ConverterAt
<1>3. Running = {} /\ \A q \in Requests : pc[q] \notin Steps
    BY <1>1, Zenon DEF Running, Steps
<1>4. RunsInv
  <2>1. RunTypes
      BY <1>1, Zenon DEF RunTypes
  <2>2. OneRun /\ StatusTells
      BY <1>1, <1>3, Zenon DEF OneRun, StatusTells
  <2>3. QED
      BY <2>1, <2>2, Zenon DEF RunsInv
<1>5. ConversionInv
    BY <1>1, Zenon DEF ConversionInv
<1>6. RunInv /\ OkInv
    BY <1>1, <1>3, Zenon DEF RunInv, OkInv, Steps
<1>7. LegacyInv
    BY <1>1, <1>3, ConversionAssumption, UpdaterAssumption, Zenon DEF LegacyInv, Waiting, Steps
<1>8. QED
    BY <1>2, <1>4, <1>5, <1>6, <1>7, Parts, Zenon

LEMMA SidecarInv == ASSUME UpdaterInv, Sidecar \/ SidecarHangs \/ SidecarCrash PROVE UpdaterInv'
<1>1. CASE Replace
  <2>1. FaultsGrow
      BY <1>1, FaultIsKept, Zenon DEF Replace
  <2>2. QED
      BY <1>1, <2>1, EndsInv, Zenon DEF Replace
<1>2. CASE Claim \/ SelfPull \/ SelfPullFails \/ RecreateFails \/ SidecarHangs \/ SidecarCrash
  <2>1. UNCHANGED <<daemonVars, applyVars>>
      BY <1>2, Zenon DEF Claim, SelfPull, SelfPullFails, RecreateFails, SidecarHangs, SidecarCrash
  <2>2. UNCHANGED <<pulled, running, conversionVars, applyVars>> /\ registry' \in Nat
      BY <2>1, Parts, Zenon DEF daemonVars, imageVars, DataTypes
  <2>3. FaultsGrow
      BY <1>2, FaultIsKept, Zenon DEF Claim, SelfPull, SelfPullFails, RecreateFails, SidecarHangs, SidecarCrash, Restore
  <2>4. QED
      BY <2>2, <2>3, QuietInv, Zenon
<1>3. QED
    BY <1>1, <1>2, Zenon DEF Sidecar

LEMMA NextUpdater == ASSUME UpdaterInv, [Next]_vars PROVE UpdaterInv'
<1>1. CASE Publish
  <2>1. registry' \in Nat /\ UNCHANGED <<pulled, running, conversionVars, applyVars, faults>>
      BY <1>1, Parts DEF Publish, DataTypes
  <2>2. QED
      BY <2>1, QuietInv, Zenon DEF FaultsGrow
<1>2. CASE UpdaterCrash
  <2>1. FaultsGrow
      BY <1>2, FaultIsKept, Zenon DEF UpdaterCrash
  <2>2. QED
      BY <1>2, <2>1, EndsInv, Zenon DEF UpdaterCrash
<1>3. ASSUME NEW q \in Requests, Post(q) \/ Apply(q) PROVE UpdaterInv'
    BY <1>3, CallsInv, PullInv, PreflightInv, RestartInv, LastStepsInv, Zenon DEF Apply
<1>4. CASE UNCHANGED vars
  <2>1. registry' \in Nat /\ UNCHANGED <<pulled, running, conversionVars, applyVars, faults>>
      BY <1>4, Parts, Zenon DEF vars, daemonVars, imageVars, DataTypes
  <2>2. QED
      BY <2>1, QuietInv, Zenon DEF FaultsGrow
<1>5. QED
    BY <1>1, <1>2, <1>3, <1>4, ConvertInv, SidecarInv, Zenon DEF Next

(***************************************************************************)
(* The flag, the status, the images, the database and the converter's      *)
(* files stay in step, whatever fails, crashes or is restarted when.       *)
(***************************************************************************)
THEOREM UpdaterInvariance == Spec => []UpdaterInv
BY InitUpdater, NextUpdater, PTL DEF Spec

(***************************************************************************)
(* Apply's own check behind the mutex lets at most one goroutine drive     *)
(* Docker, for any number of requests the handler let through.             *)
(***************************************************************************)
THEOREM OneUpdateAtATime == Spec => []OneUpdate
<1>1. ASSUME UpdaterInv PROVE OneUpdate
  <2>1. (\A p, q \in Running : p = q) /\ (inFlight <=> Running # {})
      BY <1>1, Zenon DEF UpdaterInv, OneRun
  <2>2. CASE Running = {}
    <3>1. Cardinality(Running) = 0
        BY <2>2, FS_EmptySet, Zenon
    <3>2. QED
        BY <2>1, <3>1 DEF OneUpdate
  <2>3. ASSUME NEW q \in Running PROVE OneUpdate
    <3>1. Running = {q}
        BY <2>1, <2>3, Zenon
    <3>2. Cardinality({q}) = 1
        BY FS_Singleton, Zenon
    <3>3. QED
        BY <2>1, <3>1, <3>2 DEF OneUpdate
  <2>4. QED
      BY <2>2, <2>3, Zenon
<1>2. QED
    BY <1>1, UpdaterInvariance, PTL

(***************************************************************************)
(* A status of ok is true: every service runs the image it pulled, on a    *)
(* database with the schema the worker waits for.                          *)
(***************************************************************************)
THEOREM OkIsTrue == Spec => []OkRunsPulled
<1>1. ASSUME UpdaterInv PROVE OkRunsPulled
    BY <1>1, Zenon DEF UpdaterInv, OkInv, OkRunsPulled, Current
<1>2. QED
    BY <1>1, UpdaterInvariance, PTL

(***************************************************************************)
(* preflightLegacyPostgres keeps the SQLite runtime from starting on an    *)
(* empty volume before the conversion.                                     *)
(***************************************************************************)
THEOREM LegacyIsKept == Spec => []LegacyKept
<1>1. ASSUME UpdaterInv PROVE LegacyKept
    BY <1>1, Zenon DEF UpdaterInv, LegacyInv, Waiting, LegacyKept
<1>2. QED
    BY <1>1, UpdaterInvariance, PTL

-----------------------------------------------------------------------------
(* The conversion implements the abstract database file. *)

LEMMA InitialFile == Init => Whole!Init
<1> SUFFICES ASSUME Init PROVE Whole!Init
    BY Zenon
<1>1. legacy \in BOOLEAN /\ out = (IF legacy THEN Absent ELSE {}) /\ marker = FALSE
    BY Zenon DEF Init, ConversionInit
<1>2. QED
    BY <1>1, Zenon DEF Whole!Init

(* Starting the api is a first start, or leaves the file as it is. *)
LEMMA StartIsFirst ==
    ASSUME UpdaterInv, NEW v \in Nat, ApiStarts(v), UNCHANGED <<legacy, marker>>
    PROVE  Whole!FirstStart \/ UNCHANGED <<out, marker>>
<1>1. out' = out \/ (out = Absent /\ out' = {})
    BY StartedApi, Zenon DEF UpdaterInv
<1>2. QED
    BY <1>1, Zenon DEF Whole!FirstStart

LEMMA RecreateIsFirst ==
    ASSUME UpdaterInv, NEW S, Recreate(S)
    PROVE  Whole!FirstStart \/ UNCHANGED <<out, marker>>
<1>1. PICK v \in Nat : v = pulled["api"]
    BY UpdaterAssumption, Parts, Zenon DEF DataTypes
<1>2. QED
    BY <1>1, StartIsFirst, Zenon DEF Recreate

LEMMA ConvertImplements ==
    ASSUME UpdaterInv, Convert
    PROVE  Whole!Next \/ UNCHANGED <<out, marker>>
<1>1. ConversionInv
    BY Zenon DEF UpdaterInv
<1>2. CASE Link
  <2>1. CASE out = Absent
    <3>1. out' = tmp.rows /\ marker' = marker /\ cpc = "link"
        BY <1>2, <2>1, Zenon DEF Link
    <3>2. src = tmp.rows /\ src # Absent /\ src \cap Unsound = {}
        BY <1>1, <3>1, SourcesHaveRows, Zenon DEF ConversionInv
    <3>3. Whole!Publish
        BY <2>1, <3>1, <3>2, Zenon DEF Whole!Publish
    <3>4. QED
        BY <3>3, Zenon DEF Whole!Next
  <2>2. CASE out # Absent
      BY <1>2, <2>2, Zenon DEF Link, RemoveTemporary
  <2>3. QED
      BY <2>1, <2>2, Zenon
<1>3. CASE writeMarker
  <2>1. CASE cpc = "mark"
    <3>1. marker' = TRUE /\ out' = out
        BY <1>3, <2>1, Zenon DEF writeMarker
    <3>2. src = out /\ src # Absent
        BY <1>1, <2>1, SourcesHaveRows, Zenon DEF ConversionInv
    <3>3. Whole!Certify
        BY <3>1, <3>2, Zenon DEF Whole!Certify
    <3>4. QED
        BY <3>3, Zenon DEF Whole!Next
  <2>2. CASE cpc # "mark"
      BY <1>3, <2>2, Zenon DEF writeMarker
  <2>3. QED
      BY <2>1, <2>2, Zenon
<1>4. CASE MarkerFails
  <2>1. cpc \in {"mark", "sync"} /\ out' = Absent /\ marker' = marker
      BY <1>4, Zenon DEF MarkerFails
  <2>2. src = out /\ src # Absent
      BY <1>1, <2>1, SourcesHaveRows, Zenon DEF ConversionInv
  <2>3. Whole!Withdraw
      BY <2>1, <2>2, Zenon DEF Whole!Withdraw
  <2>4. QED
      BY <2>3, Zenon DEF Whole!Next
<1>5. CASE RemoveMarker
  <2>1. cpc = "unmark" /\ marker' = FALSE /\ out' = out
      BY <1>5, Zenon DEF RemoveMarker
  <2>2. src # out /\ src # Absent
      BY <1>1, <2>1, SourcesHaveRows, Zenon DEF ConversionInv
  <2>3. Whole!Decertify
      BY <2>1, <2>2, Zenon DEF Whole!Decertify
  <2>4. QED
      BY <2>3, Zenon DEF Whole!Next
<1>6. CASE StartApplication(running["api"])
  <2>1. PICK v \in Nat : v = running["api"]
      BY UpdaterAssumption, Parts, Zenon DEF DataTypes
  <2>2. Whole!FirstStart \/ UNCHANGED <<out, marker>>
      BY <1>6, <2>1, StartIsFirst, Zenon DEF StartApplication
  <2>3. QED
      BY <2>2, Zenon DEF Whole!Next
<1>7. CASE \/ BeginConvert(pulled["api"]) \/ Copy \/ Damage \/ ValidateCopy
           \/ StopApplication \/ ConvertFails \/ ConvertKilled
    BY <1>7, Zenon DEF BeginConvert, Copy, Damage, ValidateCopy, StopApplication, ConvertFails, ConvertKilled,
           RemoveTemporary
<1>8. QED
    BY <1>2, <1>3, <1>4, <1>5, <1>6, <1>7, Zenon DEF Convert, ConvertStep

LEMMA NextImplements ==
    ASSUME UpdaterInv, [Next]_vars
    PROVE  [Whole!Next]_<<out, marker>>
<1> SUFFICES Whole!Next \/ UNCHANGED <<out, marker>>
    BY Zenon
<1>1. ASSUME UNCHANGED conversionVars PROVE UNCHANGED <<out, marker>>
    BY <1>1, Zenon DEF conversionVars
<1>2. ASSUME NEW S, Recreate(S) PROVE Whole!Next \/ UNCHANGED <<out, marker>>
    BY <1>2, RecreateIsFirst, Zenon DEF Whole!Next
<1>3. ASSUME HalfDone PROVE Whole!Next \/ UNCHANGED <<out, marker>>
    BY <1>1, <1>2, <1>3, Zenon DEF HalfDone, PullImages, daemonVars
<1>4. CASE Convert
    BY <1>4, ConvertImplements, Zenon
<1>5. CASE UpdaterCrash \/ Replace
    BY <1>3, <1>5, Zenon DEF UpdaterCrash, Replace
<1>6. ASSUME NEW q \in Requests, Restart(q) PROVE Whole!Next \/ UNCHANGED <<out, marker>>
    BY <1>2, <1>6, Zenon DEF Restart
<1>7. CASE Publish \/ UNCHANGED vars
    BY <1>1, <1>7, Zenon DEF Publish, vars, daemonVars
<1>8. CASE SidecarCrash \/ SidecarHangs \/ Claim \/ SelfPull \/ SelfPullFails \/ RecreateFails
    BY <1>1, <1>8, Zenon DEF SidecarCrash, SidecarHangs, Claim, SelfPull, SelfPullFails, RecreateFails, daemonVars
<1>9. ASSUME NEW q \in Requests, Post(q) \/ Enter(q) \/ Preflight(q) \/ Verify(q) \/ Bootstrap(q) \/ Return(q)
      PROVE  UNCHANGED <<out, marker>>
    BY <1>1, <1>9, Zenon DEF Post, Enter, Preflight, Verify, Bootstrap, Return, daemonVars
<1>10. ASSUME NEW q \in Requests, Pull(q) PROVE UNCHANGED <<out, marker>>
    BY <1>1, <1>10, Zenon DEF Pull, PullImages
<1>11. QED
    BY <1>4, <1>5, <1>6, <1>7, <1>8, <1>9, <1>10, Zenon DEF Next, Apply, Sidecar

(***************************************************************************)
(* The conversion with every failure, damage and kill between its steps    *)
(* (Convert, Validate, os.Link, writeMarker and its sync, the removals),   *)
(* beside updates that start the api, implements the database file that    *)
(* appears whole or not at all and never loses its certificate in place.   *)
(***************************************************************************)
THEOREM DatabaseRefinement == Spec => DatabaseIsWhole
<1>1. Init => Whole!Init
    BY InitialFile, Zenon
<1>2. UpdaterInv /\ [Next]_vars => [Whole!Next]_<<out, marker>>
    BY NextImplements, Zenon
<1>3. QED
    BY <1>1, <1>2, UpdaterInvariance, PTL DEF Spec, DatabaseIsWhole, Whole!Spec
=============================================================================
