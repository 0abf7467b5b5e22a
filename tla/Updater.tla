------------------------------ MODULE Updater ------------------------------
(***************************************************************************)
(* The self-update of an installation: the updater service (one HTTP       *)
(* handler that answers 202 and starts a goroutine, one Apply at a time    *)
(* behind a mutex), the Docker daemon it drives, the bootstrap request     *)
(* file, and the sidecar script that replaces the updater's own container. *)
(*                                                                         *)
(* A version is a number: 0 is the release the installation runs at first, *)
(* `registry' the newest one published.  The services are pulled by their  *)
(* moving tag, so a pull brings whatever is newest, not the target of the  *)
(* request.                                                                *)
(***************************************************************************)
EXTENDS Conversion, FiniteSets

CONSTANTS Requests,    \* POST /internal/apply calls
          Malformed,   \* the ones whose target is not a stable version
          Services,    \* the services an update recreates, "api" and "worker" among them
          Retries,     \* PROXYCORE_BOOTSTRAP_RETRIES
          MaxFaults,   \* bound on how often something goes wrong
          MaxVersion,  \* bound on the releases published
          None

ASSUME UpdaterAssumption ==
    /\ Malformed \subseteq Requests
    /\ {"api", "worker"} \subseteq Services
    /\ Retries \in Nat \ {0}
    /\ MaxFaults \in Nat
    /\ MaxVersion \in Nat
    /\ None \notin Requests

VARIABLES
    registry,   \* the newest published version
    pulled,     \* the local image of each service
    running,    \* the version of each service's container
    pc,         \* where the goroutine of each request is
    inFlight,   \* Updater.inFlgt
    last,       \* Updater.last, None before the first Apply of this process
    request,    \* the bootstrap request file
    configured, \* the updater has a request file to write (compose.yaml sets one)
    claim,      \* the file the sidecar moved into its working directory
    spc,        \* where the sidecar's loop is
    attempt,    \* its _attempt
    image,      \* the updater image it pulled last
    updater,    \* the version of the updater's container
    faults      \* how many faults there were, and the kinds worth remembering

imageVars == <<registry, pulled, running>>
daemonVars == <<imageVars, conversionVars>>
applyVars == <<pc, inFlight, last>>
sidecarVars == <<configured, claim, spc, attempt, image, updater>>
vars == <<daemonVars, applyVars, request, sidecarVars, faults>>

(***************************************************************************)
(* The kinds of fault: "pull", "inspect", "probe", "restart", "verify" and *)
(* "write" make that step's command fail, "self" fails a command of the    *)
(* sidecar, "restore" that and the move of the request back, "hang" makes  *)
(* it wait for ever, "crash" ends the updater, "sidecar" ends the sidecar; *)
(* "damage" spoils the converter's closed file, "convert" and "marker"     *)
(* fail the converter before and after its link, "kill" ends it.           *)
(***************************************************************************)
FaultKinds == {"pull", "inspect", "probe", "restart", "verify", "write", "self", "restore", "hang",
               "crash", "sidecar", "damage", "convert", "marker", "kill"}
RequestLost == {"restore", "hang", "sidecar"}
Remembered == {"inspect", "marker"} \cup RequestLost

Versions == 0..MaxVersion
pipelineSteps == <<"pull", "preflight", "restart", "verify", "bootstrap">>
Steps == {"pull", "preflight", "restart", "verify", "bootstrap"}
Running == {q \in Requests : pc[q] \in Steps \cup {"return"}}

(* The status the API shows: updaterState. *)
Updating == last # None /\ last.status = "running"

Init ==
    /\ registry = 0
    /\ pulled = [s \in Services |-> 0]
    /\ running = [s \in Services |-> 0]
    /\ ConversionInit
    /\ pc = [q \in Requests |-> "unsent"]
    /\ inFlight = FALSE
    /\ last = None
    /\ request = None
    /\ configured \in BOOLEAN
    /\ claim = None
    /\ spc = "poll"
    /\ attempt = 0
    /\ image = 0
    /\ updater = 0
    /\ faults = [count |-> 0, kinds |-> {}]

(* Something goes wrong, and all in all not too often. *)
Fault(k) ==
    /\ faults.count < MaxFaults
    /\ faults' = [count |-> faults.count + 1, kinds |-> faults.kinds \cup ({k} \cap Remembered)]

(* A release is published. *)
Publish ==
    /\ registry < MaxVersion
    /\ registry' = registry + 1
    /\ UNCHANGED <<pulled, running, conversionVars, applyVars, request, sidecarVars, faults>>

(* The conversion, run by the operator beside the updater. *)
Convert ==
    /\ \/ ConvertStep(pulled["api"]) /\ UNCHANGED faults
       \/ StopApplication /\ UNCHANGED faults
       \/ StartApplication(running["api"]) /\ UNCHANGED faults
       \/ ConvertFails /\ Fault("convert")
       \/ Damage /\ Fault("damage")
       \/ MarkerFails /\ Fault("marker")
       \/ ConvertKilled /\ Fault("kill")
    /\ UNCHANGED <<imageVars, applyVars, request, sidecarVars>>

-----------------------------------------------------------------------------
(* POST /internal/apply: 409 while an update is in flight, else 202 and a  *)
(* goroutine that will call Apply.                                         *)
HandlerAnswer == IF inFlight THEN "ended" ELSE "spawned"

(* The owner's POST /api/updates/apply, forwarded to the updater. *)
Post(q) ==
    /\ pc[q] = "unsent" /\ up
    /\ pc' = [pc EXCEPT ![q] = HandlerAnswer]
    /\ UNCHANGED <<daemonVars, inFlight, last, request, sidecarVars, faults>>

(* Mutant of Enter: Apply trusts the handler's check. *)
EnterUnchecked(q) ==
    /\ pc[q] = "spawned"
    /\ IF q \in Malformed
       THEN pc' = [pc EXCEPT ![q] = "ended"] /\ UNCHANGED <<inFlight, last>>
       ELSE /\ pc' = [pc EXCEPT ![q] = "pull"]
            /\ inFlight' = TRUE
            /\ last' = [status |-> "running", target |-> q, completed |-> 0]
    /\ UNCHANGED <<daemonVars, request, sidecarVars, faults>>

(* Apply begins: a malformed target and a second Apply are turned away. *)
Enter(q) ==
    /\ pc[q] = "spawned"
    /\ IF q \in Malformed \/ inFlight
       THEN pc' = [pc EXCEPT ![q] = "ended"] /\ UNCHANGED <<inFlight, last>>
       ELSE /\ pc' = [pc EXCEPT ![q] = "pull"]
            /\ inFlight' = TRUE
            /\ last' = [status |-> "running", target |-> q, completed |-> 0]
    /\ UNCHANGED <<daemonVars, request, sidecarVars, faults>>

(* runStep without an error; after the last step the status becomes ok. *)
StepOK(q) ==
    LET n == last.completed + 1 IN
    /\ last' = [last EXCEPT !.completed = n, !.status = IF n = 5 THEN "ok" ELSE @]
    /\ pc' = [pc EXCEPT ![q] = IF n = 5 THEN "return" ELSE pipelineSteps[n + 1]]
    /\ UNCHANGED inFlight

(* Mutant of StepFails: the status stays running. *)
StepFailsSilently(q) ==
    /\ pc' = [pc EXCEPT ![q] = "return"]
    /\ UNCHANGED <<inFlight, last>>

(* runStep with an error, and fail. *)
StepFails(q) ==
    /\ last' = [last EXCEPT !.status = "failed"]
    /\ pc' = [pc EXCEPT ![q] = "return"]
    /\ UNCHANGED inFlight

(* Containers of the services in S are replaced by the pulled images. *)
Recreate(S) ==
    /\ running' = [s \in Services |-> IF s \in S THEN pulled[s] ELSE running[s]]
    /\ IF "api" \in S THEN ApiStarts(pulled["api"]) ELSE UNCHANGED <<out, ledger, up>>
    /\ UNCHANGED <<registry, pulled, legacy, src, tool, tmp, marker, cpc>>

(* docker compose pull; when it fails some images are already new. *)
PullImages(S) ==
    /\ pulled' = [s \in Services |-> IF s \in S THEN registry ELSE pulled[s]]
    /\ UNCHANGED <<registry, running, conversionVars>>

Pull(q) ==
    /\ pc[q] = "pull"
    /\ \/ PullImages(Services) /\ StepOK(q) /\ UNCHANGED faults
       \/ /\ Fault("pull")
          /\ \E S \in SUBSET Services : PullImages(S)
          /\ StepFails(q)
    /\ UNCHANGED <<request, sidecarVars>>

(* Mutant of Preflight: the result of the probe is ignored. *)
PreflightAdvisory(q) ==
    /\ pc[q] = "preflight"
    /\ StepOK(q)
    /\ UNCHANGED <<daemonVars, request, sidecarVars, faults>>

(***************************************************************************)
(* preflightLegacyPostgres: passes when `docker volume inspect' fails,     *)
(* which it does for a volume that does not exist and for any other        *)
(* trouble, and when the probe finds the database.                         *)
(***************************************************************************)
Preflight(q) ==
    /\ pc[q] = "preflight"
    /\ \/ ~legacy /\ StepOK(q) /\ UNCHANGED faults
       \/ legacy /\ Fault("inspect") /\ StepOK(q)
       \/ legacy /\ out # Absent /\ StepOK(q) /\ UNCHANGED faults
       \/ legacy /\ out = Absent /\ StepFails(q) /\ UNCHANGED faults
       \/ legacy /\ Fault("probe") /\ StepFails(q)
    /\ UNCHANGED <<daemonVars, request, sidecarVars>>

(* Mutant of Restart: only the api is recreated. *)
RestartApplication(q) ==
    /\ pc[q] = "restart"
    /\ Recreate({"api"}) /\ StepOK(q) /\ UNCHANGED faults
    /\ UNCHANGED <<request, sidecarVars>>

(* docker compose up --force-recreate; it may stop half way. *)
Restart(q) ==
    /\ pc[q] = "restart"
    /\ \/ Recreate(Services) /\ StepOK(q) /\ UNCHANGED faults
       \/ /\ Fault("restart")
          /\ \E S \in SUBSET Services : Recreate(S)
          /\ StepFails(q)
    /\ UNCHANGED <<request, sidecarVars>>

(* waitHealthy: the new api answers 2xx, or does not within the timeout. *)
Verify(q) ==
    /\ pc[q] = "verify"
    /\ \/ up /\ StepOK(q) /\ UNCHANGED faults
       \/ ~up /\ StepFails(q) /\ UNCHANGED faults
       \/ up /\ Fault("verify") /\ StepFails(q)
    /\ UNCHANGED <<daemonVars, request, sidecarVars>>

(* The request is written beside the file and renamed onto it. *)
Bootstrap(q) ==
    /\ pc[q] = "bootstrap"
    /\ \/ ~configured /\ StepOK(q) /\ UNCHANGED <<request, faults>>
       \/ configured /\ request' = q /\ StepOK(q) /\ UNCHANGED faults
       \/ configured /\ Fault("write") /\ StepFails(q) /\ UNCHANGED request
    /\ UNCHANGED <<daemonVars, sidecarVars>>

(* The deferred function: the next Apply may begin. *)
Return(q) ==
    /\ pc[q] = "return"
    /\ inFlight' = FALSE
    /\ pc' = [pc EXCEPT ![q] = "ended"]
    /\ UNCHANGED <<daemonVars, last, request, sidecarVars, faults>>

(* The updater's process ends, with the docker command it is waiting for,  *)
(* and a new one starts with nothing in memory.                            *)
ProcessEnds ==
    /\ pc' = [q \in Requests |->
                IF pc[q] \in Steps \cup {"spawned", "return"} THEN "ended" ELSE pc[q]]
    /\ inFlight' = FALSE
    /\ last' = None

(* What the interrupted command has done by then. *)
HalfDone ==
    \/ (\E q \in Requests : pc[q] = "pull") /\ \E S \in SUBSET Services : PullImages(S)
    \/ (\E q \in Requests : pc[q] = "restart") /\ \E S \in SUBSET Services : Recreate(S)
    \/ (\A q \in Requests : pc[q] \notin {"pull", "restart"}) /\ UNCHANGED daemonVars

UpdaterCrash ==
    /\ Fault("crash")
    /\ ProcessEnds
    /\ HalfDone
    /\ UNCHANGED <<request, sidecarVars>>

-----------------------------------------------------------------------------
(* The sidecar finds a request and moves it into its working directory. *)
Claim ==
    /\ spc = "poll"
    /\ request # None
    /\ claim' = request
    /\ request' = None
    /\ attempt' = 0
    /\ spc' = "pull"
    /\ UNCHANGED <<daemonVars, applyVars, configured, image, updater, faults>>

(* docker compose pull updater. *)
SelfPull ==
    /\ spc = "pull"
    /\ attempt' = attempt + 1
    /\ image' = registry
    /\ spc' = "recreate"
    /\ UNCHANGED <<daemonVars, applyVars, request, configured, claim, updater, faults>>

(* The loop forgets the claimed file and polls again. *)
EndCycle == claim' = None /\ attempt' = 0 /\ spc' = "poll"

(* docker compose up --force-recreate updater, whatever it is doing; the   *)
(* claimed file is removed.                                                *)
Replace ==
    /\ spc = "recreate"
    /\ updater' = image
    /\ ProcessEnds
    /\ HalfDone
    /\ EndCycle
    /\ UNCHANGED <<request, configured, image, faults>>

(* Mutant of Restore: a request that could not be served is dropped. *)
RestoreNothing ==
    /\ Fault("self") /\ UNCHANGED request
    /\ EndCycle

(* The claimed file is moved back, over a request written meanwhile.  When *)
(* that fails too it stays where the loop never looks.                     *)
Restore ==
    /\ \/ Fault("self") /\ request' = claim
       \/ Fault("restore") /\ UNCHANGED request
    /\ EndCycle

(* The pull fails: no further attempt in this cycle. *)
SelfPullFails ==
    /\ spc = "pull"
    /\ Restore
    /\ UNCHANGED <<daemonVars, applyVars, configured, image, updater>>

(* The recreation fails: try again, up to Retries times in this cycle. *)
RecreateFails ==
    /\ spc = "recreate"
    /\ \/ attempt < Retries /\ Fault("self") /\ spc' = "pull" /\ UNCHANGED <<request, claim, attempt>>
       \/ attempt >= Retries /\ Restore
    /\ UNCHANGED <<daemonVars, applyVars, configured, image, updater>>

(* A docker command of the sidecar does not return; it has no deadline. *)
SidecarHangs ==
    /\ spc \in {"pull", "recreate"}
    /\ Fault("hang")
    /\ spc' = "hung"
    /\ UNCHANGED <<daemonVars, applyVars, request, configured, claim, attempt, image, updater>>

(* The sidecar's container restarts; it never looks into its directory. *)
SidecarCrash ==
    /\ spc # "poll"
    /\ Fault("sidecar")
    /\ EndCycle
    /\ UNCHANGED <<daemonVars, applyVars, request, configured, image, updater>>

Apply(q) == \/ Enter(q) \/ Pull(q) \/ Preflight(q) \/ Restart(q) \/ Verify(q)
            \/ Bootstrap(q) \/ Return(q)

Sidecar == Claim \/ SelfPull \/ Replace \/ SelfPullFails \/ RecreateFails

Next ==
    \/ Publish \/ Convert \/ UpdaterCrash \/ SidecarCrash \/ SidecarHangs \/ Sidecar
    \/ \E q \in Requests : Post(q) \/ Apply(q)

Spec == Init /\ [][Next]_vars

(***************************************************************************)
(* A goroutine keeps running, and its context ends every step after ten    *)
(* minutes.  The sidecar polls in an endless loop and takes its next step  *)
(* unless a docker command hangs: those have no deadline (SidecarHangs).   *)
(***************************************************************************)
FairSpec == Spec /\ WF_vars(Sidecar) /\ \A q \in Requests : WF_vars(Apply(q))

-----------------------------------------------------------------------------

(***************************************************************************)
(* Two updates never drive Docker at the same time, although two handlers  *)
(* may both have seen no update in flight and answered 202; and the flag   *)
(* that turns others away is set exactly while one does.                   *)
(***************************************************************************)
OneUpdate ==
    /\ Cardinality(Running) <= 1
    /\ inFlight <=> Running # {}

(***************************************************************************)
(* An update reported ok has put every service on the images it pulled,    *)
(* and still does after the updater was asked for more: the status is      *)
(* never the one of a run whose effects another run has half undone.  The  *)
(* database then has the schema for which the new worker waits, so it is   *)
(* not left polling until it gives up (Migrate, schemawait.Wait), unless a *)
(* converter that could not write its marker took the database away.       *)
(***************************************************************************)
OkRunsPulled ==
    last # None /\ last.status = "ok" =>
        /\ last.completed = 5
        /\ running = pulled
        /\ OnPostgres(running["worker"]) \/ Wait(running["worker"]) \/ "marker" \in faults.kinds

(***************************************************************************)
(* The SQLite runtime is never started on an empty volume while the data   *)
(* of a PostgreSQL release waits to be converted (preflightLegacyPostgres),*)
(* also when the conversion runs, fails or is killed meanwhile.  Two       *)
(* troubles are the exception: `docker volume inspect' fails on a volume   *)
(* that exists, and a converter that could not write its marker removes    *)
(* the database the preflight has just found.                              *)
(***************************************************************************)
LegacyKept ==
    legacy /\ faults.kinds \cap {"inspect", "marker"} = {} => out # {}

(* A run that the API reports as updating ends: ok, failed, or forgotten. *)
UpdateSettles == Updating ~> ~Updating

(***************************************************************************)
(* After an update that was reported ok the updater itself is replaced by  *)
(* an image at least as new as the services', however often the sidecar's  *)
(* commands fail in between and whatever is requested meanwhile.  It is    *)
(* not when the sidecar loses the request, in one of three ways: it        *)
(* restarts after it claimed the request, it cannot move the request back, *)
(* or a docker command of it never returns.  And an updater without a      *)
(* request file asks nobody.                                               *)
(***************************************************************************)
UpdaterCatchesUp ==
    \A v \in Versions :
        (configured /\ last # None /\ last.status = "ok" /\ running["api"] = v) ~>
            (updater >= v \/ faults.kinds \cap RequestLost # {})
=============================================================================
