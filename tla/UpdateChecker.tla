--------------------------- MODULE UpdateChecker ---------------------------
(***************************************************************************)
(* The release lookup of the API server: concurrent requests share one     *)
(* cached result, one upstream call at a time, and a throttle on forced    *)
(* refreshes (update.Checker).  Time is a counter; a release is its place   *)
(* in the order of publication, which need not be the order of versions.   *)
(***************************************************************************)
EXTENDS SemVer

CONSTANTS Callers,       \* concurrent GET /api/updates requests
          TTL,           \* lifetime of a good answer
          FailureTTL,    \* lifetime of a failed one, at most TTL
          ForcedSpacing, \* minForcedRefreshInterval
          MaxTime,       \* bound on the clock
          Releases,      \* the versions upstream publishes, one after the other
          Current,       \* the version this installation runs
          None

ASSUME CheckerAssumption ==
    /\ TTL \in Nat
    /\ FailureTTL \in 0..TTL
    /\ ForcedSpacing \in Nat
    /\ MaxTime \in Nat
    /\ Releases \in Seq(SemanticVersions) /\ Releases # <<>>
    /\ Current \in SemanticVersions
    /\ None \notin Callers

VARIABLES clock,
          released,    \* the release upstream calls the latest, by its place
          cached,      \* Checker.cached
          expires,     \* Checker.expires
          fetcher,     \* Checker.inFlight: the caller that closes it, or None
          lastForced,  \* Checker.lastForced, None before the first
          pc,          \* where each caller is
          force,       \* its argument
          now,         \* the time it read before taking the lock
          saw,         \* its copy of cached
          answer       \* what it returned

shared == <<cached, expires, fetcher, lastForced>>
local == <<pc, force, now, saw, answer>>
vars == <<clock, released, shared, local>>

Times == 0..MaxTime
Unavailable == [status |-> "unavailable", latest |-> None, at |-> None]
Results == {Unavailable} \cup [status : {"current", "update_available", "stale"},
                              latest : DOMAIN Releases, at : Times]

ASSUME NoneAssumption == None \notin Results \cup DOMAIN Releases

Init ==
    /\ clock = 0
    /\ released = 1
    /\ cached = None
    /\ expires = 0
    /\ fetcher = None
    /\ lastForced = None
    /\ pc = [c \in Callers |-> "idle"]
    /\ force = [c \in Callers |-> FALSE]
    /\ now = [c \in Callers |-> 0]
    /\ saw = [c \in Callers |-> None]
    /\ answer = [c \in Callers |-> None]

(* Mutant of resultFor: any release but the running version is an update. *)
resultForOther(r, t) ==
    [status |-> IF Releases[r] # Current THEN "update_available" ELSE "current",
     latest |-> r, at |-> t]

(* resultFor: the latest release compared with the running version. *)
resultFor(r, t) ==
    [status |-> IF updateAvailable(Releases[r], Current) THEN "update_available" ELSE "current",
     latest |-> r, at |-> t]

(* Mutant of fallbackResult: an old answer is passed on unmarked. *)
fallbackUnmarked(result) == IF result = None THEN Unavailable ELSE result

(* fallbackResult: an old answer is marked as stale. *)
fallbackResult(result) ==
    IF result = None THEN Unavailable
    ELSE IF result.latest # None THEN [result EXCEPT !.status = "stale"] ELSE result

(* c returns; its local variables are gone. *)
Return(c, result) ==
    /\ answer' = [answer EXCEPT ![c] = result]
    /\ pc' = [pc EXCEPT ![c] = "idle"]
    /\ force' = [force EXCEPT ![c] = FALSE]
    /\ saw' = [saw EXCEPT ![c] = None]

Tick == clock < MaxTime /\ clock' = clock + 1 /\ UNCHANGED <<released, shared, local>>

Publish == released < Len(Releases) /\ released' = released + 1 /\ UNCHANGED <<clock, shared, local>>

(* Check or Refresh is called; the clock is read before the lock is taken. *)
Call(c, f) ==
    /\ pc[c] = "idle"
    /\ pc' = [pc EXCEPT ![c] = "lookup"]
    /\ force' = [force EXCEPT ![c] = f]
    /\ now' = [now EXCEPT ![c] = clock]
    /\ answer' = [answer EXCEPT ![c] = None]
    /\ UNCHANGED <<clock, released, shared, saw>>

Fresh(c) == cached # None /\ now[c] < expires

Throttled(c) ==
    /\ force[c]
    /\ lastForced # None
    /\ now[c] < lastForced + ForcedSpacing

(* The cache answers. *)
Serve(c) ==
    /\ pc[c] = "lookup"
    /\ ~force[c] /\ Fresh(c)
    /\ Return(c, cached)
    /\ UNCHANGED <<clock, released, shared, now>>

Misses(c) == pc[c] = "lookup" /\ (force[c] \/ ~Fresh(c))

(* Another caller is asking upstream: wait for it, holding a copy. *)
Join(c) ==
    /\ Misses(c)
    /\ fetcher # None
    /\ pc' = [pc EXCEPT ![c] = "wait"]
    /\ saw' = [saw EXCEPT ![c] = cached]
    /\ UNCHANGED <<clock, released, shared, force, now, answer>>

(* throttledResultLocked. *)
Throttle(c) ==
    /\ Misses(c)
    /\ fetcher = None
    /\ Throttled(c)
    /\ Return(c, IF Fresh(c) THEN cached ELSE fallbackResult(cached))
    /\ UNCHANGED <<clock, released, shared, now>>

(* Mutant of Fetch: several callers ask upstream at once. *)
FetchAnyway(c) ==
    /\ Misses(c)
    /\ ~Throttled(c)
    /\ fetcher' = c
    /\ lastForced' = IF force[c] THEN now[c] ELSE lastForced
    /\ saw' = [saw EXCEPT ![c] = cached]
    /\ pc' = [pc EXCEPT ![c] = "fetch"]
    /\ UNCHANGED <<clock, released, cached, expires, force, now, answer>>

(* The caller becomes the one that asks upstream, outside the lock. *)
Fetch(c) ==
    /\ Misses(c)
    /\ fetcher = None
    /\ ~Throttled(c)
    /\ fetcher' = c
    /\ lastForced' = IF force[c] THEN now[c] ELSE lastForced
    /\ saw' = [saw EXCEPT ![c] = cached]
    /\ pc' = [pc EXCEPT ![c] = "fetch"]
    /\ UNCHANGED <<clock, released, cached, expires, force, now, answer>>

(* Upstream has answered with the newest release of that moment; resultFor *)
(* takes no prerelease.                                                    *)
Answered(c) ==
    /\ pc[c] = "fetch"
    /\ Releases[released].prerelease = <<>>
    /\ saw' = [saw EXCEPT ![c] = resultFor(released, clock)]
    /\ pc' = [pc EXCEPT ![c] = "store"]
    /\ UNCHANGED <<clock, released, shared, force, now, answer>>

(* c returns and closes the channel the waiting callers hold. *)
Release(c, result) ==
    /\ answer' = [answer EXCEPT ![c] = result]
    /\ pc' = [d \in Callers |-> IF d = c THEN "idle"
                               ELSE IF pc[d] = "wait" THEN "released" ELSE pc[d]]
    /\ force' = [force EXCEPT ![c] = FALSE]
    /\ saw' = [saw EXCEPT ![c] = None]
    /\ fetcher' = None

(* The answer is cached and the waiting callers are released. *)
Store(c) ==
    /\ pc[c] = "store"
    /\ cached' = saw[c]
    /\ expires' = saw[c].at + TTL
    /\ Release(c, saw[c])
    /\ UNCHANGED <<clock, released, lastForced, now>>

(* Mutant of Fail: the channel is not closed on the error path. *)
FailKeepsOthersWaiting(c) ==
    /\ pc[c] = "fetch"
    /\ cached' = fallbackResult(saw[c])
    /\ expires' = clock + FailureTTL
    /\ fetcher' = None
    /\ Return(c, fallbackResult(saw[c]))
    /\ UNCHANGED <<clock, released, lastForced, now>>

(* Upstream or its answer fails, or the caller's request is cancelled: what *)
(* was cached before becomes the answer for everyone, for a shorter time.      *)
Fail(c) ==
    /\ pc[c] = "fetch"
    /\ cached' = fallbackResult(saw[c])
    /\ expires' = clock + FailureTTL
    /\ Release(c, fallbackResult(saw[c]))
    /\ UNCHANGED <<clock, released, lastForced, now>>

(* A released caller looks again, unforced. *)
Wake(c) ==
    /\ pc[c] = "released"
    /\ pc' = [pc EXCEPT ![c] = "lookup"]
    /\ force' = [force EXCEPT ![c] = FALSE]
    /\ now' = [now EXCEPT ![c] = clock]
    /\ UNCHANGED <<clock, released, shared, saw, answer>>

(* A waiting caller's own request is cancelled. *)
GiveUp(c) ==
    /\ pc[c] \in {"wait", "released"}
    /\ Return(c, fallbackResult(saw[c]))
    /\ UNCHANGED <<clock, released, shared, now>>

Step(c) == Serve(c) \/ Join(c) \/ Throttle(c) \/ Fetch(c) \/ Answered(c) \/ Store(c)
           \/ Fail(c) \/ Wake(c)

Next == \/ Tick \/ Publish
        \/ \E c \in Callers : (\E f \in BOOLEAN : Call(c, f)) \/ Step(c) \/ GiveUp(c)

Spec == Init /\ [][Next]_vars

(* Every request has a goroutine of its own, and upstream calls time out. *)
FairSpec == Spec /\ \A c \in Callers : WF_vars(Step(c))

-----------------------------------------------------------------------------

(***************************************************************************)
(* An answer that is not marked stale or unavailable was checked upstream  *)
(* less than TTL before the caller asked, also when a refresh failed, was  *)
(* throttled or was cancelled in between.                                  *)
(***************************************************************************)
FreshIsRecent ==
    \A c \in Callers :
        answer[c] # None /\ answer[c].status \in {"current", "update_available"} =>
            now[c] < answer[c].at + TTL \/ now[c] <= answer[c].at

(***************************************************************************)
(* What is known of the newest release is never lost or replaced by an     *)
(* older one: a call that ends late, or fails, does not write its stale    *)
(* copy over a newer result.                                               *)
(***************************************************************************)
ReleaseNotForgotten ==
    [][cached # None /\ cached.latest # None =>
         cached'.latest # None /\ cached'.latest >= cached.latest]_vars

(* Every caller gets an answer, also those that wait for one that fails. *)
EveryCallAnswered == \A c \in Callers : pc[c] = "lookup" ~> pc[c] = "idle"

(***************************************************************************)
(* Whoever fetched it, however long it was cached or passed on, an answer  *)
(* offers the release it names exactly when the SemVer standard puts that  *)
(* above the running version: the release of a prerelease is an update,    *)
(* and an older one published later is not (compareSemVer, resultFor).     *)
(***************************************************************************)
MatchesStandard ==
    \A c \in Callers : answer[c] # None /\ answer[c].status \in {"current", "update_available"} =>
        (answer[c].status = "update_available") = Precedes(Current, Releases[answer[c].latest])
=============================================================================
