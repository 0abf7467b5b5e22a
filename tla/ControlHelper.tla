--------------------------- MODULE ControlHelper ---------------------------
(***************************************************************************)
(* The control helper and the data plane it manages: the Nginx and CoreDNS *)
(* configuration files, the copies kept for rollback, and what the two     *)
(* running services have loaded.                                           *)
(*                                                                         *)
(* A file is the revision it was rendered from, Baked (the file shipped in *)
(* the image) or None (missing, or only partly written).                   *)
(*                                                                         *)
(* A control operation is described by its outcomes: the state it leaves,  *)
(* the reply it sends, and `cost', the number of file or Docker calls that *)
(* have to fail for it to end that way.                                    *)
(***************************************************************************)
EXTENDS Revisions, Naturals

CONSTANT Baked

ASSUME ControlAssumption == Baked \notin Revs /\ None # Baked

VARIABLES
    nginx,      \* files of the Nginx container and of the candidates volume
    coredns,    \* files of the coredns-config, coredns-zones and candidates volumes
    candidate   \* per service, the revision whose candidate files are the newest

controlVars == <<nginx, coredns, candidate>>

Services == {"coredns", "nginx"}
Files == Revs \cup {Baked, None}

NginxState == [active  : Files,   \* /etc/nginx/nginx.conf in the container
               running : Files,   \* what the Nginx master has loaded
               stable  : Files,   \* nginx-live.conf on the volume
               prev    : Files,   \* nginx-previous-live.conf on the volume
               backup  : Files]   \* .proxycore.previous.conf in the container

CoreDNSState == [corefile : Files, zones : Files,
                 prevCorefile : Files, prevZones : Files,
                 runCorefile : Files, runZones : Files]

ControlInit ==
    /\ nginx = [active |-> Baked, running |-> Baked, stable |-> None,
                prev |-> None, backup |-> None]
    /\ coredns = [corefile |-> Baked, zones |-> Baked,
                  prevCorefile |-> None, prevZones |-> None,
                  runCorefile |-> Baked, runZones |-> Baked]
    /\ candidate = [s \in Services |-> None]

ControlTypeOK ==
    /\ nginx \in NginxState
    /\ coredns \in CoreDNSState
    /\ candidate \in [Services -> Files]

Outcome(st, reply, cost) == [st |-> st, reply |-> reply, cost |-> cost]

-----------------------------------------------------------------------------
(***************************************************************************)
(* promoteNginx: back up the active file in the container, copy the        *)
(* candidate over it, then persist the old contents as the previous and    *)
(* the candidate as the stable file.  A failed step puts the old contents  *)
(* back in the container; the put may fail as well.                        *)
(***************************************************************************)
PromoteNginx(n, r) ==
    LET saved == [n EXCEPT !.backup = n.active]
        done  == [saved EXCEPT !.active = r, !.prev = n.active, !.stable = r]
    IN  {Outcome(done, "ok", 0),
         Outcome([done EXCEPT !.prev = None], "ok", 1),         \* old file unreadable
         Outcome([done EXCEPT !.backup = n.backup], "ok", 1),   \* in-container backup failed
         Outcome(n, "refused", 1),                              \* candidate unreadable
         Outcome(saved, "refused", 1),                          \* copy failed
         Outcome([saved EXCEPT !.prev = n.active], "refused", 1), \* stable file not written
         Outcome([saved EXCEPT !.active = r], "refused", 2),    \* ... and not put back
         Outcome([saved EXCEPT !.active = r, !.prev = n.active], "refused", 2)}

(* Mutant of RollbackNginx: only the persistent file is restored. *)
RollbackNginxStableOnly(n) ==
    {Outcome([n EXCEPT !.stable = n.prev], "ok", 0), Outcome(n, "refused", 1)}

(***************************************************************************)
(* rollbackNginx: the previous stable file becomes stable and active; with *)
(* none, the in-container backup becomes active and the stable file goes.  *)
(* Nginx is not told to reload.                                            *)
(***************************************************************************)
RollbackNginx(n) ==
    IF n.prev # None
    THEN {Outcome([n EXCEPT !.stable = n.prev, !.active = n.prev], "ok", 0),
          Outcome(n, "refused", 1),
          Outcome([n EXCEPT !.stable = n.prev], "refused", 2)}
    ELSE IF n.backup # None
    THEN {Outcome([n EXCEPT !.active = n.backup, !.stable = None], "ok", 0),
          Outcome(n, "refused", 1),
          Outcome([n EXCEPT !.active = n.backup], "refused", 1)}
    ELSE {Outcome(n, "refused", 0)}

(* nginx -s reload *)
ReloadNginx(n) ==
    {Outcome([n EXCEPT !.running = n.active], "ok", 0), Outcome(n, "refused", 1)}

(* ClassifyNginxActiveConfig: the active file must be the stable one and r's. *)
NginxHealthy(n, r) == n.active = n.stable /\ n.active = r

(***************************************************************************)
(* probeNginxActiveConfig: an active file that cannot be read, or that     *)
(* nginx -t refuses, is reported as drift as well.                         *)
(***************************************************************************)
HealthNginx(n, r) ==
    {Outcome(n, IF NginxHealthy(n, r) THEN "ok" ELSE "drift", 0),
     Outcome(n, "drift", 1),
     Outcome(n, "refused", 1)}

(***************************************************************************)
(* promoteCoreDNS: save the live Corefile and the zone directory, replace  *)
(* the zones, then the Corefile.  A failure after the saves restores both, *)
(* as far as the restore itself succeeds.                                  *)
(***************************************************************************)
PromoteCoreDNS(c, r) ==
    LET half  == [c EXCEPT !.prevCorefile = c.corefile]
        saved == [half EXCEPT !.prevZones = c.zones]
    IN  {Outcome([saved EXCEPT !.zones = r, !.corefile = r], "ok", 0),
         Outcome(c, "refused", 1),
         Outcome(half, "refused", 1),
         Outcome([half EXCEPT !.prevZones = None], "refused", 1),
         Outcome(saved, "refused", 1),
         Outcome([saved EXCEPT !.zones = None], "refused", 2),
         Outcome([saved EXCEPT !.zones = r], "refused", 2),
         Outcome([saved EXCEPT !.corefile = r], "refused", 2)}

(* Mutant of RollbackCoreDNS: the zone files are forgotten. *)
RollbackCoreDNSKeepsZones(c) ==
    {Outcome([c EXCEPT !.corefile = c.prevCorefile], "ok", 0), Outcome(c, "refused", 1)}

(* rollbackCoreDNS: the saved Corefile first, then the saved zones. *)
RollbackCoreDNS(c) ==
    LET file == [c EXCEPT !.corefile = c.prevCorefile]
    IN  IF c.prevCorefile = None
        THEN {Outcome(c, "refused", 0)}
        ELSE {Outcome([file EXCEPT !.zones = c.prevZones], "ok", 0),
              Outcome(c, "refused", 1),
              Outcome(file, "refused", 1),
              Outcome([file EXCEPT !.zones = None], "refused", 1)}

(* A container restart loads the files; the call may fail before or after. *)
CoreDNSLoaded(c) == [c EXCEPT !.runCorefile = c.corefile, !.runZones = c.zones]

ReloadCoreDNS(c) ==
    {Outcome(CoreDNSLoaded(c), "ok", 0), Outcome(c, "refused", 1),
     Outcome(CoreDNSLoaded(c), "refused", 1)}

(* The CoreDNS check only asks whether the container runs. *)
HealthCoreDNS(c) == {Outcome(c, "ok", 0), Outcome(c, "refused", 1)}

-----------------------------------------------------------------------------
NginxOutcomes(op, r) ==
    CASE op = "promote"  -> PromoteNginx(nginx, r)
      [] op = "reload"   -> ReloadNginx(nginx)
      [] op = "health"   -> HealthNginx(nginx, r)
      [] op = "rollback" -> RollbackNginx(nginx)

CoreDNSOutcomes(op, r) ==
    CASE op = "promote"  -> PromoteCoreDNS(coredns, r)
      [] op = "reload"   -> ReloadCoreDNS(coredns)
      [] op = "health"   -> HealthCoreDNS(coredns)
      [] op = "rollback" -> RollbackCoreDNS(coredns)

(***************************************************************************)
(* The helper runs the handler of operation op on one service for revision *)
(* r, replies `reply', and `cost' calls fail on the way.                   *)
(***************************************************************************)
Handle(op, svc, r, reply, cost) ==
    /\ UNCHANGED candidate
    /\ \/ /\ svc = "nginx"
          /\ \E o \in NginxOutcomes(op, r) :
                nginx' = o.st /\ reply = o.reply /\ cost = o.cost
          /\ UNCHANGED coredns
       \/ /\ svc = "coredns"
          /\ \E o \in CoreDNSOutcomes(op, r) :
                coredns' = o.st /\ reply = o.reply /\ cost = o.cost
          /\ UNCHANGED nginx

(* The worker writes the candidate files of r for one service. *)
WriteCandidate(svc, r) ==
    /\ candidate' = [candidate EXCEPT ![svc] = r]
    /\ UNCHANGED <<nginx, coredns>>

(***************************************************************************)
(* The helper starts: a Corefile that is still the image default is        *)
(* replaced by the newest candidate Corefile and CoreDNS is restarted; a   *)
(* failed restart is only logged.                                          *)
(***************************************************************************)
Seedable == coredns.corefile = Baked /\ candidate["coredns"] # None

StartupSeed ==
    /\ Seedable
    /\ LET seeded == [coredns EXCEPT !.corefile = candidate["coredns"]]
       IN  coredns' \in {CoreDNSLoaded(seeded), seeded}
    /\ UNCHANGED <<nginx, candidate>>

(***************************************************************************)
(* The Nginx container starts (a recreated one has lost its own layer).    *)
(* The entrypoint installs the first of stable, previous stable and newest *)
(* candidate that exists and passes nginx -t; `bad' are the ones that do   *)
(* not.                                                                    *)
(***************************************************************************)
NginxStart(recreated, bad) ==
    LET layer == IF recreated THEN [nginx EXCEPT !.active = Baked, !.backup = None] ELSE nginx
        good(f) == f # None /\ f \notin bad
        conf == IF good(nginx.stable) THEN nginx.stable
                ELSE IF good(nginx.prev) THEN nginx.prev
                ELSE IF good(candidate["nginx"]) THEN candidate["nginx"]
                ELSE layer.active
    IN  /\ nginx' = [layer EXCEPT !.active = conf, !.running = conf]
        /\ UNCHANGED <<coredns, candidate>>

(* The CoreDNS container starts. *)
CoreDNSStart ==
    /\ coredns' = CoreDNSLoaded(coredns)
    /\ UNCHANGED <<nginx, candidate>>

(* The Corefile's reload plugin notices that the Corefile changed. *)
CoreDNSAutoReload ==
    /\ coredns.corefile # coredns.runCorefile
    /\ coredns' = CoreDNSLoaded(coredns)
    /\ UNCHANGED <<nginx, candidate>>
=============================================================================
