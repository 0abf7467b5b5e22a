------------------------------ MODULE Topology ------------------------------
(***************************************************************************)
(* Roles, leadership generations and cluster keys of several installations:*)
(* identity.Service with its row and its cache, promote and demote, tokens *)
(* and grants, and the enrollment of one installation as a node of another.*)
(*                                                                         *)
(* The mutex of identity.Service makes each of its methods one step for    *)
(* everyone who asks the service, so a method is one action; where it      *)
(* makes several writes, the action may also stop after any of them.       *)
(* Snapshots and their import are in NodeSync: here an import succeeds or  *)
(* fails.  An installation has one enrollment draft at a time.             *)
(***************************************************************************)
EXTENDS Integers, Sequences

CONSTANTS Installations,
          None,
          MaxGen,      \* bound on leadership generations
          MaxKeys,     \* bound on the cluster keys an installation mints
          MaxTokens,   \* bound on the enrollment tokens it creates
          MaxDrafts,   \* bound on the enrollments it starts
          MaxFaults,   \* bound on failures and restarts
          FaultKinds   \* those the run allows

ASSUME TopologyAssumption ==
    /\ None \notin Installations \X Nat
    /\ None \notin Installations
    /\ MaxDrafts \in Nat

VARIABLES
    row,      \* installation_identity
    mem,      \* identity.Service.cached
    ring,     \* cluster_keys in created_at order
    retired,  \* those with retired_at
    minted,   \* keys the installation created itself
    trust,    \* its enrollment TLS material exists
    tokens,   \* created and usable enrollment tokens
    cred,     \* cred[p][n]: p's credential for node n
    att,      \* the enrollment draft and how far its confirm got
    drafts,   \* drafts started so far
    bound,    \* node_state: the primary it is bound to
    flag,     \* the stored NodeSyncProgress.unlinked
    overlay,  \* Identity.NodeUnlinked, in memory
    joined,   \* the highest generation it committed an enrollment under
    faults    \* faults so far

idVars == <<row, mem>>
keyVars == <<ring, retired, minted>>
joinVars == <<att, drafts, bound, flag, overlay, joined>>
vars == <<row, mem, ring, retired, minted, trust, tokens, cred, att, drafts, bound,
          flag, overlay, joined, faults>>

Keys == Installations \X Nat
Roles == {"standalone", "primary", "with-nodes", "node", "stale"}
Leading == {"primary", "with-nodes"}
PrimaryRoles == {"standalone"} \cup Leading

NoDraft == [pc |-> "none", at |-> None, gen |-> 0, grant |-> None]
NoCred == [st |-> "none", gen |-> 0, key |-> None]

Init ==
    /\ row = [i \in Installations |->
                 [role |-> "standalone", gen |-> 1, latest |-> 1, key |-> None]]
    /\ mem = row
    /\ ring = [i \in Installations |-> <<>>]
    /\ retired = [i \in Installations |-> {}]
    /\ minted = [i \in Installations |-> 0]
    /\ trust = [i \in Installations |-> FALSE]
    /\ tokens = [i \in Installations |-> [made |-> 0, usable |-> 0]]
    /\ cred = [p \in Installations |-> [n \in Installations |-> NoCred]]
    /\ att = [i \in Installations |-> NoDraft]
    /\ drafts = [i \in Installations |-> 0]
    /\ bound = [i \in Installations |-> None]
    /\ flag = [i \in Installations |-> FALSE]
    /\ overlay = [i \in Installations |-> FALSE]
    /\ joined = [i \in Installations |-> 0]
    /\ faults = 0

Fault(k) ==
    /\ k \in FaultKinds
    /\ faults < MaxFaults
    /\ faults' = faults + 1

-----------------------------------------------------------------------------
(* The predicates of identity.Identity. *)

IsStalePrimary(id) == id.role = "stale" \/ id.gen < id.latest

CanEnrollAsNode(n) ==
    \/ mem[n].role \in {"standalone", "primary", "stale"}
    \/ mem[n].role = "node" /\ (mem[n].key = None \/ overlay[n])

(* validExpectedPrimary and validSnapshotByTokenIdentity. *)
Publishes(id) == id.role \in Leading /\ id.gen = id.latest

-----------------------------------------------------------------------------
(* The local cluster keys. *)

Held(i) == {ring[i][k] : k \in DOMAIN ring[i]}
Live(i) == Held(i) \ retired[i]

(* loadOldest. *)
Oldest(i) ==
    LET first == CHOOSE k \in DOMAIN ring[i] :
                    /\ ring[i][k] \in Live(i)
                    /\ \A l \in DOMAIN ring[i] : ring[i][l] \in Live(i) => k <= l
    IN  ring[i][first]

NewKey(i) == <<i, minted[i] + 1>>

(* ensureClusterKeyLocked on identity id: nothing to do unless it may lead. *)
Unkeyed(id) == id.key = None /\ id.role \in PrimaryRoles

Mint(i) ==
    /\ minted[i] < MaxKeys
    /\ minted' = [minted EXCEPT ![i] = @ + 1]
    /\ ring' = [ring EXCEPT ![i] = Append(@, NewKey(i))]

(* Mutant of ProvisionedKey: retired keys are loaded too. *)
ProvisionedAny(i) == IF ring[i] # <<>> THEN ring[i][1] ELSE NewKey(i)

(* LoadOrCreate(nil): the oldest live key, or a new one if none lives. *)
ProvisionedKey(i) == IF Live(i) # {} THEN Oldest(i) ELSE NewKey(i)

LoadOrCreate(i) ==
    IF Live(i) # {} THEN UNCHANGED keyVars ELSE Mint(i) /\ UNCHANGED retired

EnsuredKey(i) == IF Unkeyed(mem[i]) THEN ProvisionedKey(i) ELSE mem[i].key

EnsureClusterKey(i) == IF Unkeyed(mem[i]) THEN LoadOrCreate(i) ELSE UNCHANGED keyVars

-----------------------------------------------------------------------------
(* Promotion and demotion: one transaction each, then the cache. *)

Revoked(c) == IF c.st = "active" THEN [c EXCEPT !.st = "revoked"] ELSE c

(* sqliteRetireClusterRelationships, the credentials. *)
RevokeAll(p) == cred' = [cred EXCEPT ![p] = [n \in Installations |-> Revoked(@[n])]]

NextGeneration(id) == IF id.latest >= id.gen + 1 THEN id.latest + 1 ELSE id.gen + 1

(* The store checks the role and the generation again. *)
StoreAgrees(i) == row[i].role = mem[i].role /\ row[i].gen = mem[i].gen

(* A promotion whose identity gets key k, with the key rows that leaves. *)
PromoteWith(p, k) ==
    /\ mem[p].role \in {"node", "stale", "standalone"}
    /\ StoreAgrees(p)
    /\ NextGeneration(mem[p]) > row[p].latest
    /\ NextGeneration(mem[p]) <= MaxGen
    /\ LET g == NextGeneration(mem[p])
           Lead(id) == [role |-> "primary", gen |-> g, latest |-> g, key |-> k]
       IN  /\ row' = [row EXCEPT ![p] = Lead(@)]
           /\ mem' = [mem EXCEPT ![p] = Lead(@)]
    /\ RevokeAll(p)
    /\ retired' = [retired EXCEPT ![p] = Held(p)]
    /\ bound' = [bound EXCEPT ![p] = None]
    /\ flag' = [flag EXCEPT ![p] = FALSE]
    /\ UNCHANGED <<trust, tokens, att, drafts, overlay, joined>>

(* Every key was just retired, so the provisioner mints one. *)
Promote(p) == PromoteWith(p, NewKey(p)) /\ Mint(p) /\ UNCHANGED faults

(* The commit stands when the key cannot be created or recorded. *)
PromoteUnkeyed(p) ==
    /\ PromoteWith(p, None)
    /\ Fault("key")
    /\ \/ UNCHANGED <<ring, minted>>
       \/ Mint(p)

(* Mutant of Demote: the cache keeps the retired key. *)
DemoteCached(p) ==
    /\ mem[p].role \in Leading
    /\ StoreAgrees(p)
    /\ row' = [row EXCEPT ![p].role = "node", ![p].key = None]
    /\ mem' = [mem EXCEPT ![p].role = "node"]
    /\ RevokeAll(p)
    /\ retired' = [retired EXCEPT ![p] = Held(p)]
    /\ UNCHANGED <<ring, minted, trust, tokens, joinVars, faults>>

(* Convert to NODE: the generation and the node's own binding stay. *)
Demote(p) ==
    /\ mem[p].role \in Leading
    /\ StoreAgrees(p)
    /\ LET Step(id) == [id EXCEPT !.role = "node", !.key = None]
       IN  /\ row' = [row EXCEPT ![p] = Step(@)]
           /\ mem' = [mem EXCEPT ![p] = Step(@)]
    /\ RevokeAll(p)
    /\ retired' = [retired EXCEPT ![p] = Held(p)]
    /\ UNCHANGED <<ring, minted, trust, tokens, joinVars, faults>>

-----------------------------------------------------------------------------
(* Enrollment on the primary: TLS material, tokens, grants, unlinking. *)

(* Material that exists and is still good is kept. *)
EnsureEnrollmentTLSMaterial(p) == ~trust[p] /\ trust' = [trust EXCEPT ![p] = TRUE]

(* The supervisor's reconcile of an installation that leads. *)
EnsureTLSMaterial(p) ==
    /\ mem[p].role \in Leading /\ ~IsStalePrimary(mem[p])
    /\ EnsureEnrollmentTLSMaterial(p)
    /\ UNCHANGED <<idVars, keyVars, tokens, cred, joinVars, faults>>

(* A token carries the enrollment CA, so its material must exist. *)
resolveEnrollmentTokenRoute(p) == trust[p]

(* CreateEnrollmentToken on the row, in the transaction of the activation. *)
InsertToken(p) ==
    /\ row[p].role \in PrimaryRoles /\ row[p].gen >= row[p].latest
    /\ tokens' = [tokens EXCEPT ![p] = [made |-> @.made + 1, usable |-> @.usable + 1]]

(***************************************************************************)
(* The owner creates a token.  The cluster key is provisioned, then one    *)
(* transaction turns standalone into primary and inserts the token.        *)
(***************************************************************************)
CreateToken(p) ==
    /\ resolveEnrollmentTokenRoute(p)
    /\ tokens[p].made < MaxTokens
    /\ InsertToken(p)
    /\ EnsureClusterKey(p)
    /\ LET role == IF row[p].role = "standalone" THEN "primary" ELSE row[p].role
           Step(id) == [id EXCEPT !.role = role, !.key = EnsuredKey(p)]
       IN  /\ row' = [row EXCEPT ![p] = Step(@)]
           /\ mem' = [mem EXCEPT ![p] = Step(@)]
    /\ UNCHANGED <<trust, cred, joinVars, faults>>

(* An activation fails after its provisioning, or in its second write.     *)
(* Only the key can change, and only once, so these failures need no bound.*)
ActivationFails(p) ==
    /\ resolveEnrollmentTokenRoute(p)
    /\ Unkeyed(mem[p])
    /\ LoadOrCreate(p)
    /\ \/ UNCHANGED idVars
       \/ /\ row' = [row EXCEPT ![p].key = ProvisionedKey(p)]
          /\ mem' = [mem EXCEPT ![p].key = ProvisionedKey(p)]
    /\ UNCHANGED <<trust, tokens, cred, joinVars, faults>>

(* CheckEnrollmentToken: neither consumed nor revoked nor expired. *)
CheckEnrollmentToken(p) == tokens[p].usable > 0

(* A token expires or is revoked; only then may it be deleted. *)
TokenLapses(p) ==
    /\ CheckEnrollmentToken(p)
    /\ tokens' = [tokens EXCEPT ![p].usable = @ - 1]
    /\ UNCHANGED <<idVars, keyVars, trust, cred, joinVars, faults>>

(* The owner of p unlinks node n. *)
UnlinkEnrolledNode(p, n) ==
    /\ mem[p].role \in Leading /\ ~IsStalePrimary(mem[p])
    /\ cred[p][n].st \in {"active", "revoked"}
    /\ cred' = [cred EXCEPT ![p][n].st = "unlinked"]
    /\ UNCHANGED <<idVars, keyVars, trust, tokens, joinVars, faults>>

-----------------------------------------------------------------------------
(* Enrollment of n as a node of p. *)

Stage(n, pc) == att' = [att EXCEPT ![n].pc = pc]
DropDraft(n) == att' = [att EXCEPT ![n] = NoDraft]

(* The store's answer to a token: the row leads, with the key it loads. *)
readByToken(p) ==
    /\ Publishes(row[p])
    /\ row[p].key # None
    /\ Oldest(p) = row[p].key

(* The handler asks the cache and the key store before the store. *)
readSnapshot(p) ==
    /\ CheckEnrollmentToken(p)
    /\ Publishes(mem[p])
    /\ Live(p) # {}
    /\ readByToken(p)

(* The draft cache replaces what the selector held. *)
PutDraft(n, p) ==
    /\ att' = [att EXCEPT ![n] = [NoDraft EXCEPT !.pc = "draft", !.at = p, !.gen = row[p].gen]]
    /\ drafts' = [drafts EXCEPT ![n] = @ + 1]

(* The owner of n previews p's snapshot: p answers for a usable token. *)
Preview(n, p) ==
    /\ n # p
    /\ att[n].pc = "none"
    /\ drafts[n] < MaxDrafts
    /\ readSnapshot(p)
    /\ PutDraft(n, p)
    /\ UNCHANGED <<idVars, keyVars, trust, tokens, cred, bound, flag, overlay, joined,
                   faults>>

DraftExpires(n) ==
    /\ att[n].pc = "draft"
    /\ DropDraft(n)
    /\ UNCHANGED <<idVars, keyVars, trust, tokens, cred, drafts, bound, flag, overlay, joined, faults>>

(* The handler confirms a draft it still holds, on an eligible installation. *)
Confirms(n) == att[n].pc = "draft" /\ CanEnrollAsNode(n)

(* What a grant is bound to: the attempt, both ends and the generation. *)
confirmBinding(n) == [attempt |-> drafts[n], primary |-> att[n].at, target |-> n, gen |-> att[n].gen]

(* The key and the credential are sealed under the binding; another opens nothing. *)
SealBootstrap(binding, k) == [binding |-> binding, key |-> k]

OpenBootstrap(grant, binding) == grant.binding = binding

(* What the exchange asks of p before it looks at the token's use. *)
Expected(n, p) == Publishes(row[p]) /\ row[p].gen = att[n].gen

(* The first exchange of a draft: a live credential is never replaced. *)
FreshGrant(n, p) ==
    /\ Expected(n, p)
    /\ att[n].grant = None
    /\ CheckEnrollmentToken(p)
    /\ cred[p][n].st # "active"

(* The same attempt again: the stored grant, whatever became of the token. *)
matchesRetry(n, p) ==
    /\ Expected(n, p)
    /\ att[n].grant # None /\ OpenBootstrap(att[n].grant, confirmBinding(n))

(* The client's exchange of draft n: the grant is stored, the answer may be lost. *)
Exchange(n, grant) ==
    \E pc \in {"draft", "granted"} :
        /\ att' = [att EXCEPT ![n] = [@ EXCEPT !.pc = pc, !.grant = grant]]
        /\ IF pc = "draft" THEN Fault("lost") ELSE UNCHANGED faults

(* A fresh grant consumes the token and stores credential, node and grant. *)
IssueGrant(n, p, k) ==
    /\ cred' = [cred EXCEPT ![p][n] = [st |-> "active", gen |-> att[n].gen, key |-> k]]
    /\ tokens' = [tokens EXCEPT ![p].usable = @ - 1]
    /\ Exchange(n, SealBootstrap(confirmBinding(n), k))

(* A denied exchange ends the draft. *)
writeExchangeFailure(n) == DropDraft(n)

(***************************************************************************)
(* The owner of n confirms and p exchanges the token for a grant, in one   *)
(* transaction under p's identity lock, after the provisioning of p's key. *)
(* The exchange of a retried confirm answers with the stored grant.        *)
(***************************************************************************)
Grant(n, p) ==
    /\ Confirms(n) /\ att[n].at = p
    /\ EnsureClusterKey(p)
    /\ LET k == EnsuredKey(p)
           Step(id) == [id EXCEPT !.key = k, !.role = IF FreshGrant(n, p) THEN "with-nodes" ELSE @]
       IN  /\ row' = [row EXCEPT ![p] = Step(@)]
           /\ mem' = [mem EXCEPT ![p] = Step(@)]
           /\ \/ FreshGrant(n, p) /\ IssueGrant(n, p, k)
              \/ matchesRetry(n, p) /\ Stage(n, "granted") /\ UNCHANGED <<cred, tokens, faults>>
              \/ /\ ~FreshGrant(n, p) /\ ~matchesRetry(n, p)
                 /\ writeExchangeFailure(n)
                 /\ UNCHANGED <<cred, tokens, faults>>
    /\ UNCHANGED <<trust, drafts, bound, flag, overlay, joined>>

(* Accept: p's key is imported, or reactivated with its old created_at. *)
Accept(n) ==
    /\ att[n].pc = "granted"
    /\ OpenBootstrap(att[n].grant, confirmBinding(n))
    /\ ring' = [ring EXCEPT ![n] = IF att[n].grant.key \in Held(n) THEN @ ELSE Append(@, att[n].grant.key)]
    /\ retired' = [retired EXCEPT ![n] = @ \ {att[n].grant.key}]
    /\ Stage(n, "accepted")
    /\ UNCHANGED <<idVars, minted, trust, tokens, cred, drafts, bound, flag, overlay, joined, faults>>

(***************************************************************************)
(* The accepted key must still load.  BindNodeSync then starts new         *)
(* progress, without the unlinked flag.                                    *)
(***************************************************************************)
Bind(n) ==
    /\ att[n].pc = "accepted"
    /\ \/ /\ att[n].grant.key \in Live(n)
          /\ bound' = [bound EXCEPT ![n] = att[n].at]
          /\ flag' = [flag EXCEPT ![n] = FALSE]
          /\ Stage(n, "bound")
       \/ /\ att[n].grant.key \notin Live(n)
          /\ Stage(n, "draft")
          /\ UNCHANGED <<bound, flag>>
    /\ UNCHANGED <<idVars, keyVars, trust, tokens, cred, drafts, overlay, joined, faults>>

(* Convert imports and waits for the apply. *)
Import(n) ==
    /\ att[n].pc = "bound"
    /\ Stage(n, IF CanEnrollAsNode(n) THEN "importing" ELSE "draft")
    /\ UNCHANGED <<idVars, keyVars, trust, tokens, cred, drafts, bound, flag, overlay, joined, faults>>

ImportFails(n) ==
    /\ att[n].pc = "importing"
    /\ Fault("apply")
    /\ Stage(n, "draft")
    /\ UNCHANGED <<idVars, keyVars, trust, tokens, cred, drafts, bound, flag, overlay, joined>>

(* The three writes of CommitNodeEnrollment, in order. *)
AfterRole(id) == [id EXCEPT !.role = "node"]

(* Mutant of AfterGeneration: the primary's generation is not adopted. *)
AfterGenerationIgnored(id, g) == AfterRole(id)

AfterGeneration(id, g) ==
    IF g > id.gen
    THEN [AfterRole(id) EXCEPT !.gen = g, !.latest = IF g > @ THEN g ELSE @]
    ELSE AfterRole(id)

AfterKey(id, g, k) == [AfterGeneration(id, g) EXCEPT !.key = k]

AlreadyCommitted(n) ==
    /\ mem[n].role = "node"
    /\ mem[n].key = att[n].grant.key
    /\ mem[n].gen >= att[n].gen

Joins(n) == joined' = [joined EXCEPT ![n] = IF att[n].gen > @ THEN att[n].gen ELSE @]

(* Mutant of CommitNodeEnrollment: eligibility is not checked again. *)
CommitAnyway(n) ==
    /\ att[n].pc = "importing"
    /\ row' = [row EXCEPT ![n] = AfterKey(@, att[n].gen, att[n].grant.key)]
    /\ mem' = [mem EXCEPT ![n] = AfterKey(@, att[n].gen, att[n].grant.key)]
    /\ overlay' = [overlay EXCEPT ![n] = FALSE]
    /\ Joins(n)
    /\ DropDraft(n)
    /\ UNCHANGED <<keyVars, trust, tokens, cred, drafts, bound, flag, faults>>

(* The apply succeeded: the commit point, or its refusal. *)
CommitNodeEnrollment(n) ==
    /\ att[n].pc = "importing"
    /\ IF AlreadyCommitted(n) \/ CanEnrollAsNode(n)
       THEN /\ IF AlreadyCommitted(n)
               THEN UNCHANGED idVars
               ELSE /\ row' = [row EXCEPT ![n] = AfterKey(@, att[n].gen, att[n].grant.key)]
                    /\ mem' = [mem EXCEPT ![n] = AfterKey(@, att[n].gen, att[n].grant.key)]
            /\ overlay' = [overlay EXCEPT ![n] = FALSE]
            /\ Joins(n)
            /\ DropDraft(n)
       ELSE /\ Stage(n, "draft")
            /\ UNCHANGED <<idVars, overlay, joined>>
    /\ UNCHANGED <<keyVars, trust, tokens, cred, drafts, bound, flag, faults>>

(* The second or the third write fails; the earlier ones stay. *)
CommitStops(n) ==
    /\ att[n].pc = "importing"
    /\ ~AlreadyCommitted(n) /\ CanEnrollAsNode(n)
    /\ Fault("commit")
    /\ \/ /\ row' = [row EXCEPT ![n] = AfterRole(@)]
          /\ mem' = [mem EXCEPT ![n] = AfterRole(@)]
          /\ UNCHANGED joined
       \/ /\ row' = [row EXCEPT ![n] = AfterGeneration(@, att[n].gen)]
          /\ mem' = [mem EXCEPT ![n] = AfterGeneration(@, att[n].gen)]
          /\ Joins(n)
    /\ Stage(n, "draft")
    /\ UNCHANGED <<keyVars, trust, tokens, cred, drafts, bound, flag, overlay>>

(* A sync cycle of n gets the NODE_UNLINKED answer. *)
LearnUnlink(n) ==
    /\ mem[n].role = "node" /\ bound[n] # None /\ ~flag[n]
    /\ cred[bound[n]][n].st = "unlinked"
    /\ flag' = [flag EXCEPT ![n] = TRUE]
    /\ overlay' = [overlay EXCEPT ![n] = TRUE]
    /\ UNCHANGED <<idVars, keyVars, trust, tokens, cred, att, drafts, bound, joined,
                   faults>>

(* The process restarts: rows survive; the drafts and the overlay do not. *)
Restart(i) ==
    /\ Fault("restart")
    /\ mem' = [mem EXCEPT ![i] = row[i]]
    /\ overlay' = [overlay EXCEPT ![i] = flag[i]]
    /\ DropDraft(i)
    /\ UNCHANGED <<row, keyVars, trust, tokens, cred, drafts, bound, flag, joined>>

Join(n) ==
    \/ DraftExpires(n) \/ Accept(n) \/ Bind(n) \/ Import(n) \/ ImportFails(n)
    \/ CommitNodeEnrollment(n) \/ CommitStops(n) \/ LearnUnlink(n)

Lead(p) ==
    \/ Promote(p) \/ PromoteUnkeyed(p) \/ Demote(p) \/ EnsureTLSMaterial(p)
    \/ CreateToken(p) \/ ActivationFails(p) \/ TokenLapses(p)

Next ==
    \E i \in Installations :
        \/ Lead(i) \/ Join(i) \/ Restart(i)
        \/ \E j \in Installations : Preview(i, j) \/ Grant(i, j) \/ UnlinkEnrolledNode(i, j)

Spec == Init /\ [][Next]_vars

-----------------------------------------------------------------------------
(***************************************************************************)
(* Handlers decide on the cache of identity.Service, transactions on the   *)
(* row: after every operation, one that failed half way or a restart       *)
(* included, the two agree.                                                *)
(***************************************************************************)
MemIsRow == mem = row

(***************************************************************************)
(* A node adopts the generation of the primary it joins, so whenever an    *)
(* installation leads, its generation is above that of every primary it    *)
(* was a node of (CommitNodeEnrollment, Promote).                          *)
(***************************************************************************)
LeadsAboveJoined == \A i \in Installations : row[i].role \in PrimaryRoles => row[i].gen > joined[i]

(***************************************************************************)
(* Leadership and its keys and credentials go together.  The cluster key   *)
(* of an installation that leads is a live row of its cluster_keys: it can *)
(* seal and open (ensureClusterKeyLocked, and every transaction that       *)
(* retires keys).  Credentials in force are those of the current           *)
(* leadership: the issuer still leads, at the generation and under the     *)
(* cluster key the credential was granted with (PromoteTopology and        *)
(* DemoteTopology revoke, an issuer with nodes cannot enroll elsewhere).   *)
(***************************************************************************)
LeadershipHolds ==
    /\ \A i \in Installations :
          row[i].role \in PrimaryRoles /\ row[i].key # None => row[i].key \in Live(i)
    /\ \A p, n \in Installations :
          cred[p][n].st = "active" =>
              /\ row[p].role = "with-nodes"
              /\ row[p].gen = cred[p][n].gen /\ row[p].latest = cred[p][n].gen
              /\ row[p].key = cred[p][n].key

(***************************************************************************)
(* The comment in handleConfirm: an enrolled node never exists without the *)
(* binding continuous sync needs.                                          *)
(***************************************************************************)
EnrolledIsBound ==
    \A i \in Installations : row[i].role = "node" /\ row[i].key # None => bound[i] # None
=============================================================================
