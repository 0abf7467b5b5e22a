--------------------------- MODULE TopologyProofs ---------------------------
(***************************************************************************)
(* Proofs about roles, leadership generations, cluster keys and credentials,*)
(* for any set of installations and any number of promotions, demotions,   *)
(* tokens, enrollments, failures and restarts.                             *)
(***************************************************************************)
EXTENDS Topology, WellFoundedInduction, TLAPS

-----------------------------------------------------------------------------
(* The inductive invariant. *)

Identities == [role : Roles, gen : Nat, latest : Nat, key : Keys \cup {None}]

Credentials ==
    [st : {"none", "active", "revoked", "unlinked"}, gen : Nat, key : Keys \cup {None}]

Bindings ==
    [attempt : Nat, primary : Installations \cup {None}, target : Installations, gen : Nat]

(* An attempt that holds p's answer. *)
Granted == {"granted", "accepted", "bound", "importing"}

Attempts ==
    [pc : {"none", "draft"} \cup Granted,
     at : Installations \cup {None}, gen : Nat,
     grant : [binding : Bindings, key : Keys] \cup {None}]

TypeOK ==
    /\ row \in [Installations -> Identities]
    /\ mem \in [Installations -> Identities]
    /\ ring \in [Installations -> Seq(Keys)]
    /\ retired \in [Installations -> SUBSET Keys]
    /\ minted \in [Installations -> Nat]
    /\ cred \in [Installations -> [Installations -> Credentials]]
    /\ att \in [Installations -> Attempts]
    /\ drafts \in [Installations -> Nat]
    /\ joined \in [Installations -> Nat]

(* The keys some installation has created. *)
MintedKeys == {k \in Keys : k[2] <= minted[k[1]]}

(* Keys travel only as grants: every copy of one was minted by its maker. *)
KeysAreMinted ==
    \A i \in Installations : Held(i) \subseteq MintedKeys /\ retired[i] \subseteq Held(i)

GrantsAreMinted ==
    \A n \in Installations :
        att[n].pc \in Granted \/ att[n].grant # None => att[n].grant.key \in MintedKeys

(* The generation never falls behind one the installation joined. *)
JoinedBelow == \A i \in Installations : joined[i] <= row[i].gen

(* Credentials are issued under a key. *)
IssuersAreKeyed ==
    \A p, n \in Installations : cred[p][n].st = "active" => row[p].key # None

TopologyInv ==
    /\ TypeOK
    /\ MemIsRow
    /\ KeysAreMinted
    /\ GrantsAreMinted
    /\ JoinedBelow
    /\ LeadsAboveJoined
    /\ LeadershipHolds
    /\ IssuersAreKeyed

-----------------------------------------------------------------------------
(* The key store. *)

LEMMA LeastExists ==
    ASSUME NEW S \in SUBSET Nat, S # {}
    PROVE  \E x \in S : \A y \in S : x <= y
<1> DEFINE below == {ss \in Nat \X Nat : ss[1] < ss[2]}
<1>1. OpToRel(<, Nat) = below
    BY Zenon DEF OpToRel
<1>2. IsWellFoundedOn(below, Nat)
    BY <1>1, NatLessThanWellFounded, Zenon
<1> HIDE DEF below
<1>3. \E x \in S : \A y \in S : ~(<<y, x>> \in below)
    BY <1>2, WFMin, Zenon
<1>4. ASSUME NEW x \in Nat, NEW y \in Nat, ~(<<y, x>> \in below) PROVE x <= y
    BY <1>4 DEF below
<1>5. QED
    BY <1>3, <1>4, Zenon

LEMMA HeldKeys ==
    ASSUME TypeOK, NEW i \in Installations
    PROVE  Held(i) \subseteq Keys /\ Live(i) \subseteq Held(i)
BY DEF TypeOK, Held, Live

(* loadOldest finds a live key when there is one. *)
LEMMA OldestLives ==
    ASSUME TypeOK, NEW i \in Installations, Live(i) # {}
    PROVE  Oldest(i) \in Live(i)
<1> DEFINE lives == {k \in DOMAIN ring[i] : ring[i][k] \in Live(i)}
<1>1. DOMAIN ring[i] \subseteq Nat
    BY DEF TypeOK
<1>2. lives # {}
    BY Zenon DEF Live, Held
<1>3. \E k \in lives : \A l \in lives : k <= l
    BY <1>1, <1>2, LeastExists, Zenon
<1>4. \E k \in DOMAIN ring[i] :
          /\ ring[i][k] \in Live(i)
          /\ \A l \in DOMAIN ring[i] : ring[i][l] \in Live(i) => k <= l
    BY <1>3, Zenon
<1>5. QED
    BY <1>4, Zenon DEF Oldest

LEMMA NewKeyIsNew ==
    ASSUME TypeOK, KeysAreMinted, NEW i \in Installations
    PROVE  NewKey(i) \in Keys /\ NewKey(i) \notin MintedKeys /\ NewKey(i) \notin Held(i)
BY DEF TypeOK, KeysAreMinted, NewKey, MintedKeys, Keys

LEMMA MintAddsOne ==
    ASSUME TypeOK, KeysAreMinted, NEW i \in Installations, Mint(i)
    PROVE  /\ minted' \in [Installations -> Nat]
           /\ ring' \in [Installations -> Seq(Keys)]
           /\ MintedKeys \subseteq MintedKeys'
           /\ NewKey(i) \in MintedKeys'
           /\ Held(i)' = Held(i) \cup {NewKey(i)}
           /\ \A j \in Installations : j # i => Held(j)' = Held(j)
           /\ \A j \in Installations : Held(j) \subseteq Held(j)' /\ Held(j)' \subseteq MintedKeys'
<1>1. NewKey(i) \in Keys
    BY NewKeyIsNew, Zenon
<1>2. minted' \in [Installations -> Nat] /\ ring' \in [Installations -> Seq(Keys)]
    BY <1>1 DEF TypeOK, Mint
<1>3. MintedKeys \subseteq MintedKeys' /\ NewKey(i) \in MintedKeys'
    BY <1>1 DEF TypeOK, Mint, MintedKeys, Keys, NewKey
<1>4. Held(i)' = Held(i) \cup {NewKey(i)}
  <2>1. ring[i] \in Seq(Keys) /\ ring'[i] = Append(ring[i], NewKey(i))
      BY Zenon DEF TypeOK, Mint
  <2>2. QED
      BY <1>1, <2>1 DEF Held
<1>5. \A j \in Installations : j # i => Held(j)' = Held(j)
    BY Zenon DEF TypeOK, Mint, Held
<1>6. QED
    BY <1>2, <1>3, <1>4, <1>5, Zenon DEF KeysAreMinted

(* Provisioning gives an installation that may lead a live key. *)
LEMMA ProvisioningLives ==
    ASSUME TypeOK, KeysAreMinted, NEW i \in Installations, LoadOrCreate(i)
    PROVE  /\ minted' \in [Installations -> Nat]
           /\ ring' \in [Installations -> Seq(Keys)]
           /\ retired' = retired
           /\ MintedKeys \subseteq MintedKeys'
           /\ \A j \in Installations : Held(j) \subseteq Held(j)' /\ Held(j)' \subseteq MintedKeys'
           /\ ProvisionedKey(i) \in Live(i)'
           /\ ProvisionedKey(i) \in Keys
<1>1. CASE Live(i) # {}
  <2>1. UNCHANGED <<ring, retired, minted>> /\ ProvisionedKey(i) = Oldest(i)
      BY <1>1, Zenon DEF LoadOrCreate, keyVars, ProvisionedKey
  <2>2. Oldest(i) \in Live(i) /\ Oldest(i) \in Keys
      BY <1>1, OldestLives, HeldKeys, Zenon
  <2>3. MintedKeys' = MintedKeys /\ (\A j \in Installations : Held(j)' = Held(j)) /\ Live(i)' = Live(i)
      BY <2>1, Zenon DEF MintedKeys, Held, Live
  <2>4. QED
      BY <2>1, <2>2, <2>3, Zenon DEF TypeOK, KeysAreMinted
<1>2. CASE Live(i) = {}
  <2>1. Mint(i) /\ retired' = retired /\ ProvisionedKey(i) = NewKey(i)
      BY <1>2, Zenon DEF LoadOrCreate, ProvisionedKey
  <2>2. NewKey(i) \in Keys /\ NewKey(i) \notin retired[i]
      BY NewKeyIsNew, Zenon DEF KeysAreMinted
  <2>3. NewKey(i) \in Live(i)'
      BY <2>1, <2>2, MintAddsOne, Zenon DEF Live
  <2>4. QED
      BY <2>1, <2>2, <2>3, MintAddsOne, Zenon
<1>3. QED
    BY <1>1, <1>2, Zenon

(* ensureClusterKeyLocked: what the identity's key is afterwards. *)
LEMMA EnsuredLives ==
    ASSUME TopologyInv, NEW i \in Installations, EnsureClusterKey(i)
    PROVE  /\ minted' \in [Installations -> Nat]
           /\ ring' \in [Installations -> Seq(Keys)]
           /\ retired' = retired
           /\ MintedKeys \subseteq MintedKeys'
           /\ \A j \in Installations : Held(j) \subseteq Held(j)' /\ Held(j)' \subseteq MintedKeys'
           /\ row[i].role \in PrimaryRoles => EnsuredKey(i) \in Live(i)'
           /\ row[i].role \in PrimaryRoles => EnsuredKey(i) \in Keys
           /\ row[i].role \notin PrimaryRoles => EnsuredKey(i) = row[i].key
           /\ row[i].key # None => EnsuredKey(i) = row[i].key
           /\ EnsuredKey(i) \in Keys \cup {None}
<1> USE DEF TopologyInv, MemIsRow
<1>1. CASE Unkeyed(mem[i])
  <2>1. LoadOrCreate(i) /\ EnsuredKey(i) = ProvisionedKey(i)
      BY <1>1, Zenon DEF EnsureClusterKey, EnsuredKey
  <2>2. row[i].role \in PrimaryRoles /\ row[i].key = None
      BY <1>1, Zenon DEF Unkeyed
  <2>3. QED
      BY <2>1, <2>2, ProvisioningLives, Zenon
<1>2. CASE ~Unkeyed(mem[i])
  <2>1. UNCHANGED <<ring, retired, minted>> /\ EnsuredKey(i) = row[i].key
      BY <1>2, Zenon DEF EnsureClusterKey, EnsuredKey, keyVars
  <2>2. MintedKeys' = MintedKeys /\ (\A j \in Installations : Held(j)' = Held(j)) /\ Live(i)' = Live(i)
      BY <2>1, Zenon DEF MintedKeys, Held, Live
  <2>3. row[i].role \in PrimaryRoles => row[i].key \in Live(i)
      BY <1>2, Zenon DEF Unkeyed, LeadershipHolds
  <2>4. row[i].key \in Keys \cup {None}
      BY Zenon DEF TypeOK, Identities
  <2>5. QED
      BY <2>1, <2>2, <2>3, <2>4, HeldKeys, Zenon DEF TypeOK, KeysAreMinted
<1>3. QED
    BY <1>1, <1>2, Zenon

-----------------------------------------------------------------------------
(* The drafts. *)

LEMMA AttemptFields ==
    ASSUME NEW a \in Attempts, NEW pc \in {"none", "draft"} \cup Granted
    PROVE  /\ NoDraft \in Attempts
           /\ [a EXCEPT !.pc = pc] \in Attempts
           /\ [a EXCEPT !.pc = pc].grant = a.grant
           /\ [a EXCEPT !.pc = pc].pc = pc
BY Zenon DEF Attempts, NoDraft

LEMMA StageKeeps ==
    ASSUME TypeOK, GrantsAreMinted, NEW n \in Installations,
           NEW pc \in {"none", "draft"} \cup Granted, Stage(n, pc),
           pc \in Granted => att[n].pc \in Granted \/ att[n].grant # None,
           MintedKeys \subseteq MintedKeys'
    PROVE  att' \in [Installations -> Attempts] /\ GrantsAreMinted'
<1>1. att \in [Installations -> Attempts] /\ att' = [att EXCEPT ![n] = [att[n] EXCEPT !.pc = pc]]
    BY Zenon DEF TypeOK, Stage
<1>2. att' \in [Installations -> Attempts]
    BY <1>1, AttemptFields, Zenon
<1>3. ASSUME NEW m \in Installations, att'[m].pc \in Granted \/ att'[m].grant # None
      PROVE  att'[m].grant.key \in MintedKeys'
  <2>1. att'[m].grant = att[m].grant
      BY <1>1, AttemptFields
  <2>2. att[m].pc \in Granted \/ att[m].grant # None
      BY <1>1, <1>3, <2>1, AttemptFields
  <2>3. QED
      BY <2>1, <2>2, Zenon DEF GrantsAreMinted
<1>4. QED
    BY <1>2, <1>3, Zenon DEF GrantsAreMinted

LEMMA DropKeeps ==
    ASSUME TypeOK, GrantsAreMinted, NEW n \in Installations, DropDraft(n),
           MintedKeys \subseteq MintedKeys'
    PROVE  att' \in [Installations -> Attempts] /\ GrantsAreMinted'
<1>1. att \in [Installations -> Attempts] /\ att' = [att EXCEPT ![n] = NoDraft]
    BY Zenon DEF TypeOK, DropDraft
<1>2. NoDraft \in Attempts /\ NoDraft.pc \notin Granted /\ NoDraft.grant = None
    BY Zenon DEF NoDraft, Attempts, Granted
<1>3. att' \in [Installations -> Attempts]
    BY <1>1, <1>2, Zenon
<1>4. \A m \in Installations : att'[m] = IF m = n THEN NoDraft ELSE att[m]
    BY <1>1, Zenon
<1>5. QED
    BY <1>2, <1>3, <1>4, Zenon DEF GrantsAreMinted

LEMMA SameAttempts ==
    ASSUME TypeOK, GrantsAreMinted, UNCHANGED att, MintedKeys \subseteq MintedKeys'
    PROVE  att' \in [Installations -> Attempts] /\ GrantsAreMinted'
BY Zenon DEF TypeOK, GrantsAreMinted

(* A step of an attempt changes no identity, key or credential. *)
LEMMA AttemptStep ==
    ASSUME TopologyInv, UNCHANGED <<idVars, keyVars, cred, joined>>,
           att' \in [Installations -> Attempts], GrantsAreMinted',
           drafts' \in [Installations -> Nat]
    PROVE  TopologyInv'
<1>1. \A i \in Installations : Held(i)' = Held(i) /\ Live(i)' = Live(i)
    BY Zenon DEF keyVars, Held, Live
<1>2. MintedKeys' = MintedKeys
    BY Zenon DEF keyVars, MintedKeys
<1>3. TypeOK' /\ MemIsRow' /\ JoinedBelow' /\ LeadsAboveJoined'
    BY Zenon DEF TopologyInv, TypeOK, MemIsRow, JoinedBelow, LeadsAboveJoined, idVars, keyVars
<1>4. KeysAreMinted' /\ LeadershipHolds' /\ IssuersAreKeyed'
    BY <1>1, <1>2, ZenonT(60) DEF TopologyInv, KeysAreMinted, LeadershipHolds, IssuersAreKeyed, idVars, keyVars
<1>5. QED
    BY <1>3, <1>4, Zenon DEF TopologyInv

LEMMA MintedSame == ASSUME UNCHANGED keyVars PROVE MintedKeys \subseteq MintedKeys'
BY Zenon DEF keyVars, MintedKeys

LEMMA PreviewInv ==
    ASSUME TopologyInv, NEW n \in Installations, NEW p \in Installations, Preview(n, p)
    PROVE  TopologyInv'
<1> USE DEF TopologyInv
<1> DEFINE a == [NoDraft EXCEPT !.pc = "draft", !.at = p, !.gen = row[p].gen]
<1>1. att' = [att EXCEPT ![n] = a] /\ drafts' = [drafts EXCEPT ![n] = @ + 1]
    BY Zenon DEF Preview, PutDraft
<1>2. row[p].gen \in Nat
    BY Zenon DEF TypeOK, Identities
<1>3. a \in Attempts /\ a.pc \notin Granted /\ a.grant = None
    BY <1>2, Zenon DEF NoDraft, Attempts, Granted
<1> HIDE DEF a
<1>4. att' \in [Installations -> Attempts] /\ drafts' \in [Installations -> Nat]
    BY <1>1, <1>3 DEF TypeOK
<1>5. \A m \in Installations : att'[m] = IF m = n THEN a ELSE att[m]
    BY <1>1, Zenon DEF TypeOK
<1>6. UNCHANGED <<idVars, keyVars, cred, joined>>
    BY Zenon DEF Preview
<1>7. GrantsAreMinted'
    BY <1>3, <1>5, <1>6, MintedSame, Zenon DEF GrantsAreMinted
<1>8. QED
    BY <1>4, <1>6, <1>7, AttemptStep, Zenon

LEMMA QuietJoinInv ==
    ASSUME TopologyInv, NEW n \in Installations,
           DraftExpires(n) \/ Bind(n) \/ Import(n) \/ ImportFails(n) \/ LearnUnlink(n)
    PROVE  TopologyInv'
<1> USE DEF TopologyInv
<1>1. UNCHANGED <<idVars, keyVars, cred, joined, drafts>>
    BY Zenon DEF DraftExpires, Bind, Import, ImportFails, LearnUnlink
<1>2. MintedKeys \subseteq MintedKeys'
    BY <1>1, MintedSame, Zenon
<1>3. att' \in [Installations -> Attempts] /\ GrantsAreMinted'
  <2>1. CASE DraftExpires(n)
      BY <1>2, <2>1, DropKeeps, Zenon DEF DraftExpires
  <2>2. CASE Bind(n)
      BY <1>2, <2>2, StageKeeps, Zenon DEF Bind, Granted
  <2>3. CASE Import(n)
      BY <1>2, <2>3, StageKeeps, Zenon DEF Import, Granted
  <2>4. CASE ImportFails(n)
      BY <1>2, <2>4, StageKeeps, Zenon DEF ImportFails, Granted
  <2>5. CASE LearnUnlink(n)
      BY <1>2, <2>5, SameAttempts, Zenon DEF LearnUnlink
  <2>6. QED
      BY <2>1, <2>2, <2>3, <2>4, <2>5, Zenon
<1>4. QED
    BY <1>1, <1>3, AttemptStep, Zenon DEF TypeOK

LEMMA RestartInv ==
    ASSUME TopologyInv, NEW i \in Installations, Restart(i)
    PROVE  TopologyInv'
<1> USE DEF TopologyInv
<1>1. mem' = mem
    BY Zenon DEF Restart, MemIsRow, TypeOK
<1>2. UNCHANGED <<idVars, keyVars, cred, joined, drafts>> /\ DropDraft(i)
    BY <1>1, Zenon DEF Restart, idVars
<1>3. QED
    BY <1>2, MintedSame, DropKeeps, AttemptStep, Zenon DEF TypeOK

LEMMA QuietLeadInv ==
    ASSUME TopologyInv, NEW p \in Installations, EnsureTLSMaterial(p) \/ TokenLapses(p)
    PROVE  TopologyInv'
<1> USE DEF TopologyInv
<1>1. UNCHANGED <<idVars, keyVars, cred, joined, drafts, att>>
    BY Zenon DEF EnsureTLSMaterial, TokenLapses, joinVars
<1>2. QED
    BY <1>1, MintedSame, SameAttempts, AttemptStep, Zenon DEF TypeOK

-----------------------------------------------------------------------------
(* Unlinking, promotion and demotion. *)

LEMMA UnlinkInv ==
    ASSUME TopologyInv, NEW p \in Installations, NEW n \in Installations, UnlinkEnrolledNode(p, n)
    PROVE  TopologyInv'
<1> USE DEF TopologyInv
<1>1. UNCHANGED <<row, mem, ring, retired, minted, joined, drafts, att>>
    BY Zenon DEF UnlinkEnrolledNode, idVars, keyVars, joinVars
<1>2. cred' = [cred EXCEPT ![p] = [cred[p] EXCEPT ![n] = [cred[p][n] EXCEPT !.st = "unlinked"]]]
    BY Zenon DEF UnlinkEnrolledNode
<1>3. cred[p] \in [Installations -> Credentials] /\ cred[p][n] \in Credentials
    BY Zenon DEF TypeOK
<1>4. [cred[p][n] EXCEPT !.st = "unlinked"] \in Credentials
    BY <1>3, Zenon DEF Credentials
<1>5. cred' \in [Installations -> [Installations -> Credentials]]
    BY <1>2, <1>3, <1>4, Zenon DEF TypeOK
<1>6. \A q, m \in Installations :
          cred'[q][m].st = "active" => cred'[q][m] = cred[q][m]
  <2>1. [cred[p][n] EXCEPT !.st = "unlinked"].st = "unlinked"
      BY <1>3, Zenon DEF Credentials
  <2>2. \A q, m \in Installations : cred'[q][m] =
            IF q = p /\ m = n THEN [cred[p][n] EXCEPT !.st = "unlinked"] ELSE cred[q][m]
      BY <1>2, <1>3, Zenon DEF TypeOK
  <2>3. QED
      BY <2>1, <2>2, Zenon
<1>7. \A i \in Installations : Held(i)' = Held(i) /\ Live(i)' = Live(i)
    BY <1>1, Zenon DEF Held, Live
<1>8. MintedKeys' = MintedKeys
    BY <1>1, Zenon DEF MintedKeys
<1>9. TypeOK' /\ MemIsRow' /\ JoinedBelow' /\ LeadsAboveJoined'
    BY <1>1, <1>5, Zenon DEF TypeOK, MemIsRow, JoinedBelow, LeadsAboveJoined
<1>10. KeysAreMinted' /\ GrantsAreMinted'
    BY <1>1, <1>7, <1>8, Zenon DEF KeysAreMinted, GrantsAreMinted
<1>11. LeadershipHolds' /\ IssuersAreKeyed'
    BY <1>1, <1>6, <1>7 DEF LeadershipHolds, IssuersAreKeyed
<1>12. QED
    BY <1>9, <1>10, <1>11, Zenon

(* sqliteRetireClusterRelationships leaves p without a credential in force. *)
LEMMA RevokedAll ==
    ASSUME TypeOK, NEW p \in Installations, RevokeAll(p)
    PROVE  /\ cred' \in [Installations -> [Installations -> Credentials]]
           /\ \A n \in Installations : cred'[p][n].st # "active"
           /\ \A q \in Installations : q # p => cred'[q] = cred[q]
<1>1. \A n \in Installations : Revoked(cred[p][n]) \in Credentials /\ Revoked(cred[p][n]).st # "active"
  <2>1. ASSUME NEW c \in Credentials PROVE Revoked(c) \in Credentials /\ Revoked(c).st # "active"
      BY Zenon DEF Revoked, Credentials
  <2>2. QED
      BY <2>1, Zenon DEF TypeOK
<1>2. cred' = [cred EXCEPT ![p] = [n \in Installations |-> Revoked(cred[p][n])]]
    BY Zenon DEF RevokeAll
<1>3. QED
    BY <1>1, <1>2, Zenon DEF TypeOK

(* A step that revokes p's credentials and retires its keys, p becoming id. *)
LEMMA RelinquishStep ==
    ASSUME TopologyInv, NEW p \in Installations, NEW id \in Identities,
           row' = [row EXCEPT ![p] = id], mem' = [mem EXCEPT ![p] = id],
           RevokeAll(p), UNCHANGED <<att, drafts, joined>>,
           retired' = [retired EXCEPT ![p] = Held(p)],
           Mint(p) \/ UNCHANGED <<ring, minted>>,
           id.gen >= row[p].gen,
           id.role \in PrimaryRoles => id.gen > row[p].gen,
           id.role \in PrimaryRoles /\ id.key # None => Mint(p) /\ id.key = NewKey(p)
    PROVE  TopologyInv'
<1> USE DEF TopologyInv
<1>1. /\ minted' \in [Installations -> Nat]
      /\ ring' \in [Installations -> Seq(Keys)]
      /\ MintedKeys \subseteq MintedKeys'
      /\ \A j \in Installations : Held(j) \subseteq Held(j)' /\ Held(j)' \subseteq MintedKeys'
      /\ \A j \in Installations : j # p => Held(j)' = Held(j)
  <2>1. CASE Mint(p)
      BY <2>1, MintAddsOne, Zenon
  <2>2. CASE UNCHANGED <<ring, minted>>
      BY <2>2, ZenonT(60) DEF TypeOK, MintedKeys, Held, KeysAreMinted
  <2>3. QED
      BY <2>1, <2>2, Zenon
<1>2. \A j \in Installations : row'[j] = IF j = p THEN id ELSE row[j]
    BY Zenon DEF TypeOK
<1>3. retired' \in [Installations -> SUBSET Keys]
    BY HeldKeys, Zenon DEF TypeOK
<1>4. TypeOK'
    BY <1>1, <1>3, RevokedAll, Zenon DEF TypeOK
<1>5. MemIsRow'
    BY Zenon DEF MemIsRow
<1>6. KeysAreMinted' /\ GrantsAreMinted'
    BY <1>1, SameAttempts, Zenon DEF KeysAreMinted, TypeOK
<1>7. JoinedBelow' /\ LeadsAboveJoined'
  <2>1. \A j \in Installations : row[j].gen \in Nat /\ id.gen \in Nat /\ joined[j] \in Nat
      BY Zenon DEF TypeOK, Identities
  <2>2. \A j \in Installations :
            /\ row'[j].gen >= row[j].gen
            /\ row'[j].role \in PrimaryRoles => row'[j] = row[j] \/ row'[j].gen > row[j].gen
      BY <1>2, <2>1
  <2>3. \A j \in Installations : row'[j].gen \in Nat /\ joined'[j] = joined[j]
      BY <1>2, <2>1, Zenon
  <2>4. QED
      BY <2>1, <2>2, <2>3 DEF JoinedBelow, LeadsAboveJoined
<1>8. ASSUME NEW i \in Installations, row'[i].role \in PrimaryRoles, row'[i].key # None
      PROVE  row'[i].key \in Live(i)'
  <2>1. CASE i = p
      BY <1>2, <1>8, <2>1, MintAddsOne, NewKeyIsNew, ZenonT(60) DEF Live, TypeOK
  <2>2. CASE i # p
      BY <1>1, <1>2, <1>8, <2>2, Zenon DEF Live, LeadershipHolds, TypeOK
  <2>3. QED
      BY <2>1, <2>2, Zenon
<1>9. ASSUME NEW q \in Installations, NEW n \in Installations, cred'[q][n].st = "active"
      PROVE  q # p /\ cred'[q] = cred[q] /\ row'[q] = row[q]
    BY <1>2, <1>9, RevokedAll, Zenon
<1>10. LeadershipHolds' /\ IssuersAreKeyed'
    BY <1>8, <1>9 DEF LeadershipHolds, IssuersAreKeyed
<1>11. QED
    BY <1>4, <1>5, <1>6, <1>7, <1>10, Zenon

LEMMA PromoteInv ==
    ASSUME TopologyInv, NEW p \in Installations, Promote(p) \/ PromoteUnkeyed(p)
    PROVE  TopologyInv'
<1> USE DEF TopologyInv
<1>1. PICK k \in Keys \cup {None} :
          PromoteWith(p, k) /\ (Mint(p) \/ UNCHANGED <<ring, minted>>)
                            /\ (k # None => Mint(p) /\ k = NewKey(p))
    BY NewKeyIsNew, Zenon DEF Promote, PromoteUnkeyed
<1> DEFINE g == NextGeneration(mem[p])
           id == [role |-> "primary", gen |-> g, latest |-> g, key |-> k]
<1>2. mem[p].gen \in Nat /\ mem[p].latest \in Nat /\ mem[p] = row[p]
    BY Zenon DEF TypeOK, Identities, MemIsRow
<1>3. g \in Nat /\ g > row[p].gen
    BY <1>2 DEF NextGeneration
<1>4. /\ row' = [row EXCEPT ![p] = id] /\ mem' = [mem EXCEPT ![p] = id]
      /\ RevokeAll(p) /\ UNCHANGED <<att, drafts, joined>>
      /\ retired' = [retired EXCEPT ![p] = Held(p)]
    BY <1>1, Zenon DEF PromoteWith
<1> HIDE DEF g
<1>5. id \in Identities /\ id.gen = g /\ id.role = "primary" /\ id.key = k
    BY <1>3, Zenon DEF Identities, Roles
<1> HIDE DEF id
<1>6. /\ id.gen >= row[p].gen
      /\ id.role \in PrimaryRoles => id.gen > row[p].gen
      /\ id.role \in PrimaryRoles /\ id.key # None => Mint(p) /\ id.key = NewKey(p)
    BY <1>1, <1>2, <1>3, <1>5
<1> HIDE DEF TopologyInv
<1>7. QED
    BY <1>1, <1>4, <1>5, <1>6, RelinquishStep, Zenon

LEMMA DemoteInv ==
    ASSUME TopologyInv, NEW p \in Installations, Demote(p)
    PROVE  TopologyInv'
<1> USE DEF TopologyInv
<1> DEFINE id == [row[p] EXCEPT !.role = "node", !.key = None]
<1>1. row[p] \in Identities /\ mem[p] = row[p]
    BY Zenon DEF TypeOK, MemIsRow
<1>2. /\ row' = [row EXCEPT ![p] = id] /\ mem' = [mem EXCEPT ![p] = id]
      /\ RevokeAll(p) /\ UNCHANGED <<att, drafts, joined, ring, minted>>
      /\ retired' = [retired EXCEPT ![p] = Held(p)]
    BY <1>1, Zenon DEF Demote, joinVars
<1>3. id \in Identities /\ id.gen = row[p].gen /\ id.gen \in Nat /\ id.role \notin PrimaryRoles
    BY <1>1, ZenonT(60) DEF Identities, Roles, PrimaryRoles, Leading
<1> HIDE DEF id, TopologyInv
<1>4. id.gen >= row[p].gen
    BY <1>3
<1>5. QED
    BY <1>2, <1>3, <1>4, RelinquishStep, Zenon

-----------------------------------------------------------------------------
(* Tokens and grants: the key of p is provisioned, and p stays a leader. *)

(* What provisioning or accepting does to the keys: none is lost or retired. *)
KeysGrow ==
    /\ minted' \in [Installations -> Nat]
    /\ ring' \in [Installations -> Seq(Keys)]
    /\ retired' \in [Installations -> SUBSET Keys]
    /\ \A j \in Installations : retired'[j] \subseteq retired[j]
    /\ MintedKeys \subseteq MintedKeys'
    /\ \A j \in Installations : Held(j) \subseteq Held(j)' /\ Held(j)' \subseteq MintedKeys'

(* A step after which p is id, of the same leadership, and issues at most   *)
(* credentials of that leadership.                                          *)
LEMMA LeadStep ==
    ASSUME TopologyInv, NEW p \in Installations, NEW id \in Identities,
           row' = [row EXCEPT ![p] = id], mem' = [mem EXCEPT ![p] = id],
           KeysGrow, UNCHANGED <<drafts, joined>>,
           att' \in [Installations -> Attempts], GrantsAreMinted',
           cred' \in [Installations -> [Installations -> Credentials]],
           id.gen = row[p].gen, id.latest = row[p].latest,
           id.role \in PrimaryRoles => row[p].role \in PrimaryRoles,
           row[p].role = "with-nodes" => id.role = "with-nodes",
           row[p].key # None => id.key = row[p].key,
           id.role \in PrimaryRoles /\ id.key # None => id.key \in Live(p)',
           \A q, n \in Installations : cred'[q][n].st = "active" =>
               \/ cred'[q][n] = cred[q][n]
               \/ /\ q = p
                  /\ id.role = "with-nodes" /\ id.key # None
                  /\ cred'[q][n].gen = id.gen /\ cred'[q][n].gen = id.latest
                  /\ cred'[q][n].key = id.key
    PROVE  TopologyInv'
<1> USE DEF TopologyInv
<1>1. \A j \in Installations : row'[j] = IF j = p THEN id ELSE row[j]
    BY Zenon DEF TypeOK
<1>2. TypeOK' /\ MemIsRow'
    BY Zenon DEF TypeOK, MemIsRow, KeysGrow
<1>3. KeysAreMinted'
    BY Zenon DEF KeysAreMinted, KeysGrow
<1>4. JoinedBelow' /\ LeadsAboveJoined'
    BY <1>1 DEF JoinedBelow, LeadsAboveJoined
<1>5. \A i \in Installations : Live(i) \subseteq Live(i)'
    BY Zenon DEF Live, KeysGrow
<1>6. ASSUME NEW i \in Installations, row'[i].role \in PrimaryRoles, row'[i].key # None
      PROVE  row'[i].key \in Live(i)'
    BY <1>1, <1>5, <1>6, SMTT(30) DEF LeadershipHolds
<1>7. ASSUME NEW q \in Installations, NEW n \in Installations, cred'[q][n].st = "active"
      PROVE  /\ row'[q].role = "with-nodes"
             /\ row'[q].gen = cred'[q][n].gen /\ row'[q].latest = cred'[q][n].gen
             /\ row'[q].key = cred'[q][n].key
             /\ row'[q].key # None
  <2>1. CASE cred'[q][n] = cred[q][n]
    <3>1. /\ row[q].role = "with-nodes"
          /\ row[q].gen = cred[q][n].gen /\ row[q].latest = cred[q][n].gen
          /\ row[q].key = cred[q][n].key /\ row[q].key # None
        BY <1>7, <2>1 DEF LeadershipHolds, IssuersAreKeyed
    <3>2. QED
        BY <1>1, <2>1, <3>1, SMTT(30)
  <2>2. CASE cred'[q][n] # cred[q][n]
      BY <1>1, <1>7, <2>2, SMTT(30)
  <2>3. QED
      BY <2>1, <2>2, Zenon
<1>8. LeadershipHolds' /\ IssuersAreKeyed'
    BY <1>6, <1>7, SMTT(30) DEF LeadershipHolds, IssuersAreKeyed
<1>9. QED
    BY <1>2, <1>3, <1>4, <1>8, Zenon

LEMMA CreateTokenInv ==
    ASSUME TopologyInv, NEW p \in Installations, CreateToken(p)
    PROVE  TopologyInv'
<1> DEFINE role == IF row[p].role = "standalone" THEN "primary" ELSE row[p].role
           id == [row[p] EXCEPT !.role = role, !.key = EnsuredKey(p)]
<1>1. row[p] \in Identities /\ mem[p] = row[p]
    BY Zenon DEF TopologyInv, TypeOK, MemIsRow
<1>2. /\ row' = [row EXCEPT ![p] = id] /\ mem' = [mem EXCEPT ![p] = id]
      /\ UNCHANGED <<att, cred, drafts, joined>>
      /\ EnsureClusterKey(p) /\ row[p].role \in PrimaryRoles
    BY <1>1, Zenon DEF CreateToken, InsertToken, joinVars
<1>3. /\ KeysGrow /\ EnsuredKey(p) \in Live(p)' /\ EnsuredKey(p) \in Keys
      /\ row[p].key # None => EnsuredKey(p) = row[p].key
    BY <1>2, EnsuredLives, Zenon DEF KeysGrow, TopologyInv, TypeOK
<1>4. /\ id \in Identities /\ id.gen = row[p].gen /\ id.latest = row[p].latest
      /\ row[p].role = "with-nodes" => id.role = "with-nodes"
      /\ id.key = EnsuredKey(p)
    BY <1>1, <1>3, Zenon DEF Identities, Roles
<1> HIDE DEF id
<1>5. att' \in [Installations -> Attempts] /\ GrantsAreMinted'
    BY <1>2, <1>3, SameAttempts, Zenon DEF TopologyInv, KeysGrow
<1>6. cred' \in [Installations -> [Installations -> Credentials]]
    BY <1>2, Zenon DEF TopologyInv, TypeOK
<1>7. QED
    BY <1>2, <1>3, <1>4, <1>5, <1>6, LeadStep, Zenon

LEMMA ActivationFailsInv ==
    ASSUME TopologyInv, NEW p \in Installations, ActivationFails(p)
    PROVE  TopologyInv'
<1>1. row[p] \in Identities /\ mem[p] = row[p]
    BY Zenon DEF TopologyInv, TypeOK, MemIsRow
<1>2. /\ UNCHANGED <<att, cred, drafts, joined>>
      /\ LoadOrCreate(p) /\ row[p].key = None /\ row[p].role \in PrimaryRoles
    BY <1>1, Zenon DEF ActivationFails, Unkeyed, joinVars
<1>3. KeysGrow /\ ProvisionedKey(p) \in Live(p)' /\ ProvisionedKey(p) \in Keys
    BY <1>2, ProvisioningLives, Zenon DEF KeysGrow, TopologyInv, TypeOK
<1>4. att' \in [Installations -> Attempts] /\ GrantsAreMinted'
    BY <1>2, <1>3, SameAttempts, Zenon DEF TopologyInv, KeysGrow
<1>5. cred' \in [Installations -> [Installations -> Credentials]]
    BY <1>2, Zenon DEF TopologyInv, TypeOK
<1>6. CASE UNCHANGED idVars
  <2>1. row' = [row EXCEPT ![p] = row[p]] /\ mem' = [mem EXCEPT ![p] = row[p]]
      BY <1>1, <1>6, Zenon DEF idVars, TopologyInv, TypeOK
  <2>2. QED
      BY <1>1, <1>2, <1>3, <1>4, <1>5, <2>1, LeadStep, Zenon
<1>7. CASE /\ row' = [row EXCEPT ![p].key = ProvisionedKey(p)]
           /\ mem' = [mem EXCEPT ![p].key = ProvisionedKey(p)]
  <2> DEFINE id == [row[p] EXCEPT !.key = ProvisionedKey(p)]
  <2>1. row' = [row EXCEPT ![p] = id] /\ mem' = [mem EXCEPT ![p] = id]
      BY <1>1, <1>7, Zenon
  <2>2. /\ id \in Identities /\ id.gen = row[p].gen /\ id.latest = row[p].latest
        /\ id.role = row[p].role /\ id.key = ProvisionedKey(p)
      BY <1>1, <1>3, Zenon DEF Identities
  <2> HIDE DEF id
  <2>3. QED
      BY <1>2, <1>3, <1>4, <1>5, <2>1, <2>2, LeadStep, Zenon
<1>8. QED
    BY <1>6, <1>7, Zenon DEF ActivationFails

(* A grant carries a key that its issuer holds. *)
LEMMA GrantKeeps ==
    ASSUME TopologyInv, NEW n \in Installations, NEW k \in Keys, KeysGrow, k \in MintedKeys',
           Exchange(n, SealBootstrap(confirmBinding(n), k))
    PROVE  att' \in [Installations -> Attempts] /\ GrantsAreMinted'
<1> DEFINE g == SealBootstrap(confirmBinding(n), k)
<1>1. att[n] \in Attempts /\ drafts[n] \in Nat
    BY Zenon DEF TopologyInv, TypeOK
<1>2. confirmBinding(n) \in Bindings
    BY <1>1, Zenon DEF confirmBinding, Bindings, Attempts
<1>3. g \in [binding : Bindings, key : Keys] /\ g.key = k
    BY <1>2, Zenon DEF SealBootstrap
<1>4. PICK pc \in {"draft", "granted"} : att' = [att EXCEPT ![n] = [att[n] EXCEPT !.pc = pc, !.grant = g]]
    BY Zenon DEF Exchange
<1> HIDE DEF g
<1> DEFINE a == [att[n] EXCEPT !.pc = pc, !.grant = g]
<1>5. a \in Attempts /\ a.grant = g
    BY <1>1, <1>3, <1>4, Zenon DEF Attempts, Granted
<1>6. att' = [att EXCEPT ![n] = a]
    BY <1>4, Zenon
<1> HIDE DEF a
<1>7. att' \in [Installations -> Attempts]
    BY <1>5, <1>6, Zenon DEF TopologyInv, TypeOK
<1>8. \A m \in Installations : att'[m] = IF m = n THEN a ELSE att[m]
    BY <1>6, Zenon DEF TopologyInv, TypeOK
<1>9. GrantsAreMinted'
    BY <1>3, <1>5, <1>8, Zenon DEF TopologyInv, GrantsAreMinted, KeysGrow
<1>10. QED
    BY <1>7, <1>9, Zenon

LEMMA GrantInv ==
    ASSUME TopologyInv, NEW n \in Installations, NEW p \in Installations, Grant(n, p)
    PROVE  TopologyInv'
<1> DEFINE k == EnsuredKey(p)
           id == [row[p] EXCEPT !.key = k, !.role = IF FreshGrant(n, p) THEN "with-nodes" ELSE @]
<1>1. row[p] \in Identities /\ mem[p] = row[p]
    BY Zenon DEF TopologyInv, TypeOK, MemIsRow
<1>2. /\ row' = [row EXCEPT ![p] = id] /\ mem' = [mem EXCEPT ![p] = id]
      /\ EnsureClusterKey(p) /\ UNCHANGED <<drafts, joined>>
    BY <1>1, Zenon DEF Grant
<1>3. /\ KeysGrow
      /\ row[p].role \in PrimaryRoles => k \in Live(p)' /\ k \in Keys
      /\ row[p].key # None => k = row[p].key
      /\ k \in Keys \cup {None}
    BY <1>2, EnsuredLives, Zenon DEF KeysGrow, TopologyInv, TypeOK
<1>4. /\ id \in Identities /\ id.gen = row[p].gen /\ id.latest = row[p].latest /\ id.key = k
      /\ id.role = IF FreshGrant(n, p) THEN "with-nodes" ELSE row[p].role
    BY <1>1, <1>3, Zenon DEF Identities, Roles
<1>5. FreshGrant(n, p) => /\ row[p].role \in PrimaryRoles
                          /\ att[n].gen = row[p].gen /\ att[n].gen = row[p].latest
    BY Zenon DEF FreshGrant, Expected, Publishes, PrimaryRoles
<1> HIDE DEF id, k
<1>6. CASE FreshGrant(n, p) /\ IssueGrant(n, p, k)
  <2>1. k \in Keys /\ k \in Live(p)' /\ k # None
      BY <1>3, <1>5, <1>6, TopologyAssumption, Zenon DEF Keys
  <2>2. k \in MintedKeys'
      BY <1>3, <2>1, Zenon DEF Live, KeysGrow
  <2>3. att' \in [Installations -> Attempts] /\ GrantsAreMinted'
      BY <1>3, <1>6, <2>1, <2>2, GrantKeeps, Zenon DEF IssueGrant
  <2> DEFINE c == [st |-> "active", gen |-> att[n].gen, key |-> k]
  <2>4. cred' = [cred EXCEPT ![p] = [cred[p] EXCEPT ![n] = c]]
      BY <1>6, Zenon DEF IssueGrant
  <2>5. c \in Credentials /\ c.gen = att[n].gen /\ c.key = k
      BY <2>1, Zenon DEF Credentials, TopologyInv, TypeOK, Attempts
  <2> HIDE DEF c
  <2>6. cred' \in [Installations -> [Installations -> Credentials]]
      BY <2>4, <2>5, Zenon DEF TopologyInv, TypeOK
  <2>7. \A q, m \in Installations : cred'[q][m] = IF q = p /\ m = n THEN c ELSE cred[q][m]
      BY <2>4, Zenon DEF TopologyInv, TypeOK
  <2>8. id.role = "with-nodes" /\ id.key = k /\ c.gen = id.gen /\ c.gen = id.latest
      BY <1>4, <1>5, <1>6, <2>5, Zenon
  <2>9. \A q, m \in Installations : cred'[q][m].st = "active" =>
            \/ cred'[q][m] = cred[q][m]
            \/ /\ q = p
               /\ id.role = "with-nodes" /\ id.key # None
               /\ cred'[q][m].gen = id.gen /\ cred'[q][m].gen = id.latest
               /\ cred'[q][m].key = id.key
      BY <2>1, <2>5, <2>7, <2>8, Zenon
  <2>10. /\ id \in Identities /\ id.gen = row[p].gen /\ id.latest = row[p].latest
         /\ id.role \in PrimaryRoles => row[p].role \in PrimaryRoles
         /\ row[p].role = "with-nodes" => id.role = "with-nodes"
         /\ row[p].key # None => id.key = row[p].key
         /\ id.role \in PrimaryRoles /\ id.key # None => id.key \in Live(p)'
      BY <1>3, <1>4, <1>5, <1>6, <2>1, Zenon
  <2>11. QED
      BY <1>2, <1>3, <2>3, <2>6, <2>9, <2>10, LeadStep, Zenon
<1>7. CASE /\ UNCHANGED cred
           /\ \/ matchesRetry(n, p) /\ Stage(n, "granted")
              \/ writeExchangeFailure(n)
  <2>1. att' \in [Installations -> Attempts] /\ GrantsAreMinted'
    <3>1. CASE matchesRetry(n, p) /\ Stage(n, "granted")
        BY <1>3, <3>1, StageKeeps, Zenon DEF matchesRetry, Granted, KeysGrow, TopologyInv
    <3>2. CASE writeExchangeFailure(n)
        BY <1>3, <3>2, DropKeeps, Zenon DEF writeExchangeFailure, KeysGrow, TopologyInv
    <3>3. QED
        BY <1>7, <3>1, <3>2, Zenon
  <2>2. cred' \in [Installations -> [Installations -> Credentials]]
      BY <1>7, Zenon DEF TopologyInv, TypeOK
  <2>3. QED
      BY <1>2, <1>3, <1>4, <1>5, <1>7, <2>1, <2>2, LeadStep, Zenon
<1>8. QED
    BY <1>6, <1>7, Zenon DEF Grant, k

LEMMA AcceptInv ==
    ASSUME TopologyInv, NEW n \in Installations, Accept(n)
    PROVE  TopologyInv'
<1> USE DEF TopologyInv
<1> DEFINE k == att[n].grant.key
<1>1. UNCHANGED <<row, mem, minted, cred, drafts, joined>> /\ Stage(n, "accepted") /\ att[n].pc = "granted"
    BY Zenon DEF Accept, idVars
<1>2. k \in MintedKeys /\ k \in Keys /\ MintedKeys' = MintedKeys
    BY <1>1, Zenon DEF GrantsAreMinted, Granted, MintedKeys
<1>3. /\ ring' = [ring EXCEPT ![n] = IF k \in Held(n) THEN @ ELSE Append(@, k)]
      /\ retired' = [retired EXCEPT ![n] = @ \ {k}]
    BY Zenon DEF Accept
<1> HIDE DEF k
<1>4. ring' \in [Installations -> Seq(Keys)] /\ retired' \in [Installations -> SUBSET Keys]
    BY <1>2, <1>3 DEF TypeOK
<1>5. Held(n)' = Held(n) \cup {k}
  <2>1. CASE k \in Held(n)
      BY <1>3, <2>1, Zenon DEF Held, TypeOK
  <2>2. CASE k \notin Held(n)
    <3>1. ring[n] \in Seq(Keys) /\ ring'[n] = Append(ring[n], k)
        BY <1>3, <2>2, Zenon DEF TypeOK
    <3>2. QED
        BY <1>2, <3>1, SMTT(30) DEF Held
  <2>3. QED
      BY <2>1, <2>2, Zenon
<1>6. \A j \in Installations : j # n => Held(j)' = Held(j)
    BY <1>3, Zenon DEF Held, TypeOK
<1>7. KeysGrow
  <2>1. \A j \in Installations : retired'[j] \subseteq retired[j]
      BY <1>3, Zenon DEF TypeOK
  <2>2. \A j \in Installations : Held(j) \subseteq Held(j)' /\ Held(j)' \subseteq MintedKeys'
      BY <1>2, <1>5, <1>6, Zenon DEF KeysAreMinted
  <2>3. QED
      BY <1>1, <1>2, <1>4, <2>1, <2>2, Zenon DEF KeysGrow, TypeOK
<1>8. Live(n) \subseteq Live(n)'
    BY <1>7, Zenon DEF Live, KeysGrow
<1>9. att' \in [Installations -> Attempts] /\ GrantsAreMinted'
    BY <1>1, <1>2, StageKeeps, Zenon DEF Granted
<1>10. row' = [row EXCEPT ![n] = row[n]] /\ mem' = [mem EXCEPT ![n] = row[n]] /\ row[n] \in Identities
    BY <1>1, Zenon DEF TypeOK, MemIsRow
<1>11. row[n].role \in PrimaryRoles /\ row[n].key # None => row[n].key \in Live(n)'
    BY <1>8, Zenon DEF LeadershipHolds
<1>12. cred' \in [Installations -> [Installations -> Credentials]]
    BY <1>1, Zenon DEF TypeOK
<1> HIDE DEF TopologyInv
<1>13. QED
    BY <1>1, <1>7, <1>9, <1>10, <1>11, <1>12, LeadStep, ZenonT(60)

-----------------------------------------------------------------------------
(* The commit of an enrollment. *)

(* An installation with nodes cannot enroll, so n has no credential in force. *)
LEMMA NodeStep ==
    ASSUME TopologyInv, NEW n \in Installations, NEW id \in Identities,
           row' = [row EXCEPT ![n] = id], mem' = [mem EXCEPT ![n] = id],
           UNCHANGED <<ring, retired, minted, cred, drafts>>,
           att' \in [Installations -> Attempts], GrantsAreMinted',
           id.role = "node", row[n].role # "with-nodes",
           joined' \in [Installations -> Nat], joined'[n] <= id.gen,
           \A j \in Installations : j # n => joined'[j] = joined[j]
    PROVE  TopologyInv'
<1> USE DEF TopologyInv
<1>1. \A j \in Installations : row'[j] = IF j = n THEN id ELSE row[j]
    BY Zenon DEF TypeOK
<1>2. TypeOK' /\ MemIsRow'
    BY ZenonT(60) DEF TypeOK, MemIsRow
<1>3. \A i \in Installations : Held(i)' = Held(i) /\ Live(i)' = Live(i)
    BY Zenon DEF Held, Live
<1>4. KeysAreMinted'
    BY <1>3, Zenon DEF KeysAreMinted, MintedKeys
<1>5. id.role \notin PrimaryRoles
    BY Zenon DEF PrimaryRoles, Leading
<1>6. JoinedBelow' /\ LeadsAboveJoined'
    BY <1>1, <1>5, ZenonT(60) DEF JoinedBelow, LeadsAboveJoined
<1>7. \A m \in Installations : cred[n][m].st # "active"
    BY Zenon DEF LeadershipHolds
<1>8. LeadershipHolds' /\ IssuersAreKeyed'
    BY <1>1, <1>3, <1>5, <1>7 DEF LeadershipHolds, IssuersAreKeyed
<1>9. QED
    BY <1>2, <1>4, <1>6, <1>8, Zenon

LEMMA EnrollmentWrites ==
    ASSUME NEW id \in Identities, NEW g \in Nat, NEW k \in Keys
    PROVE  /\ AfterRole(id) \in Identities /\ AfterRole(id).role = "node" /\ AfterRole(id).gen = id.gen
           /\ AfterGeneration(id, g) \in Identities /\ AfterGeneration(id, g).role = "node"
           /\ AfterGeneration(id, g).gen >= id.gen /\ AfterGeneration(id, g).gen >= g
           /\ AfterKey(id, g, k) \in Identities /\ AfterKey(id, g, k).role = "node"
           /\ AfterKey(id, g, k).gen >= id.gen /\ AfterKey(id, g, k).gen >= g
<1>1. AfterRole(id) \in Identities /\ AfterRole(id).role = "node" /\ AfterRole(id).gen = id.gen
    BY Zenon DEF AfterRole, Identities, Roles
<1>2. /\ AfterGeneration(id, g) \in Identities /\ AfterGeneration(id, g).role = "node"
      /\ AfterGeneration(id, g).gen >= id.gen /\ AfterGeneration(id, g).gen >= g
  <2>1. CASE g > id.gen
    <3> DEFINE l == IF g > AfterRole(id).latest THEN g ELSE AfterRole(id).latest
    <3>1. AfterGeneration(id, g) = [AfterRole(id) EXCEPT !.gen = g, !.latest = l]
        BY <2>1, Zenon DEF AfterGeneration
    <3>2. l \in Nat /\ id.gen \in Nat
        BY <1>1, Zenon DEF Identities
    <3> HIDE DEF l
    <3>3. /\ AfterGeneration(id, g) \in Identities /\ AfterGeneration(id, g).role = "node"
          /\ AfterGeneration(id, g).gen = g
        BY <1>1, <3>1, <3>2, ZenonT(60) DEF Identities
    <3>4. QED
        BY <2>1, <3>2, <3>3
  <2>2. CASE ~(g > id.gen)
    <3>1. AfterGeneration(id, g) = AfterRole(id)
        BY <2>2, Zenon DEF AfterGeneration
    <3>2. id.gen \in Nat
        BY Zenon DEF Identities
    <3>3. QED
        BY <1>1, <2>2, <3>1, <3>2
  <2>3. QED
      BY <2>1, <2>2, Zenon
<1>3. /\ AfterKey(id, g, k) \in Identities
      /\ AfterKey(id, g, k).role = AfterGeneration(id, g).role
      /\ AfterKey(id, g, k).gen = AfterGeneration(id, g).gen
    BY <1>2, Zenon DEF AfterKey, Identities
<1>4. QED
    BY <1>1, <1>2, <1>3, Zenon

LEMMA JoinsBelow ==
    ASSUME TopologyInv, NEW n \in Installations, Joins(n), NEW g \in Nat,
           g >= row[n].gen, g >= att[n].gen
    PROVE  /\ joined' \in [Installations -> Nat] /\ joined'[n] <= g
           /\ \A j \in Installations : j # n => joined'[j] = joined[j]
BY DEF TopologyInv, TypeOK, Identities, Attempts, JoinedBelow, Joins

LEMMA CommitInv ==
    ASSUME TopologyInv, NEW n \in Installations, CommitNodeEnrollment(n)
    PROVE  TopologyInv'
<1> DEFINE id == AfterKey(row[n], att[n].gen, att[n].grant.key)
<1>1. row[n] \in Identities /\ mem[n] = row[n] /\ row[n].gen \in Nat /\ att[n].gen \in Nat
    BY Zenon DEF TopologyInv, TypeOK, MemIsRow, Identities, Attempts
<1>2. UNCHANGED <<ring, retired, minted, cred, drafts>> /\ att[n].pc = "importing"
    BY Zenon DEF CommitNodeEnrollment, keyVars
<1>3. MintedKeys' = MintedKeys
    BY <1>2, Zenon DEF MintedKeys
<1>4. att[n].grant.key \in Keys
    BY <1>2, Zenon DEF TopologyInv, GrantsAreMinted, Granted, MintedKeys
<1>5. CASE AlreadyCommitted(n)
  <2>1. row' = [row EXCEPT ![n] = row[n]] /\ mem' = [mem EXCEPT ![n] = row[n]] /\ Joins(n) /\ DropDraft(n)
      BY <1>1, <1>5, Zenon DEF CommitNodeEnrollment, idVars, TopologyInv, TypeOK
  <2>2. row[n].role = "node" /\ row[n].gen >= att[n].gen
      BY <1>1, <1>5, Zenon DEF AlreadyCommitted
  <2>3. att' \in [Installations -> Attempts] /\ GrantsAreMinted'
      BY <1>3, <2>1, DropKeeps, Zenon DEF TopologyInv
  <2>4. /\ joined' \in [Installations -> Nat] /\ joined'[n] <= row[n].gen
        /\ \A j \in Installations : j # n => joined'[j] = joined[j]
      BY <1>1, <2>1, <2>2, JoinsBelow
  <2>5. QED
      BY <1>1, <1>2, <2>1, <2>2, <2>3, <2>4, NodeStep, ZenonT(60)
<1>6. CASE ~AlreadyCommitted(n) /\ CanEnrollAsNode(n)
  <2>1. row' = [row EXCEPT ![n] = id] /\ mem' = [mem EXCEPT ![n] = id] /\ Joins(n) /\ DropDraft(n)
      BY <1>1, <1>6, Zenon DEF CommitNodeEnrollment
  <2>2. row[n].role # "with-nodes"
      BY <1>1, <1>6, Zenon DEF CanEnrollAsNode
  <2>3. att' \in [Installations -> Attempts] /\ GrantsAreMinted'
      BY <1>3, <2>1, DropKeeps, Zenon DEF TopologyInv
  <2>4. /\ id \in Identities /\ id.role = "node" /\ id.gen \in Nat
        /\ id.gen >= row[n].gen /\ id.gen >= att[n].gen
    <3>1. id \in Identities /\ id.role = "node" /\ id.gen >= row[n].gen /\ id.gen >= att[n].gen
        BY <1>1, <1>4, EnrollmentWrites, Zenon
    <3>2. QED
        BY <3>1, Zenon DEF Identities
  <2> HIDE DEF id
  <2>5. /\ joined' \in [Installations -> Nat] /\ joined'[n] <= id.gen
        /\ \A j \in Installations : j # n => joined'[j] = joined[j]
      BY <2>1, <2>4, JoinsBelow, Zenon
  <2>6. QED
      BY <1>2, <2>1, <2>2, <2>3, <2>4, <2>5, NodeStep, Zenon
<1>7. CASE ~AlreadyCommitted(n) /\ ~CanEnrollAsNode(n)
  <2>1. Stage(n, "draft") /\ UNCHANGED <<idVars, keyVars, cred, joined, drafts>>
      BY <1>2, <1>7, Zenon DEF CommitNodeEnrollment, keyVars
  <2>2. att' \in [Installations -> Attempts] /\ GrantsAreMinted'
      BY <1>3, <2>1, StageKeeps, Zenon DEF TopologyInv, Granted
  <2>3. QED
      BY <2>1, <2>2, AttemptStep, Zenon DEF TopologyInv, TypeOK
<1>8. QED
    BY <1>5, <1>6, <1>7, Zenon

LEMMA CommitStopsInv ==
    ASSUME TopologyInv, NEW n \in Installations, CommitStops(n)
    PROVE  TopologyInv'
<1>1. row[n] \in Identities /\ mem[n] = row[n] /\ row[n].gen \in Nat /\ att[n].gen \in Nat
    BY Zenon DEF TopologyInv, TypeOK, MemIsRow, Identities, Attempts
<1>2. UNCHANGED <<ring, retired, minted, cred, drafts>> /\ Stage(n, "draft") /\ att[n].pc = "importing"
    BY Zenon DEF CommitStops, keyVars
<1>3. MintedKeys' = MintedKeys
    BY <1>2, Zenon DEF MintedKeys
<1>4. att' \in [Installations -> Attempts] /\ GrantsAreMinted'
    BY <1>2, <1>3, StageKeeps, Zenon DEF TopologyInv, Granted
<1>5. att[n].grant.key \in Keys
    BY <1>2, Zenon DEF TopologyInv, GrantsAreMinted, Granted, MintedKeys
<1>6. row[n].role # "with-nodes"
    BY <1>1, Zenon DEF CommitStops, CanEnrollAsNode
<1>7. CASE /\ row' = [row EXCEPT ![n] = AfterRole(@)]
           /\ mem' = [mem EXCEPT ![n] = AfterRole(@)]
           /\ UNCHANGED joined
  <2>1. row' = [row EXCEPT ![n] = AfterRole(row[n])] /\ mem' = [mem EXCEPT ![n] = AfterRole(row[n])]
      BY <1>1, <1>7, Zenon
  <2>2. AfterRole(row[n]) \in Identities /\ AfterRole(row[n]).role = "node" /\ AfterRole(row[n]).gen = row[n].gen
      BY <1>1, <1>5, EnrollmentWrites, Zenon
  <2>3. joined' \in [Installations -> Nat] /\ joined'[n] <= AfterRole(row[n]).gen
      BY <1>7, <2>2, Zenon DEF TopologyInv, TypeOK, JoinedBelow
  <2>4. QED
      BY <1>2, <1>4, <1>6, <1>7, <2>1, <2>2, <2>3, NodeStep, Zenon
<1>8. CASE /\ row' = [row EXCEPT ![n] = AfterGeneration(@, att[n].gen)]
           /\ mem' = [mem EXCEPT ![n] = AfterGeneration(@, att[n].gen)]
           /\ Joins(n)
  <2> DEFINE id == AfterGeneration(row[n], att[n].gen)
  <2>1. row' = [row EXCEPT ![n] = id] /\ mem' = [mem EXCEPT ![n] = id]
      BY <1>1, <1>8, Zenon
  <2>2. id \in Identities /\ id.role = "node" /\ id.gen >= row[n].gen /\ id.gen >= att[n].gen
      BY <1>1, <1>5, EnrollmentWrites, Zenon
  <2> HIDE DEF id
  <2>3. id.gen \in Nat
      BY <2>2, Zenon DEF Identities
  <2>4. /\ joined' \in [Installations -> Nat] /\ joined'[n] <= id.gen
        /\ \A j \in Installations : j # n => joined'[j] = joined[j]
      BY <1>8, <2>2, <2>3, JoinsBelow, Zenon
  <2>5. QED
      BY <1>2, <1>4, <1>6, <2>1, <2>2, <2>4, NodeStep, Zenon
<1>9. QED
    BY <1>7, <1>8, Zenon DEF CommitStops

-----------------------------------------------------------------------------
(* The invariant holds of every behaviour. *)

LEMMA InitTopology == Init => TopologyInv
<1> SUFFICES ASSUME Init PROVE TopologyInv
    BY Zenon
<1> USE DEF Init
<1>1. TypeOK
  <2>1. [role |-> "standalone", gen |-> 1, latest |-> 1, key |-> None] \in Identities
      BY Zenon DEF Identities, Roles
  <2>2. NoCred \in Credentials /\ NoDraft \in Attempts
      BY Zenon DEF NoCred, Credentials, NoDraft, Attempts
  <2>3. QED
      BY <2>1, <2>2 DEF TypeOK
<1>2. \A i \in Installations : Held(i) = {}
  <2>1. \A i \in Installations : ring[i] = <<>>
      BY Zenon
  <2> HIDE DEF Init
  <2>2. DOMAIN <<>> = {}
      BY SMTT(30)
  <2>3. \A i \in Installations : DOMAIN ring[i] = {}
      BY <2>1, <2>2, Zenon
  <2>4. QED
      BY <2>3, Zenon DEF Held
<1>3. \A p, n \in Installations : cred[p][n].st = "none"
    BY Zenon DEF NoCred
<1>4. \A n \in Installations : att[n].pc \notin Granted /\ att[n].grant = None
    BY Zenon DEF NoDraft, Granted
<1>5. MemIsRow /\ JoinedBelow /\ LeadsAboveJoined
    BY DEF MemIsRow, JoinedBelow, LeadsAboveJoined
<1>6. KeysAreMinted
    BY <1>2, Zenon DEF KeysAreMinted
<1>7. GrantsAreMinted
    BY <1>4, Zenon DEF GrantsAreMinted
<1>8. \A i \in Installations : row[i].key = None
    BY ZenonT(60)
<1> HIDE DEF Init
<1>9. LeadershipHolds /\ IssuersAreKeyed
    BY <1>3, <1>8, ZenonT(60) DEF LeadershipHolds, IssuersAreKeyed
<1>10. QED
    BY <1>1, <1>5, <1>6, <1>7, <1>9, Zenon DEF TopologyInv

LEMMA StutterTopology == ASSUME TopologyInv, UNCHANGED vars PROVE TopologyInv'
<1>1. UNCHANGED <<idVars, keyVars, cred, joined, drafts, att>>
    BY Zenon DEF vars, idVars, keyVars
<1>2. QED
    BY <1>1, MintedSame, SameAttempts, AttemptStep, Zenon DEF TopologyInv, TypeOK

LEMMA NextTopology == TopologyInv /\ [Next]_vars => TopologyInv'
<1> SUFFICES ASSUME TopologyInv, [Next]_vars PROVE TopologyInv'
    BY Zenon
<1>1. ASSUME NEW p \in Installations, Lead(p) PROVE TopologyInv'
    BY <1>1, PromoteInv, DemoteInv, QuietLeadInv, CreateTokenInv, ActivationFailsInv, Zenon DEF Lead
<1>2. ASSUME NEW n \in Installations, Join(n) PROVE TopologyInv'
    BY <1>2, QuietJoinInv, AcceptInv, CommitInv, CommitStopsInv, Zenon DEF Join
<1>3. QED
    BY <1>1, <1>2, RestartInv, PreviewInv, GrantInv, UnlinkInv, StutterTopology, Zenon DEF Next

(***************************************************************************)
(* The invariant TopologyInv: types, and what the three properties below   *)
(* rest on.  A key is new when it is minted (KeysAreMinted), the           *)
(* generation never falls behind a joined one (JoinedBelow), and an issuer *)
(* of credentials has a key (IssuersAreKeyed).                             *)
(***************************************************************************)
THEOREM TopologyInvariance == Spec => []TopologyInv
BY InitTopology, NextTopology, PTL DEF Spec

(***************************************************************************)
(* The cache of identity.Service agrees with the identity row after every  *)
(* operation, however it ended.                                            *)
(***************************************************************************)
THEOREM CacheAgrees == Spec => []MemIsRow
BY TopologyInvariance, PTL DEF TopologyInv

(***************************************************************************)
(* An installation that leads does so above every generation it joined     *)
(* under (CommitNodeEnrollment adopts, Promote goes beyond).               *)
(***************************************************************************)
THEOREM LeadershipIsAbove == Spec => []LeadsAboveJoined
BY TopologyInvariance, PTL DEF TopologyInv

(***************************************************************************)
(* The cluster key of a leader is a live row of its cluster_keys, and the  *)
(* credentials in force are those of the issuer's current leadership.      *)
(***************************************************************************)
THEOREM LeadershipSafe == Spec => []LeadershipHolds
BY TopologyInvariance, PTL DEF TopologyInv
=============================================================================
