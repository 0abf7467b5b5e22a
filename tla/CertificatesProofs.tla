------------------------ MODULE CertificatesProofs ------------------------
(***************************************************************************)
(* Proofs about Certificates: the safety invariants of the run, for any    *)
(* number of requests, certificates, tokens and faults.                    *)
(***************************************************************************)
EXTENDS Certificates, TLAPS

PCs == {"idle", "ca", "createCA", "validate", "challengeApply", "connection", "connect",
        "authorize", "accept", "insert", "insertFailed", "persist", "enqueue", "markFailure"}

(* A key pair with its certificate, as made for a request or a renewal. *)
Material == [key : Nat, signer : Nat \cup {None}]

Files == {"missing", "matching", "mismatched"}

ProcRows ==
    [pc : PCs, op : {"issue", "renew", "download", None}, cert : Certs \cup {None},
     issuer : Issuers \cup {None}, challenge : Challenges \cup {None}, token : Tokens \cup {None},
     made : Material \cup Nat \cup Files \cup {None}, next : Nat, shown : SUBSET (Procs \X Nat)]

(***************************************************************************)
(* What a process holds between two of its steps, when ca is the internal  *)
(* CA: a renewal knows its row, only an internal certificate is made       *)
(* without an order or files, and what is made for one was signed by the   *)
(* internal CA that is stored.                                             *)
(***************************************************************************)
Ordering == {"validate", "challengeApply", "connection", "connect", "authorize", "accept"}

ProcOK(q, ca) ==
    /\ q.pc # "idle" /\ q.op = "renew" => q.cert \in Certs
    /\ q.pc \in {"persist", "markFailure"} => q.cert \in Certs
    /\ q.pc \in Ordering => q.issuer # "self-signed"
    /\ q.pc = "connect" => q.token # None
    /\ q.pc = "createCA" => q.made \in Nat
    /\ q.pc \in {"insert", "persist"} =>
          /\ q.made \in Material
          /\ q.issuer = "self-signed" => q.made.signer = ca /\ ca # None

ProcsInv ==
    /\ keys \in Nat
    /\ proc \in [Procs -> ProcRows]
    /\ due \subseteq ProcRows
    /\ \A p \in Procs : ProcOK(proc[p], internalCA)
    /\ \A w \in due : ProcOK(w, internalCA)

(* MaterialAgrees, and: no internal certificate precedes the internal CA. *)
TablesInv ==
    /\ certificates \in [Certs -> CertRows \cup {None, Deleted}]
    /\ internalCA \in Nat \cup {None}
    /\ connections \in Seq(Tokens)
    /\ record \in Certs \cup {None}
    /\ \A c \in Certs : Active(c) =>
          /\ certificates[c].secret = certificates[c].pem.key
          /\ certificates[c].issuer = "self-signed" =>
                certificates[c].pem.signer = internalCA /\ internalCA # None
    /\ \A i, j \in DOMAIN connections : connections[i] = connections[j] => i = j
    /\ record # None => Active(record)

(* The lease is only held by a writer, and held throughout an item. *)
LeaseInv ==
    /\ eligible \in BOOLEAN /\ lease \in BOOLEAN
    /\ lease => eligible
    /\ proc[Sweep].pc # "idle" => lease

ChallengesInv ==
    /\ txt \subseteq Procs \X Nat
    /\ http01 \subseteq Procs
    /\ \A p \in http01 : proc[p].pc = "accept"
    /\ \A v \in txt \ cut : InOrder(v[1]) /\ v \in proc[v[1]].shown

CertificatesInv == ProcsInv /\ TablesInv /\ LeaseInv /\ ChallengesInv

-----------------------------------------------------------------------------
(* A step of process p: it now holds q, and the lease ends with an item. *)
Moves(p, q) ==
    /\ proc' = [proc EXCEPT ![p] = q]
    /\ lease' = IF p = Sweep /\ q.pc = "idle" THEN FALSE ELSE lease

MovesOn(p, ca) == \E q \in ProcRows : ProcOK(q, ca) /\ Moves(p, q)

LEMMA IdleRow == Idle \in ProcRows /\ Idle.pc = "idle" /\ \A ca : ProcOK(Idle, ca)
<1>1. Idle \in ProcRows
    BY Zenon DEF Idle, ProcRows, PCs
<1>2. Idle.pc = "idle"
    BY Zenon DEF Idle
<1>3. ASSUME NEW ca PROVE ProcOK(Idle, ca)
    BY <1>2, Zenon DEF ProcOK, Ordering
<1>4. QED
    BY <1>1, <1>2, <1>3, Zenon

(* A process at a step that ends its operation, or fails it. *)
LEMMA ReturnMoves ==
    ASSUME ProcsInv, NEW p \in Procs, Return(p), NEW ca
    PROVE  MovesOn(p, ca)
    BY IdleRow, Zenon DEF Return, MovesOn, Moves

LEMMA FieldsOf ==
    ASSUME NEW q \in ProcRows
    PROVE  /\ q.pc \in PCs /\ q.cert \in Certs \cup {None} /\ q.issuer \in Issuers \cup {None}
           /\ q.challenge \in Challenges \cup {None} /\ q.token \in Tokens \cup {None}
           /\ q.made \in Material \cup Nat \cup Files \cup {None}
           /\ q.next \in Nat /\ q.shown \in SUBSET (Procs \X Nat)
    BY Zenon DEF ProcRows

(* Every update of a process is one of its program counter, token, what it *)
(* made, its next authorization and its values.                            *)
Update(q, pc, token, made, next, shown) ==
    [q EXCEPT !.pc = pc, !.token = token, !.made = made, !.next = next, !.shown = shown]

LEMMA Updated ==
    ASSUME NEW q \in ProcRows, NEW pc \in PCs, NEW token \in Tokens \cup {None},
           NEW made \in Material \cup Nat \cup Files \cup {None},
           NEW next \in Nat, NEW shown \in SUBSET (Procs \X Nat)
    PROVE  LET n == Update(q, pc, token, made, next, shown) IN
           /\ n \in ProcRows
           /\ n.pc = pc /\ n.token = token /\ n.made = made /\ n.next = next /\ n.shown = shown
           /\ n.op = q.op /\ n.cert = q.cert /\ n.issuer = q.issuer /\ n.challenge = q.challenge
<1> DEFINE mades == Material \cup Nat \cup Files \cup {None}
           values == SUBSET (Procs \X Nat)
<1>1. made \in mades /\ shown \in values
    BY Zenon
<1>2. ProcRows =
        [pc : PCs, op : {"issue", "renew", "download", None}, cert : Certs \cup {None},
         issuer : Issuers \cup {None}, challenge : Challenges \cup {None},
         token : Tokens \cup {None}, made : mades, next : Nat, shown : values]
    BY Zenon DEF ProcRows
<1> HIDE DEF mades, values
<1>3. QED
    BY <1>1, <1>2, Zenon DEF Update

LEMMA GoesTo ==
    ASSUME NEW q \in ProcRows, NEW pc \in PCs, NEW n, n = [q EXCEPT !.pc = pc]
    PROVE  /\ n \in ProcRows /\ n.pc = pc /\ n.token = q.token /\ n.made = q.made /\ n.next = q.next
           /\ n.shown = q.shown /\ n.op = q.op /\ n.cert = q.cert /\ n.issuer = q.issuer
           /\ n.challenge = q.challenge
<1> DEFINE mades == Material \cup Nat \cup Files \cup {None}
           values == SUBSET (Procs \X Nat)
<1>1. ProcRows =
        [pc : PCs, op : {"issue", "renew", "download", None}, cert : Certs \cup {None},
         issuer : Issuers \cup {None}, challenge : Challenges \cup {None},
         token : Tokens \cup {None}, made : mades, next : Nat, shown : values]
    BY Zenon DEF ProcRows
<1> HIDE DEF mades, values
<1>2. QED
    BY <1>1, Zenon

LEMMA GotoMoves ==
    ASSUME ProcsInv, NEW p \in Procs, NEW pc \in PCs \ {"idle"}, Goto(p, pc), lease' = lease,
           NEW ca, ProcOK([proc[p] EXCEPT !.pc = pc], ca)
    PROVE  MovesOn(p, ca)
<1>1. PICK q \in ProcRows : q = proc[p]
    BY Zenon DEF ProcsInv
<1> DEFINE n == [q EXCEPT !.pc = pc]
<1>2. n \in ProcRows /\ n.pc # "idle"
    BY GoesTo
<1>3. proc' = [proc EXCEPT ![p] = n]
    BY <1>1, Zenon DEF Goto, ProcsInv
<1>4. ProcOK(n, ca)
    BY <1>1, Zenon
<1> HIDE DEF n
<1>5. QED
    BY <1>2, <1>3, <1>4, Zenon DEF MovesOn, Moves

LEMMA FailMoves ==
    ASSUME ProcsInv, NEW p \in Procs, proc[p].pc # "idle", Fail(p), NEW ca
    PROVE  MovesOn(p, ca)
<1>1. PICK q \in ProcRows : q = proc[p] /\ ProcOK(q, internalCA)
    BY Zenon DEF ProcsInv
<1>2. CASE ~(q.op = "renew" \/ q.issuer = "letsencrypt")
    BY <1>1, <1>2, ReturnMoves, Zenon DEF Fail
<1>3. CASE q.op = "renew" \/ q.issuer = "letsencrypt"
  <2> DEFINE pc == IF q.op = "renew" THEN "markFailure" ELSE "insertFailed"
             n == [q EXCEPT !.pc = pc, !.shown = {}]
  <2>1. pc \in PCs /\ pc \in {"markFailure", "insertFailed"}
      BY Zenon DEF PCs
  <2>2. proc' = [proc EXCEPT ![p] = n] /\ lease' = lease
      BY <1>1, <1>3, Zenon DEF Fail, ProcsInv
  <2>3. pc = "markFailure" => q.op = "renew"
      BY Zenon
  <2> HIDE DEF pc
  <2>4. n = Update(q, pc, q.token, q.made, q.next, {})
      BY Zenon DEF ProcRows, Update
  <2>a. /\ q.token \in Tokens \cup {None} /\ q.made \in Material \cup Nat \cup Files \cup {None}
        /\ q.next \in Nat /\ {} \in SUBSET (Procs \X Nat)
      BY FieldsOf, Zenon
  <2> HIDE DEF n
  <2>5. n \in ProcRows /\ n.pc = pc /\ n.op = q.op /\ n.cert = q.cert
      BY <2>1, <2>4, <2>a, Updated
  <2>6. ProcOK(n, ca)
      BY <1>1, <2>1, <2>3, <2>5, Zenon DEF ProcOK, Ordering
  <2>7. QED
      BY <2>1, <2>2, <2>5, <2>6, Zenon DEF MovesOn, Moves
<1>4. QED
    BY <1>2, <1>3, Zenon

(* A key pair is made, for the internal CA as it is then stored. *)
LEMMA MadeMoves ==
    ASSUME ProcsInv, NEW p \in Procs, proc[p].pc # "idle", NEW signer \in Nat \cup {None}, NEW ca,
           proc[p].issuer = "self-signed" => signer = ca /\ ca # None,
           Made(p, signer)
    PROVE  keys' \in Nat /\ MovesOn(p, ca)
<1>1. PICK q \in ProcRows : q = proc[p] /\ ProcOK(q, internalCA)
    BY Zenon DEF ProcsInv
<1> DEFINE pc == IF q.op = "renew" THEN "persist" ELSE "insert"
           made == [key |-> keys + 1, signer |-> signer]
           n == [q EXCEPT !.made = made, !.shown = {}, !.pc = pc]
<1>2. pc \in PCs /\ pc \in {"persist", "insert"} /\ (pc = "persist" => q.op = "renew")
    BY Zenon DEF PCs
<1>3. keys' \in Nat /\ made \in Material /\ made.signer = signer
    BY DEF Made, ProcsInv, Material
<1>4. proc' = [proc EXCEPT ![p] = n] /\ lease' = lease
    BY <1>1, Zenon DEF Made, ProcsInv
<1> HIDE DEF pc, made
<1>5. n = Update(q, pc, q.token, made, q.next, {})
    BY Zenon DEF ProcRows, Update
<1>a. /\ q.token \in Tokens \cup {None} /\ made \in Material \cup Nat \cup Files \cup {None}
      /\ q.next \in Nat /\ {} \in SUBSET (Procs \X Nat)
    BY <1>3, FieldsOf, Zenon
<1> HIDE DEF n
<1>6. n \in ProcRows /\ n.pc = pc /\ n.made = made /\ n.op = q.op /\ n.cert = q.cert
      /\ n.issuer = q.issuer
    BY <1>2, <1>5, <1>a, Updated
<1>7. ProcOK(n, ca)
    BY <1>1, <1>2, <1>3, <1>6, Zenon DEF ProcOK, Ordering
<1>8. QED
    BY <1>2, <1>3, <1>4, <1>6, <1>7, Zenon DEF MovesOn, Moves

-----------------------------------------------------------------------------
(* What a step of one process leaves alone. *)

(* The internal CA is stored once: what was made for it stays signed by it. *)
LEMMA StaysOK ==
    ASSUME NEW q, NEW ca, NEW new, ProcOK(q, ca), ca # None => new = ca
    PROVE  ProcOK(q, new)
    BY Zenon DEF ProcOK

LEMMA Advances ==
    ASSUME CertificatesInv, NEW p \in Procs, proc[p].pc # "idle", MovesOn(p, internalCA'),
           keys' \in Nat, due' = due, eligible' = eligible,
           internalCA # None => internalCA' = internalCA
    PROVE  ProcsInv' /\ LeaseInv'
<1>1. PICK q \in ProcRows : ProcOK(q, internalCA') /\ Moves(p, q)
    BY Zenon DEF MovesOn
<1>2. proc' \in [Procs -> ProcRows] /\ proc'[p] = q /\ \A x \in Procs \ {p} : proc'[x] = proc[x]
    BY <1>1, Zenon DEF Moves, CertificatesInv, ProcsInv
<1>3. \A x \in Procs : ProcOK(proc'[x], internalCA')
  <2>1. ASSUME NEW x \in Procs \ {p} PROVE ProcOK(proc'[x], internalCA')
    <3>1. ProcOK(proc[x], internalCA) /\ proc'[x] = proc[x]
        BY <1>2, <2>1, Zenon DEF CertificatesInv, ProcsInv
    <3>2. QED
        BY <3>1, StaysOK, Zenon
  <2>2. QED
      BY <1>1, <1>2, <2>1, Zenon
<1>4. \A w \in due' : ProcOK(w, internalCA')
  <2>1. ASSUME NEW w \in due PROVE ProcOK(w, internalCA')
    <3>1. ProcOK(w, internalCA)
        BY <2>1, Zenon DEF CertificatesInv, ProcsInv
    <3>2. QED
        BY <3>1, StaysOK, Zenon
  <2>2. QED
      BY <2>1, Zenon
<1>5. ProcsInv'
    BY <1>2, <1>3, <1>4, Zenon DEF CertificatesInv, ProcsInv
<1>6. LeaseInv'
  <2>1. Sweep \in Procs
      BY Zenon DEF Procs
  <2>2. CASE p = Sweep
    <3>1. lease = TRUE /\ eligible = TRUE /\ proc'[Sweep] = q
        BY <1>2, <2>2, Zenon DEF CertificatesInv, LeaseInv
    <3>2. lease' = (q.pc # "idle")
        BY <1>1, <2>2, <3>1, Zenon DEF Moves
    <3>3. QED
        BY <3>1, <3>2, Zenon DEF LeaseInv
  <2>3. CASE p # Sweep
    <3>1. lease' = lease /\ proc'[Sweep] = proc[Sweep]
        BY <1>1, <1>2, <2>1, <2>3, Zenon DEF Moves
    <3>2. QED
        BY <3>1, Zenon DEF CertificatesInv, LeaseInv
  <2>4. QED
      BY <2>2, <2>3, Zenon
<1>7. QED
    BY <1>5, <1>6, Zenon

(* A process outside an order has no challenge up. *)
LEMMA Quiet ==
    ASSUME CertificatesInv, NEW p \in Procs, ~InOrder(p), NEW q, proc' = [proc EXCEPT ![p] = q],
           UNCHANGED <<txt, http01, cut>>
    PROVE  ChallengesInv'
<1>1. \A x \in http01 : x # p /\ x \in Procs
    BY Zenon DEF CertificatesInv, ChallengesInv, InOrder
<1>2. \A v \in txt \ cut : v[1] # p /\ v[1] \in Procs
    BY Zenon DEF CertificatesInv, ChallengesInv
<1>3. \A x \in Procs \ {p} : proc'[x] = proc[x]
    BY Zenon DEF CertificatesInv, ProcsInv
<1>4. QED
    BY <1>1, <1>2, <1>3, Zenon DEF CertificatesInv, ChallengesInv, InOrder

LEMMA TablesSame ==
    ASSUME TablesInv, UNCHANGED <<certificates, internalCA, connections, record>>
    PROVE  TablesInv'
    BY Zenon DEF TablesInv, Active, IsRow

(* A step outside an order that only moves its process. *)
LEMMA Steps ==
    ASSUME CertificatesInv, NEW p \in Procs, proc[p].pc # "idle", ~InOrder(p),
           MovesOn(p, internalCA'), keys' \in Nat,
           internalCA # None => internalCA' = internalCA, TablesInv',
           UNCHANGED <<eligible, due, txt, http01, cut>>
    PROVE  CertificatesInv'
<1>1. ProcsInv' /\ LeaseInv'
    BY Advances, Zenon
<1>2. PICK q \in ProcRows : Moves(p, q)
    BY Zenon DEF MovesOn
<1>3. ChallengesInv'
    BY <1>2, Quiet, Zenon DEF Moves
<1>4. QED
    BY <1>1, <1>3, Zenon DEF CertificatesInv

-----------------------------------------------------------------------------
(* The steps of key material. *)

LEMMA LeafMoves ==
    ASSUME ProcsInv, NEW p \in Procs, proc[p].pc # "idle", NEW ca \in Nat, issueInternalLeaf(p, ca)
    PROVE  keys' \in Nat /\ MovesOn(p, ca)
<1>1. CASE proc[p].op = "download"
    BY <1>1, ReturnMoves, Zenon DEF issueInternalLeaf, ProcsInv
<1>2. CASE proc[p].op # "download"
  <2>1. Made(p, ca) /\ ca # None
      BY <1>2, RowsAssumption, Zenon DEF issueInternalLeaf, IssueSignedByCA
  <2>2. QED
      BY <2>1, MadeMoves, Zenon
<1>3. QED
    BY <1>1, <1>2, Zenon

LEMMA GenerateMoves ==
    ASSUME ProcsInv, NEW p \in Procs, At(p, "ca"), GenerateCA(p), NEW ca
    PROVE  keys' \in Nat /\ MovesOn(p, ca)
<1>1. PICK q \in ProcRows : q = proc[p] /\ ProcOK(q, internalCA)
    BY Zenon DEF ProcsInv
<1> DEFINE made == keys + 1
           n == [q EXCEPT !.pc = "createCA", !.made = made]
<1>2. keys' \in Nat /\ made \in Nat /\ "createCA" \in PCs
    BY DEF GenerateCA, ProcsInv, PCs
<1>3. proc' = [proc EXCEPT ![p] = n] /\ lease' = lease
    BY <1>1, Zenon DEF GenerateCA, ProcsInv
<1> HIDE DEF made
<1>4. n = Update(q, "createCA", q.token, made, q.next, q.shown)
    BY Zenon DEF ProcRows, Update
<1>5. /\ q.token \in Tokens \cup {None} /\ made \in Material \cup Nat \cup Files \cup {None}
      /\ q.next \in Nat /\ q.shown \in SUBSET (Procs \X Nat)
    BY <1>2, FieldsOf, Zenon
<1> HIDE DEF n
<1>6. n \in ProcRows /\ n.pc = "createCA" /\ n.made = made /\ n.op = q.op /\ n.cert = q.cert
    BY <1>2, <1>4, <1>5, Updated
<1>7. q.pc # "idle"
    BY <1>1, Zenon DEF At
<1>8. ProcOK(n, ca)
    BY <1>1, <1>2, <1>6, <1>7, Zenon DEF ProcOK, Ordering
<1>9. QED
    BY <1>2, <1>3, <1>6, <1>8, Zenon DEF MovesOn, Moves

LEMMA LoadInternalCAInv ==
    ASSUME CertificatesInv, NEW p \in Procs, LoadInternalCA(p)
    PROVE  CertificatesInv'
<1>1. proc[p].pc # "idle" /\ ~InOrder(p)
    BY Zenon DEF LoadInternalCA, At, InOrder
<1>2. UNCHANGED <<eligible, certificates, internalCA, connections, record, txt, http01, due, cut>>
    BY Zenon DEF LoadInternalCA, tables
<1>3. keys' \in Nat /\ MovesOn(p, internalCA)
  <2>1. CASE internalCA # None
    <3>1. internalCA \in Nat /\ issueInternalLeaf(p, internalCA)
        BY <2>1, Zenon DEF LoadInternalCA, CertificatesInv, TablesInv
    <3>2. QED
        BY <1>1, <3>1, LeafMoves, Zenon DEF CertificatesInv
  <2>2. CASE internalCA = None
      BY <2>2, GenerateMoves, Zenon DEF LoadInternalCA, CertificatesInv
  <2>3. QED
      BY <2>1, <2>2, Zenon
<1>4. TablesInv'
    BY <1>2, TablesSame, Zenon DEF CertificatesInv
<1>5. QED
    BY <1>1, <1>2, <1>3, <1>4, Steps, Zenon

(* ensureInternalCA: the CA that is there already stays. *)
LEMMA CreateInternalCAInv ==
    ASSUME CertificatesInv, NEW p \in Procs, CreateInternalCA(p)
    PROVE  CertificatesInv'
<1>1. proc[p].pc # "idle" /\ ~InOrder(p)
    BY Zenon DEF CreateInternalCA, At, InOrder
<1>2. UNCHANGED <<eligible, certificates, connections, record, txt, http01, due, cut>>
    BY Zenon DEF CreateInternalCA
<1>3. proc[p].made \in Nat
    BY Zenon DEF CreateInternalCA, At, CertificatesInv, ProcsInv, ProcOK
<1>4. internalCA' \in Nat /\ (internalCA # None => internalCA' = internalCA)
    BY <1>3, Zenon DEF CreateInternalCA, CertificatesInv, TablesInv
<1>5. PICK ca \in Nat : ca = internalCA'
    BY <1>4, Zenon
<1>6. keys' \in Nat /\ MovesOn(p, ca)
    BY <1>1, <1>5, LeafMoves, Zenon DEF CreateInternalCA, CertificatesInv
<1>7. TablesInv'
  <2>1. internalCA' # None
      BY <1>4, RowsAssumption, Zenon
  <2>2. QED
      BY <1>2, <1>4, <2>1, Zenon DEF CertificatesInv, TablesInv, Active, IsRow
<1>8. QED
    BY <1>1, <1>2, <1>4, <1>5, <1>6, <1>7, Steps, Zenon

LEMMA FailsInv ==
    ASSUME CertificatesInv, NEW p \in Procs, proc[p].pc # "idle", ~InOrder(p), Fail(p),
           UNCHANGED <<eligible, certificates, internalCA, connections, record, txt, http01, keys, due, cut>>
    PROVE  CertificatesInv'
<1>1. MovesOn(p, internalCA)
    BY FailMoves, Zenon DEF CertificatesInv
<1>2. TablesInv' /\ keys' \in Nat
    BY TablesSame, Zenon DEF CertificatesInv, ProcsInv
<1>3. QED
    BY <1>1, <1>2, Steps, Zenon

LEMMA CARejectedInv ==
    ASSUME CertificatesInv, NEW p \in Procs, CARejected(p)
    PROVE  CertificatesInv'
    BY FailsInv, Zenon DEF CARejected, At, InOrder, tables

LEMMA StoreUploadedInv ==
    ASSUME CertificatesInv, NEW p \in Procs, StoreUploaded(p)
    PROVE  CertificatesInv'
<1>1. proc[p].pc = "validate" /\ proc[p].pc # "idle" /\ ~InOrder(p)
    BY Zenon DEF StoreUploaded, At, InOrder
<1>2. UNCHANGED <<eligible, certificates, internalCA, connections, record, txt, http01, due, cut>>
    BY Zenon DEF StoreUploaded, tables
<1>3. CASE Made(p, None)
  <2>1. proc[p].issuer # "self-signed"
      BY <1>1, Zenon DEF CertificatesInv, ProcsInv, ProcOK, Ordering
  <2>2. keys' \in Nat /\ MovesOn(p, internalCA)
      BY <1>1, <1>3, <2>1, MadeMoves, Zenon DEF CertificatesInv
  <2>3. TablesInv'
      BY <1>2, TablesSame, Zenon DEF CertificatesInv
  <2>4. QED
      BY <1>1, <1>2, <2>2, <2>3, Steps, Zenon
<1>4. CASE Fail(p) /\ UNCHANGED keys
    BY <1>1, <1>2, <1>4, FailsInv, Zenon
<1>5. QED
    BY <1>3, <1>4, Zenon DEF StoreUploaded

-----------------------------------------------------------------------------
(* The steps of an ACME order. *)

LEMMA OrderMoves ==
    ASSUME ProcsInv, NEW p \in Procs, proc[p].pc \in Ordering, NEW pc \in {"connect", "authorize", "accept"},
           pc = "connect" => proc[p].token # None, Goto(p, pc), lease' = lease, NEW ca
    PROVE  MovesOn(p, ca)
<1>1. PICK q \in ProcRows : q = proc[p] /\ ProcOK(q, internalCA)
    BY Zenon DEF ProcsInv
<1>2. pc \in PCs \ {"idle"}
    BY Zenon DEF PCs
<1> DEFINE n == [q EXCEPT !.pc = pc]
<1>3. n.pc = pc /\ n.token = q.token /\ n.op = q.op /\ n.cert = q.cert /\ n.issuer = q.issuer
    BY <1>2, GoesTo
<1> HIDE DEF n
<1>4. ProcOK(n, ca)
    BY <1>1, <1>3, Zenon DEF ProcOK, Ordering
<1>5. QED
    BY <1>1, <1>2, <1>4, GotoMoves, Zenon DEF n

LEMMA ChallengeApplyInv ==
    ASSUME CertificatesInv, NEW p \in Procs, ChallengeApply(p)
    PROVE  CertificatesInv'
<1>1. proc[p].pc = "challengeApply" /\ proc[p].pc # "idle" /\ ~InOrder(p)
    BY Zenon DEF ChallengeApply, At, InOrder
<1>2. UNCHANGED <<eligible, certificates, internalCA, connections, record, txt, http01, keys, due, cut>>
    BY Zenon DEF ChallengeApply
<1>3. CASE Fail(p)
    BY <1>1, <1>2, <1>3, FailsInv, Zenon
<1>4. CASE Goto(p, "authorize") /\ UNCHANGED lease
  <2>1. MovesOn(p, internalCA)
      BY <1>1, <1>4, OrderMoves, Zenon DEF Ordering, CertificatesInv
  <2>2. TablesInv' /\ keys' \in Nat
      BY <1>2, TablesSame, Zenon DEF CertificatesInv, ProcsInv
  <2>3. QED
      BY <1>1, <1>2, <2>1, <2>2, Steps, Zenon
<1>5. QED
    BY <1>3, <1>4, Zenon DEF ChallengeApply

LEMMA NewestMoves ==
    ASSUME ProcsInv, NEW p \in Procs, At(p, "connection"), NEW token \in Tokens, lease' = lease,
           proc' = [proc EXCEPT ![p].pc = "authorize", ![p].token = token], NEW ca
    PROVE  MovesOn(p, ca)
<1>1. PICK q \in ProcRows : q = proc[p] /\ ProcOK(q, internalCA) /\ q.pc = "connection"
    BY Zenon DEF ProcsInv, At
<1> DEFINE n == [q EXCEPT !.pc = "authorize", !.token = token]
<1>2. proc' = [proc EXCEPT ![p] = n]
    BY <1>1, Zenon DEF ProcsInv
<1>3. n = Update(q, "authorize", token, q.made, q.next, q.shown)
    BY Zenon DEF ProcRows, Update
<1>4. /\ q.made \in Material \cup Nat \cup Files \cup {None} /\ "authorize" \in PCs
      /\ q.next \in Nat /\ q.shown \in SUBSET (Procs \X Nat)
    BY FieldsOf, Zenon DEF PCs
<1> HIDE DEF n
<1>5. n \in ProcRows /\ n.pc = "authorize" /\ n.op = q.op /\ n.cert = q.cert /\ n.issuer = q.issuer
    BY <1>3, <1>4, Updated
<1>6. ProcOK(n, ca)
    BY <1>1, <1>5, Zenon DEF ProcOK, Ordering
<1>7. QED
    BY <1>2, <1>5, <1>6, Zenon DEF MovesOn, Moves

LEMMA ResolveCredentialsInv ==
    ASSUME CertificatesInv, NEW p \in Procs, ResolveCredentials(p)
    PROVE  CertificatesInv'
<1>1. proc[p].pc = "connection" /\ proc[p].pc # "idle" /\ ~InOrder(p) /\ At(p, "connection")
    BY Zenon DEF ResolveCredentials, At, InOrder
<1>2. UNCHANGED <<eligible, certificates, internalCA, connections, record, txt, http01, keys, due, cut>>
    BY Zenon DEF ResolveCredentials, tables
<1>3. TablesInv' /\ keys' \in Nat
    BY <1>2, TablesSame, Zenon DEF CertificatesInv, ProcsInv
<1>4. CASE Fail(p)
    BY <1>1, <1>2, <1>4, FailsInv, Zenon
<1>5. CASE /\ proc[p].token # None
           /\ Goto(p, IF Connected(proc[p].token) THEN "authorize" ELSE "connect")
           /\ UNCHANGED lease
  <2>1. MovesOn(p, internalCA)
      BY <1>1, <1>5, OrderMoves, Zenon DEF Ordering, CertificatesInv
  <2>2. QED
      BY <1>1, <1>2, <1>3, <2>1, Steps, Zenon
<1>6. CASE /\ connections # <<>>
           /\ proc' = [proc EXCEPT ![p].pc = "authorize", ![p].token = connections[Len(connections)]]
           /\ UNCHANGED lease
  <2>1. connections[Len(connections)] \in Tokens
      BY <1>6 DEF CertificatesInv, TablesInv
  <2>2. PICK token \in Tokens : token = connections[Len(connections)]
      BY <2>1, Zenon
  <2>3. MovesOn(p, internalCA)
      BY <1>1, <1>6, <2>2, NewestMoves, Zenon DEF CertificatesInv
  <2>4. QED
      BY <1>1, <1>2, <1>3, <2>3, Steps, Zenon
<1>7. QED
    BY <1>4, <1>5, <1>6, Zenon DEF ResolveCredentials

(* createCloudflareConnection: a token that is there is not added again. *)
LEMMA CreateConnectionInv ==
    ASSUME CertificatesInv, NEW p \in Procs, CreateConnection(p)
    PROVE  CertificatesInv'
<1>1. proc[p].pc = "connect" /\ proc[p].pc # "idle" /\ ~InOrder(p)
    BY Zenon DEF CreateConnection, At, InOrder
<1>2. UNCHANGED <<eligible, certificates, internalCA, record, txt, http01, keys, due, cut>>
    BY Zenon DEF CreateConnection
<1>3. PICK t \in Tokens : t = proc[p].token
  <2>1. proc[p] \in ProcRows /\ ProcOK(proc[p], internalCA)
      BY Zenon DEF CertificatesInv, ProcsInv
  <2>2. QED
      BY <1>1, <2>1, Zenon DEF ProcRows, ProcOK
<1>4. MovesOn(p, internalCA) /\ keys' \in Nat
    BY <1>1, <1>2, OrderMoves, Zenon DEF CreateConnection, Ordering, CertificatesInv, ProcsInv
<1>5. /\ connections' \in Seq(Tokens)
      /\ \A i, j \in DOMAIN connections' : connections'[i] = connections'[j] => i = j
  <2>1. connections \in Seq(Tokens) /\ \A i, j \in DOMAIN connections : connections[i] = connections[j] => i = j
      BY Zenon DEF CertificatesInv, TablesInv
  <2>2. CASE Connected(t)
      BY <1>3, <2>1, <2>2, Zenon DEF CreateConnection
  <2>3. CASE ~Connected(t)
    <3>1. connections' = Append(connections, t)
        BY <1>3, <2>3, Zenon DEF CreateConnection
    <3>2. QED
        BY <2>1, <2>3, <3>1 DEF Connected
  <2>4. QED
      BY <2>2, <2>3, Zenon
<1>6. TablesInv'
    BY <1>2, <1>5, Zenon DEF CertificatesInv, TablesInv, Active, IsRow
<1>7. QED
    BY <1>1, <1>2, <1>4, <1>6, Steps, Zenon

LEMMA OrderSteps ==
    ASSUME CertificatesInv, NEW p \in Procs, proc[p].pc # "idle", MovesOn(p, internalCA), keys' \in Nat,
           ChallengesInv', UNCHANGED <<eligible, tables, due>>
    PROVE  CertificatesInv'
<1>1. TablesInv' /\ internalCA' = internalCA
    BY TablesSame, Zenon DEF CertificatesInv, tables
<1>2. ProcsInv' /\ LeaseInv'
    BY <1>1, Advances, Zenon
<1>3. QED
    BY <1>1, <1>2, Zenon DEF CertificatesInv

LEMMA AuthorizeHTTPInv ==
    ASSUME CertificatesInv, NEW p \in Procs, AuthorizeHTTP(p)
    PROVE  CertificatesInv'
<1>1. proc[p].pc = "authorize" /\ proc[p].pc # "idle"
    BY Zenon DEF AuthorizeHTTP, At
<1>2. UNCHANGED <<eligible, lease, tables, txt, keys, due, cut>>
    BY Zenon DEF AuthorizeHTTP
<1>3. MovesOn(p, internalCA) /\ keys' \in Nat
    BY <1>1, <1>2, OrderMoves, Zenon DEF AuthorizeHTTP, Ordering, CertificatesInv, ProcsInv
<1>4. ChallengesInv'
  <2>a. proc[p] \in ProcRows /\ "accept" \in PCs
      BY Zenon DEF CertificatesInv, ProcsInv, PCs
  <2>1. PICK q : q = [proc[p] EXCEPT !.pc = "accept"]
      BY Zenon
  <2>b. q \in ProcRows /\ q.pc = "accept" /\ q.shown = proc[p].shown
      BY <2>a, <2>1, GoesTo
  <2>2. proc' = [proc EXCEPT ![p] = q] /\ proc \in [Procs -> ProcRows]
      BY <2>1, Zenon DEF AuthorizeHTTP, Goto, CertificatesInv, ProcsInv
  <2>3. \A x \in Procs : /\ x # p => proc'[x] = proc[x]
                         /\ proc'[x].shown = proc[x].shown
                         /\ proc[x].pc \in {"authorize", "accept"} => proc'[x].pc \in {"authorize", "accept"}
      BY <2>2, <2>b, Zenon
  <2>4. proc'[p].pc = "accept" /\ http01' = http01 \cup {p}
      BY <2>2, <2>b, Zenon DEF AuthorizeHTTP
  <2>5. http01' \subseteq Procs /\ \A x \in http01' : proc'[x].pc = "accept"
      BY <2>3, <2>4, Zenon DEF CertificatesInv, ChallengesInv
  <2>6. \A v \in txt \ cut : v[1] \in Procs
      BY Zenon DEF CertificatesInv, ChallengesInv
  <2>7. QED
      BY <1>2, <2>3, <2>5, <2>6, Zenon DEF CertificatesInv, ChallengesInv, InOrder
<1>5. QED
    BY <1>1, <1>2, <1>3, <1>4, OrderSteps, Zenon

(* The process after an authorization: the next one, or the wait. *)
Authorized(p, shown) ==
    proc' = [proc EXCEPT ![p].next = @ + 1, ![p].shown = shown, ![p].pc = NextAuthz(p)]

LEMMA NextAuthzMoves ==
    ASSUME ProcsInv, NEW p \in Procs, proc[p].pc = "authorize", lease' = lease,
           NEW shown \in SUBSET (Procs \X Nat), Authorized(p, shown), NEW ca
    PROVE  /\ MovesOn(p, ca)
           /\ \A x \in Procs \ {p} : proc'[x] = proc[x]
           /\ proc'[p].pc \in {"authorize", "accept"} /\ proc'[p].shown = shown
<1>1. PICK q \in ProcRows : q = proc[p] /\ ProcOK(q, internalCA) /\ q.pc = "authorize"
    BY Zenon DEF ProcsInv
<1> DEFINE pc == NextAuthz(p)
           next == q.next + 1
           n == [q EXCEPT !.next = next, !.shown = shown, !.pc = pc]
<1>2. pc \in {"authorize", "accept"} /\ pc \in PCs
    BY Zenon DEF NextAuthz, PCs
<1>3. proc' = [proc EXCEPT ![p] = n]
    BY <1>1, Zenon DEF ProcsInv, Authorized
<1>4. /\ q.made \in Material \cup Nat \cup Files \cup {None} /\ q.token \in Tokens \cup {None}
      /\ next \in Nat
    BY FieldsOf
<1>5. PICK m \in PCs : m = pc
    BY <1>2, Zenon
<1> HIDE DEF pc, next
<1>6. n = Update(q, m, q.token, q.made, next, shown)
    BY <1>5, Zenon DEF ProcRows, Update
<1> HIDE DEF n
<1>7. n \in ProcRows /\ n.pc = m /\ n.shown = shown /\ n.op = q.op /\ n.cert = q.cert
      /\ n.issuer = q.issuer
    BY <1>4, <1>6, Updated
<1>8. ProcOK(n, ca)
    BY <1>1, <1>2, <1>5, <1>7, Zenon DEF ProcOK, Ordering
<1>9. MovesOn(p, ca)
    BY <1>2, <1>3, <1>5, <1>7, <1>8, Zenon DEF MovesOn, Moves
<1>10. proc'[p] = n /\ \A x \in Procs \ {p} : proc'[x] = proc[x]
    BY <1>3, Zenon DEF ProcsInv
<1>11. QED
    BY <1>2, <1>5, <1>7, <1>9, <1>10, Zenon

LEMMA PresentDNSInv ==
    ASSUME CertificatesInv, NEW p \in Procs, PresentDNS(p)
    PROVE  CertificatesInv'
<1>1. proc[p].pc = "authorize" /\ proc[p].pc # "idle" /\ p \notin http01
    BY Zenon DEF PresentDNS, At, CertificatesInv, ChallengesInv
<1>2. UNCHANGED <<eligible, lease, tables, http01, keys, due>> /\ keys' \in Nat
    BY Zenon DEF PresentDNS, CertificatesInv, ProcsInv
<1>3. Value(p) \in Procs \X Nat /\ Value(p)[1] = p
    BY FieldsOf, Zenon DEF CertificatesInv, ProcsInv, Value
<1>4. PICK shown \in SUBSET (Procs \X Nat) : shown = proc[p].shown \cup {Value(p)}
    BY <1>3, FieldsOf, Zenon DEF CertificatesInv, ProcsInv
<1>5. Authorized(p, shown)
    BY <1>4, Zenon DEF PresentDNS, Authorized
<1>6. /\ MovesOn(p, internalCA)
      /\ \A x \in Procs \ {p} : proc'[x] = proc[x]
      /\ proc'[p].pc \in {"authorize", "accept"} /\ proc'[p].shown = shown
    BY <1>1, <1>2, <1>4, <1>5, NextAuthzMoves, Zenon DEF CertificatesInv
<1>7. txt' \subseteq txt \cup {Value(p)} /\ cut' = cut \cap txt'
    BY Zenon DEF PresentDNS, Present, CleanupAll
<1>8. ASSUME NEW v \in txt' \ cut' PROVE v[1] \in Procs /\ InOrder(v[1])' /\ v \in proc'[v[1]].shown
  <2>1. CASE v = Value(p)
      BY <1>3, <1>4, <1>6, <2>1, Zenon DEF InOrder
  <2>2. CASE v # Value(p)
    <3>1. v \in txt \ cut
        BY <1>7, <1>8, <2>2, Zenon
    <3>2. v[1] \in Procs /\ InOrder(v[1]) /\ v \in proc[v[1]].shown
        BY <3>1, Zenon DEF CertificatesInv, ChallengesInv
    <3>3. QED
        BY <1>4, <1>6, <3>2, Zenon DEF InOrder
  <2>3. QED
      BY <2>1, <2>2, Zenon
<1>9. ChallengesInv'
  <2>1. txt' \subseteq Procs \X Nat
      BY <1>3, <1>7, Zenon DEF CertificatesInv, ChallengesInv
  <2>2. http01' \subseteq Procs /\ \A x \in http01' : proc'[x].pc = "accept"
      BY <1>1, <1>2, <1>6, Zenon DEF CertificatesInv, ChallengesInv
  <2>3. QED
      BY <1>8, <2>1, <2>2, Zenon DEF ChallengesInv
<1>10. QED
    BY <1>1, <1>2, <1>6, <1>9, OrderSteps, Zenon

LEMMA AlreadyValidInv ==
    ASSUME CertificatesInv, NEW p \in Procs, AlreadyValid(p)
    PROVE  CertificatesInv'
<1>1. proc[p].pc = "authorize" /\ proc[p].pc # "idle" /\ p \notin http01
    BY Zenon DEF AlreadyValid, At, CertificatesInv, ChallengesInv
<1>2. UNCHANGED <<eligible, lease, tables, txt, http01, keys, due, cut>> /\ keys' \in Nat
    BY Zenon DEF AlreadyValid, CertificatesInv, ProcsInv
<1>3. PICK shown \in SUBSET (Procs \X Nat) : shown = proc[p].shown
    BY FieldsOf, Zenon DEF CertificatesInv, ProcsInv
<1>4. Authorized(p, shown)
  <2>1. proc[p] \in ProcRows /\ proc \in [Procs -> ProcRows]
      BY Zenon DEF CertificatesInv, ProcsInv
  <2>2. QED
      BY <1>3, <2>1, Zenon DEF AlreadyValid, Authorized, ProcRows
<1>5. /\ MovesOn(p, internalCA)
      /\ \A x \in Procs \ {p} : proc'[x] = proc[x]
      /\ proc'[p].pc \in {"authorize", "accept"} /\ proc'[p].shown = proc[p].shown
    BY <1>1, <1>2, <1>3, <1>4, NextAuthzMoves, Zenon DEF CertificatesInv
<1>6. ChallengesInv'
  <2>1. http01' \subseteq Procs /\ \A x \in http01' : proc'[x].pc = "accept"
      BY <1>1, <1>2, <1>5, Zenon DEF CertificatesInv, ChallengesInv
  <2>2. \A v \in txt \ cut : v[1] \in Procs
      BY Zenon DEF CertificatesInv, ChallengesInv
  <2>3. QED
      BY <1>2, <1>5, <2>1, <2>2, Zenon DEF CertificatesInv, ChallengesInv, InOrder
<1>7. QED
    BY <1>1, <1>2, <1>5, <1>6, OrderSteps, Zenon

(* The order of p ends: what it showed is withdrawn, or its removal was cut *)
(* short.                                                                  *)
LEMMA OrderEnds ==
    ASSUME CertificatesInv, NEW p \in Procs, MovesOn(p, internalCA),
           http01' = http01 \ {p}, txt' \subseteq txt, cut \cap txt' \subseteq cut',
           proc[p].shown \cap txt' \subseteq cut'
    PROVE  ChallengesInv'
<1>1. PICK q \in ProcRows : proc' = [proc EXCEPT ![p] = q]
    BY Zenon DEF MovesOn, Moves
<1>2. \A x \in Procs \ {p} : proc'[x] = proc[x]
    BY <1>1, Zenon DEF CertificatesInv, ProcsInv
<1>3. txt' \subseteq Procs \X Nat /\ http01' \subseteq Procs /\ \A x \in http01' : proc'[x].pc = "accept"
    BY <1>2, Zenon DEF CertificatesInv, ChallengesInv
<1>4. ASSUME NEW v \in txt' \ cut' PROVE InOrder(v[1])' /\ v \in proc'[v[1]].shown
  <2>1. v \in txt \ cut /\ v \notin proc[p].shown
      BY <1>4, Zenon
  <2>2. v[1] \in Procs /\ InOrder(v[1]) /\ v \in proc[v[1]].shown
      BY <2>1, Zenon DEF CertificatesInv, ChallengesInv
  <2>3. v[1] \in Procs \ {p}
      BY <2>1, <2>2, Zenon
  <2>4. QED
      BY <1>2, <2>2, <2>3, Zenon DEF InOrder
<1>5. QED
    BY <1>3, <1>4, Zenon DEF ChallengesInv

LEMMA PresentFailsInv ==
    ASSUME CertificatesInv, NEW p \in Procs, PresentFails(p)
    PROVE  CertificatesInv'
<1>1. proc[p].pc = "authorize" /\ proc[p].pc # "idle" /\ p \notin http01
    BY Zenon DEF PresentFails, At, CertificatesInv, ChallengesInv
<1>2. UNCHANGED <<eligible, tables, txt, http01, keys, due>> /\ keys' \in Nat
    BY Zenon DEF PresentFails, CertificatesInv, ProcsInv
<1>3. MovesOn(p, internalCA)
    BY <1>1, FailMoves, Zenon DEF PresentFails, CertificatesInv
<1>4. ChallengesInv'
    BY <1>1, <1>2, <1>3, OrderEnds, Zenon DEF PresentFails
<1>5. QED
    BY <1>1, <1>2, <1>3, <1>4, OrderSteps, Zenon

LEMMA WithdrawInv ==
    ASSUME CertificatesInv, NEW p \in Procs, Withdraw(p)
    PROVE  CertificatesInv'
<1>1. proc[p].pc = "accept" /\ proc[p].pc # "idle"
    BY Zenon DEF Withdraw, At
<1>2. UNCHANGED <<eligible, tables, due>> /\ http01' = http01 \ {p}
    BY Zenon DEF Withdraw
<1>3. keys' \in Nat /\ MovesOn(p, internalCA)
  <2>1. CASE Made(p, None)
    <3>1. proc[p].issuer # "self-signed"
        BY <1>1, Zenon DEF CertificatesInv, ProcsInv, ProcOK, Ordering
    <3>2. QED
        BY <1>1, <2>1, <3>1, MadeMoves, Zenon DEF CertificatesInv
  <2>2. CASE Fail(p) /\ UNCHANGED keys
      BY <1>1, <2>2, FailMoves, Zenon DEF CertificatesInv, ProcsInv
  <2>3. QED
      BY <2>1, <2>2, Zenon DEF Withdraw, Outcome
<1>4. PICK kept \in {{}, proc[p].shown \cap txt} :
         txt' = txt \ (proc[p].shown \ kept) /\ cut' = (cut \cap txt') \cup kept
    BY Zenon DEF Withdraw, Cleanup
<1>5. ChallengesInv'
    BY <1>2, <1>3, <1>4, OrderEnds, Zenon
<1>6. QED
    BY <1>1, <1>2, <1>3, <1>5, OrderSteps, Zenon

-----------------------------------------------------------------------------
(* The steps that store. *)

(* What a row of the table must say, when ca is the internal CA. *)
RowOK(row, ca) ==
    row.status = "active" =>
        /\ row.secret = row.pem.key
        /\ row.issuer = "self-signed" => row.pem.signer = ca /\ ca # None

LEMMA RowWritten ==
    ASSUME TablesInv, NEW c \in Certs, NEW row \in CertRows, RowOK(row, internalCA),
           record = c => row.status = "active",
           certificates' = [certificates EXCEPT ![c] = row],
           UNCHANGED <<internalCA, connections, record>>
    PROVE  TablesInv'
<1>1. certificates' \in [Certs -> CertRows \cup {None, Deleted}] /\ certificates'[c] = row
      /\ \A d \in Certs \ {c} : certificates'[d] = certificates[d]
    BY Zenon DEF TablesInv
<1>2. row \notin {None, Deleted}
    BY RowsAssumption, Zenon
<1>3. ASSUME NEW d \in Certs, Active(d)'
      PROVE  /\ certificates'[d].secret = certificates'[d].pem.key
             /\ certificates'[d].issuer = "self-signed" =>
                   certificates'[d].pem.signer = internalCA /\ internalCA # None
  <2>1. CASE d = c
      BY <1>1, <1>3, <2>1, Zenon DEF RowOK, Active
  <2>2. CASE d # c
      BY <1>1, <1>3, <2>2, Zenon DEF TablesInv, Active, IsRow
  <2>3. QED
      BY <2>1, <2>2, Zenon
<1>4. record' # None => Active(record)'
  <2>1. CASE record = c
      BY <1>1, <1>2, <2>1, Zenon DEF Active, IsRow
  <2>2. CASE record # c /\ record # None
      BY <1>1, <2>2, Zenon DEF TablesInv, Active, IsRow
  <2>3. QED
      BY <2>1, <2>2, Zenon
<1>5. QED
    BY <1>1, <1>3, <1>4, Zenon DEF TablesInv

LEMMA RowFields ==
    ASSUME NEW row \in CertRows
    PROVE  /\ row.issuer \in Issuers \cup {None} /\ row.challenge \in Challenges \cup {None}
           /\ row.status \in {"active", "failed"} /\ row.secret \in Nat \cup {None}
           /\ row.pem \in [key : Nat \cup {None}, signer : Nat \cup {None}]
    BY Zenon DEF CertRows

LEMMA NewRow ==
    ASSUME NEW issuer \in Issuers \cup {None}, NEW challenge \in Challenges \cup {None},
           NEW made \in [key : Nat \cup {None}, signer : Nat \cup {None}]
    PROVE  /\ Row(issuer, challenge, made) \in CertRows
           /\ [Row(issuer, challenge, made) EXCEPT !.status = "failed", !.failure = TRUE] \in CertRows
<1> DEFINE pems == [key : Nat \cup {None}, signer : Nat \cup {None}]
<1>1. made.key \in Nat \cup {None} /\ made \in pems
    BY Zenon
<1> HIDE DEF pems
<1>2. CertRows = [issuer : Issuers \cup {None}, challenge : Challenges \cup {None},
                  status : {"active", "failed"}, secret : Nat \cup {None}, pem : pems,
                  due : BOOLEAN, failure : BOOLEAN]
    BY Zenon DEF CertRows, pems
<1>3. QED
    BY <1>1, <1>2, Zenon DEF Row

(* A step that only writes a table's row and moves its process. *)
LEMMA Stores ==
    ASSUME CertificatesInv, NEW p \in Procs, proc[p].pc # "idle", ~InOrder(p), MovesOn(p, internalCA),
           TablesInv', UNCHANGED <<eligible, internalCA, keys, due, txt, http01, cut>>
    PROVE  CertificatesInv'
<1>1. keys' \in Nat
    BY Zenon DEF CertificatesInv, ProcsInv
<1>2. QED
    BY <1>1, Steps, Zenon

LEMMA InsertIssuedInv ==
    ASSUME CertificatesInv, NEW p \in Procs, NEW c \in Certs, InsertIssued(p, c)
    PROVE  CertificatesInv'
<1>1. proc[p].pc = "insert" /\ proc[p].pc # "idle" /\ ~InOrder(p)
    BY Zenon DEF InsertIssued, At, InOrder
<1>2. UNCHANGED <<eligible, internalCA, connections, record, txt, http01, keys, due, cut>>
    BY Zenon DEF InsertIssued
<1>3. PICK q \in ProcRows : q = proc[p] /\ ProcOK(q, internalCA)
    BY Zenon DEF CertificatesInv, ProcsInv
<1>4. /\ q.made \in Material /\ q.issuer \in Issuers \cup {None} /\ q.challenge \in Challenges \cup {None}
      /\ q.issuer = "self-signed" => q.made.signer = internalCA /\ internalCA # None
    BY <1>1, <1>3, FieldsOf, Zenon DEF ProcOK
<1>5. q.made \in [key : Nat \cup {None}, signer : Nat \cup {None}]
    BY <1>4, Zenon DEF Material
<1>6. PICK row \in CertRows : row = Row(q.issuer, q.challenge, q.made)
    BY <1>4, <1>5, NewRow, Zenon
<1>7. RowOK(row, internalCA) /\ row.status = "active"
    BY <1>4, <1>6, Zenon DEF Row, RowOK
<1>8. certificates' = [certificates EXCEPT ![c] = row]
    BY <1>3, <1>6, Zenon DEF InsertIssued
<1>9. TablesInv'
    BY <1>2, <1>7, <1>8, RowWritten, Zenon DEF CertificatesInv
<1>10. MovesOn(p, internalCA)
    BY ReturnMoves, Zenon DEF InsertIssued, CertificatesInv
<1>11. QED
    BY <1>1, <1>2, <1>9, <1>10, Stores, Zenon

LEMMA InsertFailedInv ==
    ASSUME CertificatesInv, NEW p \in Procs, NEW c \in Certs, InsertFailed(p, c)
    PROVE  CertificatesInv'
<1>1. proc[p].pc # "idle" /\ ~InOrder(p)
    BY Zenon DEF InsertFailed, At, InOrder
<1>2. UNCHANGED <<eligible, internalCA, connections, record, txt, http01, keys, due, cut>>
    BY Zenon DEF InsertFailed
<1>3. PICK q \in ProcRows : q = proc[p]
    BY Zenon DEF CertificatesInv, ProcsInv
<1> DEFINE blank == [key |-> None, signer |-> None]
           row == [Row(q.issuer, q.challenge, blank) EXCEPT !.status = "failed", !.failure = TRUE]
<1>4. row \in CertRows
    BY <1>3, FieldsOf, NewRow, Zenon
<1>5. row.status = "failed"
    BY Zenon DEF Row
<1>6. certificates' = [certificates EXCEPT ![c] = row]
    BY <1>3, Zenon DEF InsertFailed
<1> HIDE DEF row
<1>7. record # c
  <2>1. c # None /\ certificates[c] = None
      BY CertificatesAssumption, Zenon DEF InsertFailed, FreshCert
  <2>2. QED
      BY <2>1, Zenon DEF CertificatesInv, TablesInv, Active, IsRow
<1>8. RowOK(row, internalCA)
    BY <1>5, Zenon DEF RowOK
<1>9. TablesInv'
    BY <1>2, <1>4, <1>6, <1>7, <1>8, RowWritten, Zenon DEF CertificatesInv
<1>10. MovesOn(p, internalCA)
    BY ReturnMoves, Zenon DEF InsertFailed, CertificatesInv
<1>11. QED
    BY <1>1, <1>2, <1>9, <1>10, Stores, Zenon

(* persistRenewedCertificate replaces key and certificate together. *)
Renewed(row, made) ==
    [row EXCEPT !.secret = made.key, !.pem = made, !.due = FALSE, !.failure = FALSE]

LEMMA RenewedRow ==
    ASSUME NEW row \in CertRows, NEW made \in Material
    PROVE  LET n == Renewed(row, made) IN
           /\ n \in CertRows /\ n.status = row.status /\ n.issuer = row.issuer
           /\ n.pem = made /\ n.secret = made.key
<1> DEFINE pems == [key : Nat \cup {None}, signer : Nat \cup {None}]
<1>1. made.key \in Nat \cup {None} /\ made \in pems
    BY Zenon DEF Material
<1> HIDE DEF pems
<1>2. CertRows = [issuer : Issuers \cup {None}, challenge : Challenges \cup {None},
                  status : {"active", "failed"}, secret : Nat \cup {None}, pem : pems,
                  due : BOOLEAN, failure : BOOLEAN]
    BY Zenon DEF CertRows, pems
<1>3. QED
    BY <1>1, <1>2, Zenon DEF Renewed

LEMMA MarkedRow ==
    ASSUME NEW row \in CertRows, NEW n, n = [row EXCEPT !.failure = TRUE] \/ n = [row EXCEPT !.due = TRUE]
    PROVE  /\ n \in CertRows /\ n.status = row.status /\ n.issuer = row.issuer
           /\ n.pem = row.pem /\ n.secret = row.secret
    BY ZenonT(60) DEF CertRows

LEMMA ActiveRow ==
    ASSUME TablesInv, NEW c \in Certs, Active(c)
    PROVE  /\ certificates[c] \in CertRows /\ certificates[c].status = "active"
           /\ RowOK(certificates[c], internalCA)
    BY Zenon DEF TablesInv, Active, IsRow, RowOK

LEMMA PersistInv ==
    ASSUME CertificatesInv, NEW p \in Procs, Persist(p)
    PROVE  CertificatesInv'
<1>1. proc[p].pc = "persist" /\ proc[p].pc # "idle" /\ ~InOrder(p)
    BY Zenon DEF Persist, At, InOrder
<1>2. UNCHANGED <<eligible, internalCA, connections, record, txt, http01, keys, due, cut>>
    BY Zenon DEF Persist
<1>3. PICK q \in ProcRows : q = proc[p] /\ ProcOK(q, internalCA)
    BY Zenon DEF CertificatesInv, ProcsInv
<1>4. /\ q.cert \in Certs /\ q.made \in Material
      /\ q.issuer = "self-signed" => q.made.signer = internalCA /\ internalCA # None
    BY <1>1, <1>3, Zenon DEF ProcOK
<1>5. CASE Active(q.cert) /\ certificates[q.cert].issuer = q.issuer
  <2>1. PICK row \in CertRows : row = certificates[q.cert] /\ row.status = "active"
      BY <1>4, <1>5, ActiveRow, Zenon DEF CertificatesInv
  <2>a. PICK made \in Material : made = q.made
      BY <1>4, Zenon
  <2>2. PICK n : n = Renewed(row, made)
      BY Zenon
  <2>b. /\ n \in CertRows /\ n.status = row.status /\ n.issuer = row.issuer
        /\ n.pem = made /\ n.secret = made.key
      BY <2>2, RenewedRow, Zenon
  <2>3. /\ n \in CertRows /\ n.status = "active" /\ n.issuer = q.issuer
        /\ n.pem = q.made /\ n.secret = q.made.key
      BY <1>5, <2>1, <2>a, <2>b, Zenon
  <2>4. RowOK(n, internalCA)
      BY <1>4, <2>3, Zenon DEF RowOK
  <2>5. certificates' = [certificates EXCEPT ![q.cert] = n]
      BY <1>3, <1>4, <1>5, <2>1, <2>2, <2>a, Zenon DEF Persist, UpdateMaterial, Renewed, CertificatesInv, TablesInv
  <2>6. TablesInv'
      BY <1>2, <1>4, <2>3, <2>4, <2>5, RowWritten, ZenonT(60) DEF CertificatesInv
  <2>7. MovesOn(p, internalCA)
    <3>1. "enqueue" \in PCs \ {"idle"} /\ Goto(p, "enqueue") /\ lease' = lease
        BY <1>3, <1>5, Zenon DEF Persist, PCs
    <3>2. PICK m : m = [q EXCEPT !.pc = "enqueue"]
        BY ZenonT(60)
    <3>3. m.pc = "enqueue" /\ m.op = q.op /\ m.cert = q.cert
        BY <3>1, <3>2, GoesTo
    <3>4. ProcOK(m, internalCA)
        BY <1>4, <3>3, Zenon DEF ProcOK, Ordering
    <3>5. QED
        BY <1>3, <3>1, <3>2, <3>4, GotoMoves, Zenon DEF CertificatesInv
  <2>8. QED
      BY <1>1, <1>2, <2>6, <2>7, Stores, Zenon
<1>6. CASE ~(Active(q.cert) /\ certificates[q.cert].issuer = q.issuer)
  <2>1. Return(p) /\ UNCHANGED certificates
      BY <1>3, <1>6, Zenon DEF Persist
  <2>2. TablesInv' /\ MovesOn(p, internalCA)
      BY <1>2, <2>1, TablesSame, ReturnMoves, Zenon DEF CertificatesInv
  <2>3. QED
      BY <1>1, <1>2, <2>2, Stores, Zenon
<1>7. QED
    BY <1>5, <1>6, Zenon

LEMMA EnqueueApplyInv ==
    ASSUME CertificatesInv, NEW p \in Procs, EnqueueApply(p)
    PROVE  CertificatesInv'
<1>1. proc[p].pc # "idle" /\ ~InOrder(p)
    BY Zenon DEF EnqueueApply, At, InOrder
<1>2. UNCHANGED <<eligible, certificates, internalCA, connections, record, txt, http01, keys, due, cut>>
    BY Zenon DEF EnqueueApply
<1>3. TablesInv' /\ MovesOn(p, internalCA)
    BY <1>2, TablesSame, ReturnMoves, Zenon DEF EnqueueApply, CertificatesInv
<1>4. QED
    BY <1>1, <1>2, <1>3, Stores, Zenon

LEMMA MarkedInv ==
    ASSUME TablesInv, NEW c \in Certs, Active(c),
           \/ certificates' = [certificates EXCEPT ![c].failure = TRUE]
           \/ certificates' = [certificates EXCEPT ![c].due = TRUE],
           UNCHANGED <<internalCA, connections, record>>
    PROVE  TablesInv'
<1>1. PICK row \in CertRows : row = certificates[c] /\ row.status = "active" /\ RowOK(row, internalCA)
    BY ActiveRow, Zenon
<1>2. PICK n : /\ n = [row EXCEPT !.failure = TRUE] \/ n = [row EXCEPT !.due = TRUE]
               /\ certificates' = [certificates EXCEPT ![c] = n]
    BY <1>1, Zenon DEF TablesInv
<1>3. /\ n \in CertRows /\ n.status = row.status /\ n.issuer = row.issuer
      /\ n.pem = row.pem /\ n.secret = row.secret
    BY <1>2, MarkedRow, Zenon
<1>4. RowOK(n, internalCA)
    BY <1>1, <1>3, Zenon DEF RowOK
<1>5. QED
    BY <1>1, <1>2, <1>3, <1>4, RowWritten, Zenon

LEMMA MarkFailureInv ==
    ASSUME CertificatesInv, NEW p \in Procs, MarkFailure(p)
    PROVE  CertificatesInv'
<1>1. proc[p].pc = "markFailure" /\ proc[p].pc # "idle" /\ ~InOrder(p)
    BY Zenon DEF MarkFailure, At, InOrder
<1>2. UNCHANGED <<eligible, internalCA, connections, record, txt, http01, keys, due, cut>>
    BY Zenon DEF MarkFailure
<1>3. PICK c \in Certs : c = proc[p].cert
    BY <1>1, Zenon DEF CertificatesInv, ProcsInv, ProcOK
<1>4. TablesInv'
  <2>1. CASE Active(c)
      BY <1>2, <1>3, <2>1, MarkedInv, Zenon DEF MarkFailure, CertificatesInv
  <2>2. CASE ~Active(c)
      BY <1>2, <1>3, <2>2, TablesSame, Zenon DEF MarkFailure, CertificatesInv
  <2>3. QED
      BY <2>1, <2>2, Zenon
<1>5. MovesOn(p, internalCA)
    BY ReturnMoves, Zenon DEF MarkFailure, CertificatesInv
<1>6. QED
    BY <1>1, <1>2, <1>4, <1>5, Stores, Zenon

-----------------------------------------------------------------------------
(* Any step of a process. *)
LEMMA StepInv ==
    ASSUME CertificatesInv, NEW p \in Procs, Step(p)
    PROVE  CertificatesInv'
    BY LoadInternalCAInv, CreateInternalCAInv, CARejectedInv, StoreUploadedInv, ChallengeApplyInv,
       ResolveCredentialsInv, CreateConnectionInv, AuthorizeHTTPInv, PresentDNSInv, AlreadyValidInv,
       PresentFailsInv, WithdrawInv, PersistInv, EnqueueApplyInv, MarkFailureInv, InsertIssuedInv,
       InsertFailedInv, Zenon DEF Step

(* A request begins: whatever it holds, it has made nothing yet. *)
LEMMA Begins ==
    ASSUME CertificatesInv, NEW r \in Requests, At(r, "idle"), NEW q \in ProcRows,
           ProcOK(q, internalCA), proc' = [proc EXCEPT ![r] = q],
           UNCHANGED <<eligible, lease, tables, txt, http01, keys, due, cut>>
    PROVE  CertificatesInv'
<1>1. r \in Procs /\ r # Sweep /\ Sweep \in Procs /\ ~InOrder(r)
    BY CertificatesAssumption, Zenon DEF Procs, At, InOrder
<1>2. ChallengesInv'
    BY <1>1, Quiet, Zenon
<1>3. proc' \in [Procs -> ProcRows] /\ proc'[r] = q /\ \A x \in Procs \ {r} : proc'[x] = proc[x]
    BY <1>1, Zenon DEF CertificatesInv, ProcsInv
<1>4. TablesInv' /\ internalCA' = internalCA
    BY TablesSame, Zenon DEF CertificatesInv, tables
<1>5. ProcsInv'
    BY <1>3, <1>4, Zenon DEF CertificatesInv, ProcsInv
<1>6. LeaseInv'
    BY <1>1, <1>3, Zenon DEF CertificatesInv, LeaseInv
<1>7. QED
    BY <1>2, <1>4, <1>5, <1>6, Zenon DEF CertificatesInv

(* Where a request or a renewal begins. *)
Begin(pc, op, cert, issuer, challenge, token, made) ==
    [pc |-> pc, op |-> op, cert |-> cert, issuer |-> issuer, challenge |-> challenge,
     token |-> token, made |-> made, next |-> 1, shown |-> {}]

LEMMA BeginRow ==
    ASSUME NEW pc \in PCs, NEW op \in {"issue", "renew", "download"}, NEW cert \in Certs \cup {None},
           NEW issuer \in Issuers \cup {None}, NEW challenge \in Challenges \cup {None},
           NEW token \in Tokens \cup {None}, NEW made \in Files \cup {None}
    PROVE  LET n == Begin(pc, op, cert, issuer, challenge, token, made) IN
           /\ n \in ProcRows /\ n.pc = pc /\ n.op = op /\ n.cert = cert /\ n.issuer = issuer
<1> DEFINE mades == Material \cup Nat \cup Files \cup {None}
           values == SUBSET (Procs \X Nat)
<1>1. made \in mades /\ {} \in values /\ 1 \in Nat
    BY Zenon
<1>2. ProcRows =
        [pc : PCs, op : {"issue", "renew", "download", None}, cert : Certs \cup {None},
         issuer : Issuers \cup {None}, challenge : Challenges \cup {None},
         token : Tokens \cup {None}, made : mades, next : Nat, shown : values]
    BY Zenon DEF ProcRows
<1> HIDE DEF mades, values
<1>3. QED
    BY <1>1, <1>2, ZenonT(60) DEF Begin

LEMMA IssueBegins ==
    ASSUME NEW i \in Inputs, NEW ca
    PROVE  IssueCertificate(i) \in ProcRows /\ ProcOK(IssueCertificate(i), ca)
<1> DEFINE pc == CASE i.issuer = "self-signed" -> "ca"
                   [] i.issuer = "uploaded" -> "validate"
                   [] OTHER -> issueLetsEncrypt(i)
           n == IssueCertificate(i)
<1>1. /\ pc \in PCs /\ pc \in {"ca", "validate", "challengeApply", "connection"}
      /\ pc # "ca" => i.issuer # "self-signed"
    BY Zenon DEF issueLetsEncrypt, PCs
<1>2. /\ i.issuer \in Issuers \cup {None} /\ i.challenge \in Challenges \cup {None}
      /\ i.token \in Tokens \cup {None} /\ i.pem \in Files \cup {None}
    BY Zenon DEF Inputs, Files
<1>a. n = [Idle EXCEPT !.op = "issue", !.issuer = i.issuer, !.challenge = i.challenge,
                       !.token = i.token, !.made = i.pem, !.pc = pc]
    BY Zenon DEF IssueCertificate
<1> HIDE DEF pc, n
<1>3. n = Begin(pc, "issue", None, i.issuer, i.challenge, i.token, i.pem)
    BY <1>a, Zenon DEF Begin, Idle
<1>4. n \in ProcRows /\ n.pc = pc /\ n.op = "issue" /\ n.cert = None /\ n.issuer = i.issuer
  <2> DEFINE mades == Material \cup Nat \cup Files \cup {None}
             values == SUBSET (Procs \X Nat)
  <2>1. i.pem \in mades /\ {} \in values /\ 1 \in Nat
      BY <1>2, Zenon
  <2>2. ProcRows =
          [pc : PCs, op : {"issue", "renew", "download", None}, cert : Certs \cup {None},
           issuer : Issuers \cup {None}, challenge : Challenges \cup {None},
           token : Tokens \cup {None}, made : mades, next : Nat, shown : values]
      BY Zenon DEF ProcRows
  <2> HIDE DEF mades, values
  <2>3. QED
      BY <1>1, <1>2, <1>3, <2>1, <2>2, Zenon DEF Begin
<1>5. ProcOK(n, ca)
    BY <1>1, <1>4, Zenon DEF ProcOK, Ordering
<1>6. QED
    BY <1>4, <1>5, Zenon DEF n

LEMMA RenewalBegins ==
    ASSUME TablesInv, NEW c \in Certs, Active(c), NEW ca
    PROVE  Renewal(c) \in ProcRows /\ ProcOK(Renewal(c), ca)
<1>1. PICK row \in CertRows : row = certificates[c]
    BY ActiveRow, Zenon
<1>2. row.issuer \in Issuers \cup {None} /\ row.challenge \in Challenges \cup {None}
    BY RowFields, Zenon
<1> DEFINE pc == IF row.issuer = "self-signed" THEN "ca"
                 ELSE IF row.challenge = "http-01" THEN "authorize" ELSE "connection"
           n == Renewal(c)
<1>3. /\ pc \in PCs /\ pc \in {"ca", "authorize", "connection"}
      /\ pc # "ca" => row.issuer # "self-signed"
    BY Zenon DEF PCs
<1>a. n = [Idle EXCEPT !.op = "renew", !.cert = c, !.issuer = row.issuer,
                       !.challenge = row.challenge, !.pc = pc]
    BY <1>1, Zenon DEF Renewal, RenewSelfSignedCertificate, RenewLetsEncryptCertificate
<1> HIDE DEF pc, n
<1>4. n = Begin(pc, "renew", c, row.issuer, row.challenge, None, None)
    BY <1>a, Zenon DEF Begin, Idle
<1>5. n \in ProcRows /\ n.pc = pc /\ n.op = "renew" /\ n.cert = c /\ n.issuer = row.issuer
    BY <1>2, <1>3, <1>4, BeginRow
<1>6. ProcOK(n, ca)
    BY <1>3, <1>5, Zenon DEF ProcOK, Ordering
<1>7. QED
    BY <1>5, <1>6, Zenon DEF n

LEMMA handleIssueCertificateInv ==
    ASSUME CertificatesInv, NEW r \in Requests, NEW i \in Inputs, handleIssueCertificate(r, i)
    PROVE  CertificatesInv'
<1>1. PICK q \in ProcRows : q = IssueCertificate(i) /\ ProcOK(q, internalCA)
    BY IssueBegins, Zenon
<1>2. QED
    BY <1>1, Begins, Zenon DEF handleIssueCertificate

LEMMA RenewByIDInv ==
    ASSUME CertificatesInv, NEW r \in Requests, NEW c \in Certs, RenewByID(r, c)
    PROVE  CertificatesInv'
<1>1. PICK q \in ProcRows : q = Renewal(c) /\ ProcOK(q, internalCA)
    BY RenewalBegins, Zenon DEF RenewByID, CertificatesInv
<1>2. QED
    BY <1>1, Begins, Zenon DEF RenewByID

LEMMA DownloadCAInv ==
    ASSUME CertificatesInv, NEW r \in Requests, DownloadCA(r)
    PROVE  CertificatesInv'
<1> DEFINE n == [Idle EXCEPT !.pc = "ca", !.op = "download"]
<1>1. n \in ProcRows /\ n.pc = "ca" /\ n.op = "download"
    BY IdleRow, ZenonT(60) DEF ProcRows, PCs
<1>2. PICK q \in ProcRows : q = n /\ ProcOK(q, internalCA)
    BY <1>1, Zenon DEF ProcOK, Ordering
<1>3. QED
    BY <1>2, Begins, Zenon DEF DownloadCA

(* Where no process moves and no challenge changes. *)
LEMMA TableSteps ==
    ASSUME CertificatesInv, TablesInv', UNCHANGED <<eligible, lease, internalCA, txt, http01, keys, proc, due, cut>>
    PROVE  CertificatesInv'
<1>1. ProcsInv' /\ LeaseInv' /\ ChallengesInv'
    BY Zenon DEF CertificatesInv, ProcsInv, LeaseInv, ChallengesInv, InOrder
<1>2. QED
    BY <1>1, Zenon DEF CertificatesInv

LEMMA DeleteCertificateInv ==
    ASSUME CertificatesInv, NEW c \in Certs, DeleteCertificate(c)
    PROVE  CertificatesInv'
<1>1. UNCHANGED <<eligible, lease, internalCA, connections, record, txt, http01, keys, proc, due, cut>>
    BY Zenon DEF DeleteCertificate
<1>2. /\ certificates' \in [Certs -> CertRows \cup {None, Deleted}] /\ certificates'[c] = Deleted
      /\ \A d \in Certs \ {c} : certificates'[d] = certificates[d]
    BY Zenon DEF DeleteCertificate, CertificatesInv, TablesInv
<1>3. record # c
    BY Zenon DEF DeleteCertificate
<1>4. TablesInv'
    BY <1>1, <1>2, <1>3, ZenonT(60) DEF CertificatesInv, TablesInv, Active, IsRow
<1>5. QED
    BY <1>1, <1>4, TableSteps, Zenon

LEMMA SaveRecordInv ==
    ASSUME CertificatesInv, NEW c \in Certs \cup {None}, SaveRecord(c)
    PROVE  CertificatesInv'
<1>1. UNCHANGED <<eligible, lease, certificates, internalCA, connections, txt, http01, keys, proc, due, cut>>
    BY Zenon DEF SaveRecord
<1>2. record' = c /\ (c # None => Active(c))
    BY Zenon DEF SaveRecord, validateProxyCertificate
<1>3. TablesInv'
    BY <1>1, <1>2, Zenon DEF CertificatesInv, TablesInv, Active, IsRow
<1>4. QED
    BY <1>1, <1>3, TableSteps, Zenon

LEMMA AgeInv ==
    ASSUME CertificatesInv, NEW c \in Certs, Age(c)
    PROVE  CertificatesInv'
<1>1. UNCHANGED <<eligible, lease, internalCA, connections, record, txt, http01, keys, proc, due, cut>>
    BY Zenon DEF Age
<1>2. TablesInv'
    BY <1>1, MarkedInv, Zenon DEF Age, CertificatesInv
<1>3. QED
    BY <1>1, <1>2, TableSteps, Zenon

LEMMA RequestInv ==
    ASSUME CertificatesInv, Request
    PROVE  CertificatesInv'
    BY handleIssueCertificateInv, RenewByIDInv, DownloadCAInv, DeleteCertificateInv, SaveRecordInv, Zenon DEF Request

(* The list the sweep reads holds renewals of active rows. *)
LEMMA SweepStartInv ==
    ASSUME CertificatesInv, SweepStart
    PROVE  CertificatesInv'
<1>1. UNCHANGED <<eligible, lease, tables, txt, http01, keys, proc, cut>> /\ due' = DueForRenewal
    BY Zenon DEF SweepStart, RenewDueCertificates
<1>2. ASSUME NEW w \in DueForRenewal PROVE w \in ProcRows /\ ProcOK(w, internalCA)
  <2>1. PICK c \in Certs : Active(c) /\ w = Renewal(c)
      BY <1>2, Zenon DEF DueForRenewal
  <2>2. QED
      BY <2>1, RenewalBegins, Zenon DEF CertificatesInv
<1>3. TablesInv' /\ internalCA' = internalCA
    BY <1>1, TablesSame, Zenon DEF CertificatesInv, tables
<1>4. ProcsInv'
    BY <1>1, <1>2, <1>3, Zenon DEF CertificatesInv, ProcsInv
<1>5. LeaseInv' /\ ChallengesInv'
    BY <1>1, Zenon DEF CertificatesInv, LeaseInv, ChallengesInv, InOrder
<1>6. QED
    BY <1>3, <1>4, <1>5, Zenon DEF CertificatesInv

LEMMA SweepItemInv ==
    ASSUME CertificatesInv, NEW w \in due, SweepItem(w)
    PROVE  CertificatesInv'
<1>1. UNCHANGED <<eligible, tables, txt, http01, keys, cut>> /\ due' \subseteq due
    BY Zenon DEF SweepItem
<1>2. TablesInv' /\ internalCA' = internalCA
    BY <1>1, TablesSame, Zenon DEF CertificatesInv, tables
<1>3. CASE UNCHANGED <<proc, lease>>
  <2>1. ProcsInv'
      BY <1>1, <1>2, <1>3, Zenon DEF CertificatesInv, ProcsInv
  <2>2. LeaseInv' /\ ChallengesInv'
      BY <1>1, <1>3, Zenon DEF CertificatesInv, LeaseInv, ChallengesInv, InOrder
  <2>3. QED
      BY <1>2, <2>1, <2>2, Zenon DEF CertificatesInv
<1>4. CASE eligible /\ WithLease(w)
  <2>1. Sweep \in Procs /\ ~InOrder(Sweep) /\ w \in ProcRows /\ ProcOK(w, internalCA)
      BY Zenon DEF SweepItem, At, InOrder, Procs, CertificatesInv, ProcsInv
  <2>2. proc' = [proc EXCEPT ![Sweep] = w] /\ lease' = TRUE
      BY <1>4, Zenon DEF WithLease
  <2>3. ChallengesInv'
      BY <1>1, <2>1, <2>2, Quiet, Zenon
  <2>4. ProcsInv'
    <3>1. proc' \in [Procs -> ProcRows] /\ proc'[Sweep] = w
          /\ \A x \in Procs \ {Sweep} : proc'[x] = proc[x]
        BY <2>1, <2>2, Zenon DEF CertificatesInv, ProcsInv
    <3>2. QED
        BY <1>1, <1>2, <2>1, <3>1, Zenon DEF CertificatesInv, ProcsInv
  <2>5. LeaseInv'
      BY <1>1, <1>4, <2>2, Zenon DEF CertificatesInv, LeaseInv
  <2>6. QED
      BY <1>2, <2>3, <2>4, <2>5, Zenon DEF CertificatesInv
<1>5. QED
    BY <1>3, <1>4, Zenon DEF SweepItem, Allowed

LEMMA RoleChangesInv ==
    ASSUME CertificatesInv, RoleChanges
    PROVE  CertificatesInv'
<1>1. UNCHANGED <<lease, tables, txt, http01, keys, proc, due, cut>> /\ lease = FALSE
    BY Zenon DEF RoleChanges, CertificatesInv, LeaseInv
<1>2. TablesInv' /\ internalCA' = internalCA
    BY <1>1, TablesSame, Zenon DEF CertificatesInv, tables
<1>3. ProcsInv' /\ ChallengesInv'
    BY <1>1, <1>2, Zenon DEF CertificatesInv, ProcsInv, ChallengesInv, InOrder
<1>4. eligible' \in BOOLEAN
    BY Zenon DEF RoleChanges
<1>5. LeaseInv'
    BY <1>1, <1>4, Zenon DEF CertificatesInv, LeaseInv
<1>6. QED
    BY <1>2, <1>3, <1>5, Zenon DEF CertificatesInv

LEMMA CrashInv ==
    ASSUME CertificatesInv, Crash
    PROVE  CertificatesInv'
<1>1. UNCHANGED <<eligible, tables, txt, keys>> /\ proc' = [p \in Procs |-> Idle] /\ lease' = FALSE
      /\ due' = {} /\ http01' = {} /\ cut' = txt
    BY Zenon DEF Crash
<1>2. TablesInv'
    BY <1>1, TablesSame, Zenon DEF CertificatesInv, tables
<1>3. ProcsInv'
    BY <1>1, IdleRow, Zenon DEF CertificatesInv, ProcsInv
<1>4. LeaseInv'
  <2>1. proc'[Sweep].pc = "idle"
      BY <1>1, IdleRow, Zenon DEF Procs
  <2>2. QED
      BY <1>1, <2>1, Zenon DEF CertificatesInv, LeaseInv
<1>5. ChallengesInv'
    BY <1>1, Zenon DEF CertificatesInv, ChallengesInv
<1>6. QED
    BY <1>2, <1>3, <1>4, <1>5, Zenon DEF CertificatesInv

LEMMA InitInv == Init => CertificatesInv
<1> SUFFICES ASSUME Init PROVE CertificatesInv
    BY Zenon
<1>1. ProcsInv
    BY IdleRow, Zenon DEF Init, ProcsInv
<1>2. TablesInv
    BY DEF Init, TablesInv, Active, IsRow
<1>3. LeaseInv
  <2>1. proc[Sweep].pc = "idle"
      BY IdleRow, Zenon DEF Init, Procs
  <2>2. QED
      BY <2>1, Zenon DEF Init, LeaseInv
<1>4. ChallengesInv
    BY Zenon DEF Init, ChallengesInv
<1>5. QED
    BY <1>1, <1>2, <1>3, <1>4, Zenon DEF CertificatesInv

LEMMA NextInv == CertificatesInv /\ [Next]_vars => CertificatesInv'
<1> SUFFICES ASSUME CertificatesInv, [Next]_vars PROVE CertificatesInv'
    BY Zenon
<1>1. CASE Next
  <2>1. Sweep \in Procs /\ Requests \subseteq Procs
      BY Zenon DEF Procs
  <2>2. QED
      BY <1>1, <2>1, RequestInv, StepInv, SweepStartInv, SweepItemInv, RoleChangesInv, AgeInv, CrashInv, Zenon
         DEF Next, SweepStep
<1>2. CASE UNCHANGED vars
  <2>1. TablesInv' /\ UNCHANGED <<eligible, lease, internalCA, txt, http01, keys, proc, due, cut>>
      BY <1>2, TablesSame, Zenon DEF CertificatesInv, vars, tables
  <2>2. QED
      BY <2>1, TableSteps, Zenon
<1>3. QED
    BY <1>1, <1>2, Zenon

-----------------------------------------------------------------------------
(***************************************************************************)
(* The inductive invariant of issuing, renewing and deleting certificates: *)
(* whatever requests, the renewal worker, role changes and crashes         *)
(* interleave, every process holds what its next transaction relies on.    *)
(***************************************************************************)
THEOREM CertificatesInvariance == Spec => []CertificatesInv
    BY InitInv, NextInv, PTL DEF Spec

(***************************************************************************)
(* An active certificate is stored with the key it certifies, an internal  *)
(* one was signed by the stored CA, a token has one connection and the     *)
(* certificate of a proxied record is active (insertIssued,                *)
(* persistRenewedCertificate, ensureInternalCA, DeleteCertificate).        *)
(***************************************************************************)
THEOREM StoredMaterialAgrees == Spec => []MaterialAgrees
<1>1. CertificatesInv => MaterialAgrees
    BY Zenon DEF CertificatesInv, TablesInv, MaterialAgrees
<1>2. QED
    BY <1>1, CertificatesInvariance, PTL

(***************************************************************************)
(* The renewal worker orders, signs and stores only while the identity may *)
(* renew (WithAutomaticRenewalLease).                                      *)
(***************************************************************************)
THEOREM SweepIsAWriter == Spec => []RenewsOnlyAsWriter
<1>1. CertificatesInv => RenewsOnlyAsWriter
    BY Zenon DEF CertificatesInv, LeaseInv, RenewsOnlyAsWriter
<1>2. QED
    BY <1>1, CertificatesInvariance, PTL

(***************************************************************************)
(* A challenge is only up while its order runs, except for a TXT value     *)
(* whose removal was cut short (authorizeChallenge and                     *)
(* authorizeDNSChallenges with their deferred clean-up).                   *)
(***************************************************************************)
THEOREM ChallengesAreWithdrawn == Spec => []ChallengesWithdrawn
<1>1. CertificatesInv => ChallengesWithdrawn
    BY Zenon DEF CertificatesInv, ChallengesInv, ChallengesWithdrawn, InOrder
<1>2. QED
    BY <1>1, CertificatesInvariance, PTL

=============================================================================
