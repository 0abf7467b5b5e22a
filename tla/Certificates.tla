---------------------------- MODULE Certificates ----------------------------
(***************************************************************************)
(* Issuing, renewing and deleting certificates in the API server.  Console *)
(* requests and the renewal worker (Sweep) run concurrently; key           *)
(* generation, ACME and DNS calls happen outside the database, and each    *)
(* action below that changes a table is one transaction of the single      *)
(* SQLite writer.                                                          *)
(*                                                                         *)
(* A key pair is a number, in the order of generation; a certificate is    *)
(* the key it certifies and the CA key that signed it.  All DNS-01 names   *)
(* share one TXT name, as an apex and its wildcard do.                     *)
(***************************************************************************)
EXTENDS Naturals, FiniteSets, Sequences

CONSTANTS Requests,  \* concurrent console requests
          Sweep,     \* the renewal worker
          Certs,     \* certificate ids, in the order they are used
          Tokens,    \* Cloudflare API tokens
          Issuers,   \* the issuers requests ask for
          Challenges,\* and the challenges
          MaxOps,    \* bound on the requests made
          MaxAges,   \* bound on the certificates that come up for renewal
          MaxFaults, \* bound on crashes and failed last steps
          Deleted,   \* a row that was deleted
          None

ASSUME CertificatesAssumption ==
    /\ Sweep \notin Requests
    /\ {MaxOps, MaxAges, MaxFaults} \subseteq Nat
    /\ None \notin Requests \cup {Sweep} \cup Certs \cup Tokens

VARIABLES eligible,     \* eligibleForAutomaticRenewal of the cached identity
          lease,        \* the identity's read lock is held by the sweep
          certificates, \* the table: a row, None, or Deleted
          internalCA,   \* key of the internal CA, None before the first use
          connections,  \* provider_connections: tokens, oldest first
          record,       \* the certificate a proxied record refers to
          unapplied,    \* renewed since the newest apply job's snapshot
          txt,          \* TXT values at the challenge name: <<process, n>>
          http01,       \* tokens of GlobalHttp01Store
          keys,         \* key pairs generated
          proc,         \* each process: program counter and local variables
          due,          \* the rest of the sweep's list
          ops, ages, faults,
          cut           \* history: TXT values whose removal was cut short

tables == <<certificates, internalCA, connections, record, unapplied>>
bounds == <<ops, ages, faults>>
vars == <<eligible, lease, tables, txt, http01, keys, proc, due, bounds, cut>>

Procs == Requests \cup {Sweep}
Authz == 1..2  \* authorizations of an order: the apex and its wildcard

Idle == [pc |-> "idle", op |-> None, cert |-> None, issuer |-> None, challenge |-> None,
         token |-> None, made |-> None, next |-> 1, shown |-> {}]

(* The table's rows: a failed one has neither key nor certificate, and only *)
(* the internal CA's certificates have a signer that is known here.        *)
CertRows ==
    [issuer : Issuers \cup {None}, challenge : Challenges \cup {None}, status : {"active", "failed"},
     secret : Nat \cup {None}, pem : [key : Nat \cup {None}, signer : Nat \cup {None}],
     due : BOOLEAN, failure : BOOLEAN]

ASSUME RowsAssumption == None \notin Nat \cup CertRows /\ Deleted \notin CertRows

(* sqliteInsertCertificate: the row of a new certificate. *)
Row(issuer, challenge, made) ==
    [issuer |-> issuer, challenge |-> challenge, status |-> "active",
     secret |-> made.key, pem |-> made, due |-> FALSE, failure |-> FALSE]

IsRow(c) == certificates[c] \notin {None, Deleted}
Active(c) == IsRow(c) /\ certificates[c].status = "active"

Init ==
    /\ eligible = TRUE
    /\ lease = FALSE
    /\ certificates = [c \in Certs |-> None]
    /\ internalCA = None
    /\ connections = <<>>
    /\ record = None
    /\ unapplied = {}
    /\ txt = {}
    /\ http01 = {}
    /\ keys = 0
    /\ proc = [p \in Procs |-> Idle]
    /\ due = {}
    /\ ops = 0 /\ ages = 0 /\ faults = 0
    /\ cut = {}

At(p, pc) == proc[p].pc = pc
Goto(p, pc) == proc' = [proc EXCEPT ![p].pc = pc]

(* The operation of p is over; the sweep gives the lease back with it. *)
Return(p) ==
    /\ proc' = [proc EXCEPT ![p] = Idle]
    /\ lease' = IF p = Sweep THEN FALSE ELSE lease

(* An error: a renewal marks its row next, a Let's Encrypt request stores  *)
(* a failed one, and the others only answer.                               *)
Fail(p) ==
    IF proc[p].op = "renew" \/ proc[p].issuer = "letsencrypt"
    THEN /\ proc' = [proc EXCEPT ![p].pc = IF proc[p].op = "renew" THEN "markFailure"
                                           ELSE "insertFailed",
                                 ![p].shown = {}]
         /\ UNCHANGED lease
    ELSE Return(p)
-----------------------------------------------------------------------------
(* Requests.                                                               *)

(* The combinations of issuer, challenge and PEM files a request may ask. *)
buildCertificateInput(i) ==
    /\ i.issuer = "letsencrypt" <=> i.challenge # "none"
    /\ i.issuer = "uploaded" => i.pem # "missing"

Inputs == [issuer : Issuers, challenge : Challenges, token : Tokens \cup {None},
           pem : {"missing", "matching", "mismatched"}]

(* Fields are only there when they are read. *)
Sensible(i) ==
    /\ i.issuer # "uploaded" => i.pem = "missing"
    /\ i.challenge # "dns-01" => i.token = None

(* Where a Let's Encrypt order begins, from the console. *)
issueLetsEncrypt(i) == IF i.challenge = "http-01" THEN "challengeApply" ELSE "connection"

(* IssueCertificate: the issuer decides. *)
IssueCertificate(i) ==
    [Idle EXCEPT !.op = "issue", !.issuer = i.issuer, !.challenge = i.challenge,
                 !.token = i.token, !.made = i.pem,
                 !.pc = CASE i.issuer = "self-signed" -> "ca"
                          [] i.issuer = "uploaded" -> "validate"
                          [] OTHER -> issueLetsEncrypt(i)]

handleIssueCertificate(r, i) ==
    /\ At(r, "idle") /\ ops < MaxOps
    /\ buildCertificateInput(i)
    /\ proc' = [proc EXCEPT ![r] = IssueCertificate(i)]
    /\ ops' = ops + 1
    /\ UNCHANGED <<eligible, lease, tables, txt, http01, keys, due, ages, faults, cut>>

(* The renewals, of a row as it was read. *)
RenewSelfSignedCertificate(row) == "ca"

RenewLetsEncryptCertificate(row) ==
    IF row.challenge = "http-01" THEN "authorize" ELSE "connection"

Renewal(c) ==
    LET row == certificates[c] IN
    [Idle EXCEPT !.op = "renew", !.cert = c, !.issuer = row.issuer, !.challenge = row.challenge,
                 !.pc = IF row.issuer = "self-signed" THEN RenewSelfSignedCertificate(row)
                        ELSE RenewLetsEncryptCertificate(row)]

(* handleRenewSelfSignedCertificate, RenewSelfSignedCertificateByID. *)
RenewByID(r, c) ==
    /\ At(r, "idle") /\ ops < MaxOps
    /\ Active(c) /\ certificates[c].issuer = "self-signed"
    /\ proc' = [proc EXCEPT ![r] = Renewal(c)]
    /\ ops' = ops + 1
    /\ UNCHANGED <<eligible, lease, tables, txt, http01, keys, due, ages, faults, cut>>

(* handleDownloadInternalCA. *)
DownloadCA(r) ==
    /\ At(r, "idle") /\ ops < MaxOps
    /\ proc' = [proc EXCEPT ![r] = [Idle EXCEPT !.pc = "ca", !.op = "download"]]
    /\ ops' = ops + 1
    /\ UNCHANGED <<eligible, lease, tables, txt, http01, keys, due, ages, faults, cut>>

(* The row, the references and the delete in one transaction; the key      *)
(* secret stays.                                                           *)
DeleteCertificate(c) ==
    /\ IsRow(c)
    /\ record # c
    /\ certificates' = [certificates EXCEPT ![c] = Deleted]
    /\ UNCHANGED <<eligible, lease, internalCA, connections, record, unapplied, txt, http01, keys,
                   proc, due, bounds, cut>>

(* validateProxyCertificate: the certificate exists and is active. *)
validateProxyCertificate(c) == Active(c)

(* A proxied record with TLS is saved, which queues an apply job in the    *)
(* same transaction.                                                       *)
SaveRecord(c) ==
    /\ c # record
    /\ c # None => validateProxyCertificate(c)
    /\ record' = c
    /\ unapplied' = {}
    /\ UNCHANGED <<eligible, lease, certificates, internalCA, connections, txt, http01, keys, proc,
                   due, bounds, cut>>
-----------------------------------------------------------------------------
(* Key material.                                                           *)

(* p has a new key pair, certified by `signer', to store. *)
Made(p, signer) ==
    /\ keys' = keys + 1
    /\ proc' = [proc EXCEPT ![p].made = [key |-> keys + 1, signer |-> signer],
                            ![p].shown = {},
                            ![p].pc = IF proc[p].op = "renew" THEN "persist" ELSE "insert"]
    /\ UNCHANGED lease

(* IssueSignedByCAWithKey: a leaf with a new key. *)
IssueSignedByCA(p, ca) == Made(p, ca)

(* issueInternalLeaf: the leaf is signed by the CA that ensureInternalCA   *)
(* returned; a download only answers with it.                              *)
issueInternalLeaf(p, ca) ==
    IF proc[p].op = "download" THEN Return(p) /\ UNCHANGED keys ELSE IssueSignedByCA(p, ca)

(* acme.CreateInternalCA: a CA that is not stored yet. *)
GenerateCA(p) ==
    /\ keys' = keys + 1
    /\ proc' = [proc EXCEPT ![p].pc = "createCA", ![p].made = keys + 1]
    /\ UNCHANGED lease

(* loadInternalCA, outside a transaction: it is there, or one is generated *)
(* on the side.                                                            *)
LoadInternalCA(p) ==
    /\ At(p, "ca")
    /\ IF internalCA # None THEN issueInternalLeaf(p, internalCA) ELSE GenerateCA(p)
    /\ UNCHANGED <<eligible, tables, txt, http01, due, bounds, cut>>

(* Mutant of CreateInternalCA: the loser keeps the CA it generated. *)
CreateKeepsOwn(p) ==
    /\ At(p, "createCA")
    /\ internalCA' = IF internalCA = None THEN proc[p].made ELSE internalCA
    /\ issueInternalLeaf(p, proc[p].made)
    /\ UNCHANGED <<eligible, certificates, connections, record, unapplied, txt, http01, due,
                   bounds, cut>>

(* The transaction of ensureInternalCA looks again: the first writer wins. *)
CreateInternalCA(p) ==
    /\ At(p, "createCA")
    /\ internalCA' = IF internalCA = None THEN proc[p].made ELSE internalCA
    /\ issueInternalLeaf(p, internalCA')
    /\ UNCHANGED <<eligible, certificates, connections, record, unapplied, txt, http01, due,
                   bounds, cut>>

(* The stored CA cannot be used any more (parseCAMaterial: expired). *)
CARejected(p) ==
    /\ At(p, "ca")
    /\ internalCA # None
    /\ Fail(p)
    /\ UNCHANGED <<eligible, tables, txt, http01, keys, due, bounds, cut>>

(* The key must be the certificate's, which must cover the hostnames. *)
ValidateUploadedCertificate(pem) == pem = "matching"

StoreUploaded(p) ==
    /\ At(p, "validate")
    /\ IF ValidateUploadedCertificate(proc[p].made) THEN Made(p, None)
       ELSE Fail(p) /\ UNCHANGED keys
    /\ UNCHANGED <<eligible, tables, txt, http01, due, bounds, cut>>
-----------------------------------------------------------------------------
(* An ACME order.                                                          *)

(* HTTP-01 from the console: an apply job first, so that the proxy routes  *)
(* the challenge, and then a bounded wait for it (sqliteWaitForJob).       *)
ChallengeApply(p) ==
    /\ At(p, "challengeApply")
    /\ \/ unapplied' = {} /\ (Fail(p) \/ (Goto(p, "authorize") /\ UNCHANGED lease))
       \/ UNCHANGED unapplied /\ Fail(p)
    /\ UNCHANGED <<eligible, certificates, internalCA, connections, record, txt, http01, keys, due,
                   bounds, cut>>

Connected(t) == \E i \in DOMAIN connections : connections[i] = t

(* resolveCloudflareCredentials: a token given is looked up by its hash;   *)
(* otherwise, and in every renewal, the newest connection is taken.        *)
ResolveCredentials(p) ==
    /\ At(p, "connection")
    /\ \/ /\ proc[p].token # None
          /\ Goto(p, IF Connected(proc[p].token) THEN "authorize" ELSE "connect")
          /\ UNCHANGED lease
       \/ /\ proc[p].token = None /\ connections # <<>>
          /\ proc' = [proc EXCEPT ![p].pc = "authorize",
                                  ![p].token = connections[Len(connections)]]
          /\ UNCHANGED lease
       \/ proc[p].token = None /\ connections = <<>> /\ Fail(p)
    /\ UNCHANGED <<eligible, tables, txt, http01, keys, due, bounds, cut>>

(* createCloudflareConnection: the transaction looks again. *)
CreateConnection(p) ==
    /\ At(p, "connect")
    /\ connections' = IF Connected(proc[p].token) THEN connections
                      ELSE Append(connections, proc[p].token)
    /\ Goto(p, "authorize")
    /\ UNCHANGED <<eligible, lease, certificates, internalCA, record, unapplied, txt, http01, keys,
                   due, bounds, cut>>

(* The Cloudflare adapter, on the TXT values of the name. *)
Present(values, v) == values \cup {v}
Cleanup(values, mine) == values \ mine
CleanupAll(values) == {}

(* authorizeChallenge: the token is served until the authorization ends. *)
AuthorizeHTTP(p) ==
    /\ At(p, "authorize") /\ proc[p].challenge = "http-01"
    /\ http01' = http01 \cup {p}
    /\ Goto(p, "accept")
    /\ UNCHANGED <<eligible, lease, tables, txt, keys, due, bounds, cut>>

Value(p) == <<p, proc[p].next>>

(* After the last authorization the order waits for propagation. *)
NextAuthz(p) == IF proc[p].next + 1 \in Authz THEN "authorize" ELSE "accept"

(* The next authorization of authorizeDNSChallenges: what other orders     *)
(* left at the name is removed once, by CleanupAll, and the value is added *)
(* (Present).                                                              *)
PresentDNS(p) ==
    /\ At(p, "authorize") /\ proc[p].challenge = "dns-01"
    /\ txt' = Present(IF proc[p].shown = {} THEN CleanupAll(txt) ELSE txt, Value(p))
    /\ proc' = [proc EXCEPT ![p].next = @ + 1, ![p].shown = @ \cup {Value(p)},
                            ![p].pc = NextAuthz(p)]
    /\ cut' = cut \cap txt'
    /\ UNCHANGED <<eligible, lease, tables, http01, keys, due, bounds>>

(* loadChallenge: the authorization is still valid from an earlier order. *)
AlreadyValid(p) ==
    /\ At(p, "authorize") /\ proc[p].challenge = "dns-01"
    /\ proc' = [proc EXCEPT ![p].next = @ + 1, ![p].pc = NextAuthz(p)]
    /\ UNCHANGED <<eligible, lease, tables, txt, http01, keys, due, bounds, cut>>

(* An error in that loop returns before the deferred clean-up is           *)
(* registered: the provider refuses, or resolveZone does not find the zone *)
(* with the token, as when a newer connection is for another zone.         *)
PresentFails(p) ==
    /\ At(p, "authorize") /\ proc[p].challenge = "dns-01"
    /\ cut' = cut \cup (proc[p].shown \cap txt)
    /\ Fail(p)
    /\ UNCHANGED <<eligible, tables, txt, http01, keys, due, bounds>>

(* The CA accepts the order if the challenges it looks up are all there;   *)
(* with an HTTP-01 or a valid authorization there are no TXT values.  It   *)
(* may also refuse.                                                        *)
Outcome(p) ==
    \/ proc[p].shown \subseteq txt /\ Made(p, None)
    \/ Fail(p) /\ UNCHANGED keys

(* Mutant of Withdraw: the values of the order are not removed. *)
WithdrawHTTPOnly(p) ==
    /\ At(p, "accept")
    /\ Outcome(p)
    /\ http01' = http01 \ {p}
    /\ UNCHANGED <<eligible, tables, txt, due, bounds, cut>>

(* Accept and WaitAuthorization, and the deferred Remove and Cleanup,      *)
(* whose own errors are ignored; then the certificate is requested with a  *)
(* new key, or the error is returned.                                      *)
Withdraw(p) ==
    /\ At(p, "accept")
    /\ Outcome(p)
    /\ http01' = http01 \ {p}
    /\ \E kept \in {{}, proc[p].shown \cap txt} :
          /\ kept # {} => faults < MaxFaults
          /\ faults' = IF kept = {} THEN faults ELSE faults + 1
          /\ txt' = Cleanup(txt, proc[p].shown \ kept)
          /\ cut' = (cut \cap txt') \cup kept
    /\ UNCHANGED <<eligible, tables, due, ops, ages>>
-----------------------------------------------------------------------------
(* Storing what was made, each in one transaction.                         *)

(* The slot the next row gets: ids are never used twice. *)
FreshCert(c) == certificates[c] = None

(* insertIssued: the key secret and the row together. *)
InsertIssued(p, c) ==
    /\ At(p, "insert") /\ FreshCert(c)
    /\ certificates' = [certificates EXCEPT ![c] =
                          Row(proc[p].issuer, proc[p].challenge, proc[p].made)]
    /\ Return(p)
    /\ UNCHANGED <<eligible, internalCA, connections, record, unapplied, txt, http01, keys, due,
                   bounds, cut>>

(* insertFailedLetsEncrypt: a row without key, certificate or dates. *)
InsertFailed(p, c) ==
    /\ At(p, "insertFailed") /\ FreshCert(c)
    /\ certificates' = [certificates EXCEPT ![c] =
                          [Row(proc[p].issuer, proc[p].challenge,
                               [key |-> None, signer |-> None])
                              EXCEPT !.status = "failed", !.failure = TRUE]]
    /\ Return(p)
    /\ UNCHANGED <<eligible, internalCA, connections, record, unapplied, txt, http01, keys, due,
                   bounds, cut>>

(* sqliteUpdateActiveCertificateMaterial. *)
UpdateMaterial(c, made) ==
    certificates' = [certificates EXCEPT ![c].secret = made.key, ![c].pem = made,
                                         ![c].due = FALSE, ![c].failure = FALSE]

(* persistRenewedCertificate: the key secret and the row, if it is still   *)
(* active and of the issuer.  Otherwise only an error is returned.         *)
Persist(p) ==
    /\ At(p, "persist")
    /\ LET c == proc[p].cert IN
       IF Active(c) /\ certificates[c].issuer = proc[p].issuer
       THEN /\ UpdateMaterial(c, proc[p].made)
            /\ unapplied' = unapplied \cup {c}
            /\ Goto(p, "enqueue") /\ UNCHANGED lease
       ELSE Return(p) /\ UNCHANGED <<certificates, unapplied>>
    /\ UNCHANGED <<eligible, internalCA, connections, record, txt, http01, keys, due, bounds, cut>>

(* Mutant of EnqueueApply: the renewal is not followed by an apply job. *)
NoEnqueue(p) ==
    /\ At(p, "enqueue")
    /\ Return(p)
    /\ UNCHANGED <<eligible, tables, txt, http01, keys, due, bounds, cut>>

(* Its second transaction: an apply job, whose snapshot has every row.     *)
(* Without an owner, or when it fails, the renewal stays committed.        *)
EnqueueApply(p) ==
    /\ At(p, "enqueue")
    /\ \/ unapplied' = {} /\ UNCHANGED faults
       \/ /\ faults < MaxFaults
          /\ faults' = faults + 1
          /\ UNCHANGED unapplied
    /\ Return(p)
    /\ UNCHANGED <<eligible, certificates, internalCA, connections, record, txt, http01, keys, due,
                   ops, ages, cut>>

(* markRenewalFailure: the reason, on an active row. *)
MarkFailure(p) ==
    /\ At(p, "markFailure")
    /\ certificates' = IF Active(proc[p].cert)
                       THEN [certificates EXCEPT ![proc[p].cert].failure = TRUE]
                       ELSE certificates
    /\ Return(p)
    /\ UNCHANGED <<eligible, internalCA, connections, record, unapplied, txt, http01, keys, due,
                   bounds, cut>>
-----------------------------------------------------------------------------
(* The renewal worker.                                                     *)

(* Mutant of DueForRenewal: DNS-01 certificates are not listed. *)
DueWithoutDNS ==
    {Renewal(c) : c \in {d \in Certs : Active(d) /\ certificates[d].due
                                       /\ certificates[d].issuer # "uploaded"
                                       /\ certificates[d].challenge # "dns-01"}}

(* ListCertificatesDueForRenewal: the rows as read, in any order. *)
DueForRenewal ==
    {Renewal(c) : c \in {d \in Certs : Active(d) /\ certificates[d].due
                                       /\ certificates[d].issuer # "uploaded"}}

(* CheckRenewalPolicy, and WithAutomaticRenewalLease once more. *)
Allowed == eligible

(* RenewDueCertificates: the policy, and the list of what is due. *)
RenewDueCertificates == Allowed /\ due' = DueForRenewal

(* runRenewalLoop: the timer fires. *)
SweepStart ==
    /\ At(Sweep, "idle") /\ due = {}
    /\ RenewDueCertificates
    /\ due' # {}
    /\ UNCHANGED <<eligible, lease, tables, txt, http01, keys, proc, bounds, cut>>

(* Mutant of WithLease: the lock is given back before the work is done. *)
WithoutLease(w) == proc' = [proc EXCEPT ![Sweep] = w] /\ UNCHANGED lease

(* The item runs under the identity's read lock. *)
WithLease(w) == proc' = [proc EXCEPT ![Sweep] = w] /\ lease' = TRUE

(* renewDueCertificateItems: the policy and the lease before each item;    *)
(* without them the sweep ends.  A row deleted since the list was read is  *)
(* still issued for, and refused when it is stored.                        *)
SweepItem(w) ==
    /\ At(Sweep, "idle")
    /\ IF Allowed THEN due' = due \ {w} /\ WithLease(w)
       ELSE due' = {} /\ UNCHANGED <<proc, lease>>
    /\ UNCHANGED <<eligible, tables, txt, http01, keys, bounds, cut>>
-----------------------------------------------------------------------------
(* The surroundings.                                                       *)

(* A role change takes the write side of the identity's lock. *)
RoleChanges ==
    /\ ~lease
    /\ eligible' = ~eligible
    /\ UNCHANGED <<lease, tables, txt, http01, keys, proc, due, bounds, cut>>

(* renew_after passes. *)
Age(c) ==
    /\ ages < MaxAges
    /\ Active(c) /\ ~certificates[c].due
    /\ certificates' = [certificates EXCEPT ![c].due = TRUE]
    /\ ages' = ages + 1
    /\ UNCHANGED <<eligible, lease, internalCA, connections, record, unapplied, txt, http01, keys,
                   proc, due, ops, faults, cut>>

(* The server stops and starts again: its memory is gone, the tables and   *)
(* the provider's TXT records stay.                                        *)
Crash ==
    /\ faults < MaxFaults
    /\ faults' = faults + 1
    /\ proc' = [p \in Procs |-> Idle]
    /\ lease' = FALSE
    /\ due' = {}
    /\ http01' = {}
    /\ cut' = txt
    /\ UNCHANGED <<eligible, tables, txt, keys, ops, ages>>

Step(p) ==
    \/ LoadInternalCA(p) \/ CreateInternalCA(p) \/ CARejected(p) \/ StoreUploaded(p)
    \/ ChallengeApply(p) \/ ResolveCredentials(p) \/ CreateConnection(p)
    \/ AuthorizeHTTP(p) \/ PresentDNS(p) \/ AlreadyValid(p) \/ PresentFails(p) \/ Withdraw(p)
    \/ Persist(p) \/ EnqueueApply(p) \/ MarkFailure(p)
    \/ \E c \in Certs : InsertIssued(p, c) \/ InsertFailed(p, c)

SweepStep == SweepStart \/ (\E w \in due : SweepItem(w)) \/ Step(Sweep)

Request ==
    \/ \E r \in Requests, i \in {j \in Inputs : Sensible(j)} : handleIssueCertificate(r, i)
    \/ \E r \in Requests, c \in Certs : RenewByID(r, c)
    \/ \E r \in Requests : DownloadCA(r)
    \/ \E c \in Certs : DeleteCertificate(c)
    \/ \E c \in Certs \cup {None} : SaveRecord(c)

Next ==
    \/ Request
    \/ \E r \in Requests : Step(r)
    \/ SweepStep
    \/ RoleChanges
    \/ \E c \in Certs : Age(c)
    \/ Crash

Spec == Init /\ [][Next]_vars

InOrder(p) == proc[p].pc \in {"authorize", "accept"}

(* Every request has a goroutine of its own, and so has the worker, whose  *)
(* timer is reset after each sweep.  An order alone may take for ever: the *)
(* ACME client has no timeout, and neither the worker's context nor a      *)
(* request's has a deadline.                                               *)
FairSpec ==
    /\ Spec
    /\ \A r \in Requests : WF_vars(Step(r) /\ ~InOrder(r))
    /\ WF_vars(SweepStep /\ ~InOrder(Sweep))
-----------------------------------------------------------------------------

(***************************************************************************)
(* Whatever renewals, issues and deletes overlap, an active certificate is *)
(* stored with the key it certifies, an internal one was signed by the one *)
(* internal CA a client can download, a token has one connection, and the  *)
(* certificate of a proxied record is there and active.                    *)
(***************************************************************************)
MaterialAgrees ==
    /\ \A c \in Certs : Active(c) =>
          /\ certificates[c].secret = certificates[c].pem.key
          /\ certificates[c].issuer = "self-signed" => certificates[c].pem.signer = internalCA
    /\ \A i, j \in DOMAIN connections : connections[i] = connections[j] => i = j
    /\ record # None => Active(record)

(***************************************************************************)
(* The worker orders, signs and stores only while the identity may renew:  *)
(* a role change waits for the item in hand, and the next item sees it     *)
(* ("Role transitions acquire the write side of this lock").               *)
(***************************************************************************)
RenewsOnlyAsWriter == proc[Sweep].pc # "idle" => eligible

(***************************************************************************)
(* No challenge outlives its order: an HTTP-01 token is served, and a TXT  *)
(* value published, only while the order runs.  Left behind are values     *)
(* whose removal was cut short: by a crash, by an error of the clean-up,   *)
(* or by an error while the values were still being added.                 *)
(***************************************************************************)
ChallengesWithdrawn ==
    /\ \A p \in http01 : InOrder(p)
    /\ \A v \in txt \ cut : InOrder(v[1]) /\ v \in proc[v[1]].shown

(***************************************************************************)
(* A certificate that is due on an installation that stays a writer is     *)
(* renewed, or its row says why not, whatever else is issued, renewed by   *)
(* hand or deleted meanwhile, and even if the orders of others never end.  *)
(* The orders of the worker itself have to: it renews one certificate      *)
(* after the other, and a CA that never answers stalls the sweep.          *)
(***************************************************************************)
DueIsRenewed ==
    <>[]eligible /\ []<>~InOrder(Sweep) =>
        \A c \in Certs : Active(c) /\ certificates[c].due /\ certificates[c].issuer # "uploaded"
                         ~> (Active(c) => ~certificates[c].due \/ certificates[c].failure)

(***************************************************************************)
(* A stored renewal is followed by an apply job with it, except in runs    *)
(* with a fault: the server may stop, or fail to queue the job, between    *)
(* the two transactions, and nothing makes up for it.                      *)
(***************************************************************************)
RenewalReachesApply == (unapplied # {}) ~> (unapplied = {} \/ faults > 0)
=============================================================================
