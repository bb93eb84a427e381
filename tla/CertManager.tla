---------------------------- MODULE CertManager ----------------------------
(* The certificate manager: the signing key and the certificate it keeps in *)
(* the shared material backend, the four copies each process makes of them, *)
(* and the tasks that read and replace them: renewal checks (one at         *)
(* start-up, then the cron job) and request handlers that ask for signing   *)
(* material.  Replicas share only the backend; inside a replica provisioning *)
(* and the first load of the signing material hold provisioning_lock, the   *)
(* renewal check itself does not.  Placing and answering an ACME order is   *)
(* one step here.                                                           *)
EXTENDS Integers, FiniteSets

CONSTANTS
    Replicas,      \* server processes
    Renewals,      \* renewal tasks
    Handlers,      \* request tasks that sign a token
    Home,          \* the replica a task runs on
    Deployments,   \* provisioning strategies, with what they are run against
    KeyInBackend,  \* TRUE: the backend already holds a signing key at first start
    CacheKeys,     \* TRUE: signing_key_cache_ttl > 0
    RenewAfter,    \* age from which a certificate is due for renewal
    MaxKeys,       \* bound: the operator mints no key after this many
    MaxCrashes,    \* bound: process restarts
    None

Tasks == Renewals \cup Handlers

ASSUME HomeAssumption == Home \in [Tasks -> Replicas]
ASSUME KindAssumption == Renewals \cap Handlers = {}
ASSUME FlagAssumption == {KeyInBackend, CacheKeys} \subseteq BOOLEAN
ASSUME BoundAssumption ==
    /\ RenewAfter \in Nat
    /\ MaxKeys \in Nat
    /\ MaxCrashes \in Nat
ASSUME DeploymentAssumption ==
    Deployments \subseteq
        [strategy: {"acme", "store"}, keepsExisting: BOOLEAN, maxTime: Nat, maxFaults: Nat]
ASSUME NoneAssumption == None \notin Tasks \cup Nat /\ None \notin [key: Nat, from: Nat]

MAX_RETRIES == 3

VARIABLES
    stored,                  \* the backend: certificate and signing key
    source,                  \* the operator's certificate and key (store strategy)
    certificate_cache,       \* per replica; never expires
    signing_key_cache,       \* per replica; may expire at any time
    cert_chain_cache,        \* per replica
    active_signing_material, \* per replica
    provisioning_lock,       \* per replica: the task that holds it
    pc, cert, key, tries,    \* per task: where it is and what it has in hand
    answer,                  \* per handler: the signing material it got
    minted,                  \* keys minted so far; the next key is minted + 1
    now, faults, crashes,
    deployment               \* the one this execution is about; never changes

(* AcmeProvisioningStrategy or StoreProvisioningStrategy.                   *)
Acme == deployment.strategy = "acme"

(* The backend's store leaves an existing value alone (AWS).                *)
KeepsExisting == deployment.keepsExisting

(* Bounds: the clock, and failed calls to the backend or the CA.            *)
MaxTime == deployment.maxTime

MaxFaults == deployment.maxFaults

caches == <<certificate_cache, signing_key_cache, cert_chain_cache, active_signing_material>>
task == <<pc, cert, key, tries>>
env == <<now, crashes, deployment>>
vars == <<stored, source, caches, provisioning_lock, task, answer, minted, faults, env>>

Key == Nat \ {0}

(* What a property can tell apart of a certificate: the key it certifies    *)
(* and the time it is valid from.                                           *)
Cert == [key: Key, from: Nat]

Material == [chain: Cert \cup {None}, key: Key]

Steps ==
    {"idle", "check", "cacheCert", "lock", "order", "loadKey", "storeKey", "issue",
     "sourceCert", "sourceKey", "currentCert", "sameCert", "otherCert",
     "persistCert", "insertCert", "updateCert", "persistKey", "insertKey", "updateKey",
     "activate", "chain"}

TypeOK ==
    /\ stored \in [cert: Cert \cup {None}, key: Key \cup {None}]
    /\ source \in [cert: Cert, key: Key]
    /\ certificate_cache \in [Replicas -> Cert \cup {None}]
    /\ signing_key_cache \in [Replicas -> Key \cup {None}]
    /\ cert_chain_cache \in [Replicas -> Cert \cup {None}]
    /\ active_signing_material \in [Replicas -> Material \cup {None}]
    /\ provisioning_lock \in [Replicas -> Tasks \cup {None}]
    /\ pc \in [Tasks -> Steps]
    /\ cert \in [Tasks -> Cert \cup {None}]
    /\ key \in [Tasks -> Key \cup {None}]
    /\ tries \in [Tasks -> 0..(MAX_RETRIES - 1)]
    /\ answer \in [Handlers -> Material \cup {None}]
    /\ minted \in Key
    /\ now \in Nat
    /\ faults \in Nat
    /\ crashes \in Nat
    /\ deployment \in Deployments

(* Key 1 is the key the deployment starts with: in the backend, or with the *)
(* certificate the operator provides to the store strategy.                 *)
Init ==
    /\ stored = [cert |-> None, key |-> IF KeyInBackend THEN 1 ELSE None]
    /\ source = [cert |-> [key |-> 1, from |-> 0], key |-> 1]
    /\ certificate_cache = [r \in Replicas |-> None]
    /\ signing_key_cache = [r \in Replicas |-> None]
    /\ cert_chain_cache = [r \in Replicas |-> None]
    /\ active_signing_material = [r \in Replicas |-> None]
    /\ provisioning_lock = [r \in Replicas |-> None]
    /\ pc = [t \in Tasks |-> "idle"]
    /\ cert = [t \in Tasks |-> None]
    /\ key = [t \in Tasks |-> None]
    /\ tries = [t \in Tasks |-> 0]
    /\ answer = [t \in Handlers |-> None]
    /\ minted = 1
    /\ now = 0
    /\ faults = 0
    /\ crashes = 0
    /\ deployment \in Deployments

----------------------------------------------------------------------------
(* How a task moves.                                                        *)

Goto(t, step) == pc' = [pc EXCEPT ![t] = step]

Release(t) ==
    provisioning_lock' = [provisioning_lock EXCEPT ![Home[t]] = IF @ = t THEN None ELSE @]

(* The task returns: its guard and its locals are dropped.                  *)
Finish(t) ==
    /\ Goto(t, "idle")
    /\ cert' = [cert EXCEPT ![t] = None]
    /\ key' = [key EXCEPT ![t] = None]
    /\ tries' = [tries EXCEPT ![t] = 0]
    /\ Release(t)

(* load_with_cache: a hit does not ask the backend, a miss fills the cache  *)
(* when the backend has a value.                                            *)
Lookup(cached, value) == IF cached # None THEN cached ELSE value

CachedCert(r) == Lookup(certificate_cache[r], stored.cert)

CachedKey(r) == Lookup(signing_key_cache[r], stored.key)

CacheCert(r, c) == certificate_cache' = [certificate_cache EXCEPT ![r] = c]

CacheKey(r, k) ==
    signing_key_cache' = [signing_key_cache EXCEPT ![r] = IF CacheKeys THEN k ELSE None]

(* Storage::store of the backends: most overwrite, one keeps what is there. *)
Stored(old, new) == IF KeepsExisting /\ old # None THEN old ELSE new

----------------------------------------------------------------------------
(* renew_cert_if_needed.                                                    *)

(* should_renew_cert: each RenewalStrategy compares the clock with a point  *)
(* of the certificate's life.                                               *)
should_renew_cert(c) == now >= c.from + RenewAfter

should_provision_existing(c) == Acme => should_renew_cert(c)

StartRenewal(t) ==
    /\ t \in Renewals
    /\ pc[t] = "idle"
    /\ Goto(t, "check")
    /\ UNCHANGED <<stored, source, caches, provisioning_lock, cert, key, tries, answer, minted, faults, env>>

(* certificate(), outside the provisioning lock: a cache hit is used at     *)
(* once, a value loaded from the backend is put in the cache in a later     *)
(* step.                                                                    *)
CheckCertificate(t) ==
    LET c == CachedCert(Home[t])
        next == IF c = None \/ should_provision_existing(c) THEN "lock" ELSE "idle"
    IN  /\ pc[t] = "check"
        /\ IF c # None /\ certificate_cache[Home[t]] = None
           THEN cert' = [cert EXCEPT ![t] = c] /\ Goto(t, "cacheCert")
           ELSE UNCHANGED cert /\ Goto(t, next)
        /\ UNCHANGED <<stored, source, caches, provisioning_lock, key, tries, answer, minted, faults, env>>

CacheCertificate(t) ==
    /\ pc[t] = "cacheCert"
    /\ CacheCert(Home[t], cert[t])
    /\ cert' = [cert EXCEPT ![t] = None]
    /\ Goto(t, IF should_provision_existing(cert[t]) THEN "lock" ELSE "idle")
    /\ UNCHANGED <<stored, source, signing_key_cache, cert_chain_cache, active_signing_material,
                   provisioning_lock, key, tries, answer, minted, faults, env>>

(* Mutant: provisioning does not wait for the lock.                         *)
request_certificate_unlocked(t) ==
    /\ t \in Renewals
    /\ pc[t] = "lock"
    /\ Goto(t, IF Acme THEN "order" ELSE "sourceCert")
    /\ UNCHANGED <<stored, source, caches, provisioning_lock, cert, key, tries, answer, minted, faults, env>>

request_certificate(t) ==
    /\ t \in Renewals
    /\ pc[t] = "lock"
    /\ provisioning_lock[Home[t]] = None
    /\ provisioning_lock' = [provisioning_lock EXCEPT ![Home[t]] = t]
    /\ Goto(t, IF Acme THEN "order" ELSE "sourceCert")
    /\ UNCHANGED <<stored, source, caches, cert, key, tries, answer, minted, faults, env>>

----------------------------------------------------------------------------
(* request_acme_certificate.                                                *)

(* The account, the order, its authorizations and their challenges.         *)
Order(t) ==
    /\ pc[t] = "order"
    /\ Goto(t, "loadKey")
    /\ UNCHANGED <<stored, source, caches, provisioning_lock, cert, key, tries, answer, minted, faults, env>>

AfterKey(t) == IF t \in Handlers THEN "chain" ELSE "issue"

(* signing_key_pem: the stored key, else a new one that is stored first.    *)
LoadKey(t) ==
    LET r == Home[t]
        k == CachedKey(r)
    IN  /\ pc[t] = "loadKey"
        /\ k # None
        /\ CacheKey(r, k)
        /\ key' = [key EXCEPT ![t] = k]
        /\ Goto(t, AfterKey(t))
        /\ UNCHANGED <<stored, source, certificate_cache, cert_chain_cache, active_signing_material,
                       provisioning_lock, cert, tries, answer, minted, faults, env>>

GenerateKey(t) ==
    /\ pc[t] = "loadKey"
    /\ CachedKey(Home[t]) = None
    /\ minted' = minted + 1
    /\ key' = [key EXCEPT ![t] = minted']
    /\ Goto(t, "storeKey")
    /\ UNCHANGED <<stored, source, caches, provisioning_lock, cert, tries, answer, faults, env>>

StoreKey(t) ==
    /\ pc[t] = "storeKey"
    /\ stored' = [stored EXCEPT !.key = Stored(@, key[t])]
    /\ CacheKey(Home[t], key[t])
    /\ tries' = [tries EXCEPT ![t] = 0]
    /\ Goto(t, AfterKey(t))
    /\ UNCHANGED <<source, certificate_cache, cert_chain_cache, active_signing_material,
                   provisioning_lock, cert, key, answer, minted, faults, env>>

(* A failed attempt, which may have reached the backend: up to MAX_RETRIES  *)
(* attempts are made with the same key.                                     *)
StoreKeyFails(t) ==
    /\ pc[t] = "storeKey"
    /\ faults < MaxFaults
    /\ faults' = faults + 1
    /\ stored' \in {stored, [stored EXCEPT !.key = Stored(@, key[t])]}
    /\ \/ /\ tries[t] + 1 < MAX_RETRIES
          /\ tries' = [tries EXCEPT ![t] = @ + 1]
          /\ UNCHANGED <<pc, cert, key, provisioning_lock>>
       \/ /\ tries[t] + 1 >= MAX_RETRIES
          /\ Finish(t)
    /\ UNCHANGED <<source, caches, answer, minted, env>>

(* The CSR is signed with the key in hand; the CA issues for that key.      *)
Issue(t) ==
    /\ pc[t] = "issue"
    /\ cert' = [cert EXCEPT ![t] = [key |-> key[t], from |-> now]]
    /\ Goto(t, "persistCert")
    /\ UNCHANGED <<stored, source, caches, provisioning_lock, key, tries, answer, minted, faults, env>>

----------------------------------------------------------------------------
(* StoreProvisioningStrategy::provision.                                    *)

LoadSourceCert(t) ==
    /\ pc[t] = "sourceCert"
    /\ cert' = [cert EXCEPT ![t] = source.cert]
    /\ Goto(t, "sourceKey")
    /\ UNCHANGED <<stored, source, caches, provisioning_lock, key, tries, answer, minted, faults, env>>

(* The pair is validated as soon as both halves are read.                   *)
LoadSourceKey(t) ==
    /\ pc[t] = "sourceKey"
    /\ cert[t].key = source.key
    /\ key' = [key EXCEPT ![t] = source.key]
    /\ Goto(t, "currentCert")
    /\ UNCHANGED <<stored, source, caches, provisioning_lock, cert, tries, answer, minted, faults, env>>

RejectSourcePair(t) ==
    /\ pc[t] = "sourceKey"
    /\ cert[t].key # source.key
    /\ Finish(t)
    /\ UNCHANGED <<stored, source, caches, answer, minted, faults, env>>

CompareCert(t) ==
    LET c == CachedCert(Home[t])
    IN  /\ pc[t] = "currentCert"
        /\ CacheCert(Home[t], c)
        /\ Goto(t, IF c = cert[t] THEN "sameCert" ELSE "otherCert")
        /\ UNCHANGED <<stored, source, signing_key_cache, cert_chain_cache, active_signing_material,
                       provisioning_lock, cert, key, tries, answer, minted, faults, env>>

(* Mutant: an unchanged certificate is taken for an unchanged pair.         *)
Unchanged_certOnly(t) == pc[t] = "sameCert"

(* Both halves equal what the backend (or the cache of it) has.             *)
Unchanged(t) == pc[t] = "sameCert" /\ CachedKey(Home[t]) = key[t]

CompareKey(t) ==
    /\ pc[t] \in {"sameCert", "otherCert"}
    /\ CacheKey(Home[t], CachedKey(Home[t]))
    /\ IF Unchanged(t)
       THEN Finish(t)
       ELSE Goto(t, "persistCert") /\ UNCHANGED <<cert, key, tries, provisioning_lock>>
    /\ UNCHANGED <<stored, source, certificate_cache, cert_chain_cache, active_signing_material,
                   answer, minted, faults, env>>

----------------------------------------------------------------------------
(* persist_certificate_data, persist_signing_key, and the two stores that   *)
(* publish the new pair inside the process.                                 *)

(* What is there decides between update and store.                          *)
PersistCert(t) ==
    LET c == CachedCert(Home[t])
    IN  /\ pc[t] = "persistCert"
        /\ CacheCert(Home[t], c)
        /\ Goto(t, IF c # None THEN "updateCert" ELSE "insertCert")
        /\ UNCHANGED <<stored, source, signing_key_cache, cert_chain_cache, active_signing_material,
                       provisioning_lock, cert, key, tries, answer, minted, faults, env>>

CertWritten(t) ==
    [stored EXCEPT !.cert = IF pc[t] = "insertCert" THEN Stored(@, cert[t]) ELSE cert[t]]

WriteCert(t) ==
    /\ pc[t] \in {"insertCert", "updateCert"}
    /\ stored' = CertWritten(t)
    /\ CacheCert(Home[t], cert[t])
    /\ Goto(t, IF Acme THEN "activate" ELSE "persistKey")
    /\ UNCHANGED <<source, signing_key_cache, cert_chain_cache, active_signing_material,
                   provisioning_lock, cert, key, tries, answer, minted, faults, env>>

PersistKey(t) ==
    LET k == CachedKey(Home[t])
    IN  /\ pc[t] = "persistKey"
        /\ CacheKey(Home[t], k)
        /\ Goto(t, IF k # None THEN "updateKey" ELSE "insertKey")
        /\ UNCHANGED <<stored, source, certificate_cache, cert_chain_cache, active_signing_material,
                       provisioning_lock, cert, key, tries, answer, minted, faults, env>>

KeyWritten(t) ==
    [stored EXCEPT !.key = IF pc[t] = "insertKey" THEN Stored(@, key[t]) ELSE key[t]]

WriteKey(t) ==
    /\ pc[t] \in {"insertKey", "updateKey"}
    /\ stored' = KeyWritten(t)
    /\ CacheKey(Home[t], key[t])
    /\ Goto(t, "activate")
    /\ UNCHANGED <<source, certificate_cache, cert_chain_cache, active_signing_material,
                   provisioning_lock, cert, key, tries, answer, minted, faults, env>>

(* The write reached the backend but its answer did not reach the task.     *)
WriteAckLost(t) ==
    /\ pc[t] \in {"insertCert", "updateCert", "insertKey", "updateKey"}
    /\ faults < MaxFaults
    /\ faults' = faults + 1
    /\ stored' = IF pc[t] \in {"insertCert", "updateCert"} THEN CertWritten(t) ELSE KeyWritten(t)
    /\ Finish(t)
    /\ UNCHANGED <<source, caches, answer, minted, env>>

(* Mutant: the new pair is persisted and the process keeps serving the old. *)
Activate_storageOnly(t) ==
    /\ pc[t] = "activate"
    /\ Finish(t)
    /\ UNCHANGED <<stored, source, caches, answer, minted, faults, env>>

(* cache_provisioned_chain, store_active_signing_material, and the end of   *)
(* the provisioning.                                                        *)
Activate(t) ==
    LET r == Home[t]
    IN  /\ pc[t] = "activate"
        /\ cert_chain_cache' = [cert_chain_cache EXCEPT ![r] = cert[t]]
        /\ active_signing_material' =
              [active_signing_material EXCEPT ![r] = [chain |-> cert[t], key |-> key[t]]]
        /\ Finish(t)
        /\ UNCHANGED <<stored, source, certificate_cache, signing_key_cache, answer, minted, faults, env>>

(* A call to the backend, the CA or the filesystem fails: the error is      *)
(* returned, what was done so far stays.                                    *)
CallFails(t) ==
    /\ pc[t] \notin {"idle", "cacheCert", "lock", "storeKey", "activate"}
    /\ faults < MaxFaults
    /\ faults' = faults + 1
    /\ Finish(t)
    /\ UNCHANGED <<stored, source, caches, answer, minted, env>>

----------------------------------------------------------------------------
(* signing_material.                                                        *)

(* The active snapshot answers without the lock; the first caller builds it. *)
AskSigningMaterial(t) ==
    LET m == active_signing_material[Home[t]]
    IN  /\ t \in Handlers
        /\ pc[t] = "idle"
        /\ answer' = [answer EXCEPT ![t] = m]
        /\ Goto(t, IF m # None THEN "idle" ELSE "lock")
        /\ UNCHANGED <<stored, source, caches, provisioning_lock, cert, key, tries, minted, faults, env>>

(* The snapshot is read again under the lock.                               *)
LockSigningMaterial(t) ==
    LET r == Home[t]
        m == active_signing_material[r]
    IN  /\ t \in Handlers
        /\ pc[t] = "lock"
        /\ provisioning_lock[r] = None
        /\ IF m # None
           THEN answer' = [answer EXCEPT ![t] = m] /\ Goto(t, "idle") /\ UNCHANGED provisioning_lock
           ELSE /\ provisioning_lock' = [provisioning_lock EXCEPT ![r] = t]
                /\ Goto(t, "loadKey")
                /\ UNCHANGED answer
        /\ UNCHANGED <<stored, source, caches, cert, key, tries, minted, faults, env>>

(* cert_chain_parts, then the snapshot, with or without a chain.            *)
BuildSigningMaterial(t) ==
    LET r == Home[t]
        c == Lookup(cert_chain_cache[r], CachedCert(r))
        m == [chain |-> c, key |-> key[t]]
    IN  /\ pc[t] = "chain"
        /\ IF cert_chain_cache[r] = None
           THEN CacheCert(r, c)
           ELSE UNCHANGED certificate_cache
        /\ cert_chain_cache' = [cert_chain_cache EXCEPT ![r] = c]
        /\ active_signing_material' = [active_signing_material EXCEPT ![r] = m]
        /\ answer' = [answer EXCEPT ![t] = m]
        /\ Finish(t)
        /\ UNCHANGED <<stored, source, signing_key_cache, minted, faults, env>>

----------------------------------------------------------------------------
(* The world around the process.                                            *)

Crash(r) ==
    /\ crashes < MaxCrashes
    /\ crashes' = crashes + 1
    /\ certificate_cache' = [certificate_cache EXCEPT ![r] = None]
    /\ signing_key_cache' = [signing_key_cache EXCEPT ![r] = None]
    /\ cert_chain_cache' = [cert_chain_cache EXCEPT ![r] = None]
    /\ active_signing_material' = [active_signing_material EXCEPT ![r] = None]
    /\ provisioning_lock' = [provisioning_lock EXCEPT ![r] = None]
    /\ pc' = [t \in Tasks |-> IF Home[t] = r THEN "idle" ELSE pc[t]]
    /\ cert' = [t \in Tasks |-> IF Home[t] = r THEN None ELSE cert[t]]
    /\ key' = [t \in Tasks |-> IF Home[t] = r THEN None ELSE key[t]]
    /\ tries' = [t \in Tasks |-> IF Home[t] = r THEN 0 ELSE tries[t]]
    /\ answer' = [t \in Handlers |-> IF Home[t] = r THEN None ELSE answer[t]]
    /\ UNCHANGED <<stored, source, minted, faults, now, deployment>>

ExpireKey(r) ==
    /\ signing_key_cache[r] # None
    /\ signing_key_cache' = [signing_key_cache EXCEPT ![r] = None]
    /\ UNCHANGED <<stored, source, certificate_cache, cert_chain_cache, active_signing_material,
                   provisioning_lock, task, answer, minted, faults, env>>

(* The operator replaces the pair of the store strategy, one half at a time *)
(* and in either order.                                                     *)
RotateSource ==
    /\ ~Acme
    /\ \/ /\ source.cert.key = source.key
          /\ minted < MaxKeys
          /\ minted' = minted + 1
          /\ source' \in {[source EXCEPT !.key = minted'],
                          [source EXCEPT !.cert = [key |-> minted', from |-> now]]}
       \/ /\ source.cert.key < source.key
          /\ source' = [source EXCEPT !.cert = [key |-> source.key, from |-> now]]
          /\ UNCHANGED minted
       \/ /\ source.cert.key > source.key
          /\ source' = [source EXCEPT !.key = source.cert.key]
          /\ UNCHANGED minted
    /\ UNCHANGED <<stored, caches, provisioning_lock, task, answer, faults, env>>

Tick ==
    /\ now < MaxTime
    /\ now' = now + 1
    /\ UNCHANGED <<stored, source, caches, provisioning_lock, task, answer, minted, faults,
                   crashes, deployment>>

(* What a task does next when no call fails.                                *)
Progress(t) ==
    \/ CheckCertificate(t)
    \/ CacheCertificate(t)
    \/ request_certificate(t)
    \/ Order(t)
    \/ LoadKey(t)
    \/ GenerateKey(t)
    \/ StoreKey(t)
    \/ Issue(t)
    \/ LoadSourceCert(t)
    \/ LoadSourceKey(t)
    \/ RejectSourcePair(t)
    \/ CompareCert(t)
    \/ CompareKey(t)
    \/ PersistCert(t)
    \/ WriteCert(t)
    \/ PersistKey(t)
    \/ WriteKey(t)
    \/ Activate(t)
    \/ LockSigningMaterial(t)
    \/ BuildSigningMaterial(t)

Next ==
    \/ \E t \in Tasks :
          \/ StartRenewal(t)
          \/ AskSigningMaterial(t)
          \/ Progress(t)
          \/ StoreKeyFails(t)
          \/ WriteAckLost(t)
          \/ CallFails(t)
    \/ \E r \in Replicas : Crash(r) \/ ExpireKey(r)
    \/ RotateSource
    \/ Tick

Spec == Init /\ [][Next]_vars

(* The scheduler starts a check again and again, every task that runs keeps *)
(* running, the clock advances; calls may fail, but only finitely often.    *)
FairSpec ==
    /\ Spec
    /\ \A t \in Tasks : WF_vars(Progress(t))
    /\ \A t \in Renewals : WF_vars(StartRenewal(t))
    /\ WF_vars(Tick)

----------------------------------------------------------------------------
(* Properties.                                                              *)

(* Under ACME the signing material of a token pairs a key with a            *)
(* certificate for that key: signing_material never mixes halves of two     *)
(* pairs.                                                                   *)
ServedPairMatches ==
    Acme => \A t \in Handlers :
        answer[t] # None /\ answer[t].chain # None => answer[t].chain.key = answer[t].key

(* Under ACME the certificate in the backend certifies the key in the       *)
(* backend, also while a renewal runs: a restart at any moment finds a      *)
(* usable pair.                                                             *)
StoredPairMatches == Acme /\ stored.cert # None => stored.cert.key = stored.key

(* A renewal never puts an older certificate over a newer one: the order    *)
(* and the write of one replica's renewals do not overlap.                  *)
NoDowngrade == [][stored.cert # None => stored'.cert # None /\ stored'.cert.from >= stored.cert.from]_vars

(* Under ACME, once calls stop failing, no process keeps serving a          *)
(* certificate that is due for renewal, whatever its caches held when it    *)
(* was renewed.                                                             *)
RenewalHappens ==
    <>[](Acme => \A r \in Replicas :
            LET m == active_signing_material[r]
            IN  m # None /\ m.chain # None => ~should_renew_cert(m.chain))

(* Under the store strategy, once the operator stops rotating, every        *)
(* process that serves signing material serves the operator's pair,         *)
(* whatever a crash left half written.                                      *)
StoreConverges ==
    <>[](~Acme /\ source.cert.key = source.key =>
            \A r \in Replicas :
                LET m == active_signing_material[r]
                IN  m # None => m = [chain |-> source.cert, key |-> source.key])

----------------------------------------------------------------------------
(* Why the pair matches under ACME: the inductive invariant.                *)

(* At most one process can ever find the backend without a key.             *)
SoleGenerator == KeyInBackend \/ \A r, q \in Replicas : r = q

(* The steps a task takes under the provisioning lock.                      *)
Locked == Steps \ {"idle", "check", "cacheCert", "lock"}

LockInv == \A t \in Tasks : pc[t] \in Locked => provisioning_lock[Home[t]] = t

(* The steps at which a task has a key in hand, and those of them after     *)
(* which that key is the backend's.                                         *)
KeySteps == Locked \ {"order", "loadKey", "sourceCert", "sourceKey"}

KeyInv == \A t \in Tasks : pc[t] \in KeySteps => key[t] # None

AcmeInv ==
    \A t \in Tasks :
        pc[t] \notin {"sourceCert", "sourceKey", "currentCert", "sameCert", "otherCert",
                      "persistKey", "insertKey", "updateKey"}

CertOfKey(c) == c # None => c.key = stored.key

KeyOfBackend(k) == k # None => k = stored.key

MaterialOfKey(m) == m # None => m.key = stored.key /\ CertOfKey(m.chain)

(* Every copy of the key is the backend's key and every copy of a           *)
(* certificate certifies it, except for the key a task is about to store.   *)
PairInv ==
    /\ KeyInBackend => stored.key # None
    /\ stored.key = None => stored.cert = None
    /\ CertOfKey(stored.cert)
    /\ \A r \in Replicas :
          /\ CertOfKey(certificate_cache[r])
          /\ CertOfKey(cert_chain_cache[r])
          /\ KeyOfBackend(signing_key_cache[r])
          /\ MaterialOfKey(active_signing_material[r])
    /\ \A t \in Tasks :
          /\ CertOfKey(cert[t])
          /\ pc[t] \in KeySteps \ {"storeKey"} => key[t] = stored.key
          /\ pc[t] = "storeKey" => ~KeyInBackend /\ stored.key \in {None, key[t]}
    /\ \A t \in Handlers : MaterialOfKey(answer[t])

IInv == TypeOK /\ KeyInv /\ LockInv /\ AcmeInv /\ PairInv

----------------------------------------------------------------------------
(* Why no certificate is replaced by an older one: the inductive invariant. *)

SoleProcess == \A r, q \in Replicas : r = q

(* A task takes only the steps of the configured strategy.                  *)
StrategyInv ==
    /\ Acme => AcmeInv
    /\ ~Acme => \A t \in Tasks :
          /\ pc[t] \notin {"order", "issue"}
          /\ pc[t] \in {"loadKey", "storeKey"} => t \in Handlers

(* The steps at which a task has the certificate it is going to write.      *)
CertSteps ==
    {"sourceKey", "currentCert", "sameCert", "otherCert", "persistCert", "insertCert", "updateCert"}

(* The time from which the newest certificate there can be is valid.        *)
Newest == IF Acme THEN now ELSE source.cert.from

(* The backend's certificate is older than what a task is going to write,   *)
(* which is older than what the CA or the operator would hand out.          *)
AgeInv ==
    /\ source.cert.from <= now
    /\ stored.cert # None => stored.cert.from <= Newest
    /\ \A t \in Tasks : pc[t] \in CertSteps =>
          /\ cert[t] # None
          /\ cert[t].from <= Newest
          /\ stored.cert # None => stored.cert.from <= cert[t].from
=============================================================================
