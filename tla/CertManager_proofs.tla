------------------------ MODULE CertManager_proofs ------------------------
(***************************************************************************)
(* Proofs about CertManager, for any set of processes and tasks and any    *)
(* number of restarts and failed calls.                                    *)
(***************************************************************************)
EXTENDS CertManager, TLAPS

(* The step leaves no older certificate in the backend than it found.       *)
Newer == stored.cert # None => stored'.cert # None /\ stored'.cert.from >= stored.cert.from

(* No step changes the strategy.                                            *)
LEMMA DeploymentFixed ==
    ASSUME [Next]_vars
    PROVE  deployment' = deployment /\ (Acme' <=> Acme)
  <1>1. deployment' = deployment
    BY DEF Next, Progress, StartRenewal, AskSigningMaterial, CheckCertificate, CacheCertificate,
       request_certificate, Order, LoadKey, GenerateKey, StoreKey, Issue, LoadSourceCert,
       LoadSourceKey, RejectSourcePair, CompareCert, CompareKey, PersistCert, WriteCert, PersistKey,
       WriteKey, Activate, LockSigningMaterial, BuildSigningMaterial, StoreKeyFails, WriteAckLost,
       CallFails, Crash, ExpireKey, RotateSource, Tick, env, vars
  <1> QED BY <1>1 DEF Acme

(* A task is at a known step and has a key wherever it uses one.            *)
LEMMA TypeStep ==
    ASSUME TypeOK, KeyInv, [Next]_vars
    PROVE  TypeOK' /\ KeyInv'
  <1> USE HomeAssumption, KindAssumption, NoneAssumption, FlagAssumption
      DEF MAX_RETRIES, Tasks, Key, Cert, Material
  <1>1. ASSUME NEW t \in Tasks, StartRenewal(t)
        PROVE  TypeOK' /\ KeyInv'
    BY <1>1 DEF StartRenewal, Goto, caches, env, TypeOK, KeyInv, KeySteps, Locked, Steps
  <1>2. ASSUME NEW t \in Tasks, AskSigningMaterial(t)
        PROVE  TypeOK' /\ KeyInv'
    BY <1>2 DEF AskSigningMaterial, Goto, caches, env, TypeOK, KeyInv, KeySteps, Locked,
       Steps
  <1>3. ASSUME NEW t \in Tasks, CheckCertificate(t)
        PROVE  TypeOK' /\ KeyInv'
    <2>1. PICK step \in {"cacheCert", "lock", "idle"} : pc' = [pc EXCEPT ![t] = step]
      BY <1>3 DEF CheckCertificate, Goto
    <2>2. cert' = cert \/ cert' = [cert EXCEPT ![t] = CachedCert(Home[t])]
      BY <1>3 DEF CheckCertificate
    <2>3. CachedCert(Home[t]) \in Cert \cup {None}
      BY DEF CachedCert, Lookup, TypeOK
    <2>4. UNCHANGED <<stored, source, caches, provisioning_lock, key, tries, answer, minted,
                      faults, env>>
      BY <1>3 DEF CheckCertificate
    <2> HIDE DEF CachedCert
    <2>5. TypeOK'
      BY <2>1, <2>2, <2>3, <2>4 DEF caches, env, TypeOK, Steps
    <2>6. KeyInv'
      BY <2>1, <2>4 DEF TypeOK, KeyInv, KeySteps, Locked, Steps
    <2> QED BY <2>5, <2>6
  <1>4. ASSUME NEW t \in Tasks, CacheCertificate(t)
        PROVE  TypeOK' /\ KeyInv'
    BY <1>4 DEF CacheCertificate, Goto, CacheCert, should_provision_existing,
       should_renew_cert, env, TypeOK, KeyInv, KeySteps, Locked, Steps
  <1>5. ASSUME NEW t \in Tasks, request_certificate(t)
        PROVE  TypeOK' /\ KeyInv'
    BY <1>5 DEF request_certificate, Goto, caches, env, TypeOK, KeyInv, KeySteps, Locked,
       Steps
  <1>6. ASSUME NEW t \in Tasks, Order(t)
        PROVE  TypeOK' /\ KeyInv'
    BY <1>6 DEF Order, Goto, caches, env, TypeOK, KeyInv, KeySteps, Locked, Steps
  <1>7. ASSUME NEW t \in Tasks, LoadKey(t)
        PROVE  TypeOK' /\ KeyInv'
    BY <1>7 DEF LoadKey, Goto, CachedKey, Lookup, CacheKey, AfterKey, env, TypeOK, KeyInv,
       KeySteps, Locked, Steps
  <1>8. ASSUME NEW t \in Tasks, GenerateKey(t)
        PROVE  TypeOK' /\ KeyInv'
    BY <1>8 DEF GenerateKey, Goto, CachedKey, Lookup, caches, env, TypeOK, KeyInv, KeySteps,
       Locked, Steps
  <1>9. ASSUME NEW t \in Tasks, StoreKey(t)
        PROVE  TypeOK' /\ KeyInv'
    BY <1>9 DEF StoreKey, Goto, CacheKey, Stored, AfterKey, env, TypeOK, KeyInv, KeySteps,
       Locked, Steps
  <1>10. ASSUME NEW t \in Tasks, Issue(t)
        PROVE  TypeOK' /\ KeyInv'
    BY <1>10 DEF Issue, Goto, caches, env, TypeOK, KeyInv, KeySteps, Locked, Steps
  <1>11. ASSUME NEW t \in Tasks, LoadSourceCert(t)
        PROVE  TypeOK' /\ KeyInv'
    BY <1>11 DEF LoadSourceCert, Goto, caches, env, TypeOK, KeyInv, KeySteps, Locked, Steps
  <1>12. ASSUME NEW t \in Tasks, LoadSourceKey(t)
        PROVE  TypeOK' /\ KeyInv'
    BY <1>12 DEF LoadSourceKey, Goto, caches, env, TypeOK, KeyInv, KeySteps, Locked, Steps
  <1>13. ASSUME NEW t \in Tasks, RejectSourcePair(t)
        PROVE  TypeOK' /\ KeyInv'
    BY <1>13 DEF RejectSourcePair, Finish, Goto, Release, caches, env, TypeOK, KeyInv,
       KeySteps, Locked, Steps
  <1>14. ASSUME NEW t \in Tasks, CompareCert(t)
        PROVE  TypeOK' /\ KeyInv'
    BY <1>14 DEF CompareCert, Goto, CachedCert, Lookup, CacheCert, env, TypeOK, KeyInv,
       KeySteps, Locked, Steps
  <1>15. ASSUME NEW t \in Tasks, CompareKey(t)
        PROVE  TypeOK' /\ KeyInv'
    <2>1. Home[t] \in Replicas /\ CachedKey(Home[t]) \in Key \cup {None}
      BY DEF CachedKey, Lookup, TypeOK
    <2>2. signing_key_cache' \in [Replicas -> Key \cup {None}]
      BY <1>15, <2>1 DEF CompareKey, CacheKey, TypeOK
    <2>3. CASE Finish(t)
      BY <1>15, <2>2, <2>3 DEF CompareKey, Finish, Goto, Release, env, TypeOK, KeyInv,
         KeySteps, Locked, Steps
    <2>4. CASE Goto(t, "persistCert") /\ UNCHANGED <<cert, key, tries, provisioning_lock>>
      BY <1>15, <2>2, <2>4 DEF CompareKey, Goto, env, TypeOK, KeyInv, KeySteps, Locked,
         Steps
    <2> QED BY <1>15, <2>3, <2>4 DEF CompareKey
  <1>16. ASSUME NEW t \in Tasks, PersistCert(t)
        PROVE  TypeOK' /\ KeyInv'
    BY <1>16 DEF PersistCert, Goto, CachedCert, Lookup, CacheCert, env, TypeOK, KeyInv,
       KeySteps, Locked, Steps
  <1>17. ASSUME NEW t \in Tasks, WriteCert(t)
        PROVE  TypeOK' /\ KeyInv'
    BY <1>17 DEF WriteCert, Goto, CacheCert, CertWritten, Stored, env, TypeOK, KeyInv,
       KeySteps, Locked, Steps
  <1>18. ASSUME NEW t \in Tasks, PersistKey(t)
        PROVE  TypeOK' /\ KeyInv'
    BY <1>18 DEF PersistKey, Goto, CachedKey, Lookup, CacheKey, env, TypeOK, KeyInv,
       KeySteps, Locked, Steps
  <1>19. ASSUME NEW t \in Tasks, WriteKey(t)
        PROVE  TypeOK' /\ KeyInv'
    BY <1>19 DEF WriteKey, Goto, CacheKey, KeyWritten, Stored, env, TypeOK, KeyInv,
       KeySteps, Locked, Steps
  <1>20. ASSUME NEW t \in Tasks, Activate(t)
        PROVE  TypeOK' /\ KeyInv'
    BY <1>20 DEF Activate, Finish, Goto, Release, env, TypeOK, KeyInv, KeySteps, Locked,
       Steps
  <1>21. ASSUME NEW t \in Tasks, LockSigningMaterial(t)
        PROVE  TypeOK' /\ KeyInv'
    <2>1. CASE active_signing_material[Home[t]] # None
      <3>1. /\ answer' = [answer EXCEPT ![t] = active_signing_material[Home[t]]]
            /\ Goto(t, "idle")
            /\ UNCHANGED <<stored, source, caches, cert, key, tries, minted, faults, env, provisioning_lock>>
        BY <1>21, <2>1 DEF LockSigningMaterial
      <3> QED BY <3>1 DEF Goto, caches, env, TypeOK, KeyInv, KeySteps, Locked, Steps
    <2>2. CASE active_signing_material[Home[t]] = None
      <3>1. /\ provisioning_lock' = [provisioning_lock EXCEPT ![Home[t]] = t]
            /\ Goto(t, "loadKey")
            /\ UNCHANGED <<stored, source, caches, cert, key, tries, minted, faults, env, answer>>
        BY <1>21, <2>2 DEF LockSigningMaterial
      <3> QED BY <3>1 DEF Goto, caches, env, TypeOK, KeyInv, KeySteps, Locked, Steps
    <2> QED BY <2>1, <2>2
  <1>22. ASSUME NEW t \in Tasks, BuildSigningMaterial(t)
        PROVE  TypeOK' /\ KeyInv'
    <2> DEFINE r == Home[t]
               c == Lookup(cert_chain_cache[r], CachedCert(r))
               m == [chain |-> c, key |-> key[t]]
    <2>1. r \in Replicas /\ c \in Cert \cup {None} /\ m \in Material
      BY <1>22 DEF BuildSigningMaterial, Finish, Goto, Release, Lookup, CachedCert,
         CacheCert, env, TypeOK, KeyInv, KeySteps, Locked, Steps
    <2>2. /\ certificate_cache' \in [Replicas -> Cert \cup {None}]
          /\ cert_chain_cache' \in [Replicas -> Cert \cup {None}]
          /\ active_signing_material' \in [Replicas -> Material \cup {None}]
          /\ answer' \in [Handlers -> Material \cup {None}]
      <3>1. \/ certificate_cache' = [certificate_cache EXCEPT ![r] = c]
            \/ certificate_cache' = certificate_cache
        BY <1>22 DEF BuildSigningMaterial, CacheCert
      <3>2. /\ cert_chain_cache' = [cert_chain_cache EXCEPT ![r] = c]
            /\ active_signing_material' = [active_signing_material EXCEPT ![r] = m]
            /\ answer' = [answer EXCEPT ![t] = m]
        BY <1>22 DEF BuildSigningMaterial
      <3> HIDE DEF c, m, r, Cert, Material
      <3>3. certificate_cache' \in [Replicas -> Cert \cup {None}]
        BY <2>1, <3>1 DEF TypeOK
      <3>4. cert_chain_cache' \in [Replicas -> Cert \cup {None}]
        BY <2>1, <3>2 DEF TypeOK
      <3>5. active_signing_material' \in [Replicas -> Material \cup {None}]
        BY <2>1, <3>2 DEF TypeOK
      <3>6. answer' \in [Handlers -> Material \cup {None}]
        BY <2>1, <3>2 DEF TypeOK
      <3> QED BY <3>3, <3>4, <3>5, <3>6
    <2>3. Finish(t) /\ UNCHANGED <<stored, source, signing_key_cache, minted, faults, env>>
      BY <1>22 DEF BuildSigningMaterial
    <2> QED BY <2>2, <2>3 DEF Finish, Goto, Release, env, TypeOK, KeyInv, KeySteps, Locked,
       Steps
  <1>23. ASSUME NEW t \in Tasks, StoreKeyFails(t)
        PROVE  TypeOK' /\ KeyInv'
    <2>1. stored' \in [cert: Cert \cup {None}, key: Key \cup {None}] /\ faults' \in Nat
      BY <1>23 DEF StoreKeyFails, Stored, TypeOK
    <2>2. CASE tries[t] + 1 < MAX_RETRIES
      <3>1. /\ tries' = [tries EXCEPT ![t] = tries[t] + 1]
            /\ UNCHANGED <<pc, cert, key, provisioning_lock>>
        BY <1>23, <2>2 DEF StoreKeyFails, TypeOK
      <3>2. tries[t] + 1 \in 0..(MAX_RETRIES - 1)
        BY <2>2 DEF TypeOK
      <3>3. tries' \in [Tasks -> 0..(MAX_RETRIES - 1)]
        BY <3>1, <3>2 DEF TypeOK
      <3> QED BY <1>23, <2>1, <3>1, <3>3 DEF StoreKeyFails, caches, env, TypeOK, KeyInv,
         KeySteps, Locked, Steps
    <2>3. CASE ~(tries[t] + 1 < MAX_RETRIES)
      <3>1. Finish(t)
        BY <1>23, <2>3 DEF StoreKeyFails
      <3> QED BY <1>23, <2>1, <3>1 DEF StoreKeyFails, Finish, Goto, Release, caches, env,
         TypeOK, KeyInv, KeySteps, Locked, Steps
    <2> QED BY <2>2, <2>3
  <1>24. ASSUME NEW t \in Tasks, WriteAckLost(t)
        PROVE  TypeOK' /\ KeyInv'
    BY <1>24 DEF WriteAckLost, Finish, Goto, Release, CertWritten, Stored, KeyWritten,
       caches, env, TypeOK, KeyInv, KeySteps, Locked, Steps
  <1>25. ASSUME NEW t \in Tasks, CallFails(t)
        PROVE  TypeOK' /\ KeyInv'
    BY <1>25 DEF CallFails, Finish, Goto, Release, caches, env, TypeOK, KeyInv, KeySteps,
       Locked, Steps
  <1>26. ASSUME NEW r \in Replicas, Crash(r)
        PROVE  TypeOK' /\ KeyInv'
    BY <1>26 DEF Crash, TypeOK, KeyInv, KeySteps, Locked, Steps
  <1>27. ASSUME NEW r \in Replicas, ExpireKey(r)
        PROVE  TypeOK' /\ KeyInv'
    BY <1>27 DEF ExpireKey, env, task, TypeOK, KeyInv, KeySteps, Locked, Steps
  <1>28. CASE RotateSource
    BY <1>28 DEF RotateSource, caches, env, task, TypeOK, KeyInv, KeySteps, Locked, Steps
  <1>29. CASE Tick
    BY <1>29 DEF Tick, caches, task, TypeOK, KeyInv, KeySteps, Locked, Steps
  <1>30. CASE UNCHANGED vars
    BY <1>30 DEF vars, caches, task, env, TypeOK, KeyInv, KeySteps, Locked, Steps
  <1> QED BY <1>1, <1>2, <1>3, <1>4, <1>5, <1>6, <1>7, <1>8, <1>9, <1>10, <1>11, <1>12,
     <1>13, <1>14, <1>15, <1>16, <1>17, <1>18, <1>19, <1>20, <1>21, <1>22, <1>23, <1>24,
     <1>25, <1>26, <1>27, <1>28, <1>29, <1>30 DEF Next, Progress

(* A task past the lock holds it.                                           *)
LEMMA LockStep ==
    ASSUME TypeOK, LockInv, [Next]_vars
    PROVE  LockInv'
  <1> USE HomeAssumption, NoneAssumption DEF Tasks
  <1>1. ASSUME NEW t \in Tasks, StartRenewal(t)
        PROVE  LockInv'
    BY <1>1 DEF StartRenewal, Goto, caches, env, TypeOK, LockInv, Locked, Steps
  <1>2. ASSUME NEW t \in Tasks, AskSigningMaterial(t)
        PROVE  LockInv'
    BY <1>2 DEF AskSigningMaterial, Goto, caches, env, TypeOK, LockInv, Locked, Steps
  <1>3. ASSUME NEW t \in Tasks, CheckCertificate(t)
        PROVE  LockInv'
    BY <1>3 DEF CheckCertificate, Goto, CachedCert, Lookup, should_provision_existing,
       should_renew_cert, caches, env, TypeOK, LockInv, Locked, Steps
  <1>4. ASSUME NEW t \in Tasks, CacheCertificate(t)
        PROVE  LockInv'
    BY <1>4 DEF CacheCertificate, Goto, CacheCert, should_provision_existing,
       should_renew_cert, env, TypeOK, LockInv, Locked, Steps
  <1>5. ASSUME NEW t \in Tasks, request_certificate(t)
        PROVE  LockInv'
    BY <1>5 DEF request_certificate, Goto, caches, env, TypeOK, LockInv, Locked, Steps
  <1>6. ASSUME NEW t \in Tasks, Order(t)
        PROVE  LockInv'
    BY <1>6 DEF Order, Goto, caches, env, TypeOK, LockInv, Locked, Steps
  <1>7. ASSUME NEW t \in Tasks, LoadKey(t)
        PROVE  LockInv'
    BY <1>7 DEF LoadKey, Goto, CachedKey, Lookup, CacheKey, AfterKey, env, TypeOK, LockInv,
       Locked, Steps
  <1>8. ASSUME NEW t \in Tasks, GenerateKey(t)
        PROVE  LockInv'
    BY <1>8 DEF GenerateKey, Goto, CachedKey, Lookup, caches, env, TypeOK, LockInv, Locked,
       Steps
  <1>9. ASSUME NEW t \in Tasks, StoreKey(t)
        PROVE  LockInv'
    BY <1>9 DEF StoreKey, Goto, CacheKey, Stored, AfterKey, env, TypeOK, LockInv, Locked,
       Steps
  <1>10. ASSUME NEW t \in Tasks, Issue(t)
        PROVE  LockInv'
    BY <1>10 DEF Issue, Goto, caches, env, TypeOK, LockInv, Locked, Steps
  <1>11. ASSUME NEW t \in Tasks, LoadSourceCert(t)
        PROVE  LockInv'
    BY <1>11 DEF LoadSourceCert, Goto, caches, env, TypeOK, LockInv, Locked, Steps
  <1>12. ASSUME NEW t \in Tasks, LoadSourceKey(t)
        PROVE  LockInv'
    BY <1>12 DEF LoadSourceKey, Goto, caches, env, TypeOK, LockInv, Locked, Steps
  <1>13. ASSUME NEW t \in Tasks, RejectSourcePair(t)
        PROVE  LockInv'
    BY <1>13 DEF RejectSourcePair, Finish, Goto, Release, caches, env, TypeOK, LockInv,
       Locked, Steps
  <1>14. ASSUME NEW t \in Tasks, CompareCert(t)
        PROVE  LockInv'
    BY <1>14 DEF CompareCert, Goto, CachedCert, Lookup, CacheCert, env, TypeOK, LockInv,
       Locked, Steps
  <1>15. ASSUME NEW t \in Tasks, CompareKey(t)
        PROVE  LockInv'
    BY <1>15 DEF CompareKey, Goto, Finish, Release, CachedKey, Lookup, CacheKey, Unchanged,
       env, TypeOK, LockInv, Locked, Steps
  <1>16. ASSUME NEW t \in Tasks, PersistCert(t)
        PROVE  LockInv'
    BY <1>16 DEF PersistCert, Goto, CachedCert, Lookup, CacheCert, env, TypeOK, LockInv,
       Locked, Steps
  <1>17. ASSUME NEW t \in Tasks, WriteCert(t)
        PROVE  LockInv'
    BY <1>17 DEF WriteCert, Goto, CacheCert, CertWritten, Stored, env, TypeOK, LockInv,
       Locked, Steps
  <1>18. ASSUME NEW t \in Tasks, PersistKey(t)
        PROVE  LockInv'
    BY <1>18 DEF PersistKey, Goto, CachedKey, Lookup, CacheKey, env, TypeOK, LockInv,
       Locked, Steps
  <1>19. ASSUME NEW t \in Tasks, WriteKey(t)
        PROVE  LockInv'
    BY <1>19 DEF WriteKey, Goto, CacheKey, KeyWritten, Stored, env, TypeOK, LockInv, Locked,
       Steps
  <1>20. ASSUME NEW t \in Tasks, Activate(t)
        PROVE  LockInv'
    BY <1>20 DEF Activate, Finish, Goto, Release, env, TypeOK, LockInv, Locked, Steps
  <1>21. ASSUME NEW t \in Tasks, LockSigningMaterial(t)
        PROVE  LockInv'
    BY <1>21 DEF LockSigningMaterial, Goto, caches, env, TypeOK, LockInv, Locked, Steps
  <1>22. ASSUME NEW t \in Tasks, BuildSigningMaterial(t)
        PROVE  LockInv'
    BY <1>22 DEF BuildSigningMaterial, Finish, Goto, Release, Lookup, CachedCert, CacheCert,
       env, TypeOK, LockInv, Locked, Steps
  <1>23. ASSUME NEW t \in Tasks, StoreKeyFails(t)
        PROVE  LockInv'
    BY <1>23 DEF StoreKeyFails, Finish, Goto, Release, Stored, caches, env, TypeOK, LockInv,
       Locked, Steps
  <1>24. ASSUME NEW t \in Tasks, WriteAckLost(t)
        PROVE  LockInv'
    BY <1>24 DEF WriteAckLost, Finish, Goto, Release, CertWritten, Stored, KeyWritten,
       caches, env, TypeOK, LockInv, Locked, Steps
  <1>25. ASSUME NEW t \in Tasks, CallFails(t)
        PROVE  LockInv'
    BY <1>25 DEF CallFails, Finish, Goto, Release, caches, env, TypeOK, LockInv, Locked,
       Steps
  <1>26. ASSUME NEW r \in Replicas, Crash(r)
        PROVE  LockInv'
    BY <1>26 DEF Crash, TypeOK, LockInv, Locked, Steps
  <1>27. ASSUME NEW r \in Replicas, ExpireKey(r)
        PROVE  LockInv'
    BY <1>27 DEF ExpireKey, env, task, TypeOK, LockInv, Locked, Steps
  <1>28. CASE RotateSource
    BY <1>28 DEF RotateSource, caches, env, task, TypeOK, LockInv, Locked, Steps
  <1>29. CASE Tick
    BY <1>29 DEF Tick, caches, task, TypeOK, LockInv, Locked, Steps
  <1>30. CASE UNCHANGED vars
    BY <1>30 DEF vars, caches, task, env, TypeOK, LockInv, Locked, Steps
  <1> QED BY <1>1, <1>2, <1>3, <1>4, <1>5, <1>6, <1>7, <1>8, <1>9, <1>10, <1>11, <1>12,
     <1>13, <1>14, <1>15, <1>16, <1>17, <1>18, <1>19, <1>20, <1>21, <1>22, <1>23, <1>24,
     <1>25, <1>26, <1>27, <1>28, <1>29, <1>30 DEF Next, Progress

(* Under ACME no task takes a step of the store strategy.                   *)
LEMMA AcmeStep ==
    ASSUME Acme, TypeOK, AcmeInv, [Next]_vars
    PROVE  AcmeInv'
  <1> USE HomeAssumption, NoneAssumption DEF Tasks
  <1>1. ASSUME NEW t \in Tasks, StartRenewal(t)
        PROVE  AcmeInv'
    BY <1>1 DEF StartRenewal, Goto, caches, env, TypeOK, AcmeInv
  <1>2. ASSUME NEW t \in Tasks, AskSigningMaterial(t)
        PROVE  AcmeInv'
    BY <1>2 DEF AskSigningMaterial, Goto, caches, env, TypeOK, AcmeInv
  <1>3. ASSUME NEW t \in Tasks, CheckCertificate(t)
        PROVE  AcmeInv'
    BY <1>3 DEF CheckCertificate, Goto, CachedCert, Lookup, should_provision_existing,
       should_renew_cert, caches, env, TypeOK, AcmeInv
  <1>4. ASSUME NEW t \in Tasks, CacheCertificate(t)
        PROVE  AcmeInv'
    BY <1>4 DEF CacheCertificate, Goto, CacheCert, should_provision_existing,
       should_renew_cert, env, TypeOK, AcmeInv
  <1>5. ASSUME NEW t \in Tasks, request_certificate(t)
        PROVE  AcmeInv'
    BY <1>5 DEF request_certificate, Goto, caches, env, TypeOK, AcmeInv
  <1>6. ASSUME NEW t \in Tasks, Order(t)
        PROVE  AcmeInv'
    BY <1>6 DEF Order, Goto, caches, env, TypeOK, AcmeInv
  <1>7. ASSUME NEW t \in Tasks, LoadKey(t)
        PROVE  AcmeInv'
    BY <1>7 DEF LoadKey, Goto, CachedKey, Lookup, CacheKey, AfterKey, env, TypeOK, AcmeInv
  <1>8. ASSUME NEW t \in Tasks, GenerateKey(t)
        PROVE  AcmeInv'
    BY <1>8 DEF GenerateKey, Goto, CachedKey, Lookup, caches, env, TypeOK, AcmeInv
  <1>9. ASSUME NEW t \in Tasks, StoreKey(t)
        PROVE  AcmeInv'
    BY <1>9 DEF StoreKey, Goto, CacheKey, Stored, AfterKey, env, TypeOK, AcmeInv
  <1>10. ASSUME NEW t \in Tasks, Issue(t)
        PROVE  AcmeInv'
    BY <1>10 DEF Issue, Goto, caches, env, TypeOK, AcmeInv
  <1>11. ASSUME NEW t \in Tasks, LoadSourceCert(t)
        PROVE  AcmeInv'
    BY <1>11 DEF LoadSourceCert, Goto, caches, env, TypeOK, AcmeInv
  <1>12. ASSUME NEW t \in Tasks, LoadSourceKey(t)
        PROVE  AcmeInv'
    BY <1>12 DEF LoadSourceKey, Goto, caches, env, TypeOK, AcmeInv
  <1>13. ASSUME NEW t \in Tasks, RejectSourcePair(t)
        PROVE  AcmeInv'
    BY <1>13 DEF RejectSourcePair, Finish, Goto, Release, caches, env, TypeOK, AcmeInv
  <1>14. ASSUME NEW t \in Tasks, CompareCert(t)
        PROVE  AcmeInv'
    BY <1>14 DEF CompareCert, Goto, CachedCert, Lookup, CacheCert, env, TypeOK, AcmeInv
  <1>15. ASSUME NEW t \in Tasks, CompareKey(t)
        PROVE  AcmeInv'
    BY <1>15 DEF CompareKey, Goto, Finish, Release, CachedKey, Lookup, CacheKey, Unchanged,
       env, TypeOK, AcmeInv
  <1>16. ASSUME NEW t \in Tasks, PersistCert(t)
        PROVE  AcmeInv'
    BY <1>16 DEF PersistCert, Goto, CachedCert, Lookup, CacheCert, env, TypeOK, AcmeInv
  <1>17. ASSUME NEW t \in Tasks, WriteCert(t)
        PROVE  AcmeInv'
    BY <1>17 DEF WriteCert, Goto, CacheCert, CertWritten, Stored, env, TypeOK, AcmeInv
  <1>18. ASSUME NEW t \in Tasks, PersistKey(t)
        PROVE  AcmeInv'
    BY <1>18 DEF PersistKey, Goto, CachedKey, Lookup, CacheKey, env, TypeOK, AcmeInv
  <1>19. ASSUME NEW t \in Tasks, WriteKey(t)
        PROVE  AcmeInv'
    BY <1>19 DEF WriteKey, Goto, CacheKey, KeyWritten, Stored, env, TypeOK, AcmeInv
  <1>20. ASSUME NEW t \in Tasks, Activate(t)
        PROVE  AcmeInv'
    BY <1>20 DEF Activate, Finish, Goto, Release, env, TypeOK, AcmeInv
  <1>21. ASSUME NEW t \in Tasks, LockSigningMaterial(t)
        PROVE  AcmeInv'
    BY <1>21 DEF LockSigningMaterial, Goto, caches, env, TypeOK, AcmeInv
  <1>22. ASSUME NEW t \in Tasks, BuildSigningMaterial(t)
        PROVE  AcmeInv'
    BY <1>22 DEF BuildSigningMaterial, Finish, Goto, Release, Lookup, CachedCert, CacheCert,
       env, TypeOK, AcmeInv
  <1>23. ASSUME NEW t \in Tasks, StoreKeyFails(t)
        PROVE  AcmeInv'
    BY <1>23 DEF StoreKeyFails, Finish, Goto, Release, Stored, caches, env, TypeOK, AcmeInv
  <1>24. ASSUME NEW t \in Tasks, WriteAckLost(t)
        PROVE  AcmeInv'
    BY <1>24 DEF WriteAckLost, Finish, Goto, Release, CertWritten, Stored, KeyWritten,
       caches, env, TypeOK, AcmeInv
  <1>25. ASSUME NEW t \in Tasks, CallFails(t)
        PROVE  AcmeInv'
    BY <1>25 DEF CallFails, Finish, Goto, Release, caches, env, TypeOK, AcmeInv
  <1>26. ASSUME NEW r \in Replicas, Crash(r)
        PROVE  AcmeInv'
    BY <1>26 DEF Crash, TypeOK, AcmeInv
  <1>27. ASSUME NEW r \in Replicas, ExpireKey(r)
        PROVE  AcmeInv'
    BY <1>27 DEF ExpireKey, env, task, TypeOK, AcmeInv
  <1>28. CASE RotateSource
    BY <1>28 DEF RotateSource, caches, env, task, TypeOK, AcmeInv
  <1>29. CASE Tick
    BY <1>29 DEF Tick, caches, task, TypeOK, AcmeInv
  <1>30. CASE UNCHANGED vars
    BY <1>30 DEF vars, caches, task, env, TypeOK, AcmeInv
  <1> QED BY <1>1, <1>2, <1>3, <1>4, <1>5, <1>6, <1>7, <1>8, <1>9, <1>10, <1>11, <1>12,
     <1>13, <1>14, <1>15, <1>16, <1>17, <1>18, <1>19, <1>20, <1>21, <1>22, <1>23, <1>24,
     <1>25, <1>26, <1>27, <1>28, <1>29, <1>30 DEF Next, Progress

(* A task takes the steps of the configured strategy only.                  *)
LEMMA StrategyStep ==
    ASSUME TypeOK, StrategyInv, [Next]_vars
    PROVE  StrategyInv'
  <1>0. Acme' <=> Acme
    BY DeploymentFixed
  <1> USE <1>0, HomeAssumption, KindAssumption, NoneAssumption, FlagAssumption DEF Tasks
  <1>1. ASSUME NEW t \in Tasks, StartRenewal(t)
        PROVE  StrategyInv'
    BY <1>1 DEF StartRenewal, Goto, caches, env, TypeOK, StrategyInv, AcmeInv
  <1>2. ASSUME NEW t \in Tasks, AskSigningMaterial(t)
        PROVE  StrategyInv'
    BY <1>2 DEF AskSigningMaterial, Goto, caches, env, TypeOK, StrategyInv, AcmeInv
  <1>3. ASSUME NEW t \in Tasks, CheckCertificate(t)
        PROVE  StrategyInv'
    BY <1>3 DEF CheckCertificate, Goto, CachedCert, Lookup, should_provision_existing,
       should_renew_cert, caches, env, TypeOK, StrategyInv, AcmeInv
  <1>4. ASSUME NEW t \in Tasks, CacheCertificate(t)
        PROVE  StrategyInv'
    BY <1>4 DEF CacheCertificate, Goto, CacheCert, should_provision_existing,
       should_renew_cert, env, TypeOK, StrategyInv, AcmeInv
  <1>5. ASSUME NEW t \in Tasks, request_certificate(t)
        PROVE  StrategyInv'
    BY <1>5 DEF request_certificate, Goto, caches, env, TypeOK, StrategyInv, AcmeInv
  <1>6. ASSUME NEW t \in Tasks, Order(t)
        PROVE  StrategyInv'
    BY <1>6 DEF Order, Goto, caches, env, TypeOK, StrategyInv, AcmeInv
  <1>7. ASSUME NEW t \in Tasks, LoadKey(t)
        PROVE  StrategyInv'
    BY <1>7 DEF LoadKey, Goto, CachedKey, Lookup, CacheKey, AfterKey, env, TypeOK,
       StrategyInv, AcmeInv
  <1>8. ASSUME NEW t \in Tasks, GenerateKey(t)
        PROVE  StrategyInv'
    BY <1>8 DEF GenerateKey, Goto, CachedKey, Lookup, caches, env, TypeOK, StrategyInv,
       AcmeInv
  <1>9. ASSUME NEW t \in Tasks, StoreKey(t)
        PROVE  StrategyInv'
    BY <1>9 DEF StoreKey, Goto, CacheKey, Stored, AfterKey, env, TypeOK, StrategyInv,
       AcmeInv
  <1>10. ASSUME NEW t \in Tasks, Issue(t)
        PROVE  StrategyInv'
    BY <1>10 DEF Issue, Goto, caches, env, TypeOK, StrategyInv, AcmeInv
  <1>11. ASSUME NEW t \in Tasks, LoadSourceCert(t)
        PROVE  StrategyInv'
    BY <1>11 DEF LoadSourceCert, Goto, caches, env, TypeOK, StrategyInv, AcmeInv
  <1>12. ASSUME NEW t \in Tasks, LoadSourceKey(t)
        PROVE  StrategyInv'
    BY <1>12 DEF LoadSourceKey, Goto, caches, env, TypeOK, StrategyInv, AcmeInv
  <1>13. ASSUME NEW t \in Tasks, RejectSourcePair(t)
        PROVE  StrategyInv'
    BY <1>13 DEF RejectSourcePair, Finish, Goto, Release, caches, env, TypeOK,
       StrategyInv, AcmeInv
  <1>14. ASSUME NEW t \in Tasks, CompareCert(t)
        PROVE  StrategyInv'
    BY <1>14 DEF CompareCert, Goto, CachedCert, Lookup, CacheCert, env, TypeOK,
       StrategyInv, AcmeInv
  <1>15. ASSUME NEW t \in Tasks, CompareKey(t)
        PROVE  StrategyInv'
    BY <1>15 DEF CompareKey, Goto, Finish, Release, CachedKey, Lookup, CacheKey,
       Unchanged, env, TypeOK, StrategyInv, AcmeInv
  <1>16. ASSUME NEW t \in Tasks, PersistCert(t)
        PROVE  StrategyInv'
    BY <1>16 DEF PersistCert, Goto, CachedCert, Lookup, CacheCert, env, TypeOK,
       StrategyInv, AcmeInv
  <1>17. ASSUME NEW t \in Tasks, WriteCert(t)
        PROVE  StrategyInv'
    BY <1>17 DEF WriteCert, Goto, CacheCert, CertWritten, Stored, env, TypeOK,
       StrategyInv, AcmeInv
  <1>18. ASSUME NEW t \in Tasks, PersistKey(t)
        PROVE  StrategyInv'
    BY <1>18 DEF PersistKey, Goto, CachedKey, Lookup, CacheKey, env, TypeOK,
       StrategyInv, AcmeInv
  <1>19. ASSUME NEW t \in Tasks, WriteKey(t)
        PROVE  StrategyInv'
    BY <1>19 DEF WriteKey, Goto, CacheKey, KeyWritten, Stored, env, TypeOK, StrategyInv,
       AcmeInv
  <1>20. ASSUME NEW t \in Tasks, Activate(t)
        PROVE  StrategyInv'
    BY <1>20 DEF Activate, Finish, Goto, Release, env, TypeOK, StrategyInv, AcmeInv
  <1>21. ASSUME NEW t \in Tasks, LockSigningMaterial(t)
        PROVE  StrategyInv'
    BY <1>21 DEF LockSigningMaterial, Goto, caches, env, TypeOK, StrategyInv, AcmeInv
  <1>22. ASSUME NEW t \in Tasks, BuildSigningMaterial(t)
        PROVE  StrategyInv'
    BY <1>22 DEF BuildSigningMaterial, Finish, Goto, Release, Lookup, CachedCert,
       CacheCert, env, TypeOK, StrategyInv, AcmeInv
  <1>23. ASSUME NEW t \in Tasks, StoreKeyFails(t)
        PROVE  StrategyInv'
    BY <1>23 DEF StoreKeyFails, Finish, Goto, Release, Stored, caches, env, TypeOK,
       StrategyInv, AcmeInv
  <1>24. ASSUME NEW t \in Tasks, WriteAckLost(t)
        PROVE  StrategyInv'
    BY <1>24 DEF WriteAckLost, Finish, Goto, Release, CertWritten, Stored, KeyWritten,
       caches, env, TypeOK, StrategyInv, AcmeInv
  <1>25. ASSUME NEW t \in Tasks, CallFails(t)
        PROVE  StrategyInv'
    BY <1>25 DEF CallFails, Finish, Goto, Release, caches, env, TypeOK, StrategyInv,
       AcmeInv
  <1>26. ASSUME NEW r \in Replicas, Crash(r)
        PROVE  StrategyInv'
    BY <1>26 DEF Crash, TypeOK, StrategyInv, AcmeInv
  <1>27. ASSUME NEW r \in Replicas, ExpireKey(r)
        PROVE  StrategyInv'
    BY <1>27 DEF ExpireKey, env, task, TypeOK, StrategyInv, AcmeInv
  <1>28. CASE RotateSource
    BY <1>28 DEF RotateSource, caches, env, task, TypeOK, StrategyInv, AcmeInv
  <1>29. CASE Tick
    BY <1>29 DEF Tick, caches, task, TypeOK, StrategyInv, AcmeInv
  <1>30. CASE UNCHANGED vars
    BY <1>30 DEF vars, caches, task, env, TypeOK, StrategyInv, AcmeInv
  <1> QED BY <1>1, <1>2, <1>3, <1>4, <1>5, <1>6, <1>7, <1>8, <1>9, <1>10, <1>11, <1>12,
     <1>13, <1>14, <1>15, <1>16, <1>17, <1>18, <1>19, <1>20, <1>21, <1>22, <1>23, <1>24,
     <1>25, <1>26, <1>27, <1>28, <1>29, <1>30 DEF Next, Progress

(* One process: what is written to the backend is never older than what is  *)
(* there.                                                                   *)
LEMMA AgeStep ==
    ASSUME SoleProcess, TypeOK, KeyInv, LockInv, StrategyInv, AgeInv, [Next]_vars
    PROVE  AgeInv' /\ Newer
  <1>0. Acme' <=> Acme
    BY DeploymentFixed
  <1> USE <1>0, HomeAssumption, KindAssumption, NoneAssumption, FlagAssumption
      DEF Tasks, Key, Cert, CertSteps, Newest, Newer
  <1>1. ASSUME NEW t \in Tasks, StartRenewal(t)
        PROVE  AgeInv' /\ Newer
    BY <1>1 DEF StartRenewal, Goto, caches, env, TypeOK, StrategyInv, AcmeInv, LockInv,
       Locked, Steps, SoleProcess, AgeInv
  <1>2. ASSUME NEW t \in Tasks, AskSigningMaterial(t)
        PROVE  AgeInv' /\ Newer
    BY <1>2 DEF AskSigningMaterial, Goto, caches, env, TypeOK, StrategyInv, AcmeInv,
       LockInv, Locked, Steps, SoleProcess, AgeInv
  <1>3. ASSUME NEW t \in Tasks, CheckCertificate(t)
        PROVE  AgeInv' /\ Newer
    BY <1>3 DEF CheckCertificate, Goto, CachedCert, Lookup, should_provision_existing,
       should_renew_cert, caches, env, TypeOK, StrategyInv, AcmeInv, LockInv, Locked,
       Steps, SoleProcess, AgeInv
  <1>4. ASSUME NEW t \in Tasks, CacheCertificate(t)
        PROVE  AgeInv' /\ Newer
    BY <1>4 DEF CacheCertificate, Goto, CacheCert, should_provision_existing,
       should_renew_cert, env, TypeOK, StrategyInv, AcmeInv, LockInv, Locked, Steps,
       SoleProcess, AgeInv
  <1>5. ASSUME NEW t \in Tasks, request_certificate(t)
        PROVE  AgeInv' /\ Newer
    BY <1>5 DEF request_certificate, Goto, caches, env, TypeOK, StrategyInv, AcmeInv,
       LockInv, Locked, Steps, SoleProcess, AgeInv
  <1>6. ASSUME NEW t \in Tasks, Order(t)
        PROVE  AgeInv' /\ Newer
    BY <1>6 DEF Order, Goto, caches, env, TypeOK, StrategyInv, AcmeInv, LockInv, Locked,
       Steps, SoleProcess, AgeInv
  <1>7. ASSUME NEW t \in Tasks, LoadKey(t)
        PROVE  AgeInv' /\ Newer
    BY <1>7 DEF LoadKey, Goto, CachedKey, Lookup, CacheKey, AfterKey, env, TypeOK,
       StrategyInv, AcmeInv, LockInv, Locked, Steps, SoleProcess, AgeInv
  <1>8. ASSUME NEW t \in Tasks, GenerateKey(t)
        PROVE  AgeInv' /\ Newer
    BY <1>8 DEF GenerateKey, Goto, CachedKey, Lookup, caches, env, TypeOK, StrategyInv,
       AcmeInv, LockInv, Locked, Steps, SoleProcess, AgeInv
  <1>9. ASSUME NEW t \in Tasks, StoreKey(t)
        PROVE  AgeInv' /\ Newer
    BY <1>9 DEF StoreKey, Goto, CacheKey, Stored, AfterKey, env, TypeOK, StrategyInv,
       AcmeInv, LockInv, Locked, Steps, SoleProcess, AgeInv
  <1>10. ASSUME NEW t \in Tasks, Issue(t)
        PROVE  AgeInv' /\ Newer
    <2>1. /\ Acme
          /\ now \in Nat
          /\ cert' = [cert EXCEPT ![t] = [key |-> key[t], from |-> now]]
          /\ pc' = [pc EXCEPT ![t] = "persistCert"]
          /\ UNCHANGED <<stored, source, now>>
      BY <1>10 DEF Issue, Goto, env, TypeOK, StrategyInv
    <2>2. cert'[t] = [key |-> key[t], from |-> now] /\ cert'[t].from = now /\ pc'[t] = "persistCert"
      BY <2>1 DEF TypeOK
    <2>3. key[t] \in Nat
      BY <1>10 DEF Issue, KeyInv, KeySteps, Locked, Steps, TypeOK
    <2>4. cert'[t] # None
      BY <2>1, <2>2, <2>3
    <2>5. ASSUME NEW u \in Tasks, u # t PROVE cert'[u] = cert[u] /\ pc'[u] = pc[u]
      BY <2>1, <2>5 DEF TypeOK
    <2> QED BY <2>1, <2>2, <2>4, <2>5 DEF AgeInv, TypeOK
  <1>11. ASSUME NEW t \in Tasks, LoadSourceCert(t)
        PROVE  AgeInv' /\ Newer
    BY <1>11 DEF LoadSourceCert, Goto, caches, env, TypeOK, StrategyInv, AcmeInv,
       LockInv, Locked, Steps, SoleProcess, AgeInv
  <1>12. ASSUME NEW t \in Tasks, LoadSourceKey(t)
        PROVE  AgeInv' /\ Newer
    BY <1>12 DEF LoadSourceKey, Goto, caches, env, TypeOK, StrategyInv, AcmeInv,
       LockInv, Locked, Steps, SoleProcess, AgeInv
  <1>13. ASSUME NEW t \in Tasks, RejectSourcePair(t)
        PROVE  AgeInv' /\ Newer
    BY <1>13 DEF RejectSourcePair, Finish, Goto, Release, caches, env, TypeOK,
       StrategyInv, AcmeInv, LockInv, Locked, Steps, SoleProcess, AgeInv
  <1>14. ASSUME NEW t \in Tasks, CompareCert(t)
        PROVE  AgeInv' /\ Newer
    BY <1>14 DEF CompareCert, Goto, CachedCert, Lookup, CacheCert, env, TypeOK,
       StrategyInv, AcmeInv, LockInv, Locked, Steps, SoleProcess, AgeInv
  <1>15. ASSUME NEW t \in Tasks, CompareKey(t)
        PROVE  AgeInv' /\ Newer
    BY <1>15 DEF CompareKey, Goto, Finish, Release, CachedKey, Lookup, CacheKey,
       Unchanged, env, TypeOK, StrategyInv, AcmeInv, LockInv, Locked, Steps,
       SoleProcess, AgeInv
  <1>16. ASSUME NEW t \in Tasks, PersistCert(t)
        PROVE  AgeInv' /\ Newer
    BY <1>16 DEF PersistCert, Goto, CachedCert, Lookup, CacheCert, env, TypeOK,
       StrategyInv, AcmeInv, LockInv, Locked, Steps, SoleProcess, AgeInv
  <1>17. ASSUME NEW t \in Tasks, WriteCert(t)
        PROVE  AgeInv' /\ Newer
    BY <1>17 DEF WriteCert, Goto, CacheCert, CertWritten, Stored, env, TypeOK,
       StrategyInv, AcmeInv, LockInv, Locked, Steps, SoleProcess, AgeInv
  <1>18. ASSUME NEW t \in Tasks, PersistKey(t)
        PROVE  AgeInv' /\ Newer
    BY <1>18 DEF PersistKey, Goto, CachedKey, Lookup, CacheKey, env, TypeOK,
       StrategyInv, AcmeInv, LockInv, Locked, Steps, SoleProcess, AgeInv
  <1>19. ASSUME NEW t \in Tasks, WriteKey(t)
        PROVE  AgeInv' /\ Newer
    BY <1>19 DEF WriteKey, Goto, CacheKey, KeyWritten, Stored, env, TypeOK, StrategyInv,
       AcmeInv, LockInv, Locked, Steps, SoleProcess, AgeInv
  <1>20. ASSUME NEW t \in Tasks, Activate(t)
        PROVE  AgeInv' /\ Newer
    BY <1>20 DEF Activate, Finish, Goto, Release, env, TypeOK, StrategyInv, AcmeInv,
       LockInv, Locked, Steps, SoleProcess, AgeInv
  <1>21. ASSUME NEW t \in Tasks, LockSigningMaterial(t)
        PROVE  AgeInv' /\ Newer
    BY <1>21 DEF LockSigningMaterial, Goto, caches, env, TypeOK, StrategyInv, AcmeInv,
       LockInv, Locked, Steps, SoleProcess, AgeInv
  <1>22. ASSUME NEW t \in Tasks, BuildSigningMaterial(t)
        PROVE  AgeInv' /\ Newer
    BY <1>22 DEF BuildSigningMaterial, Finish, Goto, Release, Lookup, CachedCert,
       CacheCert, env, TypeOK, StrategyInv, AcmeInv, LockInv, Locked, Steps,
       SoleProcess, AgeInv
  <1>23. ASSUME NEW t \in Tasks, StoreKeyFails(t)
        PROVE  AgeInv' /\ Newer
    BY <1>23 DEF StoreKeyFails, Finish, Goto, Release, Stored, caches, env, TypeOK,
       StrategyInv, AcmeInv, LockInv, Locked, Steps, SoleProcess, AgeInv
  <1>24. ASSUME NEW t \in Tasks, WriteAckLost(t)
        PROVE  AgeInv' /\ Newer
    <2>1. /\ pc' = [pc EXCEPT ![t] = "idle"]
          /\ cert' = [cert EXCEPT ![t] = None]
          /\ UNCHANGED <<source, now>>
      BY <1>24 DEF WriteAckLost, Finish, Goto, env
    <2>2. ASSUME NEW u \in Tasks, pc'[u] \in CertSteps
          PROVE  /\ u # t /\ pc'[u] = pc[u] /\ cert'[u] = cert[u]
                 /\ pc[t] \notin Locked
      BY <2>1, <2>2 DEF TypeOK, LockInv, Locked, Steps, SoleProcess
    <2>3. pc[t] \in Locked
      BY <1>24 DEF WriteAckLost, Locked, Steps
    <2>4. CASE pc[t] \in {"insertCert", "updateCert"}
      <3>1. stored'.cert = stored.cert \/ stored'.cert = cert[t]
        BY <1>24, <2>4 DEF WriteAckLost, CertWritten, Stored, TypeOK
      <3> QED BY <2>1, <2>2, <2>3, <2>4, <3>1 DEF AgeInv, TypeOK
    <2>5. CASE pc[t] \notin {"insertCert", "updateCert"}
      <3>1. stored'.cert = stored.cert
        BY <1>24, <2>5 DEF WriteAckLost, KeyWritten, TypeOK
      <3> QED BY <2>1, <2>2, <2>3, <3>1 DEF AgeInv, TypeOK
    <2> QED BY <2>4, <2>5
  <1>25. ASSUME NEW t \in Tasks, CallFails(t)
        PROVE  AgeInv' /\ Newer
    BY <1>25 DEF CallFails, Finish, Goto, Release, caches, env, TypeOK, StrategyInv,
       AcmeInv, LockInv, Locked, Steps, SoleProcess, AgeInv
  <1>26. ASSUME NEW r \in Replicas, Crash(r)
        PROVE  AgeInv' /\ Newer
    BY <1>26 DEF Crash, TypeOK, StrategyInv, AcmeInv, LockInv, Locked, Steps,
       SoleProcess, AgeInv
  <1>27. ASSUME NEW r \in Replicas, ExpireKey(r)
        PROVE  AgeInv' /\ Newer
    BY <1>27 DEF ExpireKey, env, task, TypeOK, StrategyInv, AcmeInv, LockInv, Locked,
       Steps, SoleProcess, AgeInv
  <1>28. CASE RotateSource
    BY <1>28 DEF RotateSource, caches, env, task, TypeOK, StrategyInv, AcmeInv, LockInv,
       Locked, Steps, SoleProcess, AgeInv
  <1>29. CASE Tick
    BY <1>29 DEF Tick, caches, task, TypeOK, StrategyInv, AcmeInv, LockInv, Locked,
       Steps, SoleProcess, AgeInv
  <1>30. CASE UNCHANGED vars
    BY <1>30 DEF vars, caches, task, env, TypeOK, StrategyInv, AcmeInv, LockInv, Locked,
       Steps, SoleProcess, AgeInv
  <1> QED BY <1>1, <1>2, <1>3, <1>4, <1>5, <1>6, <1>7, <1>8, <1>9, <1>10, <1>11, <1>12,
     <1>13, <1>14, <1>15, <1>16, <1>17, <1>18, <1>19, <1>20, <1>21, <1>22, <1>23, <1>24,
     <1>25, <1>26, <1>27, <1>28, <1>29, <1>30 DEF Next, Progress

(* While the backend has no key, no process has a certificate, a key or     *)
(* signing material, and only the task about to store a key has one.        *)
NoCopies(t) ==
    /\ stored.cert = None
    /\ \A r \in Replicas :
          /\ certificate_cache[r] = None
          /\ cert_chain_cache[r] = None
          /\ signing_key_cache[r] = None
          /\ active_signing_material[r] = None
    /\ \A u \in Tasks : cert[u] = None /\ (u # t => pc[u] \notin KeySteps)
    /\ \A u \in Handlers : answer[u] = None

(* What the backend holds when a new key is about to be stored: nothing, or *)
(* this very key from an attempt whose answer was lost.                     *)
LEMMA StoringKey ==
    ASSUME SoleGenerator, IInv, NEW t \in Tasks, pc[t] = "storeKey"
    PROVE  /\ key[t] \in Key /\ ~KeyInBackend
           /\ stored.key = key[t] \/ (stored.key = None /\ NoCopies(t))
  <1> USE HomeAssumption, NoneAssumption DEF Tasks, Key, Cert, Material, KeySteps, Locked, Steps
  <1>1. key[t] \in Key /\ ~KeyInBackend /\ stored.key \in {None, key[t]}
    BY DEF IInv, TypeOK, KeyInv, PairInv
  <1>2. ASSUME stored.key = None
        PROVE  NoCopies(t)
    <2>1. None \notin Key
      OBVIOUS
    <2>2. /\ stored.cert = None
          /\ \A r \in Replicas :
                /\ certificate_cache[r] = None
                /\ cert_chain_cache[r] = None
                /\ signing_key_cache[r] = None
                /\ active_signing_material[r] = None
          /\ \A u \in Tasks : cert[u] = None
          /\ \A u \in Handlers : answer[u] = None
      BY <1>2, <2>1 DEF IInv, TypeOK, PairInv, CertOfKey, KeyOfBackend, MaterialOfKey
    <2>3. ASSUME NEW u \in Tasks, u # t, pc[u] \in KeySteps
          PROVE  FALSE
      <3>1. pc[u] = "storeKey"
        BY <1>2, <2>3 DEF IInv, PairInv, KeyInv
      <3>2. Home[u] = Home[t]
        BY <1>1 DEF SoleGenerator
      <3> QED BY <2>3, <3>1, <3>2 DEF IInv, LockInv
    <2> QED BY <2>2, <2>3 DEF NoCopies
  <1> QED BY <1>1, <1>2

(* Every copy in a process agrees with the backend's key.                   *)
LEMMA PairStep ==
    ASSUME Acme, SoleGenerator, IInv, [Next]_vars
    PROVE  PairInv'
  <1> USE HomeAssumption, NoneAssumption, FlagAssumption DEF Tasks, Key, Cert, Material
  <1>1. ASSUME NEW t \in Tasks, StartRenewal(t)
        PROVE  PairInv'
    BY <1>1 DEF StartRenewal, Goto, caches, env, TypeOK, PairInv, KeyInv, AcmeInv, KeySteps,
       Locked, Steps, CertOfKey, KeyOfBackend, MaterialOfKey, IInv
  <1>2. ASSUME NEW t \in Tasks, AskSigningMaterial(t)
        PROVE  PairInv'
    BY <1>2 DEF AskSigningMaterial, Goto, caches, env, TypeOK, PairInv, KeyInv, AcmeInv,
       KeySteps, Locked, Steps, CertOfKey, KeyOfBackend, MaterialOfKey, IInv
  <1>3. ASSUME NEW t \in Tasks, CheckCertificate(t)
        PROVE  PairInv'
    BY <1>3 DEF CheckCertificate, Goto, CachedCert, Lookup, should_provision_existing,
       should_renew_cert, caches, env, TypeOK, PairInv, KeyInv, AcmeInv, KeySteps, Locked,
       Steps, CertOfKey, KeyOfBackend, MaterialOfKey, IInv
  <1>4. ASSUME NEW t \in Tasks, CacheCertificate(t)
        PROVE  PairInv'
    BY <1>4 DEF CacheCertificate, Goto, CacheCert, should_provision_existing,
       should_renew_cert, env, TypeOK, PairInv, KeyInv, AcmeInv, KeySteps, Locked, Steps,
       CertOfKey, KeyOfBackend, MaterialOfKey, IInv
  <1>5. ASSUME NEW t \in Tasks, request_certificate(t)
        PROVE  PairInv'
    BY <1>5 DEF request_certificate, Goto, caches, env, TypeOK, PairInv, KeyInv, AcmeInv,
       KeySteps, Locked, Steps, CertOfKey, KeyOfBackend, MaterialOfKey, IInv
  <1>6. ASSUME NEW t \in Tasks, Order(t)
        PROVE  PairInv'
    BY <1>6 DEF Order, Goto, caches, env, TypeOK, PairInv, KeyInv, AcmeInv, KeySteps,
       Locked, Steps, CertOfKey, KeyOfBackend, MaterialOfKey, IInv
  <1>7. ASSUME NEW t \in Tasks, LoadKey(t)
        PROVE  PairInv'
    BY <1>7 DEF LoadKey, Goto, CachedKey, Lookup, CacheKey, AfterKey, env, TypeOK, PairInv,
       KeyInv, AcmeInv, KeySteps, Locked, Steps, CertOfKey, KeyOfBackend, MaterialOfKey,
       IInv
  <1>8. ASSUME NEW t \in Tasks, GenerateKey(t)
        PROVE  PairInv'
    BY <1>8 DEF GenerateKey, Goto, CachedKey, Lookup, caches, env, TypeOK, PairInv, KeyInv,
       AcmeInv, KeySteps, Locked, Steps, CertOfKey, KeyOfBackend, MaterialOfKey, IInv
  <1>9. ASSUME NEW t \in Tasks, StoreKey(t)
        PROVE  PairInv'
    <2>1. /\ key[t] \in Key /\ ~KeyInBackend
          /\ stored.key = key[t] \/ (stored.key = None /\ NoCopies(t))
      BY <1>9, StoringKey DEF StoreKey
    <2>2. stored' = [stored EXCEPT !.key = key[t]]
      BY <1>9, <2>1 DEF StoreKey, Stored
    <2>3. CASE stored.key = key[t]
      BY <1>9, <2>1, <2>2, <2>3 DEF StoreKey, CacheKey, Goto, AfterKey, env, IInv, TypeOK,
         PairInv, KeySteps, Locked, Steps, CertOfKey, KeyOfBackend, MaterialOfKey
    <2>4. CASE NoCopies(t)
      BY <1>9, <2>1, <2>2, <2>4 DEF StoreKey, CacheKey, Goto, AfterKey, env, IInv, TypeOK,
         PairInv, NoCopies, KeySteps, Locked, Steps, CertOfKey, KeyOfBackend, MaterialOfKey
    <2> QED BY <2>1, <2>3, <2>4
  <1>10. ASSUME NEW t \in Tasks, Issue(t)
        PROVE  PairInv'
    BY <1>10 DEF Issue, Goto, caches, env, TypeOK, PairInv, KeyInv, AcmeInv, KeySteps,
       Locked, Steps, CertOfKey, KeyOfBackend, MaterialOfKey, IInv
  <1>11. ASSUME NEW t \in Tasks, LoadSourceCert(t)
        PROVE  PairInv'
    BY <1>11 DEF LoadSourceCert, Goto, caches, env, TypeOK, PairInv, KeyInv, AcmeInv,
       KeySteps, Locked, Steps, CertOfKey, KeyOfBackend, MaterialOfKey, IInv
  <1>12. ASSUME NEW t \in Tasks, LoadSourceKey(t)
        PROVE  PairInv'
    BY <1>12 DEF LoadSourceKey, Goto, caches, env, TypeOK, PairInv, KeyInv, AcmeInv,
       KeySteps, Locked, Steps, CertOfKey, KeyOfBackend, MaterialOfKey, IInv
  <1>13. ASSUME NEW t \in Tasks, RejectSourcePair(t)
        PROVE  PairInv'
    BY <1>13 DEF RejectSourcePair, Finish, Goto, Release, caches, env, TypeOK, PairInv,
       KeyInv, AcmeInv, KeySteps, Locked, Steps, CertOfKey, KeyOfBackend, MaterialOfKey,
       IInv
  <1>14. ASSUME NEW t \in Tasks, CompareCert(t)
        PROVE  PairInv'
    BY <1>14 DEF CompareCert, Goto, CachedCert, Lookup, CacheCert, env, TypeOK, PairInv,
       KeyInv, AcmeInv, KeySteps, Locked, Steps, CertOfKey, KeyOfBackend, MaterialOfKey,
       IInv
  <1>15. ASSUME NEW t \in Tasks, CompareKey(t)
        PROVE  PairInv'
    BY <1>15 DEF CompareKey, Goto, Finish, Release, CachedKey, Lookup, CacheKey, Unchanged,
       env, TypeOK, PairInv, KeyInv, AcmeInv, KeySteps, Locked, Steps, CertOfKey,
       KeyOfBackend, MaterialOfKey, IInv
  <1>16. ASSUME NEW t \in Tasks, PersistCert(t)
        PROVE  PairInv'
    BY <1>16 DEF PersistCert, Goto, CachedCert, Lookup, CacheCert, env, TypeOK, PairInv,
       KeyInv, AcmeInv, KeySteps, Locked, Steps, CertOfKey, KeyOfBackend, MaterialOfKey,
       IInv
  <1>17. ASSUME NEW t \in Tasks, WriteCert(t)
        PROVE  PairInv'
    BY <1>17 DEF WriteCert, Goto, CacheCert, CertWritten, Stored, env, TypeOK, PairInv,
       KeyInv, AcmeInv, KeySteps, Locked, Steps, CertOfKey, KeyOfBackend, MaterialOfKey,
       IInv
  <1>18. ASSUME NEW t \in Tasks, PersistKey(t)
        PROVE  PairInv'
    BY <1>18 DEF PersistKey, Goto, CachedKey, Lookup, CacheKey, env, TypeOK, PairInv,
       KeyInv, AcmeInv, KeySteps, Locked, Steps, CertOfKey, KeyOfBackend, MaterialOfKey,
       IInv
  <1>19. ASSUME NEW t \in Tasks, WriteKey(t)
        PROVE  PairInv'
    BY <1>19 DEF WriteKey, Goto, CacheKey, KeyWritten, Stored, env, TypeOK, PairInv, KeyInv,
       AcmeInv, KeySteps, Locked, Steps, CertOfKey, KeyOfBackend, MaterialOfKey, IInv
  <1>20. ASSUME NEW t \in Tasks, Activate(t)
        PROVE  PairInv'
    BY <1>20 DEF Activate, Finish, Goto, Release, env, TypeOK, PairInv, KeyInv, AcmeInv,
       KeySteps, Locked, Steps, CertOfKey, KeyOfBackend, MaterialOfKey, IInv
  <1>21. ASSUME NEW t \in Tasks, LockSigningMaterial(t)
        PROVE  PairInv'
    BY <1>21 DEF LockSigningMaterial, Goto, caches, env, TypeOK, PairInv, KeyInv, AcmeInv,
       KeySteps, Locked, Steps, CertOfKey, KeyOfBackend, MaterialOfKey, IInv
  <1>22. ASSUME NEW t \in Tasks, BuildSigningMaterial(t)
        PROVE  PairInv'
    BY <1>22 DEF BuildSigningMaterial, Finish, Goto, Release, Lookup, CachedCert, CacheCert,
       env, TypeOK, PairInv, KeyInv, AcmeInv, KeySteps, Locked, Steps, CertOfKey,
       KeyOfBackend, MaterialOfKey, IInv
  <1>23. ASSUME NEW t \in Tasks, StoreKeyFails(t)
        PROVE  PairInv'
    <2>1. /\ key[t] \in Key /\ ~KeyInBackend
          /\ stored.key = key[t] \/ (stored.key = None /\ NoCopies(t))
      BY <1>23, StoringKey DEF StoreKeyFails
    <2>2. stored' = stored \/ stored' = [stored EXCEPT !.key = key[t]]
      BY <1>23, <2>1 DEF StoreKeyFails, Stored
    <2>3. /\ UNCHANGED <<caches, answer>>
          /\ \/ UNCHANGED <<pc, cert, key>>
             \/ Finish(t)
      BY <1>23 DEF StoreKeyFails
    <2>4. CASE stored.key = key[t]
      BY <1>23, <2>1, <2>2, <2>3, <2>4 DEF StoreKeyFails, Finish, Goto, caches, IInv,
         TypeOK, PairInv, KeySteps, Locked, Steps, CertOfKey, KeyOfBackend, MaterialOfKey
    <2>5. CASE stored.key = None /\ NoCopies(t)
      BY <1>23, <2>1, <2>2, <2>3, <2>5 DEF StoreKeyFails, Finish, Goto, caches, IInv,
         TypeOK, PairInv, NoCopies, KeySteps, Locked, Steps, CertOfKey, KeyOfBackend,
         MaterialOfKey
    <2> QED BY <2>1, <2>4, <2>5
  <1>24. ASSUME NEW t \in Tasks, WriteAckLost(t)
        PROVE  PairInv'
    BY <1>24 DEF WriteAckLost, Finish, Goto, Release, CertWritten, Stored, KeyWritten,
       caches, env, TypeOK, PairInv, KeyInv, AcmeInv, KeySteps, Locked, Steps, CertOfKey,
       KeyOfBackend, MaterialOfKey, IInv
  <1>25. ASSUME NEW t \in Tasks, CallFails(t)
        PROVE  PairInv'
    BY <1>25 DEF CallFails, Finish, Goto, Release, caches, env, TypeOK, PairInv, KeyInv,
       AcmeInv, KeySteps, Locked, Steps, CertOfKey, KeyOfBackend, MaterialOfKey, IInv
  <1>26. ASSUME NEW r \in Replicas, Crash(r)
        PROVE  PairInv'
    BY <1>26 DEF Crash, TypeOK, PairInv, KeyInv, AcmeInv, KeySteps, Locked, Steps,
       CertOfKey, KeyOfBackend, MaterialOfKey, IInv
  <1>27. ASSUME NEW r \in Replicas, ExpireKey(r)
        PROVE  PairInv'
    BY <1>27 DEF ExpireKey, env, task, TypeOK, PairInv, KeyInv, AcmeInv, KeySteps, Locked,
       Steps, CertOfKey, KeyOfBackend, MaterialOfKey, IInv
  <1>28. CASE RotateSource
    BY <1>28 DEF RotateSource, caches, env, task, TypeOK, PairInv, KeyInv, AcmeInv,
       KeySteps, Locked, Steps, CertOfKey, KeyOfBackend, MaterialOfKey, IInv
  <1>29. CASE Tick
    BY <1>29 DEF Tick, caches, task, TypeOK, PairInv, KeyInv, AcmeInv, KeySteps, Locked,
       Steps, CertOfKey, KeyOfBackend, MaterialOfKey, IInv
  <1>30. CASE UNCHANGED vars
    BY <1>30 DEF vars, caches, task, env, TypeOK, PairInv, KeyInv, AcmeInv, KeySteps,
       Locked, Steps, CertOfKey, KeyOfBackend, MaterialOfKey, IInv
  <1> QED BY <1>1, <1>2, <1>3, <1>4, <1>5, <1>6, <1>7, <1>8, <1>9, <1>10, <1>11, <1>12,
     <1>13, <1>14, <1>15, <1>16, <1>17, <1>18, <1>19, <1>20, <1>21, <1>22, <1>23, <1>24,
     <1>25, <1>26, <1>27, <1>28, <1>29, <1>30 DEF Next, Progress

----------------------------------------------------------------------------
(* Every variable keeps its type, and no task uses a key it does not have:  *)
(* for both strategies and any number of processes.                         *)
THEOREM TypeCorrect == Spec => []TypeOK
  <1>1. Init => TypeOK /\ KeyInv
    BY NoneAssumption, FlagAssumption
    DEF Init, TypeOK, KeyInv, KeySteps, Locked, Steps, MAX_RETRIES, Key, Cert, Material
  <1>2. TypeOK /\ KeyInv /\ [Next]_vars => TypeOK' /\ KeyInv'
    BY TypeStep
  <1> QED BY <1>1, <1>2, PTL DEF Spec

(* Under ACME, when the backend was given a key beforehand or only one      *)
(* process runs, the invariant is inductive.                                *)
LEMMA InvariantHolds ==
    ASSUME SoleGenerator
    PROVE  Spec => [](Acme => IInv)
  <1>1. Init => (Acme => IInv)
    <2> SUFFICES ASSUME Init PROVE IInv
      OBVIOUS
    <2>1. TypeOK /\ KeyInv
      BY NoneAssumption, FlagAssumption
      DEF Init, TypeOK, KeyInv, KeySteps, Locked, Steps, MAX_RETRIES, Key, Cert, Material
    <2>2. LockInv /\ AcmeInv
      BY DEF Init, LockInv, AcmeInv, Locked, Steps
    <2>3. PairInv
      BY NoneAssumption, FlagAssumption, <2>1
      DEF Init, PairInv, Tasks, KeySteps, Locked, Steps, CertOfKey, KeyOfBackend, MaterialOfKey
    <2> QED BY <2>1, <2>2, <2>3 DEF IInv
  <1>2. (Acme => IInv) /\ [Next]_vars => (Acme => IInv)'
    <2> SUFFICES ASSUME Acme => IInv, [Next]_vars, Acme' PROVE IInv'
      OBVIOUS
    <2>1. Acme /\ IInv
      BY DeploymentFixed
    <2> QED BY <2>1, TypeStep, LockStep, AcmeStep, PairStep DEF IInv
  <1> QED BY <1>1, <1>2, PTL DEF Spec

(* Under ACME, when the backend was given a key beforehand or only one      *)
(* process runs, signing_material never pairs a key with a certificate of   *)
(* another key, across restarts, failed calls and lost acknowledgements.    *)
THEOREM ServedPairMatchesHolds ==
    ASSUME SoleGenerator
    PROVE  Spec => []ServedPairMatches
  <1>1. (Acme => IInv) => ServedPairMatches
    BY DEF IInv, PairInv, MaterialOfKey, CertOfKey, ServedPairMatches
  <1> QED BY <1>1, InvariantHolds, PTL

(* Under the same assumptions the backend's certificate certifies the       *)
(* backend's key at every moment, so that a restart finds a usable pair.    *)
THEOREM StoredPairMatchesHolds ==
    ASSUME SoleGenerator
    PROVE  Spec => []StoredPairMatches
  <1>1. (Acme => IInv) => StoredPairMatches
    BY DEF IInv, PairInv, CertOfKey, StoredPairMatches
  <1> QED BY <1>1, InvariantHolds, PTL

(* In one process, under either strategy, no step puts an older certificate *)
(* over a newer one in the backend, or removes it: two renewals that found  *)
(* the same certificate due do not undo each other, whatever crashes, lost  *)
(* acknowledgements and rotations of the operator's pair come between.      *)
THEOREM NoDowngradeHolds ==
    ASSUME SoleProcess
    PROVE  Spec => NoDowngrade
  <1> DEFINE Inv == TypeOK /\ KeyInv /\ LockInv /\ StrategyInv /\ AgeInv
  <1>1. Init => Inv
    <2> SUFFICES ASSUME Init PROVE Inv
      OBVIOUS
    <2>1. TypeOK /\ KeyInv
      BY NoneAssumption, FlagAssumption
      DEF Init, TypeOK, KeyInv, KeySteps, Locked, Steps, MAX_RETRIES, Key, Cert, Material
    <2>2. LockInv /\ StrategyInv /\ AgeInv
      BY DEF Init, LockInv, StrategyInv, AcmeInv, AgeInv, Newest, CertSteps, Locked, Steps
    <2> QED BY <2>1, <2>2
  <1>2. Inv /\ [Next]_vars => Inv' /\ [Newer]_vars
    BY TypeStep, LockStep, StrategyStep, AgeStep
  <1> QED BY <1>1, <1>2, PTL DEF Spec, NoDowngrade, Newer
=============================================================================
