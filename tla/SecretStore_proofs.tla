------------------------- MODULE SecretStore_proofs -------------------------
(* Proofs about VaultToken and SecretStore, for any number of requests,     *)
(* any set of leases, values and backends and any TTL and latency bound.    *)
EXTENDS SecretStore, TLAPS

-----------------------------------------------------------------------------
(* The client token *)

(* Steps of the task that holds renewal_lock. *)
Holding == {"recheck", "renew", "login", "renewed", "granted", "issued", "lease", "rest"}

(* Vault accepts a token for n more ticks; of its lease l at most `spent`   *)
(* ticks are over.                                                          *)
Covers(n, l, spent) == IF l = 0 THEN n = Never ELSE n + spent >= l

(* renewal_lock is a mutex. *)
OneHolder == \A t \in Tasks : auth[t].at \in Holding => renewal_lock = t

(* A renewal under way was due, and stays due until issued_at is written.   *)
RenewalIsDue ==
    \A t \in Tasks :
        /\ auth[t].at \in {"renew", "login", "renewed", "granted", "issued"}
             => ~Safe(age, lease_duration)
        /\ auth[t].at \in {"renew", "login"} => sinceFailure >= FAILURE_COOLDOWN

(* What the holder has been granted and how far it got with recording it.   *)
GrantIsFresh ==
    \A t \in Tasks :
        /\ auth[t].at \in {"renewed", "granted", "issued", "lease", "rest"}
             => auth[t].lease \in Leases
        /\ auth[t].at \in {"renewed", "issued"} => Covers(life, auth[t].lease, auth[t].delay)
        /\ auth[t].at = "granted" => Covers(newLife, auth[t].lease, auth[t].delay)
        /\ auth[t].at \in {"lease", "rest"} => age <= auth[t].delay
        /\ auth[t].at = "lease" => Covers(life, auth[t].lease, age + MaxLatency)
        /\ auth[t].at = "rest" => lease_duration = auth[t].lease

(* Outside a renewal, a record that looks safe describes the token, one     *)
(* latency too favourably at most, unless it is torn.  A renewal dropped    *)
(* before issued_at leaves a record that may be wrong and is not safe.      *)
RecordIsTrue ==
    /\ torn = 0
    /\ Safe(age, lease_duration)
    /\ \A t \in Tasks : auth[t].at \notin {"renewed", "issued", "lease"}
    => Covers(life, lease_duration, age + MaxLatency)

(* A task that has decided, or will decide, to use the token has a token    *)
(* that outlives the rest of its latency.                                   *)
DecisionHolds ==
    torn = 0 =>
        \A t \in Tasks :
            /\ auth[t].at = "ttl" /\ Safe(auth[t].elapsed, lease_duration)
                 => life > MaxLatency - auth[t].delay
            /\ auth[t].at = "passed" => life > MaxLatency - auth[t].delay

VaultInv ==
    /\ VaultTypeOK
    /\ OneHolder
    /\ RenewalIsDue
    /\ GrantIsFresh
    /\ RecordIsTrue
    /\ DecisionHolds

(* The request is over, or the call is sent: the task forgets the token. *)
Forget(t) ==
    /\ auth[t].at \in {"failed", "sent"}
    /\ auth' = [auth EXCEPT ![t] = NoAuth]
    /\ UNCHANGED <<life, newLife, age, lease_duration, renewable, renewal_lock,
                   sinceFailure, torn>>

AuthRecord == [at : AuthSteps, elapsed : 0..MaxLease, delay : 0..MaxLatency,
               lease : Leases \cup {0}]

LEMMA Numbers ==
    /\ MaxLatency \in Nat /\ MaxLease \in Nat /\ FAILURE_COOLDOWN \in Nat
    /\ \A l \in Leases : l \in 0..MaxLease /\ (l # 0 => l >= 10 * MaxLatency)
    /\ Never \in Nat /\ Never > MaxLatency /\ \A l \in Leases : Never > l
  BY LeasesAssumption, WaitsAssumption, MarginAssumption DEF Never

(* A step changes the entry of one task and no other. *)
Becomes(t, at, elapsed, delay, lease) ==
    /\ auth' \in [Tasks -> AuthRecord]
    /\ auth'[t].at = at
    /\ auth'[t].elapsed = elapsed
    /\ auth'[t].delay = delay
    /\ auth'[t].lease = lease
    /\ \A u \in Tasks : u # t => auth'[u] = auth[u]

LEMMA UpdateDelay ==
    ASSUME NEW f \in [Tasks -> AuthRecord], NEW t \in Tasks, NEW a \in AuthSteps,
           NEW d \in 0..MaxLatency
    PROVE  [f EXCEPT ![t].at = a, ![t].delay = d] \in [Tasks -> AuthRecord]
  BY DEF AuthRecord

LEMMA UpdateElapsed ==
    ASSUME NEW f \in [Tasks -> AuthRecord], NEW t \in Tasks, NEW a \in AuthSteps,
           NEW e \in 0..MaxLease, NEW d \in 0..MaxLatency
    PROVE  [f EXCEPT ![t].at = a, ![t].elapsed = e, ![t].delay = d] \in [Tasks -> AuthRecord]
  BY DEF AuthRecord

LEMMA UpdateLease ==
    ASSUME NEW f \in [Tasks -> AuthRecord], NEW t \in Tasks, NEW a \in AuthSteps,
           NEW l \in Leases \cup {0}, NEW d \in 0..MaxLatency
    PROVE  [f EXCEPT ![t].at = a, ![t].lease = l, ![t].delay = d] \in [Tasks -> AuthRecord]
  BY DEF AuthRecord

LEMMA Updates ==
    ASSUME VaultTypeOK, NEW t \in Tasks
    PROVE  /\ ReadIssuedAt(t) => Becomes(t, "ttl", age, 0, auth[t].lease)
           /\ FastPath(t) /\ Safe(auth[t].elapsed, lease_duration)
                => Becomes(t, "passed", auth[t].elapsed, auth[t].delay, auth[t].lease)
           /\ FastPath(t) /\ ~Safe(auth[t].elapsed, lease_duration)
                => Becomes(t, "lock", 0, 0, auth[t].lease)
           /\ AlreadyRenewed(t)
                => Becomes(t, "passed", auth[t].elapsed, 0, auth[t].lease)
           /\ WriteIssuedAt(t)
                => Becomes(t, "lease", auth[t].elapsed, 0, auth[t].lease)
           /\ FinishRenewal(t)
                => Becomes(t, "passed", auth[t].elapsed, auth[t].delay, 0)
           /\ CurrentToken(t) => Becomes(t, "sent", 0, 0, auth[t].lease)
           /\ \A l \in Leases, a \in {"renewed", "granted"} :
                auth' = [auth EXCEPT ![t].at = a, ![t].lease = l, ![t].delay = 0]
                    => Becomes(t, a, auth[t].elapsed, 0, l)
  <1> USE DEF Becomes, Go, GoTimed
  <1>0. /\ auth \in [Tasks -> AuthRecord] /\ 0 \in 0..MaxLease /\ 0 \in 0..MaxLatency
        /\ age \in 0..MaxLease
        /\ \A a \in {"ttl", "passed", "lock", "lease", "sent", "renewed", "granted"} : a \in AuthSteps
    BY Numbers DEF VaultTypeOK, AuthRecord, AuthSteps
  <1>1. ASSUME ReadIssuedAt(t)
        PROVE  Becomes(t, "ttl", age, 0, auth[t].lease)
    <2>1. auth' \in [Tasks -> AuthRecord]
      BY <1>0, <1>1, UpdateElapsed DEF ReadIssuedAt
    <2> QED BY <1>1, <2>1 DEF ReadIssuedAt, VaultTypeOK
  <1>2. ASSUME FastPath(t) /\ Safe(auth[t].elapsed, lease_duration)
        PROVE  Becomes(t, "passed", auth[t].elapsed, auth[t].delay, auth[t].lease)
    <2>1. auth' \in [Tasks -> AuthRecord]
      BY <1>0, <1>2 DEF FastPath, AuthRecord
    <2> QED BY <1>2, <2>1 DEF FastPath, VaultTypeOK
  <1>3. ASSUME FastPath(t) /\ ~Safe(auth[t].elapsed, lease_duration)
        PROVE  Becomes(t, "lock", 0, 0, auth[t].lease)
    <2>1. auth' \in [Tasks -> AuthRecord]
      <3>1. auth' = [auth EXCEPT ![t].at = "lock", ![t].elapsed = 0, ![t].delay = 0]
        BY <1>3 DEF FastPath
      <3> QED BY <1>0, <3>1, UpdateElapsed
    <2> QED BY <1>3, <2>1 DEF FastPath, VaultTypeOK
  <1>4. ASSUME AlreadyRenewed(t)
        PROVE  Becomes(t, "passed", auth[t].elapsed, 0, auth[t].lease)
    <2>1. auth' \in [Tasks -> AuthRecord]
      BY <1>0, <1>4, UpdateDelay DEF AlreadyRenewed
    <2> QED BY <1>4, <2>1 DEF AlreadyRenewed, VaultTypeOK
  <1>5. ASSUME WriteIssuedAt(t)
        PROVE  Becomes(t, "lease", auth[t].elapsed, 0, auth[t].lease)
    <2>1. auth' \in [Tasks -> AuthRecord]
      BY <1>0, <1>5, UpdateDelay DEF WriteIssuedAt
    <2> QED BY <1>5, <2>1 DEF WriteIssuedAt, VaultTypeOK
  <1>6. ASSUME FinishRenewal(t)
        PROVE  Becomes(t, "passed", auth[t].elapsed, auth[t].delay, 0)
    <2>1. auth' \in [Tasks -> AuthRecord]
      BY <1>0, <1>6 DEF FinishRenewal, AuthRecord
    <2> QED BY <1>6, <2>1 DEF FinishRenewal, VaultTypeOK
  <1>7. ASSUME CurrentToken(t)
        PROVE  Becomes(t, "sent", 0, 0, auth[t].lease)
    <2>1. auth' \in [Tasks -> AuthRecord]
      BY <1>0, <1>7, UpdateElapsed DEF CurrentToken
    <2> QED BY <1>7, <2>1 DEF CurrentToken, VaultTypeOK
  <1>8. ASSUME NEW l \in Leases, NEW a \in {"renewed", "granted"},
               auth' = [auth EXCEPT ![t].at = a, ![t].lease = l, ![t].delay = 0]
        PROVE  Becomes(t, a, auth[t].elapsed, 0, l)
    <2>1. auth' \in [Tasks -> AuthRecord]
      BY <1>0, <1>8, UpdateLease
    <2> QED BY <1>8, <2>1 DEF VaultTypeOK
  <1> HIDE DEF Becomes
  <1> QED BY <1>1, <1>2, <1>3, <1>4, <1>5, <1>6, <1>7, <1>8

(* A fresh token, and one whose record is found safe, outlives a latency. *)
LEMMA CoveredOutlives ==
    ASSUME NEW n \in Nat, NEW l \in Leases, NEW spent \in Nat, Covers(n, l, spent),
           spent <= 2 * MaxLatency
    PROVE  n > MaxLatency
  BY Numbers DEF Covers

LEMMA SafeOutlives ==
    ASSUME NEW n \in Nat, NEW l \in Leases, NEW e \in Nat,
           Covers(n, l, e + MaxLatency), Safe(e, l)
    PROVE  n > MaxLatency
  BY Numbers DEF Covers, Safe

(* A lease that has just been granted outlives a latency. *)
LEMMA FreshOutlives ==
    ASSUME NEW l \in Leases
    PROVE  LifeOf(l) \in 0..Never /\ LifeOf(l) > MaxLatency
  BY Numbers DEF LifeOf

(* A lease that is not shorter than the recorded one does for it. *)
LEMMA LongerCovers ==
    ASSUME NEW n \in Nat, NEW l \in Leases, NEW m \in Leases, NEW spent \in Nat,
           Covers(n, l, spent), ~Shorter(l, m)
    PROVE  Covers(n, m, spent)
  <1>1. l \in Nat /\ m \in Nat /\ Never \in Nat /\ Never > m
    BY Numbers
  <1>2. CASE l = 0
    BY <1>1, <1>2 DEF Covers
  <1>3. CASE l # 0
    <2>1. m # 0 /\ l >= m
      BY <1>1, <1>3 DEF Shorter
    <2> QED BY <1>1, <1>3, <2>1 DEF Covers
  <1> QED BY <1>2, <1>3

(* The clock moves a token and what is known of it alike. *)
LEMMA CoversTicks ==
    ASSUME NEW n \in 0..Never, NEW l \in Leases, NEW spent \in Nat, NEW more \in Nat,
           Covers(n, l, spent), more >= spent + 1
    PROVE  Covers(Less(n), l, more)
  BY Numbers DEF Covers, Less, Never

LEMMA VaultInitInv == VaultInit => VaultInv
  <1> SUFFICES ASSUME VaultInit PROVE VaultInv
    OBVIOUS
  <1> USE Numbers, LeasesAssumption DEF VaultInit
  <1>1. auth \in [Tasks -> [at : AuthSteps, elapsed : 0..MaxLease,
                           delay : 0..MaxLatency, lease : Leases \cup {0}]]
    BY DEF NoAuth, AuthSteps
  <1>2. LifeOf(lease_duration) \in 0..Never
    BY DEF LifeOf, Never
  <1>3. VaultTypeOK
    BY <1>1, <1>2 DEF VaultTypeOK
  <1>4. \A t \in Tasks : auth[t].at = "none"
    BY DEF NoAuth
  <1>5. Covers(life, lease_duration, age + MaxLatency)
    BY DEF LifeOf, Covers
  <1> QED BY <1>3, <1>4, <1>5 DEF VaultInv, Becomes, OneHolder, RenewalIsDue, GrantIsFresh,
          RecordIsTrue, DecisionHolds, Holding

LEMMA VaultMoveInv ==
    ASSUME VaultInv, NEW t \in Tasks, ReadIssuedAt(t) \/ VaultStep(t) \/ Forget(t) \/ DropAuth(t)
    PROVE  VaultInv'
  <1> USE Numbers, LeasesAssumption, NoTaskAssumption
  <1> USE DEF VaultInv, At, Go, GoTimed
  <1>1. \A u \in Tasks : /\ auth[u].delay \in 0..MaxLatency /\ auth[u].elapsed \in 0..MaxLease
                        /\ auth[u].at \in AuthSteps /\ auth[u].lease \in Leases \cup {0}
    BY DEF VaultTypeOK
  <1>3. auth \in [Tasks -> AuthRecord]
    BY DEF VaultTypeOK, AuthRecord
  <1>2. /\ life \in Nat /\ newLife \in Nat /\ age \in Nat /\ lease_duration \in Leases
    BY DEF VaultTypeOK
  <1>4. CASE ReadIssuedAt(t)
    <2>3. Becomes(t, "ttl", age, 0, auth[t].lease)
      BY <1>4, Updates
    <2>4. VaultTypeOK'
      BY <1>1, <1>2, <1>4, <2>3 DEF ReadIssuedAt, Becomes, VaultTypeOK, AuthRecord, LifeOf, Never
    <2>5. OneHolder'
      BY <1>1, <1>2, <1>4, <2>3 DEF ReadIssuedAt, Becomes, OneHolder, Holding
    <2>6. RenewalIsDue'
      BY <1>1, <1>2, <1>4, <2>3 DEF ReadIssuedAt, Becomes, RenewalIsDue, OneHolder, Holding
    <2>7. GrantIsFresh'
      BY <1>1, <1>2, <1>4, <2>3 DEF ReadIssuedAt, Becomes, GrantIsFresh, Covers, LifeOf,
         OneHolder, Holding
    <2>8. RecordIsTrue'
      BY <1>1, <1>2, <1>4, <2>3 DEF ReadIssuedAt, Becomes, RecordIsTrue, Covers, LifeOf,
         OneHolder, Holding, GrantIsFresh
    <2>9. DecisionHolds'
      BY <1>1, <1>2, <1>4, <2>3, CoveredOutlives, SafeOutlives DEF ReadIssuedAt, Becomes,
         DecisionHolds, GrantIsFresh, RecordIsTrue, RenewalIsDue, OneHolder, Holding
    <2> QED BY <2>4, <2>5, <2>6, <2>7, <2>8, <2>9
  <1>5. CASE FastPath(t)
    <2>1. CASE Safe(auth[t].elapsed, lease_duration)
      <3>3. Becomes(t, "passed", auth[t].elapsed, auth[t].delay, auth[t].lease)
        BY <1>5, <2>1, Updates
      <3>4. VaultTypeOK'
        BY <1>1, <1>2, <1>5, <2>1, <3>3 DEF FastPath, Becomes, VaultTypeOK, AuthRecord, LifeOf,
           Never
      <3>5. OneHolder'
        BY <1>1, <1>2, <1>5, <2>1, <3>3 DEF FastPath, Becomes, OneHolder, Holding
      <3>6. RenewalIsDue'
        BY <1>1, <1>2, <1>5, <2>1, <3>3 DEF FastPath, Becomes, RenewalIsDue, OneHolder, Holding
      <3>7. GrantIsFresh'
        BY <1>1, <1>2, <1>5, <2>1, <3>3 DEF FastPath, Becomes, GrantIsFresh, Covers, LifeOf,
           OneHolder, Holding
      <3>8. RecordIsTrue'
        BY <1>1, <1>2, <1>5, <2>1, <3>3 DEF FastPath, Becomes, RecordIsTrue, Covers, LifeOf,
           OneHolder, Holding, GrantIsFresh
      <3>9. DecisionHolds'
        BY <1>1, <1>2, <1>5, <2>1, <3>3, CoveredOutlives, SafeOutlives DEF FastPath, Becomes,
           DecisionHolds, GrantIsFresh, RecordIsTrue, RenewalIsDue, OneHolder, Holding
      <3> QED BY <3>4, <3>5, <3>6, <3>7, <3>8, <3>9
    <2>2. CASE ~Safe(auth[t].elapsed, lease_duration)
      <3>3. Becomes(t, "lock", 0, 0, auth[t].lease)
        BY <1>5, <2>2, Updates
      <3>4. VaultTypeOK'
        BY <1>1, <1>2, <1>5, <2>2, <3>3 DEF FastPath, Becomes, VaultTypeOK, AuthRecord, LifeOf,
           Never
      <3>5. OneHolder'
        BY <1>1, <1>2, <1>5, <2>2, <3>3 DEF FastPath, Becomes, OneHolder, Holding
      <3>6. RenewalIsDue'
        BY <1>1, <1>2, <1>5, <2>2, <3>3 DEF FastPath, Becomes, RenewalIsDue, OneHolder, Holding
      <3>7. GrantIsFresh'
        BY <1>1, <1>2, <1>5, <2>2, <3>3 DEF FastPath, Becomes, GrantIsFresh, Covers, LifeOf,
           OneHolder, Holding
      <3>8. RecordIsTrue'
        BY <1>1, <1>2, <1>5, <2>2, <3>3 DEF FastPath, Becomes, RecordIsTrue, Covers, LifeOf,
           OneHolder, Holding, GrantIsFresh
      <3>9. DecisionHolds'
        BY <1>1, <1>2, <1>5, <2>2, <3>3, CoveredOutlives, SafeOutlives DEF FastPath, Becomes,
           DecisionHolds, GrantIsFresh, RecordIsTrue, RenewalIsDue, OneHolder, Holding
      <3> QED BY <3>4, <3>5, <3>6, <3>7, <3>8, <3>9
    <2> QED BY <2>1, <2>2
  <1>6. CASE AcquireLock(t)
    BY <1>1, <1>2, <1>6, CoveredOutlives, SafeOutlives DEF AcquireLock, VaultTypeOK, AuthSteps,
       Holding, OneHolder, RenewalIsDue, GrantIsFresh, RecordIsTrue, DecisionHolds, LifeOf, Covers, NoAuth
  <1>7. CASE AlreadyRenewed(t)
    <2>3. Becomes(t, "passed", auth[t].elapsed, 0, auth[t].lease)
      BY <1>7, Updates
    <2>4. VaultTypeOK'
      BY <1>1, <1>2, <1>7, <2>3 DEF AlreadyRenewed, Becomes, VaultTypeOK, AuthRecord, LifeOf,
         Never
    <2>5. OneHolder'
      BY <1>1, <1>2, <1>7, <2>3 DEF AlreadyRenewed, Becomes, OneHolder, Holding
    <2>6. RenewalIsDue'
      BY <1>1, <1>2, <1>7, <2>3 DEF AlreadyRenewed, Becomes, RenewalIsDue, OneHolder, Holding
    <2>7. GrantIsFresh'
      BY <1>1, <1>2, <1>7, <2>3 DEF AlreadyRenewed, Becomes, GrantIsFresh, Covers, LifeOf,
         OneHolder, Holding
    <2>8. RecordIsTrue'
      BY <1>1, <1>2, <1>7, <2>3 DEF AlreadyRenewed, Becomes, RecordIsTrue, Covers, LifeOf,
         OneHolder, Holding, GrantIsFresh
    <2>9. DecisionHolds'
      BY <1>1, <1>2, <1>7, <2>3, CoveredOutlives, SafeOutlives DEF AlreadyRenewed, Becomes,
         DecisionHolds, GrantIsFresh, RecordIsTrue, RenewalIsDue, OneHolder, Holding
    <2> QED BY <2>4, <2>5, <2>6, <2>7, <2>8, <2>9
  <1>8. CASE InCooldown(t)
    BY <1>1, <1>2, <1>8, CoveredOutlives, SafeOutlives DEF InCooldown, VaultTypeOK, AuthSteps,
       Holding, OneHolder, RenewalIsDue, GrantIsFresh, RecordIsTrue, DecisionHolds, LifeOf, Covers, NoAuth
  <1>9. CASE ChooseRenewal(t)
    BY <1>1, <1>2, <1>9, CoveredOutlives, SafeOutlives DEF ChooseRenewal, VaultTypeOK,
       AuthSteps, Holding, OneHolder, RenewalIsDue, GrantIsFresh, RecordIsTrue, DecisionHolds, LifeOf, Covers, NoAuth
  <1>10. CASE RenewGranted(t)
    <2>0. PICK l \in Leases : /\ life' = LifeOf(l)
                             /\ auth' = [auth EXCEPT ![t].at = "renewed", ![t].lease = l, ![t].delay = 0]
      BY <1>10 DEF RenewGranted, Prolonged
    <2>3. Becomes(t, "renewed", auth[t].elapsed, 0, l)
      BY <1>10, <2>0, Updates
    <2>4. VaultTypeOK'
      BY <1>1, <1>2, <1>10, <2>0, <2>3 DEF RenewGranted, Becomes, VaultTypeOK, AuthRecord,
         LifeOf, Never
    <2>5. OneHolder'
      BY <1>1, <1>2, <1>10, <2>0, <2>3 DEF RenewGranted, Becomes, OneHolder, Holding
    <2>6. RenewalIsDue'
      BY <1>1, <1>2, <1>10, <2>0, <2>3 DEF RenewGranted, Becomes, RenewalIsDue, OneHolder, Holding
    <2>7. GrantIsFresh'
      BY <1>1, <1>2, <1>10, <2>0, <2>3 DEF RenewGranted, Becomes, GrantIsFresh, Covers, LifeOf,
         OneHolder, Holding
    <2>8. RecordIsTrue'
      BY <1>1, <1>2, <1>10, <2>0, <2>3 DEF RenewGranted, Becomes, RecordIsTrue, Covers, LifeOf,
         OneHolder, Holding, GrantIsFresh
    <2>9. DecisionHolds'
      BY <1>1, <1>2, <1>10, <2>0, <2>3 DEF RenewGranted, Becomes, DecisionHolds, LifeOf
    <2> QED BY <2>4, <2>5, <2>6, <2>7, <2>8, <2>9
  <1>11. CASE RenewFails(t)
    <2>1. /\ auth' = [auth EXCEPT ![t].at = "login"] /\ auth[t].at = "renew"
          /\ UNCHANGED <<newLife, age, lease_duration, renewable, renewal_lock, sinceFailure, torn>>
          /\ life' = life \/ \E l \in Leases : life' = LifeOf(l)
      BY <1>11 DEF RenewFails, Prolonged
    <2>2. Becomes(t, "login", auth[t].elapsed, auth[t].delay, auth[t].lease)
      BY <1>3, <2>1 DEF Becomes, AuthRecord, AuthSteps
    <2>3. life' \in 0..Never /\ (life' = life \/ life' > MaxLatency)
      BY <2>1, FreshOutlives DEF VaultTypeOK
    <2>4. VaultTypeOK'
      BY <2>1, <2>2, <2>3 DEF Becomes, VaultTypeOK, AuthRecord
    <2>5. OneHolder'
      BY <2>1, <2>2 DEF Becomes, OneHolder, Holding
    <2>6. RenewalIsDue'
      BY <2>1, <2>2 DEF Becomes, RenewalIsDue
    <2>7. GrantIsFresh'
      <3>1. \A u \in Tasks : u # t => auth[u].at \notin Holding
        BY <2>1 DEF OneHolder, Holding
      <3> QED BY <2>1, <2>2, <3>1 DEF Becomes, GrantIsFresh, Holding
    <2>8. RecordIsTrue'
      <3>1. ~Safe(age, lease_duration)
        BY <2>1 DEF RenewalIsDue
      <3> QED BY <2>1, <3>1 DEF RecordIsTrue
    <2>9. DecisionHolds'
      BY <1>1, <1>2, <2>1, <2>2, <2>3 DEF Becomes, DecisionHolds
    <2> QED BY <2>4, <2>5, <2>6, <2>7, <2>8, <2>9
  <1>12. CASE LoginGranted(t)
    <2>0. PICK l \in Leases : /\ newLife' = LifeOf(l)
                             /\ auth' = [auth EXCEPT ![t].at = "granted", ![t].lease = l, ![t].delay = 0]
      BY <1>12 DEF LoginGranted
    <2>3. Becomes(t, "granted", auth[t].elapsed, 0, l)
      BY <1>12, <2>0, Updates
    <2>4. VaultTypeOK'
      BY <1>1, <1>2, <1>12, <2>0, <2>3 DEF LoginGranted, Becomes, VaultTypeOK, AuthRecord,
         LifeOf, Never
    <2>5. OneHolder'
      BY <1>1, <1>2, <1>12, <2>0, <2>3 DEF LoginGranted, Becomes, OneHolder, Holding
    <2>6. RenewalIsDue'
      BY <1>1, <1>2, <1>12, <2>0, <2>3 DEF LoginGranted, Becomes, RenewalIsDue, OneHolder, Holding
    <2>7. GrantIsFresh'
      BY <1>1, <1>2, <1>12, <2>0, <2>3 DEF LoginGranted, Becomes, GrantIsFresh, Covers, LifeOf,
         OneHolder, Holding
    <2>8. RecordIsTrue'
      BY <1>1, <1>2, <1>12, <2>0, <2>3 DEF LoginGranted, Becomes, RecordIsTrue, Covers, LifeOf,
         OneHolder, Holding, GrantIsFresh
    <2>9. DecisionHolds'
      BY <1>1, <1>2, <1>12, <2>0, <2>3, CoveredOutlives, SafeOutlives DEF LoginGranted, Becomes,
         DecisionHolds, GrantIsFresh, RecordIsTrue, RenewalIsDue, OneHolder, Holding
    <2> QED BY <2>4, <2>5, <2>6, <2>7, <2>8, <2>9
  <1>13. CASE LoginFails(t)
    BY <1>1, <1>2, <1>13, CoveredOutlives, SafeOutlives DEF LoginFails, VaultTypeOK, AuthSteps,
       Holding, OneHolder, RenewalIsDue, GrantIsFresh, RecordIsTrue, DecisionHolds, LifeOf, Covers, NoAuth
  <1>14. CASE WriteToken(t)
    BY <1>1, <1>2, <1>14, CoveredOutlives, SafeOutlives DEF WriteToken, VaultTypeOK, AuthSteps,
       Holding, OneHolder, RenewalIsDue, GrantIsFresh, RecordIsTrue, DecisionHolds, LifeOf, Covers, NoAuth
  <1>15. CASE WriteIssuedAt(t)
    <2>3. Becomes(t, "lease", auth[t].elapsed, 0, auth[t].lease)
      BY <1>15, Updates
    <2>4. VaultTypeOK'
      BY <1>1, <1>2, <1>15, <2>3 DEF WriteIssuedAt, Becomes, VaultTypeOK, AuthRecord, LifeOf,
         Never
    <2>5. OneHolder'
      BY <1>1, <1>2, <1>15, <2>3 DEF WriteIssuedAt, Becomes, OneHolder, Holding
    <2>6. RenewalIsDue'
      BY <1>1, <1>2, <1>15, <2>3 DEF WriteIssuedAt, Becomes, RenewalIsDue, OneHolder, Holding
    <2>7. GrantIsFresh'
      BY <1>1, <1>2, <1>15, <2>3 DEF WriteIssuedAt, Becomes, GrantIsFresh, Covers, LifeOf,
         OneHolder, Holding
    <2>8. RecordIsTrue'
      BY <1>1, <1>2, <1>15, <2>3 DEF WriteIssuedAt, Becomes, RecordIsTrue, Covers, LifeOf,
         OneHolder, Holding, GrantIsFresh
    <2>9. DecisionHolds'
      BY <1>1, <1>2, <1>15, <2>3, CoveredOutlives, SafeOutlives DEF WriteIssuedAt, Becomes,
         DecisionHolds, GrantIsFresh, RecordIsTrue, RenewalIsDue, OneHolder, Holding
    <2> QED BY <2>4, <2>5, <2>6, <2>7, <2>8, <2>9
  <1>16. CASE WriteLease(t)
    BY <1>1, <1>2, <1>16, CoveredOutlives, SafeOutlives DEF WriteLease, VaultTypeOK, AuthSteps,
       Holding, OneHolder, RenewalIsDue, GrantIsFresh, RecordIsTrue, DecisionHolds, LifeOf, Covers, NoAuth
  <1>17. CASE FinishRenewal(t)
    <2>3. Becomes(t, "passed", auth[t].elapsed, auth[t].delay, 0)
      BY <1>17, Updates
    <2>4. VaultTypeOK'
      BY <1>1, <1>2, <1>17, <2>3 DEF FinishRenewal, Becomes, VaultTypeOK, AuthRecord, LifeOf,
         Never
    <2>5. OneHolder'
      BY <1>1, <1>2, <1>17, <2>3 DEF FinishRenewal, Becomes, OneHolder, Holding
    <2>6. RenewalIsDue'
      BY <1>1, <1>2, <1>17, <2>3 DEF FinishRenewal, Becomes, RenewalIsDue, OneHolder, Holding
    <2>7. GrantIsFresh'
      BY <1>1, <1>2, <1>17, <2>3 DEF FinishRenewal, Becomes, GrantIsFresh, Covers, LifeOf,
         OneHolder, Holding
    <2>8. RecordIsTrue'
      BY <1>1, <1>2, <1>17, <2>3 DEF FinishRenewal, Becomes, RecordIsTrue, Covers, LifeOf,
         OneHolder, Holding, GrantIsFresh
    <2>2. Safe(age, lease_duration)
      BY <1>1, <1>2, <1>17 DEF FinishRenewal, GrantIsFresh, Safe
    <2>9. DecisionHolds'
      BY <1>1, <1>2, <1>17, <2>2, <2>3, CoveredOutlives, SafeOutlives DEF FinishRenewal, Becomes,
         DecisionHolds, GrantIsFresh, RecordIsTrue, RenewalIsDue, OneHolder, Holding
    <2> QED BY <2>4, <2>5, <2>6, <2>7, <2>8, <2>9
  <1>18. CASE CurrentToken(t)
    <2>3. Becomes(t, "sent", 0, 0, auth[t].lease)
      BY <1>18, Updates
    <2>4. VaultTypeOK'
      BY <1>1, <1>2, <1>18, <2>3 DEF CurrentToken, Becomes, VaultTypeOK, AuthRecord, LifeOf,
         Never
    <2>5. OneHolder'
      BY <1>1, <1>2, <1>18, <2>3 DEF CurrentToken, Becomes, OneHolder, Holding
    <2>6. RenewalIsDue'
      BY <1>1, <1>2, <1>18, <2>3 DEF CurrentToken, Becomes, RenewalIsDue, OneHolder, Holding
    <2>7. GrantIsFresh'
      BY <1>1, <1>2, <1>18, <2>3 DEF CurrentToken, Becomes, GrantIsFresh, Covers, LifeOf,
         OneHolder, Holding
    <2>8. RecordIsTrue'
      BY <1>1, <1>2, <1>18, <2>3 DEF CurrentToken, Becomes, RecordIsTrue, Covers, LifeOf,
         OneHolder, Holding, GrantIsFresh
    <2>9. DecisionHolds'
      BY <1>1, <1>2, <1>18, <2>3, CoveredOutlives, SafeOutlives DEF CurrentToken, Becomes,
         DecisionHolds, GrantIsFresh, RecordIsTrue, RenewalIsDue, OneHolder, Holding
    <2> QED BY <2>4, <2>5, <2>6, <2>7, <2>8, <2>9
  <1>19. CASE Forget(t)
    BY <1>1, <1>2, <1>19, CoveredOutlives, SafeOutlives DEF Forget, VaultTypeOK, AuthSteps,
       Holding, OneHolder, RenewalIsDue, GrantIsFresh, RecordIsTrue, DecisionHolds, LifeOf, Covers, NoAuth
  <1>20. CASE DropAuth(t)
    <2>1. auth' = [auth EXCEPT ![t] = NoAuth] /\ NoAuth \in AuthRecord
      BY <1>20 DEF DropAuth, NoAuth, AuthRecord, AuthSteps
    <2>2. /\ auth' \in [Tasks -> AuthRecord]
          /\ auth'[t].at = "none"
          /\ \A u \in Tasks : u # t => auth'[u] = auth[u]
      BY <1>3, <2>1 DEF NoAuth
    <2>3. /\ age' = age /\ lease_duration' = lease_duration /\ sinceFailure' = sinceFailure
          /\ renewable' \in 0..1
          /\ newLife' \in 0..Never
          /\ torn' \in 0..1
          /\ renewal_lock' = IF renewal_lock = t THEN NoTask ELSE renewal_lock
      BY <1>20 DEF DropAuth, VaultTypeOK
    <2>4. \/ life' = life
          \/ auth[t].at = "renew" /\ \E l \in Leases : life' = LifeOf(l)
      BY <1>20 DEF DropAuth, Prolonged
    <2>5. life' \in 0..Never
      BY <1>2, <2>4 DEF VaultTypeOK, LifeOf, Never
    <2>6. VaultTypeOK'
      BY <2>2, <2>3, <2>5 DEF VaultTypeOK, AuthRecord
    <2>7. OneHolder'
      BY <2>2, <2>3 DEF OneHolder, Holding
    <2>8. RenewalIsDue'
      BY <2>2, <2>3 DEF RenewalIsDue
    (* Nobody else is recording a renewal when the holder is dropped. *)
    <2>9. GrantIsFresh'
      <3>1. CASE auth[t].at \in Holding
        <4>1. \A u \in Tasks : auth'[u].at \notin Holding
          BY <2>2, <3>1 DEF OneHolder, Holding
        <4> QED BY <4>1 DEF GrantIsFresh, Holding
      <3>2. CASE auth[t].at \notin Holding
        <4>1. life' = life /\ newLife' = newLife
          BY <1>20, <2>4, <3>2 DEF DropAuth, Holding
        <4> QED BY <2>2, <2>3, <4>1 DEF GrantIsFresh
      <3> QED BY <3>1, <3>2
    <2>10. RecordIsTrue'
      <3> SUFFICES ASSUME torn' = 0, Safe(age, lease_duration),
                          \A u \in Tasks : auth'[u].at \notin {"renewed", "issued", "lease"}
                   PROVE  Covers(life', lease_duration, age + MaxLatency)
        BY <2>3 DEF RecordIsTrue
      <3>1. auth[t].at \notin {"renew", "renewed", "issued"}
        BY DEF RenewalIsDue
      <3>2. life' = life
        BY <2>4, <3>1
      <3>3. CASE auth[t].at = "lease"
        <4>1. ~Shorter(auth[t].lease, lease_duration)
          BY <1>20, <3>3 DEF DropAuth
        <4>2. auth[t].lease \in Leases /\ Covers(life, auth[t].lease, age + MaxLatency)
          BY <3>3 DEF GrantIsFresh
        <4>3. age + MaxLatency \in Nat
          BY <1>2
        <4> QED BY <1>2, <3>2, <4>1, <4>2, <4>3, LongerCovers
      <3>4. CASE auth[t].at # "lease"
        <4>1. torn = 0
          BY <1>20, <3>4 DEF DropAuth
        <4>2. \A u \in Tasks : auth[u].at \notin {"renewed", "issued", "lease"}
          BY <2>2, <3>1, <3>4
        <4> QED BY <3>2, <4>1, <4>2 DEF RecordIsTrue
      <3> QED BY <3>3, <3>4
    <2>11. DecisionHolds'
      <3> SUFFICES ASSUME torn' = 0, NEW u \in Tasks, u # t
                   PROVE  /\ auth[u].at = "ttl" /\ Safe(auth[u].elapsed, lease_duration)
                               => life' > MaxLatency - auth[u].delay
                          /\ auth[u].at = "passed" => life' > MaxLatency - auth[u].delay
        BY <2>2, <2>3 DEF DecisionHolds
      <3>1. CASE auth[t].at = "lease"
        <4>1. /\ auth[t].lease \in Leases /\ Covers(life, auth[t].lease, age + MaxLatency)
              /\ age + MaxLatency \in Nat /\ age + MaxLatency <= 2 * MaxLatency
          BY <1>1, <1>2, <3>1 DEF GrantIsFresh
        <4>2. life > MaxLatency
          BY <1>2, <4>1, CoveredOutlives
        <4>3. life' = life
          BY <2>4, <3>1
        <4> QED BY <1>1, <1>2, <4>2, <4>3
      <3>2. CASE auth[t].at # "lease"
        <4>1. torn = 0
          BY <1>20, <3>2 DEF DropAuth
        <4>2. CASE life' = life
          BY <4>1, <4>2 DEF DecisionHolds
        <4>3. ASSUME NEW l \in Leases, life' = LifeOf(l)
              PROVE  life' > MaxLatency - auth[u].delay
          BY <1>1, <4>3, FreshOutlives
        <4> QED BY <2>4, <4>2, <4>3
      <3> QED BY <3>1, <3>2
    <2> QED BY <2>6, <2>7, <2>8, <2>9, <2>10, <2>11
  <1> QED BY <1>4, <1>5, <1>6, <1>7, <1>8, <1>9, <1>10, <1>11, <1>12, <1>13, <1>14,
     <1>15, <1>16, <1>17, <1>18, <1>19, <1>20 DEF VaultStep

LEMMA VaultTickInv ==
    ASSUME VaultInv, VaultTick
    PROVE  VaultInv'
  <1> USE Numbers
  <1>1. \A u \in Tasks : /\ auth[u].delay \in 0..MaxLatency /\ auth[u].elapsed \in 0..MaxLease
                        /\ auth[u].at \in AuthSteps /\ auth[u].lease \in Leases \cup {0}
    BY DEF VaultInv, VaultTypeOK
  <1>2. /\ life \in 0..Never /\ newLife \in 0..Never /\ age \in 0..MaxLease
        /\ lease_duration \in Leases /\ sinceFailure \in 0..FAILURE_COOLDOWN
    BY DEF VaultInv, VaultTypeOK
  <1>3. auth \in [Tasks -> AuthRecord]
    BY DEF VaultInv, VaultTypeOK, AuthRecord
  <1>4. ASSUME NEW u \in Tasks
        PROVE  /\ auth'[u] \in AuthRecord
               /\ auth'[u].at = auth[u].at
               /\ auth'[u].elapsed = auth[u].elapsed
               /\ auth'[u].lease = auth[u].lease
               /\ auth[u].at \in Timed => auth'[u].delay = auth[u].delay + 1
               /\ auth[u].at \in Timed => auth[u].delay < MaxLatency
    BY <1>1, <1>3 DEF VaultTick, AuthRecord
  <1>5. auth' \in [Tasks -> AuthRecord]
    BY <1>4 DEF VaultTick
  <1>6. /\ age' \in 0..MaxLease /\ age' >= age /\ age' <= age + 1
        /\ sinceFailure' \in 0..FAILURE_COOLDOWN /\ sinceFailure' >= sinceFailure
        /\ life' = Less(life) /\ newLife' = Less(newLife)
        /\ life' \in 0..Never /\ newLife' \in 0..Never
        /\ lease_duration' = lease_duration
    BY <1>2 DEF VaultTick, More, Less, Never
  <1>7. VaultTypeOK'
    BY <1>5, <1>6 DEF VaultTick, VaultInv, VaultTypeOK, AuthRecord
  <1>8. OneHolder'
    BY <1>4 DEF VaultTick, VaultInv, OneHolder
  <1>9. RenewalIsDue'
    BY <1>2, <1>4, <1>6 DEF VaultInv, RenewalIsDue, Safe
  <1>10. GrantIsFresh'
    <2> SUFFICES ASSUME NEW t \in Tasks
                 PROVE  /\ auth[t].at \in {"renewed", "granted", "issued", "lease", "rest"}
                             => auth[t].lease \in Leases
                        /\ auth[t].at \in {"renewed", "issued"}
                             => Covers(life', auth[t].lease, auth'[t].delay)
                        /\ auth[t].at = "granted" => Covers(newLife', auth[t].lease, auth'[t].delay)
                        /\ auth[t].at \in {"lease", "rest"} => age' <= auth'[t].delay
                        /\ auth[t].at = "lease" => Covers(life', auth[t].lease, age' + MaxLatency)
                        /\ auth[t].at = "rest" => lease_duration = auth[t].lease
      BY <1>4, <1>6 DEF GrantIsFresh
    <2>1. auth[t].at \in {"renewed", "issued"} => Covers(life', auth[t].lease, auth'[t].delay)
      BY <1>1, <1>2, <1>4, <1>6, CoversTicks DEF VaultInv, GrantIsFresh, Timed
    <2>2. auth[t].at = "granted" => Covers(newLife', auth[t].lease, auth'[t].delay)
      BY <1>1, <1>2, <1>4, <1>6, CoversTicks DEF VaultInv, GrantIsFresh, Timed
    <2>3. auth[t].at = "lease" => Covers(life', auth[t].lease, age' + MaxLatency)
      <3> SUFFICES ASSUME auth[t].at = "lease"
                   PROVE  Covers(life', auth[t].lease, age' + MaxLatency)
        OBVIOUS
      <3>1. auth[t].lease \in Leases /\ Covers(life, auth[t].lease, age + MaxLatency)
            /\ age <= auth[t].delay /\ auth[t].delay < MaxLatency
        BY <1>4 DEF VaultInv, GrantIsFresh, Timed
      <3>2. age < MaxLease
        BY <1>1, <1>2, <3>1, LeasesAssumption
      <3>3. age' = age + 1
        BY <1>2, <3>2 DEF VaultTick, More
      <3> QED BY <1>2, <1>6, <3>1, <3>3, CoversTicks
    <2> QED BY <1>1, <1>2, <1>4, <1>6, <2>1, <2>2, <2>3 DEF VaultInv, GrantIsFresh, Timed
  <1>11. RecordIsTrue'
    <2> SUFFICES ASSUME torn = 0, Safe(age', lease_duration),
                        \A t \in Tasks : auth[t].at \notin {"renewed", "issued", "lease"}
                 PROVE  Covers(life', lease_duration, age' + MaxLatency)
      BY <1>4, <1>6 DEF RecordIsTrue, VaultTick
    <2>0. Safe(age, lease_duration)
      BY <1>2, <1>6 DEF Safe
    <2>1. Covers(life, lease_duration, age + MaxLatency)
      BY <2>0 DEF VaultInv, RecordIsTrue
    <2>2. CASE age < MaxLease
      <3>1. age' = age + 1
        BY <1>2, <2>2 DEF VaultTick, More
      <3> QED BY <1>2, <1>6, <2>1, <3>1, CoversTicks
    <2>3. CASE age = MaxLease
      BY <1>2, <1>6, <2>1, <2>3 DEF Covers, Less, Never
    <2> QED BY <1>2, <2>2, <2>3
  <1>12. DecisionHolds'
    BY <1>1, <1>2, <1>4, <1>6 DEF VaultInv, VaultTick, DecisionHolds, Timed, Less, Never
  <1> QED BY <1>7, <1>8, <1>9, <1>10, <1>11, <1>12 DEF VaultInv

(* The only steps of the store that the token manager takes part in. *)
LEMMA VaultPart ==
    ASSUME [Next]_vars
    PROVE  \/ UNCHANGED vaultVars
           \/ VaultTick
           \/ \E t \in Tasks : ReadIssuedAt(t) \/ VaultStep(t) \/ Forget(t) \/ DropAuth(t)
  <1>1. CASE UNCHANGED vars
    BY <1>1 DEF vars
  <1>2. CASE Tick
    BY <1>2 DEF Tick
  <1>3. CASE ElsewhereStores \/ ElsewhereDeletes \/ ServiceSettles
    BY <1>3 DEF ElsewhereStores, ElsewhereDeletes, ServiceSettles, Frame
  <1>4. ASSUME NEW t \in Tasks, Authenticate(t)
        PROVE  ReadIssuedAt(t) \/ VaultStep(t) \/ Forget(t)
    BY <1>4 DEF Authenticate, Forget, At
  <1>6. ASSUME NEW t \in Tasks, Dropped(t)
        PROVE  DropAuth(t) \/ UNCHANGED vaultVars
    BY <1>6 DEF Dropped
  <1>5. ASSUME NEW t \in Tasks, Begin(t) \/ LoadHit(t) \/ LoadMiss(t) \/ TaskStep(t),
               ~Authenticate(t), ~Dropped(t)
        PROVE  UNCHANGED vaultVars
    BY <1>5 DEF Begin, LoadHit, LoadMiss, TaskStep, Frame, Answers,
       VaultLoad, VaultReachable, VaultStore, VaultDelete,
       MemoryLoad, MemoryReachable, MemoryStore, MemoryDelete,
       AwsLoad, AwsReachable, AwsDescribe, AwsCreate, AwsUpdate, AwsDelete,
       GcpLoad, GcpReachable, GcpAddVersion, GcpCreate, GcpAddAgain, GcpDelete,
       AzureLoad, AzureReachable, AzureSet, AzureRecover, AzurePoll, AzureDelete,
       AzurePurge, CallFails, UpdateCache, Return
  <1> QED BY <1>1, <1>2, <1>3, <1>4, <1>5, <1>6 DEF Next

LEMMA VaultInvariant == Spec => []VaultInv
  <1>1. Init => VaultInv
    BY VaultInitInv DEF Init
  <1>2. VaultInv /\ [Next]_vars => VaultInv'
    <2> SUFFICES ASSUME VaultInv, [Next]_vars PROVE VaultInv'
      OBVIOUS
    <2>1. CASE UNCHANGED vaultVars
      BY <2>1 DEF vaultVars, VaultInv, VaultTypeOK, OneHolder, RenewalIsDue, GrantIsFresh,
         RecordIsTrue, DecisionHolds
    <2> QED BY <2>1, VaultPart, VaultTickInv, VaultMoveInv
  <1> QED BY <1>1, <1>2, PTL DEF Spec

(* A request that ensure_valid has passed takes a token that Vault accepts, *)
(* for any number of requests that may be dropped at any await, unless one  *)
(* was dropped between issued_at and a shorter lease_duration since the     *)
(* last recorded lease: the token is written before issued_at and issued_at *)
(* before lease_duration, a record that is not complete stays due, and the  *)
(* fifth of a lease covers two latencies.                                   *)
THEOREM TokenIsLive == Spec => []SendsLiveToken
  <1>1. VaultInv => SendsLiveToken
    BY Numbers DEF VaultInv, VaultTypeOK, DecisionHolds, SendsLiveToken
  <1> QED BY <1>1, VaultInvariant, PTL

(* Who holds renewal_lock goes to Vault only when the recorded lease is due *)
(* and the last failure is FAILURE_COOLDOWN old, whoever renewed, failed or *)
(* was dropped while it waited.                                             *)
THEOREM OneRenewalPerLease == Spec => NoStampede
  <1> DEFINE Due == \A t \in Tasks :
                      /\ Granting(t) => 5 * age >= 4 * lease_duration
                      /\ auth[t].at = "login" /\ auth'[t].at = "failed"
                           => sinceFailure >= FAILURE_COOLDOWN
  <1>1. VaultInv /\ [Next]_vars => [Due]_vaultVars
    BY Numbers DEF VaultInv, VaultTypeOK, RenewalIsDue, Granting, Safe
  <1> QED BY <1>1, VaultInvariant, PTL DEF Spec, NoStampede

-----------------------------------------------------------------------------
(* The secret, its cache and the requests *)

TaskRecord == [pc : Steps, op : Operations, val : Values \cup {NoValue},
               tries : 0..RECOVERY_ATTEMPTS, delay : 0..MaxLatency,
               effect : {"keep", "insert", "invalidate"}, answer : {"ok", "none", "err"}]

StoreTypeOK ==
    /\ plan \in Plans
    /\ remote \in [st : RemoteStates, val : Values \cup {NoValue}]
    /\ cache \in [val : Values \cup {NoValue}, left : 0..SecretsTTL]
    /\ gone \in [Values -> 0..GoneCap]
    /\ task \in [Tasks -> TaskRecord]

(* A secret that was ever set keeps its value until it is gone, and what    *)
(* the service holds is current.                                            *)
RemoteIsCurrent ==
    /\ remote.st \in {"held", "deleted", "recovering", "scheduled"} => remote.val \in Values
    /\ remote.st = "held" => gone[remote.val] = 0

(* A cached value was at the service when it had its whole TTL left, up to  *)
(* the latency of the insertion.                                            *)
CacheIsRecent ==
    cache.left > 0 => /\ cache.val \in Values
                      /\ gone[cache.val] <= SecretsTTL - cache.left + MaxLatency

(* What a request carries from call to call. *)
Sound(t) ==
    /\ task[t].op \in {"store", "update"} => task[t].val \in Values
    /\ task[t].pc \in {"create", "add", "recover", "poll"} => task[t].op \in {"store", "update"}
    /\ task[t].pc = "purge" => task[t].op = "delete"
    /\ task[t].op = "load" /\ task[t].pc \notin {"cache", "done"} => task[t].val = NoValue
    /\ task[t].pc = "idle" => task[t].op = "load"
    /\ task[t].tries < RECOVERY_ATTEMPTS

Writes(t) == task[t].op = "update" \/ (task[t].op = "store" /\ kind # "aws")

(* Between the answer of the service and the update of the cache, the value *)
(* read or written was at the service when the answer was given.            *)
Settled(t) ==
    task[t].pc = "cache" =>
        /\ task[t].effect = "insert"
             => task[t].val \in Values /\ gone[task[t].val] <= task[t].delay
        /\ task[t].op = "load" /\ task[t].val # NoValue => gone[task[t].val] <= task[t].delay
        /\ task[t].answer = "ok" /\ Writes(t) => gone[task[t].val] <= task[t].delay

(* The two properties, for one request. *)
Answered(t) ==
    task[t].pc = "done" =>
        /\ task[t].op = "load" /\ task[t].val # NoValue
             => gone[task[t].val] <= SecretsTTL + MaxLatency
        /\ task[t].answer = "ok" /\ Writes(t) => gone[task[t].val] <= MaxLatency

StoreInv ==
    /\ StoreTypeOK
    /\ RemoteIsCurrent
    /\ CacheIsRecent
    /\ \A t \in Tasks : Sound(t) /\ Settled(t) /\ Answered(t)

LEMMA StoreNumbers ==
    /\ SecretsTTL \in Nat /\ MaxLatency \in Nat /\ RECOVERY_ATTEMPTS \in Nat \ {0}
    /\ GoneCap \in Nat /\ GoneCap = SecretsTTL + MaxLatency + 1
    /\ NoValue \notin Values
  BY StoreAssumption, WaitsAssumption DEF GoneCap

LEMMA PlanFields ==
    ASSUME plan \in Plans
    PROVE  plan.kind \in Kinds /\ plan.ops \subseteq Operations
  BY PlansAssumption

-----------------------------------------------------------------------------
(* What a step does to one request *)

LEMMA TypePcDelay ==
    ASSUME NEW f \in [Tasks -> TaskRecord], NEW t \in Tasks, NEW p \in Steps,
           NEW d \in 0..MaxLatency
    PROVE  [f EXCEPT ![t].pc = p, ![t].delay = d] \in [Tasks -> TaskRecord]
  BY DEF TaskRecord

LEMMA TypeAnswerEffect ==
    ASSUME NEW f \in [Tasks -> TaskRecord], NEW t \in Tasks,
           NEW a \in {"ok", "none", "err"}, NEW e \in {"keep", "insert", "invalidate"}
    PROVE  [f EXCEPT ![t].answer = a, ![t].effect = e] \in [Tasks -> TaskRecord]
  BY DEF TaskRecord

LEMMA TypeValEffect ==
    ASSUME NEW f \in [Tasks -> TaskRecord], NEW t \in Tasks,
           NEW v \in Values \cup {NoValue}, NEW e \in {"keep", "insert", "invalidate"}
    PROVE  [f EXCEPT ![t].val = v, ![t].effect = e] \in [Tasks -> TaskRecord]
  BY DEF TaskRecord

LEMMA TypePcOp ==
    ASSUME NEW f \in [Tasks -> TaskRecord], NEW t \in Tasks, NEW p \in Steps,
           NEW o \in Operations
    PROVE  [f EXCEPT ![t].pc = p, ![t].op = o] \in [Tasks -> TaskRecord]
  BY DEF TaskRecord

LEMMA TypePcOpVal ==
    ASSUME NEW f \in [Tasks -> TaskRecord], NEW t \in Tasks, NEW p \in Steps,
           NEW o \in Operations, NEW v \in Values \cup {NoValue}
    PROVE  [f EXCEPT ![t].pc = p, ![t].op = o, ![t].val = v] \in [Tasks -> TaskRecord]
  <1> DEFINE g == [f EXCEPT ![t].pc = p, ![t].op = o]
  <1>1. g \in [Tasks -> TaskRecord]
    BY TypePcOp
  <1> HIDE DEF g
  <1>2. [g EXCEPT ![t].val = v] \in [Tasks -> TaskRecord]
    BY <1>1 DEF TaskRecord
  <1>3. [g EXCEPT ![t].val = v] = [f EXCEPT ![t].pc = p, ![t].op = o, ![t].val = v]
    BY <1>1 DEF g, TaskRecord
  <1> QED BY <1>2, <1>3

(* The fields a step leaves alone, and the other requests. *)
Others(t) ==
    /\ task' \in [Tasks -> TaskRecord]
    /\ \A u \in Tasks : u # t => task'[u] = task[u]

LEMMA SettleTurns ==
    ASSUME task \in [Tasks -> TaskRecord], NEW t \in Tasks, NEW a \in {"ok", "none", "err"},
           NEW e \in {"keep", "insert", "invalidate"}, Settle(t, a, e)
    PROVE  /\ Others(t)
           /\ task'[t].pc = "cache" /\ task'[t].delay = 0
           /\ task'[t].answer = a /\ task'[t].effect = e
           /\ task'[t].op = task[t].op /\ task'[t].val = task[t].val
           /\ task'[t].tries = task[t].tries
  <1> DEFINE g == [task EXCEPT ![t].pc = "cache", ![t].delay = 0]
  <1>1. g \in [Tasks -> TaskRecord]
    <2>1. "cache" \in Steps /\ 0 \in 0..MaxLatency
      BY StoreNumbers DEF Steps
    <2> QED BY <2>1, TypePcDelay
  <1>2. [g EXCEPT ![t].answer = a, ![t].effect = e] \in [Tasks -> TaskRecord]
    <2> HIDE DEF g
    <2> QED BY <1>1, TypeAnswerEffect
  <1>3. task' = [g EXCEPT ![t].answer = a, ![t].effect = e]
    <2>1. task' = [task EXCEPT ![t].pc = "cache", ![t].delay = 0, ![t].answer = a, ![t].effect = e]
      BY DEF Settle
    <2> QED BY <1>1, <2>1 DEF TaskRecord
  <1>4. task' \in [Tasks -> TaskRecord]
    <2> HIDE DEF g
    <2> QED BY <1>2, <1>3
  <1> QED BY <1>4 DEF Settle, TaskRecord, Others

LEMMA FoundTurns ==
    ASSUME task \in [Tasks -> TaskRecord], NEW t \in Tasks, remote.val \in Values,
           NEW e \in {"keep", "insert", "invalidate"}, Found(t, e)
    PROVE  /\ Others(t)
           /\ task'[t].pc = "cache" /\ task'[t].delay = 0
           /\ task'[t].val = remote.val /\ task'[t].effect = e
           /\ task'[t].op = task[t].op /\ task'[t].tries = task[t].tries
           /\ task'[t].answer = task[t].answer
  <1> DEFINE g == [task EXCEPT ![t].pc = "cache", ![t].delay = 0]
  <1>1. g \in [Tasks -> TaskRecord]
    <2>1. "cache" \in Steps /\ 0 \in 0..MaxLatency
      BY StoreNumbers DEF Steps
    <2> QED BY <2>1, TypePcDelay
  <1>2. [g EXCEPT ![t].val = remote.val, ![t].effect = e] \in [Tasks -> TaskRecord]
    <2> HIDE DEF g
    <2> QED BY <1>1, TypeValEffect
  <1>3. task' = [g EXCEPT ![t].val = remote.val, ![t].effect = e]
    <2>1. task' = [task EXCEPT ![t].pc = "cache", ![t].delay = 0, ![t].val = remote.val,
                               ![t].effect = e]
      BY DEF Found
    <2> QED BY <1>1, <2>1 DEF TaskRecord
  <1>4. task' \in [Tasks -> TaskRecord]
    <2> HIDE DEF g
    <2> QED BY <1>2, <1>3
  <1> QED BY <1>4 DEF Found, TaskRecord, Others

LEMMA ToTurns ==
    ASSUME task \in [Tasks -> TaskRecord], NEW t \in Tasks, NEW p \in Steps, To(t, p)
    PROVE  /\ Others(t)
           /\ task'[t].pc = p
           /\ task'[t].op = task[t].op /\ task'[t].val = task[t].val
           /\ task'[t].tries = task[t].tries /\ task'[t].delay = task[t].delay
           /\ task'[t].effect = task[t].effect /\ task'[t].answer = task[t].answer
  BY DEF To, TaskRecord, Others

-----------------------------------------------------------------------------
(* What a step does to the service *)

(* Nothing gets older but by the clock, and the service stays consistent. *)
Serves ==
    /\ remote' \in [st : RemoteStates, val : Values \cup {NoValue}]
    /\ gone' \in [Values -> 0..GoneCap]
    /\ RemoteIsCurrent'
    /\ \A v \in Values : gone'[v] <= gone[v]

LEMMA SameServes ==
    ASSUME StoreInv, SameService
    PROVE  Serves
  <1>1. /\ remote \in [st : RemoteStates, val : Values \cup {NoValue}]
        /\ gone \in [Values -> 0..GoneCap]
        /\ \A v \in Values : gone[v] \in Nat
    BY StoreNumbers DEF StoreInv, StoreTypeOK
  <1> QED BY <1>1 DEF StoreInv, SameService, Serves, RemoteIsCurrent

LEMMA SetServes ==
    ASSUME StoreInv, NEW r \in [st : RemoteStates, val : Values \cup {NoValue}],
           r.st \in {"held", "deleted", "recovering", "scheduled"} => r.val \in Values,
           SetRemote(r)
    PROVE  Serves /\ (r.st = "held" => gone'[r.val] = 0)
  <1>1. /\ gone \in [Values -> 0..GoneCap] /\ 0 \in 0..GoneCap
        /\ \A v \in Values : gone[v] \in Nat
    BY StoreNumbers DEF StoreInv, StoreTypeOK
  <1>2. CASE r.st = "held"
    <2>1. gone' = [gone EXCEPT ![r.val] = 0] /\ r.val \in Values /\ remote' = r
      BY <1>2 DEF SetRemote
    <2> QED BY <1>1, <1>2, <2>1 DEF Serves, RemoteIsCurrent
  <1>3. CASE r.st # "held"
    BY <1>1, <1>3 DEF SetRemote, Serves, RemoteIsCurrent
  <1> QED BY <1>2, <1>3

LEMMA HeldServes ==
    ASSUME StoreInv, NEW v \in Values, SetRemote(Held(v))
    PROVE  Serves /\ gone'[v] = 0
  <1>1. /\ Held(v) \in [st : RemoteStates, val : Values \cup {NoValue}]
        /\ Held(v).st = "held" /\ Held(v).val = v
    BY DEF Held, RemoteStates
  <1> QED BY <1>1, SetServes

LEMMA AbsentServes ==
    ASSUME StoreInv, NEW s \in {"absent", "empty"}, SetRemote([st |-> s, val |-> NoValue])
    PROVE  Serves
  <1> DEFINE r == [st |-> s, val |-> NoValue]
  <1>1. r \in [st : RemoteStates, val : Values \cup {NoValue}] /\ r.st = s
    BY DEF RemoteStates
  <1> HIDE DEF r
  <1>2. SetRemote(r)
    BY DEF r
  <1> QED BY <1>1, <1>2, SetServes

LEMMA MarkedServes ==
    ASSUME StoreInv, NEW s \in {"deleted", "recovering", "scheduled"}, remote.val \in Values,
           SetRemote([remote EXCEPT !.st = s])
    PROVE  Serves
  <1> DEFINE r == [remote EXCEPT !.st = s]
  <1>1. r \in [st : RemoteStates, val : Values \cup {NoValue}] /\ r.st = s /\ r.val = remote.val
    BY DEF RemoteStates, StoreInv, StoreTypeOK
  <1> HIDE DEF r
  <1>2. SetRemote(r)
    BY DEF r
  <1> QED BY <1>1, <1>2, SetServes

LEMMA DeletedServes ==
    ASSUME StoreInv, remote.st = "held", SetRemote(DeletedRemote)
    PROVE  Serves
  <1>1. remote.val \in Values
    BY DEF StoreInv, RemoteIsCurrent
  <1>2. CASE kind = "azure"
    BY <1>1, <1>2, MarkedServes DEF DeletedRemote
  <1>3. CASE kind = "aws"
    BY <1>1, <1>3, MarkedServes DEF DeletedRemote
  <1>4. CASE kind \notin {"azure", "aws"}
    BY <1>1, <1>4, AbsentServes DEF DeletedRemote, Absent
  <1> QED BY <1>2, <1>3, <1>4

-----------------------------------------------------------------------------
(* A step of one request that leaves the clock alone *)

LEMMA OneTaskMoves ==
    ASSUME StoreInv, NEW t \in Tasks, UNCHANGED plan, Serves, Others(t),
           cache' = cache \/ cache' = Uncached,
           Sound(t)', Settled(t)', Answered(t)'
    PROVE  StoreInv'
  <1>1. /\ \A v \in Values : gone[v] \in Nat /\ gone'[v] \in Nat /\ gone'[v] <= gone[v]
        /\ \A u \in Tasks : /\ task[u].delay \in Nat
                            /\ task[u].val \in Values \cup {NoValue}
    BY StoreNumbers DEF StoreInv, StoreTypeOK, Serves, TaskRecord
  <1>2. cache' \in [val : Values \cup {NoValue}, left : 0..SecretsTTL]
    BY StoreNumbers DEF StoreInv, StoreTypeOK, Uncached
  <1>3. StoreTypeOK' /\ RemoteIsCurrent'
    BY <1>2 DEF StoreInv, StoreTypeOK, Serves, Others
  <1>4. CacheIsRecent'
    BY <1>1, StoreNumbers DEF StoreInv, StoreTypeOK, CacheIsRecent, Uncached
  <1>5. ASSUME NEW u \in Tasks, u # t
        PROVE  Sound(u)' /\ Settled(u)' /\ Answered(u)'
    <2>1. task'[u] = task[u] /\ Sound(u) /\ Settled(u) /\ Answered(u)
      BY <1>5 DEF Others, StoreInv
    <2>2. kind' = kind
      BY DEF kind
    <2>3. Sound(u)'
      BY <2>1 DEF Sound
    <2>4. Settled(u)' /\ Answered(u)'
      BY <1>1, <2>1, <2>2, StoreNumbers DEF Settled, Answered, Writes, Sound
    <2> QED BY <2>3, <2>4
  <1> QED BY <1>3, <1>4, <1>5 DEF StoreInv

(* The answer promises nothing about a value. *)
LEMMA SettleInv ==
    ASSUME StoreInv, NEW t \in Tasks, UNCHANGED plan, Serves,
           cache' = cache \/ cache' = Uncached,
           NEW a \in {"ok", "none", "err"}, NEW e \in {"keep", "invalidate"}, Settle(t, a, e),
           task[t].pc \notin {"cache", "done"}, a = "ok" => ~Writes(t)
    PROVE  StoreInv'
  <1>1. kind' = kind /\ task \in [Tasks -> TaskRecord] /\ Sound(t)
    BY DEF kind, StoreInv, StoreTypeOK
  <1>2. /\ Others(t) /\ task'[t].pc = "cache" /\ task'[t].answer = a /\ task'[t].effect = e
        /\ task'[t].op = task[t].op /\ task'[t].val = task[t].val
        /\ task'[t].tries = task[t].tries
    BY <1>1, SettleTurns
  <1>3. Sound(t)' /\ Settled(t)' /\ Answered(t)'
    BY <1>1, <1>2 DEF Sound, Settled, Answered, Writes
  <1> QED BY <1>2, <1>3, OneTaskMoves

(* The value has just been written. *)
LEMMA WrittenInv ==
    ASSUME StoreInv, NEW t \in Tasks, UNCHANGED <<plan, cache>>,
           SetRemote(Held(task[t].val)), task[t].op \in {"store", "update"},
           NEW e \in {"keep", "insert"}, Settle(t, "ok", e)
    PROVE  StoreInv'
  <1>1. kind' = kind /\ task \in [Tasks -> TaskRecord] /\ Sound(t) /\ task[t].val \in Values
    BY DEF kind, StoreInv, StoreTypeOK, Sound
  <1>2. Serves /\ gone'[task[t].val] = 0
    BY <1>1, HeldServes
  <1>3. /\ Others(t) /\ task'[t].pc = "cache" /\ task'[t].delay = 0
        /\ task'[t].op = task[t].op /\ task'[t].val = task[t].val
        /\ task'[t].tries = task[t].tries
    BY <1>1, SettleTurns
  <1>4. Sound(t)' /\ Settled(t)' /\ Answered(t)'
    BY <1>1, <1>2, <1>3 DEF Sound, Settled, Answered
  <1> QED BY <1>2, <1>3, <1>4, OneTaskMoves

LEMMA FoundInv ==
    ASSUME StoreInv, NEW t \in Tasks, UNCHANGED <<plan, cache>>, SameService,
           task[t].op = "load", NEW e \in {"keep", "insert"}, Found(t, e)
    PROVE  StoreInv'
  <1>1. task \in [Tasks -> TaskRecord] /\ Sound(t)
    BY DEF StoreInv, StoreTypeOK
  <1>2. remote.val \in Values /\ gone'[remote.val] = 0
    BY DEF Found, StoreInv, RemoteIsCurrent, SameService
  <1>3. /\ Others(t) /\ task'[t].pc = "cache" /\ task'[t].delay = 0
        /\ task'[t].op = "load" /\ task'[t].val = remote.val
        /\ task'[t].tries = task[t].tries
    BY <1>1, <1>2, FoundTurns
  <1>4. Sound(t)' /\ Settled(t)' /\ Answered(t)'
    BY <1>1, <1>2, <1>3 DEF Sound, Settled, Answered
  <1> QED BY <1>3, <1>4, OneTaskMoves, SameServes

(* The request goes on to another call. *)
LEMMA GoesOnInv ==
    ASSUME StoreInv, NEW t \in Tasks, UNCHANGED plan, Serves,
           cache' = cache \/ cache' = Uncached,
           NEW p \in {"call", "create", "add", "recover", "poll", "purge"}, To(t, p),
           task[t].pc \notin {"cache", "done"},
           p = "purge" => task[t].op = "delete",
           p \in {"create", "add", "recover", "poll"} => task[t].op \in {"store", "update"}
    PROVE  StoreInv'
  <1>1. task \in [Tasks -> TaskRecord] /\ Sound(t)
    BY DEF StoreInv, StoreTypeOK
  <1>2. p \in Steps
    BY DEF Steps
  <1>3. /\ Others(t) /\ task'[t].pc = p
        /\ task'[t].op = task[t].op /\ task'[t].val = task[t].val
        /\ task'[t].tries = task[t].tries
    BY <1>1, <1>2, ToTurns
  <1>4. Sound(t)' /\ Settled(t)' /\ Answered(t)'
    BY <1>1, <1>3 DEF Sound, Settled, Answered
  <1> QED BY <1>3, <1>4, OneTaskMoves

-----------------------------------------------------------------------------
(* The actions *)

LEMMA StoreInitInv == Init => StoreInv
  <1> SUFFICES ASSUME Init PROVE StoreInv
    OBVIOUS
  <1> USE StoreNumbers DEF Init
  <1>1. IdleTask \in TaskRecord
    BY DEF IdleTask, TaskRecord, Steps, Operations
  <1>2. task \in [Tasks -> TaskRecord] /\ \A t \in Tasks : task[t] = IdleTask
    BY <1>1
  <1>0. plan.others \subseteq Values
    BY PlansAssumption
  <1>3. /\ remote \in [st : RemoteStates, val : Values \cup {NoValue}]
        /\ remote.st = "held" => remote.val \in Values
        /\ remote.st \in {"held", "absent"}
    BY <1>0 DEF Absent, Held, RemoteStates
  <1>4. gone \in [Values -> 0..GoneCap] /\ (remote.st = "held" => gone[remote.val] = 0)
    BY <1>3
  <1>5. cache \in [val : Values \cup {NoValue}, left : 0..SecretsTTL] /\ cache.left = 0
    BY DEF Uncached
  <1>6. StoreTypeOK /\ RemoteIsCurrent /\ CacheIsRecent
    BY <1>2, <1>3, <1>4, <1>5 DEF StoreTypeOK, RemoteIsCurrent, CacheIsRecent
  <1>7. \A t \in Tasks : /\ task[t].pc = "idle" /\ task[t].op = "load"
                        /\ task[t].val = NoValue /\ task[t].tries = 0
    BY <1>2 DEF IdleTask
  <1>8. 0 < RECOVERY_ATTEMPTS
    OBVIOUS
  <1> HIDE DEF Init
  <1> HIDE StoreNumbers
  <1>9. ASSUME NEW t \in Tasks PROVE Sound(t) /\ Settled(t) /\ Answered(t)
    BY <1>7, <1>8 DEF Sound, Settled, Answered
  <1> QED BY <1>6, <1>9 DEF StoreInv

LEMMA LoadsInv ==
    ASSUME StoreInv, NEW t \in Tasks,
           AwsLoad(t) \/ GcpLoad(t) \/ AzureLoad(t) \/ VaultLoad(t) \/ MemoryLoad(t)
    PROVE  StoreInv'
  <1>1. /\ task[t].pc = "call" /\ task[t].op = "load" /\ SameService /\ UNCHANGED <<plan, cache>>
        /\ Found(t, "insert") \/ Found(t, "keep") \/ NotFound(t) \/ Fail(t)
    BY DEF AwsLoad, GcpLoad, AzureLoad, VaultLoad, MemoryLoad, Calling, Frame
  <1>2. CASE Found(t, "insert") \/ Found(t, "keep")
    BY <1>1, <1>2, FoundInv
  <1>3. CASE NotFound(t)
    BY <1>1, <1>3, SettleInv, SameServes DEF NotFound
  <1>4. CASE Fail(t)
    BY <1>1, <1>4, SettleInv, SameServes DEF Fail
  <1> QED BY <1>1, <1>2, <1>3, <1>4

LEMMA ReachableInv ==
    ASSUME StoreInv, NEW t \in Tasks,
           \/ AwsReachable(t) \/ GcpReachable(t) \/ AzureReachable(t)
           \/ VaultReachable(t) \/ MemoryReachable(t)
    PROVE  StoreInv'
  <1>1. /\ task[t].pc = "call" /\ task[t].op = "reachable" /\ SameService
        /\ UNCHANGED <<plan, cache>> /\ Settle(t, "ok", "keep")
    BY DEF AwsReachable, GcpReachable, AzureReachable, VaultReachable, MemoryReachable,
           Answers, Calling, Frame
  <1> QED BY <1>1, SettleInv, SameServes DEF Writes

LEMMA AwsInv ==
    ASSUME StoreInv, NEW t \in Tasks,
           AwsDescribe(t) \/ AwsCreate(t) \/ AwsUpdate(t) \/ AwsDelete(t)
    PROVE  StoreInv'
  <1>0. Sound(t)
    BY DEF StoreInv
  <1>1. CASE AwsDescribe(t)
    BY <1>1, GoesOnInv, SettleInv, SameServes DEF AwsDescribe, Calling, Frame, Writes
  <1>2. CASE AwsCreate(t)
    BY <1>0, <1>2, WrittenInv, SettleInv, SameServes
       DEF AwsCreate, AtStep, Frame, Sound, Fail
  <1>3. CASE AwsUpdate(t)
    BY <1>3, WrittenInv, SettleInv, SameServes DEF AwsUpdate, Calling, Frame, Fail, Stored
  <1>4. CASE AwsDelete(t)
    BY <1>4, DeletedServes, SettleInv, SameServes DEF AwsDelete, Calling, Frame, Fail, Writes
  <1> QED BY <1>1, <1>2, <1>3, <1>4

LEMMA GcpInv ==
    ASSUME StoreInv, NEW t \in Tasks,
           GcpAddVersion(t) \/ GcpCreate(t) \/ GcpAddAgain(t) \/ GcpDelete(t)
    PROVE  StoreInv'
  <1>0. Sound(t)
    BY DEF StoreInv
  <1>1. CASE GcpAddVersion(t)
    BY <1>1, GoesOnInv, WrittenInv, SameServes DEF GcpAddVersion, Calling, Frame, Stored
  <1>2. CASE GcpCreate(t)
    <2>1. Serves
      BY <1>2, AbsentServes, SameServes DEF GcpCreate
    <2> QED BY <1>0, <1>2, <2>1, GoesOnInv DEF GcpCreate, AtStep, Frame, Sound
  <1>3. CASE GcpAddAgain(t)
    BY <1>0, <1>3, WrittenInv, SettleInv, SameServes
       DEF GcpAddAgain, AtStep, Frame, Sound, Fail, Stored
  <1>4. CASE GcpDelete(t)
    BY <1>4, AbsentServes, SettleInv DEF GcpDelete, Calling, Frame, Absent, Writes
  <1> QED BY <1>1, <1>2, <1>3, <1>4

LEMMA VaultMemoryInv ==
    ASSUME StoreInv, NEW t \in Tasks,
           VaultStore(t) \/ MemoryStore(t) \/ VaultDelete(t) \/ MemoryDelete(t)
    PROVE  StoreInv'
  <1>1. CASE VaultStore(t)
    BY <1>1, WrittenInv DEF VaultStore, Calling, Frame, Stored
  <1>2. CASE MemoryStore(t)
    BY <1>2, WrittenInv DEF MemoryStore, Calling, Frame
  <1>3. CASE VaultDelete(t)
    BY <1>3, AbsentServes, SettleInv DEF VaultDelete, Calling, Frame, Absent, Writes
  <1>4. CASE MemoryDelete(t)
    BY <1>4, AbsentServes, SettleInv DEF MemoryDelete, Calling, Frame, Absent, Writes
  <1> QED BY <1>1, <1>2, <1>3, <1>4

LEMMA AzureInv ==
    ASSUME StoreInv, NEW t \in Tasks,
           \/ AzureSet(t) \/ AzureRecover(t) \/ AzurePoll(t)
           \/ AzureDelete(t) \/ AzurePurge(t)
    PROVE  StoreInv'
  <1>0. /\ Sound(t) /\ task \in [Tasks -> TaskRecord]
        /\ remote.st \in {"held", "deleted"} => remote.val \in Values
    BY DEF StoreInv, StoreTypeOK, RemoteIsCurrent
  <1>1. CASE AzureSet(t)
    BY <1>1, GoesOnInv, WrittenInv, SameServes DEF AzureSet, Calling, Frame, Stored
  <1>2. CASE AzureRecover(t)
    BY <1>0, <1>2, GoesOnInv, SettleInv, SameServes, MarkedServes
       DEF AzureRecover, AtStep, Frame, Sound, Fail
  <1>3. CASE AzurePoll(t)
    <2>1. CASE /\ remote.st \in {"deleted", "recovering"}
               /\ task[t].tries + 1 # RECOVERY_ATTEMPTS
      <3>1. task[t].tries + 1 \in 0..RECOVERY_ATTEMPTS /\ task[t].tries + 1 < RECOVERY_ATTEMPTS
        BY <1>0, <2>1, StoreNumbers DEF Sound, TaskRecord
      <3>2. /\ Others(t)
            /\ task'[t].tries = task[t].tries + 1 /\ task'[t].pc = task[t].pc
            /\ task'[t].op = task[t].op /\ task'[t].val = task[t].val
        BY <1>0, <1>3, <2>1, <3>1 DEF AzurePoll, TaskRecord, Others
      <3>3. Sound(t)' /\ Settled(t)' /\ Answered(t)'
        BY <1>0, <1>3, <3>1, <3>2 DEF AzurePoll, AtStep, Sound, Settled, Answered
      <3>4. Serves /\ UNCHANGED <<plan, cache>>
        BY <1>3, <2>1, SameServes DEF AzurePoll, Frame
      <3> QED BY <3>2, <3>3, <3>4, OneTaskMoves
    <2>2. CASE /\ remote.st \in {"deleted", "recovering"}
               /\ task[t].tries + 1 = RECOVERY_ATTEMPTS
      BY <1>3, <2>2, SettleInv, SameServes DEF AzurePoll, AtStep, Frame, Fail
    <2>3. CASE remote.st \notin {"deleted", "recovering"}
      BY <1>0, <1>3, <2>3, WrittenInv DEF AzurePoll, AtStep, Frame, Stored, Sound
    <2> QED BY <2>1, <2>2, <2>3
  <1>4. CASE AzureDelete(t)
    BY <1>4, DeletedServes, SameServes, GoesOnInv, SettleInv
       DEF AzureDelete, Calling, To, Fail, Writes
  <1>5. CASE AzurePurge(t)
    <2>1. Serves
      BY <1>5, AbsentServes, SameServes DEF AzurePurge, Absent
    <2> QED BY <1>0, <1>5, <2>1, SettleInv DEF AzurePurge, AtStep, Frame, Sound, Writes
  <1> QED BY <1>1, <1>2, <1>3, <1>4, <1>5

(* Whatever a call left behind is a state of the service like any other. *)
LEMMA AftermathServes ==
    ASSUME StoreInv, NEW t \in Tasks, NEW r \in Aftermath(t), SetRemote(r)
    PROVE  Serves
  <1>0. /\ Sound(t) /\ remote \in [st : RemoteStates, val : Values \cup {NoValue}]
        /\ remote.st \in {"held", "deleted", "recovering", "scheduled"} => remote.val \in Values
    BY DEF StoreInv, StoreTypeOK, RemoteIsCurrent
  <1>2. ASSUME r = remote PROVE Serves
    BY <1>0, <1>2, SetServes
  <1>3. ASSUME r = Held(task[t].val) /\ WriteLands(t) PROVE Serves
    BY <1>0, <1>3, HeldServes DEF WriteLands, Sound
  <1>4. ASSUME r = DeletedRemote /\ remote.st = "held" PROVE Serves
    BY <1>4, DeletedServes
  <1>5. ASSUME r = [st |-> "empty", val |-> NoValue] \/ r = Absent PROVE Serves
    BY <1>5, AbsentServes DEF Absent
  <1>6. ASSUME r = [remote EXCEPT !.st = "recovering"] /\ remote.st = "deleted" PROVE Serves
    BY <1>0, <1>6, MarkedServes
  <1> QED BY <1>2, <1>3, <1>4, <1>5, <1>6 DEF Aftermath

LEMMA CallFailsInv ==
    ASSUME StoreInv, NEW t \in Tasks, CallFails(t)
    PROVE  StoreInv'
  <1>1. Serves
    BY AftermathServes DEF CallFails
  <1> QED BY <1>1, SettleInv DEF CallFails, Frame, Fail

LEMMA BeginsInv ==
    ASSUME StoreInv, NEW t \in Tasks, Begin(t) \/ LoadHit(t) \/ LoadMiss(t)
    PROVE  StoreInv'
  <1>0. /\ Sound(t) /\ task \in [Tasks -> TaskRecord]
        /\ cache.left > 0 => cache.val \in Values /\ gone[cache.val] \in Nat
                             /\ gone[cache.val] <= SecretsTTL + MaxLatency
        /\ FirstStep \in {"auth", "call"} /\ FirstStep \in Steps
        /\ "load" \in Operations /\ "done" \in Steps
        /\ task[t].pc = "idle"
    <2>1. Sound(t) /\ task \in [Tasks -> TaskRecord]
      BY DEF StoreInv, StoreTypeOK
    <2>2. cache.left > 0 => cache.val \in Values /\ gone[cache.val] \in Nat
                             /\ gone[cache.val] <= SecretsTTL + MaxLatency
      BY StoreNumbers DEF StoreInv, StoreTypeOK, CacheIsRecent
    <2>3. /\ FirstStep \in {"auth", "call"} /\ FirstStep \in Steps
          /\ "load" \in Operations /\ "done" \in Steps
      BY DEF FirstStep, Steps, Operations
    <2>4. task[t].pc = "idle"
      BY DEF Begin, LoadHit, LoadMiss
    <2> QED BY <2>1, <2>2, <2>3, <2>4
  <1>1. Serves /\ UNCHANGED <<plan, cache>>
    BY SameServes DEF Begin, LoadHit, LoadMiss
  <1>2. CASE Begin(t)
    <2>1. PICK op \in plan.ops \ {"load"}, v \in Values :
             task' = [task EXCEPT ![t].pc = FirstStep, ![t].op = op,
                                  ![t].val = IF op \in {"store", "update"} THEN v ELSE NoValue]
      BY <1>2 DEF Begin
    <2>2. op \in Operations
      BY PlanFields DEF StoreInv, StoreTypeOK
    <2>3. PICK w \in Values \cup {NoValue} :
             /\ op \in {"store", "update"} => w \in Values
             /\ task' = [task EXCEPT ![t].pc = FirstStep, ![t].op = op, ![t].val = w]
      BY <2>1
    <2>4. /\ Others(t) /\ task'[t].pc = FirstStep /\ task'[t].op = op /\ task'[t].val = w
          /\ task'[t].tries = task[t].tries
      <3>1. task' \in [Tasks -> TaskRecord]
        BY <1>0, <2>2, <2>3, TypePcOpVal
      <3> QED BY <1>0, <2>3, <3>1 DEF Others, TaskRecord
    <2>5. Sound(t)' /\ Settled(t)' /\ Answered(t)'
      BY <1>0, <2>3, <2>4 DEF Sound, Settled, Answered
    <2> QED BY <1>1, <2>4, <2>5, OneTaskMoves
  <1>3. CASE LoadHit(t)
    <2>1. /\ Others(t) /\ task'[t].pc = "done" /\ task'[t].op = "load" /\ task'[t].val = cache.val
          /\ task'[t].tries = task[t].tries /\ cache.left > 0 /\ gone' = gone
      <3>1. task' = [task EXCEPT ![t].pc = "done", ![t].op = "load", ![t].val = cache.val]
            /\ cache.left > 0 /\ gone' = gone
        BY <1>3 DEF LoadHit, SameService
      <3>2. task' \in [Tasks -> TaskRecord]
        BY <1>0, <3>1, TypePcOpVal
      <3> QED BY <1>0, <3>1, <3>2 DEF Others, TaskRecord
    <2>2. Sound(t)' /\ Settled(t)' /\ Answered(t)'
      BY <1>0, <2>1 DEF Sound, Settled, Answered, Writes
    <2> QED BY <1>1, <2>1, <2>2, OneTaskMoves
  <1>4. CASE LoadMiss(t)
    <2>1. /\ Others(t) /\ task'[t].pc = FirstStep /\ task'[t].op = "load"
          /\ task'[t].val = task[t].val /\ task'[t].tries = task[t].tries
          /\ task[t].op = task[t].op
      <3>1. task' = [task EXCEPT ![t].pc = FirstStep, ![t].op = "load"]
        BY <1>4 DEF LoadMiss
      <3>2. task' \in [Tasks -> TaskRecord]
        BY <1>0, <3>1, TypePcOp
      <3> QED BY <1>0, <3>1, <3>2 DEF Others, TaskRecord
    <2>2. Sound(t)' /\ Settled(t)' /\ Answered(t)'
      BY <1>0, <2>1 DEF Sound, Settled, Answered
    <2> QED BY <1>1, <2>1, <2>2, OneTaskMoves
  <1> QED BY <1>2, <1>3, <1>4

LEMMA NoTaskMoves ==
    ASSUME StoreInv, UNCHANGED <<plan, cache, task>>, Serves
    PROVE  StoreInv'
  <1>1. CASE Tasks = {}
    <2>1. StoreTypeOK' /\ RemoteIsCurrent'
      BY DEF StoreInv, StoreTypeOK, Serves
    <2>2. CacheIsRecent'
      BY StoreNumbers DEF StoreInv, StoreTypeOK, CacheIsRecent, Serves
    <2> QED BY <1>1, <2>1, <2>2 DEF StoreInv
  <1>2. ASSUME NEW t \in Tasks PROVE StoreInv'
    <2>1. Others(t)
      BY DEF Others, StoreInv, StoreTypeOK
    <2>2. /\ kind' = kind /\ task[t].delay \in Nat /\ task[t].val \in Values \cup {NoValue}
          /\ \A v \in Values : gone[v] \in Nat /\ gone'[v] \in Nat /\ gone'[v] <= gone[v]
      BY StoreNumbers DEF kind, StoreInv, StoreTypeOK, TaskRecord, Serves
    <2>3. Sound(t) /\ Settled(t) /\ Answered(t)
      BY DEF StoreInv
    <2>4. Sound(t)' /\ Settled(t)' /\ Answered(t)'
      BY <2>2, <2>3, StoreNumbers DEF Sound, Settled, Answered, Writes
    <2> QED BY <2>1, <2>4, OneTaskMoves
  <1> QED BY <1>1, <1>2

LEMMA AuthenticateInv ==
    ASSUME StoreInv, NEW t \in Tasks, Authenticate(t)
    PROVE  StoreInv'
  <1>1. UNCHANGED <<plan, cache>> /\ Serves /\ task[t].pc = "auth"
    BY SameServes DEF Authenticate
  <1>2. UNCHANGED task \/ Fail(t) \/ To(t, "call")
    BY DEF Authenticate
  <1>3. CASE UNCHANGED task
    BY <1>1, <1>3, NoTaskMoves
  <1>4. CASE Fail(t)
    BY <1>1, <1>4, SettleInv DEF Fail
  <1>5. CASE To(t, "call")
    BY <1>1, <1>5, GoesOnInv
  <1> QED BY <1>2, <1>3, <1>4, <1>5

LEMMA ServiceInv ==
    ASSUME StoreInv, ElsewhereStores \/ ElsewhereDeletes \/ ServiceSettles
    PROVE  StoreInv'
  <1>1. UNCHANGED <<plan, cache, task>>
    BY DEF ElsewhereStores, ElsewhereDeletes, ServiceSettles, Frame
  <1>2. ASSUME ElsewhereStores PROVE Serves
    <2>1. plan.others \subseteq Values
      BY PlansAssumption DEF StoreInv, StoreTypeOK
    <2> QED BY <1>2, <2>1, HeldServes DEF ElsewhereStores
  <1>3. ASSUME ElsewhereDeletes PROVE Serves
    BY <1>3, DeletedServes DEF ElsewhereDeletes
  <1>4. ASSUME ServiceSettles PROVE Serves
    BY <1>4, HeldServes, AbsentServes DEF ServiceSettles, Absent, StoreInv, RemoteIsCurrent
  <1> QED BY <1>1, <1>2, <1>3, <1>4, NoTaskMoves

LEMMA UpdateCacheInv ==
    ASSUME StoreInv, NEW t \in Tasks, UpdateCache(t)
    PROVE  StoreInv'
  <1> USE StoreNumbers
  <1>1. /\ task \in [Tasks -> TaskRecord] /\ Sound(t) /\ Settled(t)
        /\ task[t].pc = "cache" /\ task[t].delay \in 0..MaxLatency
        /\ task[t].val \in Values \cup {NoValue}
        /\ \A v \in Values : gone[v] \in Nat
    BY DEF StoreInv, StoreTypeOK, TaskRecord, UpdateCache, AtStep
  <1>2. /\ Others(t) /\ task'[t].pc = "done" /\ task'[t].op = task[t].op
        /\ task'[t].val = task[t].val /\ task'[t].tries = task[t].tries
        /\ task'[t].answer = task[t].answer
    <2>1. To(t, "done") /\ "done" \in Steps
      BY DEF UpdateCache, Steps
    <2> QED BY <1>1, <2>1, ToTurns
  <1>3. UNCHANGED <<plan, gone, remote>> /\ kind' = kind
    BY DEF UpdateCache, SameService, kind
  <1>4. Sound(t)' /\ Settled(t)' /\ Answered(t)'
    BY <1>1, <1>2, <1>3 DEF Sound, Settled, Answered, Writes
  <1>5. CASE cache' = cache \/ cache' = Uncached
    BY <1>2, <1>3, <1>4, <1>5, SameServes, OneTaskMoves DEF SameService
  <1>6. CASE /\ task[t].effect = "insert" /\ SecretsTTL # 0
             /\ cache' = [val |-> task[t].val, left |-> SecretsTTL]
    <2>1. task[t].val \in Values /\ gone[task[t].val] <= task[t].delay
      BY <1>1, <1>6 DEF Settled
    <2>2. cache' \in [val : Values \cup {NoValue}, left : 0..SecretsTTL] /\ CacheIsRecent'
      BY <1>1, <1>3, <1>6, <2>1 DEF CacheIsRecent
    <2>3. StoreTypeOK' /\ RemoteIsCurrent'
      BY <1>2, <1>3, <2>2 DEF StoreInv, StoreTypeOK, RemoteIsCurrent, Others
    <2>4. ASSUME NEW u \in Tasks, u # t
          PROVE  Sound(u)' /\ Settled(u)' /\ Answered(u)'
      <3>1. task'[u] = task[u] /\ Sound(u) /\ Settled(u) /\ Answered(u)
        BY <1>2, <2>4 DEF Others, StoreInv
      <3> QED BY <1>3, <3>1 DEF Sound, Settled, Answered, Writes
    <2> QED BY <1>4, <2>2, <2>3, <2>4 DEF StoreInv
  <1>7. task[t].effect \in {"keep", "insert", "invalidate"}
    BY <1>1 DEF TaskRecord
  <1> QED BY <1>5, <1>6, <1>7 DEF UpdateCache, Insert

LEMMA IdleAgain ==
    ASSUME StoreInv, NEW t \in Tasks, task' = [task EXCEPT ![t] = IdleTask], Serves,
           UNCHANGED <<plan, cache>>
    PROVE  StoreInv'
  <1>1. IdleTask \in TaskRecord
    BY StoreNumbers DEF IdleTask, TaskRecord, Steps, Operations
  <1>2. Others(t) /\ task'[t] = IdleTask
    BY <1>1 DEF Others, StoreInv, StoreTypeOK
  <1>3. /\ task'[t].pc = "idle" /\ task'[t].op = "load" /\ task'[t].val = NoValue
        /\ task'[t].tries = 0
    BY <1>2 DEF IdleTask
  <1>4. 0 < RECOVERY_ATTEMPTS
    BY StoreNumbers
  <1>5. Sound(t)' /\ Settled(t)' /\ Answered(t)'
    BY <1>3, <1>4 DEF Sound, Settled, Answered
  <1> QED BY <1>2, <1>5, OneTaskMoves

LEMMA ReturnInv ==
    ASSUME StoreInv, NEW t \in Tasks, Return(t)
    PROVE  StoreInv'
  BY SameServes, IdleAgain DEF Return, Frame

LEMMA DroppedInv ==
    ASSUME StoreInv, NEW t \in Tasks, Dropped(t)
    PROVE  StoreInv'
  <1>1. Serves
    BY SameServes, AftermathServes DEF Dropped
  <1> QED BY <1>1, IdleAgain DEF Dropped

LEMMA TickInv ==
    ASSUME StoreInv, Tick
    PROVE  StoreInv'
  <1> USE StoreNumbers
  <1>1. /\ plan' = plan /\ remote' = remote /\ kind' = kind
        /\ \A v \in Values : gone[v] \in 0..GoneCap
    BY DEF Tick, kind, StoreInv, StoreTypeOK
  <1>2. /\ gone' \in [Values -> 0..GoneCap]
        /\ \A v \in Values : gone'[v] \in Nat /\ gone'[v] <= gone[v] + 1
        /\ \A v \in Values : remote = Held(v) => gone'[v] = 0
    BY <1>1 DEF Tick, More
  <1>3. RemoteIsCurrent'
    <2>1. remote.st = "held" => remote = Held(remote.val)
      BY DEF StoreInv, StoreTypeOK, Held
    <2> QED BY <1>1, <1>2, <2>1 DEF StoreInv, RemoteIsCurrent
  <1>4. cache' \in [val : Values \cup {NoValue}, left : 0..SecretsTTL] /\ CacheIsRecent'
    <2>1. cache \in [val : Values \cup {NoValue}, left : 0..SecretsTTL]
      BY DEF StoreInv, StoreTypeOK
    <2>2. CASE cache.left > 1
      <3>1. cache' = [cache EXCEPT !.left = cache.left - 1]
        BY <2>2 DEF Tick
      <3>2. cache'.val = cache.val /\ cache'.left = cache.left - 1
            /\ cache' \in [val : Values \cup {NoValue}, left : 0..SecretsTTL]
        BY <2>1, <2>2, <3>1
      <3>3. cache.val \in Values /\ gone[cache.val] <= SecretsTTL - cache.left + MaxLatency
        BY <2>1, <2>2 DEF StoreInv, CacheIsRecent
      <3> QED BY <1>1, <1>2, <2>1, <3>2, <3>3 DEF CacheIsRecent
    <2>3. CASE ~(cache.left > 1)
      BY <2>3 DEF Tick, Uncached, CacheIsRecent
    <2> QED BY <2>2, <2>3
  <1>5. ASSUME NEW t \in Tasks
        PROVE  /\ task'[t] \in TaskRecord
               /\ task'[t].pc = task[t].pc /\ task[t].pc # "done" /\ task'[t].op = task[t].op
               /\ task'[t].val = task[t].val /\ task'[t].tries = task[t].tries
               /\ task'[t].effect = task[t].effect /\ task'[t].answer = task[t].answer
               /\ task[t].pc = "cache" => task'[t].delay = task[t].delay + 1
               /\ task[t].delay \in Nat /\ task[t].val \in Values \cup {NoValue}
    <2>1. task[t] \in TaskRecord
      BY DEF StoreInv, StoreTypeOK
    <2>2. CASE task[t].pc = "cache"
      <3>1. task'[t] = [task[t] EXCEPT !.delay = task[t].delay + 1] /\ task[t].delay < MaxLatency
        BY <2>2 DEF Tick
      <3> QED BY <2>1, <2>2, <3>1 DEF TaskRecord
    <2>3. CASE task[t].pc # "cache"
      <3>1. task'[t] = task[t] /\ task[t].pc # "done"
        BY <2>3 DEF Tick
      <3> QED BY <2>1, <2>3, <3>1 DEF TaskRecord
    <2> QED BY <2>2, <2>3
  <1>6. task' \in [Tasks -> TaskRecord]
    BY <1>5 DEF Tick
  <1>7. StoreTypeOK'
    BY <1>1, <1>2, <1>4, <1>6 DEF StoreInv, StoreTypeOK
  <1>8. ASSUME NEW t \in Tasks
        PROVE  Sound(t)' /\ Settled(t)' /\ Answered(t)'
    <2>1. Sound(t) /\ Settled(t)
      BY DEF StoreInv
    <2>2. Sound(t)'
      BY <1>5, <2>1 DEF Sound
    <2>3. Settled(t)' /\ Answered(t)'
      BY <1>1, <1>2, <1>5, <2>1 DEF Sound, Settled, Answered, Writes
    <2> QED BY <2>2, <2>3
  <1> QED BY <1>3, <1>4, <1>7, <1>8 DEF StoreInv

LEMMA StoreInvariant == Spec => []StoreInv
  <1>1. StoreInv /\ [Next]_vars => StoreInv'
    <2> SUFFICES ASSUME StoreInv, [Next]_vars PROVE StoreInv'
      OBVIOUS
    <2>1. CASE UNCHANGED vars
      <3>1. UNCHANGED <<plan, cache, task>> /\ SameService
        BY <2>1 DEF vars, storeVars, SameService
      <3> QED BY <3>1, SameServes, NoTaskMoves
    <2>2. ASSUME NEW t \in Tasks, TaskStep(t)
          PROVE  StoreInv'
      BY <2>2, LoadsInv, ReachableInv, AwsInv, GcpInv, VaultMemoryInv, AzureInv, CallFailsInv,
         AuthenticateInv, UpdateCacheInv, ReturnInv, DroppedInv DEF TaskStep
    <2> QED BY <2>1, <2>2, BeginsInv, ServiceInv, TickInv DEF Next
  <1> QED BY <1>1, StoreInitInv, PTL DEF Spec

-----------------------------------------------------------------------------
(* The theorems *)

(* Every request, every backend and the token manager stay within their     *)
(* types.                                                                   *)
THEOREM TypeCorrect == Spec => []TypeOK
  <1>1. VaultInv /\ StoreInv => TypeOK
    BY StoreNumbers DEF VaultInv, StoreInv, StoreTypeOK, CacheIsRecent, TypeOK, TaskRecord
  <1> QED BY <1>1, VaultInvariant, StoreInvariant, PTL

(* A load answers with nothing older than a cache TTL and a latency, at     *)
(* every backend (CachingStorage in front of the adapters).                 *)
THEOREM LoadsAreRecent == Spec => []LoadIsRecent
  <1>1. StoreInv => LoadIsRecent
    BY DEF StoreInv, Answered, LoadIsRecent
  <1> QED BY <1>1, StoreInvariant, PTL

(* An acknowledged store was at the service within the last latency,        *)
(* whichever calls of the adapter it took.                                  *)
THEOREM AcksAreTaken == Spec => []AckMeansTaken
  <1>1. StoreInv => AckMeansTaken
    BY DEF StoreInv, Answered, AckMeansTaken, Writes
  <1> QED BY <1>1, StoreInvariant, PTL
=============================================================================
