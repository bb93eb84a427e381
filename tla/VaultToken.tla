----------------------------- MODULE VaultToken -----------------------------
(***************************************************************************)
(* The TokenManager of the Vault client (outbound/vault.rs): one client    *)
(* token shared by every task of a process, renewed or replaced by the     *)
(* first task that finds 80% of its lease gone.                            *)
(*                                                                         *)
(* Token, issued_at, lease_duration and renewable sit behind a lock each   *)
(* and are written one after the other, while the fast path of ensure_valid*)
(* reads two of them, one after the other, and takes the third when it has *)
(* decided.  A request may be dropped at any await between two of these    *)
(* steps: a readiness check runs under a timeout, a client goes away.      *)
(* Time is kept as ages: how long ago issued_at was, how long Vault still  *)
(* accepts the token, how long ago the last failure was.                   *)
(***************************************************************************)
EXTENDS Integers

CONSTANTS
    Tasks,              \* requests in flight in this process
    Leases,             \* lease_duration values Vault answers; 0 never expires
    MaxLease,           \* the longest of them; no age counts further
    FAILURE_COOLDOWN,   \* as in the code
    MaxLatency,         \* ticks a task may lose between two of its steps
    NoTask

ASSUME LeasesAssumption ==
    /\ MaxLease \in Nat \ {0}
    /\ Leases \subseteq 0..MaxLease
    /\ MaxLease \in Leases

ASSUME WaitsAssumption ==
    /\ FAILURE_COOLDOWN \in Nat
    /\ MaxLatency \in Nat

ASSUME NoTaskAssumption == NoTask \notin Tasks

(* What the margin relies on: the fifth of a lease it leaves covers the    *)
(* time an answer takes to be recorded and the time a token takes to be    *)
(* sent after it was found valid.                                          *)
ASSUME MarginAssumption == \A l \in Leases \ {0} : l >= 10 * MaxLatency

VARIABLES
    life,            \* ticks for which Vault accepts the token in `token`
    newLife,         \* the same for a token just granted and not yet written
    age,             \* issued_at.elapsed()
    lease_duration,
    renewable,
    renewal_lock,    \* the task holding it
    sinceFailure,    \* last_failure.elapsed(); FAILURE_COOLDOWN when there is none
    auth,            \* where each task is in ensure_valid
    torn             \* history: a renewal was dropped after issued_at and before
                     \* lease_duration, and left a lease longer than the token's

vaultVars == <<life, newLife, age, lease_duration, renewable, renewal_lock,
               sinceFailure, auth, torn>>

(* Vault accepts a token without lease for ever. *)
Never == MaxLease + 1

LifeOf(lease) == IF lease = 0 THEN Never ELSE lease

AuthSteps == {"none", "ttl", "lock", "recheck", "renew", "login", "renewed",
              "granted", "issued", "lease", "rest", "passed", "sent", "failed"}

(* Steps between which the clock of an answer or of a decision runs. *)
Timed == {"ttl", "renewed", "granted", "issued", "lease", "rest", "passed"}

NoAuth == [at |-> "none", elapsed |-> 0, delay |-> 0, lease |-> 0]

VaultTypeOK ==
    /\ life \in 0..Never
    /\ newLife \in 0..Never
    /\ age \in 0..MaxLease
    /\ lease_duration \in Leases
    /\ renewable \in 0..1
    /\ renewal_lock \in Tasks \cup {NoTask}
    /\ sinceFailure \in 0..FAILURE_COOLDOWN
    /\ auth \in [Tasks -> [at : AuthSteps, elapsed : 0..MaxLease,
                           delay : 0..MaxLatency, lease : Leases \cup {0}]]
    /\ torn \in 0..1

(* TokenManager::login, part of building the client. *)
VaultInit ==
    /\ lease_duration \in Leases
    /\ renewable \in 0..1
    /\ life = LifeOf(lease_duration)
    /\ newLife = 0
    /\ age = 0
    /\ renewal_lock = NoTask
    /\ sinceFailure = FAILURE_COOLDOWN
    /\ auth = [t \in Tasks |-> NoAuth]
    /\ torn = 0

At(t, step) == auth[t].at = step

Go(t, step) == auth' = [auth EXCEPT ![t].at = step]

GoTimed(t, step) == auth' = [auth EXCEPT ![t].at = step, ![t].delay = 0]

-----------------------------------------------------------------------------
(* ensure_valid *)

Safe_wholeLease(elapsed, ttl) == ttl = 0 \/ elapsed < ttl

(* RENEW_MARGIN: 80% of the lease. *)
Safe(elapsed, ttl) == ttl = 0 \/ 5 * elapsed < 4 * ttl

(* The fast path reads issued_at first ... *)
ReadIssuedAt(t) ==
    /\ At(t, "none")
    /\ auth' = [auth EXCEPT ![t].at = "ttl", ![t].elapsed = age, ![t].delay = 0]
    /\ UNCHANGED <<life, newLife, age, lease_duration, renewable, renewal_lock,
                   sinceFailure, torn>>

(* ... then lease_duration, which may be another token's by now. *)
FastPath(t) ==
    /\ At(t, "ttl")
    /\ IF Safe(auth[t].elapsed, lease_duration)
       THEN Go(t, "passed")
       ELSE auth' = [auth EXCEPT ![t].at = "lock", ![t].elapsed = 0, ![t].delay = 0]
    /\ UNCHANGED <<life, newLife, age, lease_duration, renewable, renewal_lock,
                   sinceFailure, torn>>

AcquireLock(t) ==
    /\ At(t, "lock")
    /\ renewal_lock = NoTask
    /\ renewal_lock' = t
    /\ Go(t, "recheck")
    /\ UNCHANGED <<life, newLife, age, lease_duration, renewable, sinceFailure, torn>>

(* Only the holder of the lock writes what is read here. *)
AlreadyRenewed(t) ==
    /\ At(t, "recheck")
    /\ Safe(age, lease_duration)
    /\ renewal_lock' = NoTask
    /\ GoTimed(t, "passed")
    /\ UNCHANGED <<life, newLife, age, lease_duration, renewable, sinceFailure, torn>>

InCooldown(t) ==
    /\ At(t, "recheck")
    /\ ~Safe(age, lease_duration)
    /\ sinceFailure < FAILURE_COOLDOWN
    /\ renewal_lock' = NoTask
    /\ Go(t, "failed")
    /\ UNCHANGED <<life, newLife, age, lease_duration, renewable, sinceFailure, torn>>

ChooseRenewal_unchecked(t) ==
    /\ At(t, "recheck")
    /\ sinceFailure >= FAILURE_COOLDOWN
    /\ Go(t, IF renewable = 1 THEN "renew" ELSE "login")
    /\ UNCHANGED <<life, newLife, age, lease_duration, renewable, renewal_lock,
                   sinceFailure, torn>>

ChooseRenewal(t) ==
    /\ At(t, "recheck")
    /\ ~Safe(age, lease_duration)
    /\ sinceFailure >= FAILURE_COOLDOWN
    /\ Go(t, IF renewable = 1 THEN "renew" ELSE "login")
    /\ UNCHANGED <<life, newLife, age, lease_duration, renewable, renewal_lock,
                   sinceFailure, torn>>

-----------------------------------------------------------------------------
(* try_renew, re_login and what Vault does with them *)

(* renew-self prolongs the token it was called with, if it still exists. *)
Prolonged(l) == life > 0 /\ life' = LifeOf(l)

RenewGranted(t) ==
    /\ At(t, "renew")
    /\ \E l \in Leases :
        /\ Prolonged(l)
        /\ auth' = [auth EXCEPT ![t].at = "renewed", ![t].lease = l, ![t].delay = 0]
    /\ UNCHANGED <<newLife, age, lease_duration, renewable, renewal_lock, sinceFailure, torn>>

(* Network, HTTP status or body, perhaps of an answer that granted it; the *)
(* code goes on to log in.                                                 *)
RenewFails(t) ==
    /\ At(t, "renew")
    /\ UNCHANGED life \/ \E l \in Leases : Prolonged(l)
    /\ Go(t, "login")
    /\ UNCHANGED <<newLife, age, lease_duration, renewable, renewal_lock,
                   sinceFailure, torn>>

(* AppRole or Kubernetes: a new token. *)
LoginGranted(t) ==
    /\ At(t, "login")
    /\ \E l \in Leases :
        /\ newLife' = LifeOf(l)
        /\ auth' = [auth EXCEPT ![t].at = "granted", ![t].lease = l, ![t].delay = 0]
    /\ UNCHANGED <<life, age, lease_duration, renewable, renewal_lock, sinceFailure, torn>>

(* An unreadable or empty service account token, network, 403, other status *)
(* or an unreadable body.                                                   *)
LoginFails(t) ==
    /\ At(t, "login")
    /\ sinceFailure' = 0
    /\ renewal_lock' = NoTask
    /\ Go(t, "failed")
    /\ UNCHANGED <<life, newLife, age, lease_duration, renewable, torn>>

(* The answer of renew-self carries the same token. *)
WriteToken(t) ==
    /\ \/ At(t, "renewed") /\ UNCHANGED <<life, newLife>>
       \/ At(t, "granted") /\ life' = newLife /\ newLife' = 0
    /\ Go(t, "issued")
    /\ UNCHANGED <<age, lease_duration, renewable, renewal_lock, sinceFailure, torn>>

WriteIssuedAt(t) ==
    /\ At(t, "issued")
    /\ age' = 0
    /\ GoTimed(t, "lease")
    /\ UNCHANGED <<life, newLife, lease_duration, renewable, renewal_lock, sinceFailure, torn>>

WriteLease(t) ==
    /\ At(t, "lease")
    /\ lease_duration' = auth[t].lease
    /\ torn' = 0
    /\ Go(t, "rest")
    /\ UNCHANGED <<life, newLife, age, renewable, renewal_lock, sinceFailure>>

(* renewable, last_failure = None, and the guard of the lock is dropped. *)
FinishRenewal(t) ==
    /\ At(t, "rest")
    /\ renewable' \in 0..1
    /\ sinceFailure' = FAILURE_COOLDOWN
    /\ renewal_lock' = NoTask
    /\ auth' = [auth EXCEPT ![t].at = "passed", ![t].lease = 0]
    /\ UNCHANGED <<life, newLife, age, lease_duration, torn>>

(* add_auth_headers takes the token when ensure_valid has returned. *)
CurrentToken(t) ==
    /\ At(t, "passed")
    /\ auth' = [auth EXCEPT ![t].at = "sent", ![t].elapsed = 0, ![t].delay = 0]
    /\ UNCHANGED <<life, newLife, age, lease_duration, renewable, renewal_lock,
                   sinceFailure, torn>>

(* A lease of l ends before one of m. *)
Shorter(l, m) == l # 0 /\ (m = 0 \/ l < m)

(* The future of ensure_valid is dropped at an await, and the guard of the *)
(* lock with it.  A call under way may still have taken effect at Vault,   *)
(* and what has been written of an answer stays.                           *)
DropAuth(t) ==
    /\ UNCHANGED life \/ (At(t, "renew") /\ \E l \in Leases : Prolonged(l))
    /\ newLife' = IF At(t, "granted") THEN 0 ELSE newLife
    /\ renewable' \in IF At(t, "rest") THEN 0..1 ELSE {renewable}
    /\ renewal_lock' = IF renewal_lock = t THEN NoTask ELSE renewal_lock
    /\ torn' = IF ~At(t, "lease") THEN torn
               ELSE IF Shorter(auth[t].lease, lease_duration) THEN 1 ELSE 0
    /\ auth' = [auth EXCEPT ![t] = NoAuth]
    /\ UNCHANGED <<age, lease_duration, sinceFailure>>

VaultStep(t) ==
    \/ FastPath(t)
    \/ AcquireLock(t)
    \/ AlreadyRenewed(t) \/ InCooldown(t) \/ ChooseRenewal(t)
    \/ RenewGranted(t) \/ RenewFails(t)
    \/ LoginGranted(t) \/ LoginFails(t)
    \/ WriteToken(t) \/ WriteIssuedAt(t) \/ WriteLease(t) \/ FinishRenewal(t)
    \/ CurrentToken(t)

-----------------------------------------------------------------------------
(* Time *)

Less(n) == IF n \in 1..MaxLease THEN n - 1 ELSE n

More(n, cap) == IF n < cap THEN n + 1 ELSE n

(* Latencies are bounded, waits for the lock and for Vault are not. *)
VaultTick ==
    /\ \A t \in Tasks : auth[t].at \in Timed => auth[t].delay < MaxLatency
    /\ life' = Less(life)
    /\ newLife' = Less(newLife)
    /\ age' = More(age, MaxLease)
    /\ sinceFailure' = More(sinceFailure, FAILURE_COOLDOWN)
    /\ auth' = [t \in Tasks |-> IF auth[t].at \in Timed
                                THEN [auth[t] EXCEPT !.delay = @ + 1] ELSE auth[t]]
    /\ UNCHANGED <<lease_duration, renewable, renewal_lock, torn>>

-----------------------------------------------------------------------------
(* Properties *)

(* Until it takes the token, a request that ensure_valid has passed has a  *)
(* token that Vault accepts, although the fast path reads issued_at and    *)
(* lease_duration apart from each other and apart from the token, and      *)
(* whatever renewals and logins are dropped or lose their answer half way: *)
(* the token is written first, and 20% of the lease is left for the        *)
(* latencies of the answer and the send.  Only a renewal dropped between   *)
(* issued_at and a shorter lease_duration breaks this, and the next one    *)
(* that is recorded repairs it.                                            *)
SendsLiveToken == torn = 0 => \A t \in Tasks : auth[t].at = "passed" => life > 0

(* What ensure_valid says of itself, "Ensure the current token is still    *)
(* valid, renewing or re-authenticating as needed": without the exception  *)
(* above it does not hold.                                                 *)
PassedMeansValid == \A t \in Tasks : auth[t].at = "passed" => life > 0

Granting(t) == auth[t].at \in {"renew", "login"} /\ auth'[t].at \in {"renewed", "granted"}

(* Traffic to Vault's auth endpoints does not pile up: a token is renewed   *)
(* or replaced only when 80% of the recorded lease is over, and a login     *)
(* fails only FAILURE_COOLDOWN after the last failure, also for tasks that  *)
(* already waited for renewal_lock while another one renewed, failed or was *)
(* dropped (ensure_valid).                                                  *)
NoStampede ==
    [][\A t \in Tasks :
         /\ Granting(t) => 5 * age >= 4 * lease_duration
         /\ auth[t].at = "login" /\ auth'[t].at = "failed" => sinceFailure >= FAILURE_COOLDOWN]_vaultVars

=============================================================================
