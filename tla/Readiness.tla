----------------------------- MODULE Readiness -----------------------------
(***************************************************************************)
(* The readiness probe (server/health.rs): every check runs concurrently,  *)
(* each under a timeout, and the report is kept for a moment.  One mutex   *)
(* guards the kept report and is held while the checks run, so that probes *)
(* which arrive meanwhile wait and then find the report.                   *)
(*                                                                         *)
(* A probe whose client goes away is dropped, and its checks with it.      *)
(***************************************************************************)
EXTENDS Integers, FiniteSets

CONSTANTS
    Probes,
    CHECK_TIMEOUT,        \* in ticks, as the next one
    READINESS_CACHE_TTL,
    NoProbe

ASSUME ReadinessAssumption ==
    /\ CHECK_TIMEOUT \in Nat \ {0}
    /\ READINESS_CACHE_TTL \in Nat \ {0}
    /\ NoProbe \notin Probes

(* DbCheck pings the current pool; CertStoreCheck asks the secret backend, *)
(* FilesystemCertCheck opens the files.                                    *)
Checks == {"database", "cert_store"}

VARIABLES
    cached,   \* the report kept, and its age
    lock,     \* the probe that holds the mutex
    check,    \* the checks that probe has spawned
    probe,
    service,  \* how each dependency behaves
    away      \* for how many ticks it has not been answering

readinessVars == <<cached, lock, check, probe, service, away>>

AwayCap == CHECK_TIMEOUT + READINESS_CACHE_TTL + 1

NoCheck == [st |-> "none", elapsed |-> 0]

ReadinessTypeOK ==
    /\ cached \in [report : {"none", "READY", "NOT_READY"}, age : 0..READINESS_CACHE_TTL]
    /\ lock \in Probes \cup {NoProbe}
    /\ check \in [Checks -> [st : {"none", "running", "ok", "failed"},
                             elapsed : 0..CHECK_TIMEOUT]]
    /\ probe \in [Probes -> {"idle", "waiting", "checking", "READY", "NOT_READY"}]
    /\ service \in [Checks -> {"up", "down", "hung"}]
    /\ away \in [Checks -> 0..AwayCap]

NoReport == [report |-> "none", age |-> 0]

ReadinessInit ==
    /\ cached = NoReport
    /\ lock = NoProbe
    /\ check = [k \in Checks |-> NoCheck]
    /\ probe = [p \in Probes |-> "idle"]
    /\ service = [k \in Checks |-> "up"]
    /\ away = [k \in Checks |-> 0]

-----------------------------------------------------------------------------
(* Readiness::run *)

ProbeArrives(p) ==
    /\ probe[p] = "idle"
    /\ probe' = [probe EXCEPT ![p] = "waiting"]
    /\ UNCHANGED <<cached, lock, check, service, away>>

Fresh == cached.report # "none" /\ cached.age < READINESS_CACHE_TTL

CachedReport_renewed(p) ==
    /\ probe[p] = "waiting" /\ lock = NoProbe
    /\ Fresh
    /\ probe' = [probe EXCEPT ![p] = cached.report]
    /\ cached' = [cached EXCEPT !.age = 0]
    /\ UNCHANGED <<lock, check, service, away>>

CachedReport(p) ==
    /\ probe[p] = "waiting" /\ lock = NoProbe
    /\ Fresh
    /\ probe' = [probe EXCEPT ![p] = cached.report]
    /\ UNCHANGED <<cached, lock, check, service, away>>

SpawnChecks(p) ==
    /\ probe[p] = "waiting" /\ lock = NoProbe
    /\ ~Fresh
    /\ lock' = p
    /\ probe' = [probe EXCEPT ![p] = "checking"]
    /\ check' = [k \in Checks |-> [st |-> "running", elapsed |-> 0]]
    /\ UNCHANGED <<cached, service, away>>

CheckAnswers(k) ==
    /\ check[k].st = "running"
    /\ \/ /\ service[k] = "up"
          /\ check' = [check EXCEPT ![k].st = "ok"]
       \/ /\ service[k] = "down"
          /\ check' = [check EXCEPT ![k].st = "failed"]
    /\ UNCHANGED <<cached, lock, probe, service, away>>

Expired(k) == check[k].st = "running" /\ check[k].elapsed = CHECK_TIMEOUT

CheckTimesOut(k) ==
    /\ Expired(k)
    /\ check' = [check EXCEPT ![k].st = "failed"]
    /\ UNCHANGED <<cached, lock, probe, service, away>>

Outcome == IF \A k \in Checks : check[k].st = "ok" THEN "READY" ELSE "NOT_READY"

AllJoined == \A k \in Checks : check[k].st \in {"ok", "failed"}

(* The age counts from the end of the checks. *)
JoinChecks(p) ==
    /\ probe[p] = "checking"
    /\ AllJoined
    /\ cached' = [report |-> Outcome, age |-> 0]
    /\ probe' = [probe EXCEPT ![p] = Outcome]
    /\ lock' = NoProbe
    /\ check' = [k \in Checks |-> NoCheck]
    /\ UNCHANGED <<service, away>>

ProbeAnswered(p) ==
    /\ probe[p] \in {"READY", "NOT_READY"}
    /\ probe' = [probe EXCEPT ![p] = "idle"]
    /\ UNCHANGED <<cached, lock, check, service, away>>

ProbeDropped_locked(p) ==
    /\ probe[p] \in {"waiting", "checking"}
    /\ probe' = [probe EXCEPT ![p] = "idle"]
    /\ check' = IF lock = p THEN [k \in Checks |-> NoCheck] ELSE check
    /\ UNCHANGED <<cached, lock, service, away>>

(* The guard and the JoinSet are dropped with the handler. *)
ProbeDropped(p) ==
    /\ probe[p] \in {"waiting", "checking"}
    /\ probe' = [probe EXCEPT ![p] = "idle"]
    /\ lock' = IF lock = p THEN NoProbe ELSE lock
    /\ check' = IF lock = p THEN [k \in Checks |-> NoCheck] ELSE check
    /\ UNCHANGED <<cached, service, away>>

-----------------------------------------------------------------------------
(* The dependencies and time *)

ServiceChanges(k) ==
    /\ \E s \in {"up", "down", "hung"} \ {service[k]} :
        /\ service' = [service EXCEPT ![k] = s]
        /\ away' = [away EXCEPT ![k] = IF s = "up" THEN 0 ELSE @]
    /\ UNCHANGED <<cached, lock, check, probe>>

Older(n, cap) == IF n < cap THEN n + 1 ELSE n

(* Timers fire and answers are collected as soon as they can be. *)
Punctual ==
    /\ \A k \in Checks : ~Expired(k)
    /\ \A p \in Probes : /\ probe[p] \notin {"READY", "NOT_READY"}
                         /\ probe[p] = "checking" => ~AllJoined

ReadinessTick ==
    /\ Punctual
    /\ cached' = [cached EXCEPT !.age = IF cached.report = "none" THEN 0
                                        ELSE Older(@, READINESS_CACHE_TTL)]
    /\ check' = [k \in Checks |-> IF check[k].st = "running"
                                  THEN [check[k] EXCEPT !.elapsed = @ + 1] ELSE check[k]]
    /\ away' = [k \in Checks |-> IF service[k] = "up" THEN 0 ELSE Older(away[k], AwayCap)]
    /\ UNCHANGED <<lock, probe, service>>

(* The process is gone, and what it kept. *)
ReadinessReset ==
    /\ cached' = NoReport
    /\ lock' = NoProbe
    /\ check' = [k \in Checks |-> NoCheck]
    /\ probe' = [p \in Probes |-> "idle"]
    /\ UNCHANGED <<service, away>>

-----------------------------------------------------------------------------
(* Properties *)

(* A probe is told READY only when each dependency has answered within the *)
(* last CHECK_TIMEOUT + READINESS_CACHE_TTL, whatever other probes hold    *)
(* the lock, are dropped with their checks, or fill the cache.             *)
ReadyIsFresh ==
    \A p \in Probes, k \in Checks :
        probe[p] = "READY" => away[k] < CHECK_TIMEOUT + READINESS_CACHE_TTL

=============================================================================
