---------------------------- MODULE Server_proofs ----------------------------
(* Proofs about the modules that Server composes, for any number of         *)
(* replicas, probes, requests, issuers, keys and deployments.               *)
EXTENDS Server, TLAPS

-----------------------------------------------------------------------------
(* Readiness *)

(* The probe that holds the mutex is the one that checks, and the checks    *)
(* are its own.                                                             *)
LockIsOwned ==
    /\ \A p \in Probes : probe[p] = "checking" <=> lock = p
    /\ lock = NoProbe => \A k \in Checks : check[k].st = "none"
    /\ lock # NoProbe => \A k \in Checks : check[k].st # "none"

UpIsNotAway == \A k \in Checks : service[k] = "up" => away[k] = 0

(* An answer is not older than the longest check still running, and the     *)
(* whole round takes one CHECK_TIMEOUT.                                     *)
AnswersAreRecent ==
    \A k \in Checks : check[k].st = "ok" =>
        /\ away[k] <= CHECK_TIMEOUT
        /\ \A j \in Checks : check[j].st = "running" => away[k] <= check[j].elapsed

(* A report ages with what it reports. *)
ReportIsRecent ==
    cached.report = "READY" /\ cached.age < READINESS_CACHE_TTL =>
        \A k \in Checks : away[k] <= CHECK_TIMEOUT + cached.age

ReadinessInv ==
    /\ ReadinessTypeOK
    /\ LockIsOwned
    /\ UpIsNotAway
    /\ AnswersAreRecent
    /\ ReportIsRecent
    /\ ReadyIsFresh

ReadinessMove ==
    \/ \E p \in Probes : \/ ProbeArrives(p) \/ CachedReport(p) \/ SpawnChecks(p)
                         \/ JoinChecks(p) \/ ProbeAnswered(p) \/ ProbeDropped(p)
    \/ \E k \in Checks : CheckAnswers(k) \/ CheckTimesOut(k) \/ ServiceChanges(k)
    \/ ReadinessReset

LEMMA Timeouts ==
    /\ CHECK_TIMEOUT \in Nat \ {0} /\ READINESS_CACHE_TTL \in Nat \ {0}
    /\ AwayCap \in Nat /\ AwayCap = CHECK_TIMEOUT + READINESS_CACHE_TTL + 1
    /\ NoProbe \notin Probes
  BY ReadinessAssumption DEF AwayCap

LEMMA ReadinessInitInv == ReadinessInit => ReadinessInv
  <1> SUFFICES ASSUME ReadinessInit PROVE ReadinessInv
    OBVIOUS
  <1> USE Timeouts DEF ReadinessInit
  <1>1. ReadinessTypeOK
    BY DEF ReadinessTypeOK, NoReport, NoCheck
  <1>2. /\ cached.report = "none" /\ \A k \in Checks : check[k].st = "none"
    BY DEF NoReport, NoCheck
  <1> QED BY <1>1, <1>2 DEF ReadinessInv, LockIsOwned, UpIsNotAway, AnswersAreRecent,
          ReportIsRecent, ReadyIsFresh

LEMMA ReadinessMoveInv ==
    ASSUME ReadinessInv, ReadinessMove
    PROVE  ReadinessInv'
  <1> USE Timeouts
  <1>0. /\ \A k \in Checks : /\ away[k] \in 0..AwayCap /\ check[k].elapsed \in 0..CHECK_TIMEOUT
                             /\ check[k].st \in {"none", "running", "ok", "failed"}
        /\ cached.age \in 0..READINESS_CACHE_TTL
    BY DEF ReadinessInv, ReadinessTypeOK
  <1> USE DEF ReadinessInv, LockIsOwned, UpIsNotAway, AnswersAreRecent, ReportIsRecent,
              ReadyIsFresh
  <1>1. ASSUME NEW p \in Probes, ProbeArrives(p) PROVE ReadinessInv'
    BY <1>1 DEF ProbeArrives, ReadinessTypeOK
  <1>2. ASSUME NEW p \in Probes, CachedReport(p) PROVE ReadinessInv'
    BY <1>0, <1>2 DEF CachedReport, Fresh, ReadinessTypeOK
  <1>3. ASSUME NEW p \in Probes, SpawnChecks(p) PROVE ReadinessInv'
    BY <1>0, <1>3 DEF SpawnChecks, ReadinessTypeOK
  <1>4. ASSUME NEW p \in Probes, JoinChecks(p) PROVE ReadinessInv'
    BY <1>0, <1>4 DEF JoinChecks, AllJoined, Outcome, NoCheck, ReadinessTypeOK
  <1>5. ASSUME NEW p \in Probes, ProbeAnswered(p) PROVE ReadinessInv'
    BY <1>5 DEF ProbeAnswered, ReadinessTypeOK
  <1>6. ASSUME NEW p \in Probes, ProbeDropped(p) PROVE ReadinessInv'
    BY <1>6 DEF ProbeDropped, NoCheck, ReadinessTypeOK
  <1>7. ASSUME NEW k \in Checks, CheckAnswers(k) PROVE ReadinessInv'
    <2>1. /\ check[k].st = "running" /\ check' \in [Checks -> [st : {"none", "running", "ok", "failed"},
                                                              elapsed : 0..CHECK_TIMEOUT]]
          /\ check'[k].st \in {"ok", "failed"} /\ check'[k].elapsed = check[k].elapsed
          /\ check'[k].st = "ok" => service[k] = "up"
          /\ \A j \in Checks \ {k} : check'[j] = check[j]
          /\ UNCHANGED <<cached, lock, probe, service, away>>
      BY <1>7 DEF CheckAnswers, ReadinessTypeOK
    <2>2. ReadinessTypeOK' /\ LockIsOwned' /\ UpIsNotAway' /\ ReportIsRecent' /\ ReadyIsFresh'
      BY <2>1 DEF ReadinessTypeOK
    <2>3. AnswersAreRecent'
      BY <1>0, <2>1
    <2> QED BY <2>2, <2>3
  <1>8. ASSUME NEW k \in Checks, CheckTimesOut(k) PROVE ReadinessInv'
    BY <1>0, <1>8 DEF CheckTimesOut, Expired, ReadinessTypeOK
  <1>9. ASSUME NEW k \in Checks, ServiceChanges(k) PROVE ReadinessInv'
    BY <1>0, <1>9 DEF ServiceChanges, ReadinessTypeOK
  <1>10. ASSUME ReadinessReset PROVE ReadinessInv'
    BY <1>10 DEF ReadinessReset, NoReport, NoCheck, ReadinessTypeOK
  <1> QED BY <1>1, <1>2, <1>3, <1>4, <1>5, <1>6, <1>7, <1>8, <1>9, <1>10 DEF ReadinessMove

(* Time passes only while some check is running, or none is. *)
LEMMA ReadinessTickInv ==
    ASSUME ReadinessInv, ReadinessTick
    PROVE  ReadinessInv'
  <1> USE Timeouts
  <1>0. /\ \A k \in Checks : /\ away[k] \in 0..AwayCap /\ check[k].elapsed \in 0..CHECK_TIMEOUT
                             /\ check[k].st \in {"none", "running", "ok", "failed"}
                             /\ check[k] \in [st : {"none", "running", "ok", "failed"},
                                              elapsed : 0..CHECK_TIMEOUT]
        /\ cached.age \in 0..READINESS_CACHE_TTL
    BY DEF ReadinessInv, ReadinessTypeOK
  <1>1. /\ \A k \in Checks : check[k].st = "running" => check[k].elapsed < CHECK_TIMEOUT
        /\ lock # NoProbe => \E j \in Checks : check[j].st = "running"
        /\ \A p \in Probes : probe[p] # "READY"
    <2>1. \A k \in Checks : check[k].st = "running" => check[k].elapsed < CHECK_TIMEOUT
      <3> TAKE k \in Checks
      <3>1. check[k].elapsed \in 0..CHECK_TIMEOUT
        BY <1>0
      <3>2. check[k].st = "running" => check[k].elapsed # CHECK_TIMEOUT
        BY DEF ReadinessTick, Punctual, Expired
      <3> QED BY <3>1, <3>2
    <2>2. \A p \in Probes : probe[p] # "READY" /\ (probe[p] = "checking" => ~AllJoined)
      BY DEF ReadinessTick, Punctual
    <2>3. ASSUME lock # NoProbe PROVE \E j \in Checks : check[j].st = "running"
      <3>1. lock \in Probes /\ probe[lock] = "checking" /\ \A k \in Checks : check[k].st # "none"
        BY <2>3 DEF ReadinessInv, ReadinessTypeOK, LockIsOwned
      <3> QED BY <1>0, <2>2, <3>1 DEF AllJoined
    <2> QED BY <2>1, <2>2, <2>3
  <1>2. ASSUME NEW k \in Checks
        PROVE  /\ check'[k] \in [st : {"none", "running", "ok", "failed"}, elapsed : 0..CHECK_TIMEOUT]
               /\ check'[k].st = check[k].st
               /\ check[k].st = "running" => check'[k].elapsed = check[k].elapsed + 1
               /\ away'[k] \in 0..AwayCap /\ away'[k] <= away[k] + 1
               /\ service[k] = "up" => away'[k] = 0
    BY <1>0, <1>1 DEF ReadinessTick, Older
  <1>3. /\ cached'.report = cached.report /\ cached' \in [report : {"none", "READY", "NOT_READY"},
                                                          age : 0..READINESS_CACHE_TTL]
        /\ cached'.age < READINESS_CACHE_TTL /\ cached.report # "none" => cached'.age = cached.age + 1
    BY <1>0 DEF ReadinessTick, Older, ReadinessInv, ReadinessTypeOK
  <1>4. /\ UNCHANGED <<lock, probe, service>>
        /\ check' \in [Checks -> [st : {"none", "running", "ok", "failed"}, elapsed : 0..CHECK_TIMEOUT]]
        /\ away' \in [Checks -> 0..AwayCap]
    BY <1>2 DEF ReadinessTick
  <1>5. ReadinessTypeOK'
    BY <1>3, <1>4 DEF ReadinessInv, ReadinessTypeOK
  <1>6. LockIsOwned' /\ UpIsNotAway' /\ ReadyIsFresh'
    BY <1>1, <1>2, <1>4 DEF ReadinessInv, LockIsOwned, UpIsNotAway, ReadyIsFresh
  <1>7. AnswersAreRecent'
    <2> SUFFICES ASSUME NEW k \in Checks, check'[k].st = "ok"
                 PROVE  /\ away'[k] <= CHECK_TIMEOUT
                        /\ \A j \in Checks : check'[j].st = "running" => away'[k] <= check'[j].elapsed
      BY <1>4 DEF AnswersAreRecent
    <2>1. check[k].st = "ok" /\ lock # NoProbe
      BY <1>2 DEF ReadinessInv, LockIsOwned
    <2>2. PICK j \in Checks : check[j].st = "running"
      BY <1>1, <2>1
    <2>3. away[k] <= check[j].elapsed /\ check[j].elapsed < CHECK_TIMEOUT
      BY <1>1, <2>1, <2>2 DEF ReadinessInv, AnswersAreRecent
    <2>4. away'[k] <= CHECK_TIMEOUT
      BY <1>0, <1>2, <2>3
    <2>5. ASSUME NEW i \in Checks, check'[i].st = "running" PROVE away'[k] <= check'[i].elapsed
      <3>1. check[i].st = "running" /\ away[k] <= check[i].elapsed
        BY <1>2, <2>1, <2>5 DEF ReadinessInv, AnswersAreRecent
      <3> QED BY <1>0, <1>2, <3>1
    <2> QED BY <2>4, <2>5
  <1>8. ReportIsRecent'
    <2> SUFFICES ASSUME cached'.report = "READY", cached'.age < READINESS_CACHE_TTL, NEW k \in Checks
                 PROVE  away'[k] <= CHECK_TIMEOUT + cached'.age
      BY DEF ReportIsRecent
    <2>1. cached.report = "READY" /\ cached'.age = cached.age + 1 /\ cached.age < READINESS_CACHE_TTL
      BY <1>0, <1>3
    <2>2. away[k] <= CHECK_TIMEOUT + cached.age
      BY <2>1 DEF ReadinessInv, ReportIsRecent
    <2> QED BY <1>0, <1>2, <2>1, <2>2
  <1> QED BY <1>5, <1>6, <1>7, <1>8 DEF ReadinessInv

LEMMA ReadinessStep ==
    [Next]_vars => UNCHANGED readinessVars \/ ReadinessMove \/ ReadinessTick
  <1> SUFFICES ASSUME [Next]_vars
               PROVE  UNCHANGED readinessVars \/ ReadinessMove \/ ReadinessTick
    OBVIOUS
  <1>1. ASSUME NEW r \in Replicas, Startup(r) \/ Crash(r) \/ Terminate(r) \/ Drained(r)
        PROVE  UNCHANGED readinessVars \/ ReadinessReset
    BY <1>1 DEF Startup, Start, LoadConfig, ConnectDatabase, UseMemory, Migrate, MigrationFails,
            Migrated, VerifyEngines, VerifyBinlog, BuildMaterial, BuildRouter, Bind, Refused, Crash,
            Terminate, Drained, Reset, Aside, Quiet
  <1>2. ASSUME NEW p \in Probes, ProbeComes(p) \/ ProbeLeaves(p) \/ ProbeRuns(p) PROVE ReadinessMove
    BY <1>2 DEF ProbeComes, ProbeLeaves, ProbeRuns, ReadinessMove
  <1>3. ASSUME NEW k \in Checks, CheckRuns(k) \/ DependencyChanges(k) PROVE ReadinessMove
    BY <1>3 DEF CheckRuns, DependencyChanges, ReadinessMove
  <1>4. ASSUME NEW q \in Requests, \/ Arrives(q) \/ RequestRuns(q) \/ WriteList(q)
                                  \/ RequestRefused(q) \/ RequestFails(q)
        PROVE  UNCHANGED readinessVars
    BY <1>4 DEF Arrives, RequestRuns, WriteList, RequestRefused, RequestFails, AccessOnly
  <1>5. ASSUME NEW w \in Writers, WriterComes(w) \/ WriterRuns(w) \/ WriterLeaves(w)
        PROVE  UNCHANGED readinessVars
    BY <1>5 DEF WriterComes, WriterRuns, WriterLeaves, MemoryOnly
  <1>6. SnapshotCleanup \/ OperatorSteps \/ UNCHANGED vars => UNCHANGED readinessVars
    BY DEF SnapshotCleanup, OperatorSteps, vars, MemoryOnly
  <1>7. Tick => ReadinessTick
    BY DEF Tick
  <1>8. ReadinessReset => ReadinessMove
    BY DEF ReadinessMove
  <1> QED BY <1>1, <1>2, <1>3, <1>4, <1>5, <1>6, <1>7, <1>8 DEF Next

LEMMA ReadinessInvariant == Spec => []ReadinessInv
  <1>1. Init => ReadinessInv
    BY ReadinessInitInv DEF Init
  <1>2. ReadinessInv /\ [Next]_vars => ReadinessInv'
    <2> SUFFICES ASSUME ReadinessInv, [Next]_vars PROVE ReadinessInv'
      OBVIOUS
    <2>1. CASE UNCHANGED readinessVars
      BY <2>1 DEF ReadinessInv, readinessVars, ReadinessTypeOK, LockIsOwned, UpIsNotAway,
              AnswersAreRecent, ReportIsRecent, ReadyIsFresh
    <2> QED BY <2>1, ReadinessStep, ReadinessMoveInv, ReadinessTickInv
  <1> QED BY <1>1, <1>2, PTL DEF Spec

(* A probe is told READY only when each dependency has answered within the  *)
(* last CHECK_TIMEOUT + READINESS_CACHE_TTL, for any values of the two and  *)
(* any number of probes (Readiness::run).                                   *)
THEOREM ReadyReportsAreFresh == Spec => []ReadyIsFresh
  <1>1. ReadinessInv => ReadyIsFresh
    BY DEF ReadinessInv
  <1> QED BY <1>1, ReadinessInvariant, PTL

-----------------------------------------------------------------------------
(* Credentials and requests *)

Bodies == Registrations \cup Tokens \cup {<<>>}

Answers ==
    {"none", "stored", "credentials_already_exist", "write_contention", "internal_error",
     "issuer_not_found", "jwt_error", "invalid_token", "handled"}

RequestRecords ==
    [pc : {"idle", "insert", "find", "verify", "handle", "answer"},
     at : Replicas \cup {NoReplica}, body : Bodies, found : Keys \cup {NoKey}, answer : Answers]

(* What is known of a request wherever it has got: a registration that is   *)
(* about to be acknowledged has its key in the table, and a token that was  *)
(* verified was so with the key the table has still.                        *)
Justified(q) ==
    /\ req[q].pc # "idle" => req[q].at \in plan.replicas
    /\ req[q].pc = "insert" => req[q].body \in Registrations
    /\ req[q].pc \in {"find", "verify", "handle"} => req[q].body \in Tokens
    /\ req[q].pc \in {"verify", "handle"} => /\ req[q].found = credentials[req[q].body.iss]
                                             /\ req[q].found # NoKey
    /\ req[q].pc = "handle" => req[q].body.key = req[q].found
    /\ req[q].pc = "answer" /\ req[q].answer = "stored" =>
        /\ req[q].body \in Registrations
        /\ credentials[req[q].body.issuer] = req[q].body.key

AccessInv ==
    /\ plan \in Plans
    /\ credentials \in [Issuers -> Keys \cup {NoKey}]
    /\ req \in [Requests -> RequestRecords]
    /\ acked \in [Issuers -> SUBSET Keys]
    /\ now \in 0..LastTime
    /\ \A q \in Requests : Justified(q)
    /\ \A i \in Issuers : acked[i] # {} => acked[i] = {credentials[i]}

AccessMove ==
    \/ \E q \in Requests :
        \/ \E r \in plan.replicas, body \in Tokens : Manage(q, r, body)
        \/ \E r \in plan.replicas, body \in Registrations : Register(q, r, body)
        \/ insert_one(q) \/ insert_one_fails(q)
        \/ find_credential(q) \/ find_credential_fails(q) \/ Verify(q)
        \/ RunHandler(q, "handled") \/ RunHandler(q, "internal_error")
        \/ Answered(q)
    \/ \E r \in plan.replicas : AccessReset(r, Memory)
    \/ AccessTick

LEMMA AccessStep ==
    ASSUME plan \in Plans, [Next]_vars
    PROVE  plan' = plan /\ (UNCHANGED accessVars \/ AccessMove)
  <1> USE DEF AccessMove
  <1>0. plan' = plan
    BY DEF Next, vars
  <1>1. ASSUME NEW r \in Replicas, Startup(r) \/ Crash(r) \/ Terminate(r) \/ Drained(r)
        PROVE  UNCHANGED accessVars \/ (r \in plan.replicas /\ AccessReset(r, Memory))
    BY <1>1 DEF Startup, Start, LoadConfig, ConnectDatabase, UseMemory, Migrate, MigrationFails,
            Migrated, VerifyEngines, VerifyBinlog, BuildMaterial, BuildRouter, Bind, Refused, Crash,
            Terminate, Drained, Reset, Aside, Quiet, At
  <1>2. ASSUME NEW p \in Probes, ProbeComes(p) \/ ProbeLeaves(p) \/ ProbeRuns(p)
        PROVE  UNCHANGED accessVars
    BY <1>2 DEF ProbeComes, ProbeLeaves, ProbeRuns, ReadinessOnly
  <1>3. ASSUME NEW k \in Checks, CheckRuns(k) \/ DependencyChanges(k) PROVE UNCHANGED accessVars
    BY <1>3 DEF CheckRuns, DependencyChanges, ReadinessOnly
  <1>4. ASSUME NEW q \in Requests, Arrives(q) PROVE AccessMove
    <2>1. PICK r \in plan.replicas, body \in plan.bodies :
              IF body \in Tokens THEN Manage(q, r, body) ELSE Register(q, r, body)
      BY <1>4 DEF Arrives
    <2>2. body \in Tokens \/ body \in Registrations
      BY PlansAssumption
    <2> QED BY <2>1, <2>2
  <1>5. ASSUME NEW q \in Requests, \/ RequestRuns(q) \/ WriteList(q)
                                  \/ RequestRefused(q) \/ RequestFails(q)
        PROVE  AccessMove
    BY <1>5 DEF RequestRuns, WriteList, RequestRefused, RequestFails, CallFails
  <1>6. ASSUME NEW w \in Writers, WriterComes(w) \/ WriterRuns(w) \/ WriterLeaves(w)
        PROVE  UNCHANGED accessVars
    BY <1>6 DEF WriterComes, WriterRuns, WriterLeaves, MemoryOnly
  <1>7. SnapshotCleanup \/ OperatorSteps \/ UNCHANGED vars => UNCHANGED accessVars
    BY DEF SnapshotCleanup, OperatorSteps, vars, MemoryOnly
  <1>8. Tick => UNCHANGED accessVars \/ AccessTick
    BY DEF Tick
  <1> QED BY <1>0, <1>1, <1>2, <1>3, <1>4, <1>5, <1>6, <1>7, <1>8 DEF Next

LEMMA IdleRequest == NoRequest \in RequestRecords /\ NoRequest.pc = "idle"
  <1>1. <<>> \in Bodies /\ "none" \in Answers
    BY DEF Bodies, Answers
  <1> QED BY <1>1 DEF NoRequest, RequestRecords

LEMMA Replies ==
    ASSUME NEW q \in Requests, req \in [Requests -> RequestRecords], NEW answer \in Answers
    PROVE  LET g == Reply(q, answer) IN
           /\ g \in [Requests -> RequestRecords]
           /\ g[q].pc = "answer" /\ g[q].answer = answer /\ g[q].body = req[q].body
           /\ g[q].at = req[q].at
           /\ \A o \in Requests \ {q} : g[o] = req[o]
  BY DEF Reply, RequestRecords

LEMMA AccessMoveInv ==
    ASSUME AccessInv, AccessMove, plan' = plan
    PROVE  AccessInv'
  <1> USE AccessAssumption
  <1>0. /\ NoRequest \in RequestRecords /\ NoRequest.pc = "idle" /\ NoKey \notin Keys
        /\ plan.replicas \subseteq Replicas
        /\ \A b \in Tokens : b.iss \in Issuers
        /\ \A b \in Registrations : b.issuer \in Issuers /\ b.key \in Keys
        /\ Registrations \subseteq Bodies /\ Tokens \subseteq Bodies
    BY IdleRequest, PlansAssumption, TokensAssumption DEF AccessInv, Bodies, Registrations
  <1>1. ASSUME NEW q \in Requests, NEW r \in plan.replicas, NEW body \in Tokens, Manage(q, r, body)
        PROVE  AccessInv'
    <2> USE DEF AccessInv
    <2> DEFINE g == [NoRequest EXCEPT !.pc = "find", !.at = r, !.body = body]
    <2>1. g \in RequestRecords /\ g.pc = "find" /\ g.at = r /\ g.body = body
      BY <1>0 DEF NoRequest, RequestRecords
    <2>2. req' = [req EXCEPT ![q] = g] /\ UNCHANGED <<credentials, acked, now>>
      BY <1>1 DEF Manage
    <2> HIDE DEF g
    <2>3. req' \in [Requests -> RequestRecords] /\ req'[q] = g
          /\ \A o \in Requests \ {q} : req'[o] = req[o]
      BY <2>1, <2>2
    <2>4. \A o \in Requests : Justified(o)'
      BY <2>1, <2>2, <2>3 DEF Justified
    <2> QED BY <2>2, <2>3, <2>4
  <1>2. ASSUME NEW q \in Requests, NEW r \in plan.replicas, NEW body \in Registrations,
               Register(q, r, body)
        PROVE  AccessInv'
    <2> USE DEF AccessInv
    <2> DEFINE g == [NoRequest EXCEPT !.pc = "insert", !.at = r, !.body = body]
    <2>1. g \in RequestRecords /\ g.pc = "insert" /\ g.at = r /\ g.body = body
      BY <1>0 DEF NoRequest, RequestRecords
    <2>2. req' = [req EXCEPT ![q] = g] /\ UNCHANGED <<credentials, acked, now>>
      BY <1>2 DEF Register
    <2> HIDE DEF g
    <2>3. req' \in [Requests -> RequestRecords] /\ req'[q] = g
          /\ \A o \in Requests \ {q} : req'[o] = req[o]
      BY <2>1, <2>2
    <2>4. \A o \in Requests : Justified(o)'
      BY <2>1, <2>2, <2>3 DEF Justified
    <2> QED BY <2>2, <2>3, <2>4
  <1>3. ASSUME NEW q \in Requests, NEW answer \in Answers, req' = Reply(q, answer),
               answer # "stored", req[q].pc # "idle", UNCHANGED <<acked, now, credentials>>
        PROVE  AccessInv'
    <2> USE DEF AccessInv
    <2>1. /\ req' \in [Requests -> RequestRecords]
          /\ req'[q].pc = "answer" /\ req'[q].answer = answer /\ req'[q].at = req[q].at
          /\ \A o \in Requests \ {q} : req'[o] = req[o]
      BY <1>3, Replies
    <2>2. \A o \in Requests : Justified(o)'
      BY <1>3, <2>1 DEF Justified
    <2> QED BY <1>3, <2>1, <2>2
  <1>4. ASSUME NEW q \in Requests, NEW answer \in Answers, req' = Reply(q, answer),
               req[q].pc = "insert", credentials[req[q].body.issuer] = NoKey,
               credentials' = Put(req[q].body.issuer, req[q].body.key),
               UNCHANGED <<acked, now>>
        PROVE  AccessInv'
    <2> USE DEF AccessInv
    <2> DEFINE i == req[q].body.issuer
               key == req[q].body.key
    <2>1. /\ req' \in [Requests -> RequestRecords]
          /\ req'[q].pc = "answer" /\ req'[q].body = req[q].body /\ req'[q].at = req[q].at
          /\ \A o \in Requests \ {q} : req'[o] = req[o]
      BY <1>4, Replies
    <2>2. i \in Issuers /\ key \in Keys /\ req[q].body \in Registrations
      BY <1>0, <1>4 DEF Justified
    <2>3. /\ credentials' \in [Issuers -> Keys \cup {NoKey}] /\ credentials'[i] = key
          /\ \A j \in Issuers \ {i} : credentials'[j] = credentials[j]
          /\ credentials[i] = NoKey
      BY <1>4, <2>2 DEF Put
    <2>4. \A j \in Issuers : acked'[j] # {} => acked'[j] = {credentials'[j]}
      <3>1. acked[i] = {}
        BY <1>0, <2>2, <2>3
      <3> QED BY <1>4, <2>3, <3>1
    <2> HIDE DEF i, key
    <2>5. ASSUME NEW o \in Requests PROVE Justified(o)'
      <3>1. CASE o = q
        BY <1>4, <2>1, <2>2, <2>3, <3>1 DEF Justified, i, key
      <3>2. CASE o # q
        <4>1. req'[o] = req[o]
          BY <2>1, <3>2
        <4>2. \A j \in Issuers : credentials[j] # NoKey => credentials'[j] = credentials[j]
          BY <2>3
        <4> QED BY <1>0, <4>1, <4>2 DEF Justified
      <3> QED BY <3>1, <3>2
    <2> QED BY <1>4, <2>1, <2>3, <2>4, <2>5
  <1>5. ASSUME NEW q \in Requests, insert_one(q) \/ insert_one_fails(q) PROVE AccessInv'
    BY <1>3, <1>4, <1>5 DEF insert_one, insert_one_fails, Answers
  <1>6. ASSUME NEW q \in Requests, find_credential(q) PROVE AccessInv'
    <2>1. CASE req' = Reply(q, "issuer_not_found")
      BY <1>3, <1>6, <2>1 DEF find_credential, Answers
    <2>2. ASSUME NEW key, key = credentials[req[q].body.iss], key # NoKey,
                 req' = [req EXCEPT ![q].pc = "verify", ![q].found = key]
          PROVE  AccessInv'
      <3> USE DEF AccessInv
      <3>1. req[q].pc = "find" /\ req[q].body \in Tokens /\ UNCHANGED <<credentials, acked, now>>
        BY <1>6 DEF find_credential, Justified
      <3>2. key \in Keys
        BY <1>0, <2>2, <3>1
      <3>3. /\ req' \in [Requests -> RequestRecords] /\ req'[q].pc = "verify"
            /\ req'[q].found = key /\ req'[q].body = req[q].body /\ req'[q].at = req[q].at
            /\ \A o \in Requests \ {q} : req'[o] = req[o]
        <4> DEFINE half == [req EXCEPT ![q].pc = "verify"]
        <4>1. /\ half \in [Requests -> RequestRecords] /\ half[q].pc = "verify"
              /\ half[q].body = req[q].body /\ half[q].at = req[q].at
              /\ \A o \in Requests \ {q} : half[o] = req[o]
          BY DEF RequestRecords
        <4>2. req' = [half EXCEPT ![q].found = key]
          BY <2>2
        <4> HIDE DEF half
        <4> QED BY <3>2, <4>1, <4>2 DEF RequestRecords
      <3>4. \A o \in Requests : Justified(o)'
        BY <2>2, <3>1, <3>3 DEF Justified
      <3> QED BY <3>1, <3>3, <3>4
    <2> QED BY <1>6, <2>1, <2>2 DEF find_credential
  <1>7. ASSUME NEW q \in Requests, find_credential_fails(q) PROVE AccessInv'
    BY <1>3, <1>7 DEF find_credential_fails, Answers
  <1>8. ASSUME NEW q \in Requests, Verify(q) PROVE AccessInv'
    <2>1. CASE req' = Reply(q, "jwt_error") \/ req' = Reply(q, "invalid_token")
      BY <1>3, <1>8, <2>1 DEF Verify, Answers
    <2>2. ASSUME req' = [req EXCEPT ![q].pc = "handle"], decode(req[q].body, req[q].found)
          PROVE  AccessInv'
      <3> USE DEF AccessInv
      <3>1. req[q].pc = "verify" /\ req[q].body.key = req[q].found /\ UNCHANGED <<credentials, acked, now>>
        BY <1>8, <2>2 DEF Verify, decode
      <3>2. /\ req' \in [Requests -> RequestRecords] /\ req'[q].pc = "handle"
            /\ req'[q].found = req[q].found /\ req'[q].body = req[q].body /\ req'[q].at = req[q].at
            /\ \A o \in Requests \ {q} : req'[o] = req[o]
        BY <2>2 DEF RequestRecords
      <3>3. \A o \in Requests : Justified(o)'
        BY <3>1, <3>2 DEF Justified
      <3> QED BY <3>1, <3>2, <3>3
    <2> QED BY <1>8, <2>1, <2>2 DEF Verify
  <1>9. ASSUME NEW q \in Requests, NEW answer \in {"handled", "internal_error"}, RunHandler(q, answer)
        PROVE  AccessInv'
    BY <1>3, <1>9 DEF RunHandler, Answers
  <1>10. ASSUME NEW q \in Requests, Answered(q) PROVE AccessInv'
    <2> USE DEF AccessInv
    <2>1. /\ req' = [req EXCEPT ![q] = NoRequest] /\ UNCHANGED <<credentials, now>>
          /\ req[q].pc = "answer"
      BY <1>10 DEF Answered
    <2>2. /\ req' \in [Requests -> RequestRecords] /\ req'[q] = NoRequest
          /\ \A o \in Requests \ {q} : req'[o] = req[o]
      BY <1>0, <2>1
    <2>3. \A o \in Requests : Justified(o)'
      BY <1>0, <2>1, <2>2 DEF Justified
    <2>4. CASE req[q].answer # "stored"
      BY <1>10, <2>1, <2>2, <2>3, <2>4 DEF Answered
    <2>5. CASE req[q].answer = "stored"
      <3> DEFINE i == req[q].body.issuer
                 key == req[q].body.key
      <3>1. i \in Issuers /\ key \in Keys /\ credentials[i] = key
        BY <1>0, <2>1, <2>5 DEF Justified
      <3>2. acked' = [acked EXCEPT ![i] = @ \cup {key}]
        BY <1>10, <2>5 DEF Answered
      <3> HIDE DEF i, key
      <3>3. acked' \in [Issuers -> SUBSET Keys]
        BY <3>1, <3>2
      <3>4. \A j \in Issuers : acked'[j] # {} => acked'[j] = {credentials'[j]}
        BY <2>1, <3>1, <3>2
      <3> QED BY <2>1, <2>2, <2>3, <3>3, <3>4
    <2> QED BY <2>4, <2>5
  <1>11. ASSUME NEW r \in plan.replicas, AccessReset(r, Memory) PROVE AccessInv'
    <2> USE DEF AccessInv
    <2>1. /\ req' = [q \in Requests |-> IF req[q].at = r THEN NoRequest ELSE req[q]]
          /\ req' \in [Requests -> RequestRecords] /\ now' = now
      BY <1>0, <1>11 DEF AccessReset
    <2>2. CASE ~Memory
      <3>1. UNCHANGED <<credentials, acked>>
        BY <1>11, <2>2 DEF AccessReset
      <3>2. \A o \in Requests : Justified(o)'
        BY <1>0, <2>1, <3>1 DEF Justified
      <3> QED BY <2>1, <3>1, <3>2
    <2>3. CASE Memory
      <3>1. credentials' = [i \in Issuers |-> NoKey] /\ acked' = [i \in Issuers |-> {}]
        BY <1>11, <2>3 DEF AccessReset
      <3>2. plan.replicas \subseteq {plan.home} /\ r = plan.home
        BY <2>3, PlansAssumption DEF Memory, config
      <3>3. \A o \in Requests : req'[o].pc = "idle"
        BY <1>0, <2>1, <3>2 DEF Justified
      <3>4. \A o \in Requests : Justified(o)'
        BY <3>3 DEF Justified
      <3> QED BY <2>1, <3>1, <3>4
    <2> QED BY <2>2, <2>3
  <1>12. ASSUME AccessTick PROVE AccessInv'
    BY <1>12 DEF AccessInv, AccessTick, Justified
  <1> QED BY <1>1, <1>2, <1>5, <1>6, <1>7, <1>8, <1>9, <1>10, <1>11, <1>12 DEF AccessMove

LEMMA AccessInvariant == Spec => []AccessInv
  <1>1. Init => AccessInv
    <2> SUFFICES ASSUME Init PROVE AccessInv
      OBVIOUS
    <2>1. NoRequest \in RequestRecords /\ NoRequest.pc = "idle" /\ 0 \in 0..LastTime
      BY IdleRequest, AccessAssumption
    <2> QED BY <2>1 DEF Init, AccessInit, AccessInv, Justified
  <1>2. AccessInv /\ [Next]_vars => AccessInv'
    <2> SUFFICES ASSUME AccessInv, [Next]_vars PROVE AccessInv'
      OBVIOUS
    <2>1. plan' = plan /\ (UNCHANGED accessVars \/ AccessMove)
      BY AccessStep DEF AccessInv
    <2>2. CASE UNCHANGED accessVars
      BY <2>1, <2>2 DEF AccessInv, accessVars, Justified
    <2> QED BY <2>1, <2>2, AccessMoveInv
  <1> QED BY <1>1, <1>2, PTL DEF Spec

(* One key at most is ever acknowledged for an issuer, and it is the one    *)
(* its requests are authenticated with, for any number of replicas,         *)
(* requests and keys (credential_handler, insert_one, auth).                *)
THEOREM AcknowledgedKeysStand == Spec => []AckedKeyStands
  <1>1. AccessInv => AckedKeyStands
    <2> SUFFICES ASSUME AccessInv, NEW i \in Issuers, acked[i] # {}
                 PROVE  /\ acked[i] = {credentials[i]}
                        /\ \A q \in Requests : (req[q].pc = "handle" /\ req[q].body.iss = i)
                                                    => req[q].body.key \in acked[i]
      BY DEF AckedKeyStands
    <2> QED BY DEF AccessInv, Justified
  <1> QED BY <1>1, AccessInvariant, PTL

-----------------------------------------------------------------------------
(* Start-up refuses settings that contradict each other *)

StageNames == {"down", "load", "database", "migrate", "engines", "binlog", "material", "http",
               "bind", "serving", "draining"}

(* What start-up has looked at by the time it connects to the database, has *)
(* connected, has set up its keys and has built its router.                 *)
Loaded == load(config) /\ init_telemetry(config)

Connectable == IF Memory THEN "memory" \in config.features ELSE DatabaseUsable

Keyed ==
    IF Acme
    THEN /\ build_crypto_storage(config)
         /\ resolve(config) # Error
         /\ build_dns_challenge_handler(config, resolve(config))
         /\ build_manager(config)
         /\ setup_cert_renewal_scheduler(config)
    ELSE \/ CertSource(config) = "filesystem"
         \/ CertSource(config) = "inline" /\ "certificate" \notin config.bad

Routed == build_governor_configs(config) /\ validate_aggregation_uri(config)

Passed(r) ==
    /\ stage[r] \in {"database", "migrate", "engines", "binlog", "material", "http", "bind"} => Loaded
    /\ stage[r] \in {"migrate", "engines", "binlog", "material", "http", "bind"} => Connectable
    /\ stage[r] \in {"http", "bind"} => Keyed
    /\ stage[r] = "bind" => Routed
    /\ stage[r] = "serving" => Coherent(config)

StartInv ==
    /\ plan \in Plans
    /\ stage \in [Replicas -> StageNames]
    /\ \A r \in Replicas : Passed(r)

(* A URL that names its backend, and none of the split fields, or all of    *)
(* these: the cases of resolved_url with a password file on top.            *)
LEMMA UrlNamesDatabase ==
    ASSUME NEW c \in Configurations, Backend(c) # "memory",
           load_resolved_url(c) = Backend(c), load_resolved_url(c) # Error
    PROVE  NamedOnce(c)
  <1> DEFINE file == c.files["password_file"]
             split == {"host", "username", "password", "name"}
  <1>1. file \in {"unset", "empty", "unreadable", "blank", "value"} /\ c.given \subseteq STRING
    BY DEF Configurations
  <1>2. CASE file = "unset"
    <2>1. resolved_url(c) = Backend(c) /\ resolved_url(c) # Error
      BY <1>2 DEF load_resolved_url
    <2>2. CASE has_split_connection_fields(c)
      <3>1. /\ c.url = "unset" /\ Backend(c) \in {"postgres", "mysql"} /\ split \subseteq c.given
        BY <2>1, <2>2 DEF resolved_url
      <3> QED BY <1>2, <3>1 DEF NamedOnce, PasswordGiven
    <2>3. CASE ~has_split_connection_fields(c)
      <3>1. c.url = Backend(c)
        BY <2>1, <2>3 DEF resolved_url
      <3>2. c.given \cap {"host", "username", "name", "password"} = {}
        BY <2>3 DEF has_split_connection_fields
      <3> QED BY <1>2, <3>1, <3>2 DEF NamedOnce
    <2> QED BY <2>2, <2>3
  <1>3. CASE file \in {"value", "blank"}
    <2> DEFINE d == [c EXCEPT !.given = IF file = "value" THEN @ \cup {"password"}
                                                          ELSE @ \ {"password"}]
    <2>1. /\ d.files = c.files /\ d.url = c.url /\ d.backend = c.backend /\ d.features = c.features
          /\ d.given = IF file = "value" THEN c.given \cup {"password"} ELSE c.given \ {"password"}
      BY DEF Configurations
    <2>2. load_resolved_url(c) = resolved_url(d)
      BY <1>3 DEF load_resolved_url
    <2> HIDE DEF d
    <2>3. has_split_connection_fields(d)
      BY <1>3, <2>1 DEF has_split_connection_fields
    <2>4. Backend(d) = Backend(c)
      BY <2>1 DEF Backend
    <2>5. d.url = "unset" /\ Backend(d) \in {"postgres", "mysql"} /\ split \subseteq d.given
      BY <2>2, <2>3 DEF resolved_url
    <2>6. file = "value" /\ c.url = "unset" /\ {"host", "username", "name"} \subseteq c.given
      BY <1>3, <2>1, <2>5
    <2> QED BY <2>4, <2>5, <2>6 DEF NamedOnce, PasswordGiven
  <1>4. CASE file \in {"empty", "unreadable"}
    BY <1>4 DEF load_resolved_url
  <1> QED BY <1>1, <1>2, <1>3, <1>4

LEMMA CheckedIsCoherent ==
    ASSUME plan \in Plans, Loaded, Connectable, Keyed, Routed
    PROVE  Coherent(config)
  <1>0. config \in Configurations
    BY PlansAssumption DEF config
  <1>1. /\ config.bad \cap ({"host", "query"} \cap config.given) = {}
        /\ "otlp_endpoint" \in config.bad => "telemetry" \notin config.given
    BY DEF Loaded, load, init_telemetry, validate_database_host, validate_database_query
  <1>2. config.zeros = {}
    <2>1. /\ config.zeros \subseteq {"max_token_lifetime_secs", "strict_burst_size", "strict_period_secs",
                                     "permissive_burst_size", "permissive_period_secs"}
      BY <1>0 DEF Configurations
    <2> QED BY <2>1 DEF Loaded, load, validate_management_auth, Routed, build_governor_configs
  <1>3. Backend(config) \in config.features /\ (Backend(config) # "memory" => NamedOnce(config))
    BY <1>0, UrlNamesDatabase DEF Connectable, Memory, DatabaseUsable, validate_url_scheme
  <1>4. AcmeBuild(config) => /\ build_crypto_storage(config) /\ resolve(config) # Error
                             /\ build_dns_challenge_handler(config, resolve(config))
                             /\ "acme_directory_url" \in config.given
                             /\ "renewal_cron_schedule" \notin config.bad
    BY DEF Keyed, Acme, build_manager, setup_cert_renewal_scheduler
  <1>5. ASSUME ~AcmeBuild(config)
        PROVE  /\ OneSource(config)
               /\ InlineSource \subseteq config.given => "certificate" \notin config.bad
    <2>1. \/ config.given \cap (FileSource \cup InlineSource) = FileSource
          \/ /\ config.given \cap (FileSource \cup InlineSource) = InlineSource
             /\ "certificate" \notin config.bad
      BY <1>5 DEF Keyed, Acme, CertSource, Error
    <2>2. CASE config.given \cap (FileSource \cup InlineSource) = FileSource
      <3>1. /\ FileSource # InlineSource /\ FileSource \subseteq config.given
            /\ config.given \cap InlineSource = {} /\ ~(InlineSource \subseteq config.given)
        BY <2>2 DEF FileSource, InlineSource
      <3> QED BY <3>1 DEF OneSource
    <2>3. CASE /\ config.given \cap (FileSource \cup InlineSource) = InlineSource
               /\ "certificate" \notin config.bad
      <3>1. /\ FileSource # InlineSource /\ InlineSource \subseteq config.given
            /\ config.given \cap FileSource = {}
        BY <2>3 DEF FileSource, InlineSource
      <3> QED BY <2>3, <3>1 DEF OneSource
    <2> QED BY <2>1, <2>2, <2>3
  <1>6. config.aggregation_uri \in {"unset", "route"}
    BY DEF Routed, validate_aggregation_uri
  <1> QED BY <1>1, <1>2, <1>3, <1>4, <1>5, <1>6 DEF Coherent

(* The steps that move a replica from one stage to another. *)
LEMMA StageStep ==
    ASSUME [Next]_vars
    PROVE  \/ UNCHANGED stage
           \/ \E r \in Replicas :
                \/ Startup(r) \/ Terminate(r)
                \/ r \in plan.replicas /\ Reset(r)
  <1>1. ASSUME NEW r \in Replicas, Crash(r) \/ Drained(r) PROVE r \in plan.replicas /\ Reset(r)
    BY <1>1 DEF Crash, Drained, At
  <1>2. ASSUME NEW p \in Probes, ProbeComes(p) \/ ProbeLeaves(p) \/ ProbeRuns(p) PROVE UNCHANGED stage
    BY <1>2 DEF ProbeComes, ProbeLeaves, ProbeRuns, ReadinessOnly, serverVars
  <1>3. ASSUME NEW k \in Checks, CheckRuns(k) \/ DependencyChanges(k) PROVE UNCHANGED stage
    BY <1>3 DEF CheckRuns, DependencyChanges, ReadinessOnly, serverVars
  <1>4. ASSUME NEW q \in Requests, \/ Arrives(q) \/ RequestRuns(q) \/ WriteList(q)
                                  \/ RequestRefused(q) \/ RequestFails(q)
        PROVE  UNCHANGED stage
    BY <1>4 DEF Arrives, RequestRuns, WriteList, RequestRefused, RequestFails, AccessOnly,
       serverVars
  <1>5. ASSUME NEW w \in Writers, WriterComes(w) \/ WriterRuns(w) \/ WriterLeaves(w)
        PROVE  UNCHANGED stage
    BY <1>5 DEF WriterComes, WriterRuns, WriterLeaves, serverVars
  <1>6. SnapshotCleanup \/ Tick \/ OperatorSteps \/ UNCHANGED vars => UNCHANGED stage
    BY DEF SnapshotCleanup, Tick, OperatorSteps, vars, serverVars
  <1> QED BY <1>1, <1>2, <1>3, <1>4, <1>5, <1>6 DEF Next

LEMMA StartInvariant == Spec => []StartInv
  <1>1. Init => StartInv
    <2> SUFFICES ASSUME Init PROVE StartInv
      OBVIOUS
    <2>1. plan \in Plans /\ plan.start \in {"down", "serving"}
          /\ (plan.start = "serving" => Coherent(config))
      BY PlansAssumption DEF Init, config
    <2>2. \A r \in Replicas : stage[r] \in {"down", plan.start}
      BY DEF Init
    <2>3. stage \in [Replicas -> StageNames]
      BY <2>1 DEF Init, StageNames
    <2> QED BY <2>1, <2>2, <2>3 DEF StartInv, Passed
  <1>2. StartInv /\ [Next]_vars => StartInv'
    <2> SUFFICES ASSUME StartInv, [Next]_vars PROVE StartInv'
      OBVIOUS
    <2>1. plan' = plan
      BY DEF Next, vars
    <2>2. /\ Loaded' = Loaded /\ Connectable' = Connectable /\ Keyed' = Keyed
          /\ Routed' = Routed /\ Coherent(config)' = Coherent(config)
      BY <2>1 DEF Loaded, Connectable, Keyed, Routed, Memory, DatabaseUsable, Acme, config
    <2>3. ASSUME NEW r \in Replicas, NEW s \in StageNames, stage' = [stage EXCEPT ![r] = s],
                 /\ s \in {"database", "migrate", "engines", "binlog", "material", "http", "bind"}
                        => Loaded
                 /\ s \in {"migrate", "engines", "binlog", "material", "http", "bind"} => Connectable
                 /\ s \in {"http", "bind"} => Keyed
                 /\ s = "bind" => Routed
                 /\ s = "serving" => Coherent(config)
          PROVE  StartInv'
      BY <2>1, <2>2, <2>3 DEF StartInv, Passed
    <2>4. CASE UNCHANGED stage
      BY <2>1, <2>2, <2>4 DEF StartInv, Passed
    <2>5. ASSUME NEW r \in Replicas, Reset(r) PROVE StartInv'
      BY <2>3, <2>5 DEF Reset, StageNames
    <2>6. ASSUME NEW r \in Replicas, Terminate(r) PROVE StartInv'
      BY <2>3, <2>6 DEF Terminate, GoTo, StageNames
    <2>7. ASSUME NEW r \in Replicas, Startup(r) PROVE StartInv'
      <3> USE DEF At, GoTo, StageNames, StartInv, Passed
      <3>1. CASE Start(r)
        BY <2>3, <3>1 DEF Start
      <3>2. CASE LoadConfig(r)
        BY <2>3, <3>2 DEF LoadConfig, Loaded
      <3>3. CASE ConnectDatabase(r)
        BY <2>3, <3>3 DEF ConnectDatabase, Connectable
      <3>4. CASE UseMemory(r)
        BY <2>3, <3>4 DEF UseMemory, Connectable
      <3>5. CASE Migrate(r)
        BY <2>4, <3>5 DEF Migrate
      <3>6. CASE MigrationFails(r) \/ Refused(r)
        BY <2>5, <3>6 DEF MigrationFails, Refused
      <3>7. CASE Migrated(r) \/ VerifyEngines(r) \/ VerifyBinlog(r)
        BY <2>3, <3>7 DEF Migrated, VerifyEngines, VerifyBinlog
      <3>8. CASE BuildMaterial(r)
        BY <2>3, <3>8 DEF BuildMaterial, MaterialUsable, Keyed
      <3>9. CASE BuildRouter(r)
        BY <2>3, <3>9 DEF BuildRouter, Routed
      <3>10. CASE Bind(r)
        BY <2>3, <3>10, CheckedIsCoherent DEF Bind
      <3> QED BY <2>7, <3>1, <3>2, <3>3, <3>4, <3>5, <3>6, <3>7, <3>8, <3>9, <3>10 DEF Startup
    <2> QED BY <2>4, <2>5, <2>6, <2>7, StageStep
  <1> QED BY <1>1, <1>2, PTL DEF Spec

(* No replica serves with settings that contradict each other, whatever     *)
(* configuration it was given (resolved_url, build_state_impl).             *)
THEOREM ServingIsCoherent == Spec => []ServesOnlyCoherent
  <1>1. StartInv => ServesOnlyCoherent
    BY DEF StartInv, Passed, ServesOnlyCoherent
  <1> QED BY <1>1, StartInvariant, PTL

-----------------------------------------------------------------------------
(* Migrations *)

(* What must have been run before x, a statement or the record of a         *)
(* migration.                                                               *)
Needs(x) ==
    {s \in Statements :
        \/ x = "backfill" /\ s = "updated_at"
        \/ \E i \in DOMAIN Migrator : x = Migrator[i].name /\ s \in ToSet(Migrator[i].up)}

Did(s) == IF s = "backfill" THEN updated_at \in {"migrated", "written"} ELSE s \in schema

(* A replica runs everything that is missing before what needs it. *)
Sound(r) ==
    \A k \in 1..Len(todo[r]) : \A s \in Needs(todo[r][k]) :
        Did(s) \/ \E j \in 1..(k - 1) : todo[r][j] = s

(* The record of add_updated_at comes last of that migration, and comes.    *)
Ordered(s) ==
    /\ \A j, k \in 1..Len(s) :
        /\ s[k] = "add_updated_at" /\ s[j] \in {"updated_at", "backfill", "add_updated_at"} => j <= k
        /\ s[j] = "updated_at" /\ s[k] = "backfill" => j < k
    /\ \A k \in 1..Len(s) : s[k] = "backfill" => \E l \in 1..Len(s) : s[l] = "add_updated_at"

Occurs(x, s) == \E k \in 1..Len(s) : s[k] = x

(* The replica that has added the column and not yet recorded that. *)
Holds(r) == Occurs("add_updated_at", todo[r]) /\ ~Occurs("updated_at", todo[r])

RecordedIsDone == \A n \in recorded : \A s \in Needs(n) : Did(s)

StampHasColumn == Did("backfill") => "updated_at" \in schema

OneHolds ==
    \A r \in Replicas : Holds(r) =>
        /\ "updated_at" \in schema /\ "add_updated_at" \notin recorded
        /\ \A q \in Replicas : Holds(q) => q = r

InTransaction ==
    Transactional => /\ "updated_at" \in schema => Did("backfill")
                     /\ \A r \in Replicas : ~Holds(r)

WrittenIsComplete == updated_at = "written" => recorded = Names

MigrationInv ==
    /\ MigrationTypeOK
    /\ RecordedIsDone
    /\ StampHasColumn
    /\ \A r \in Replicas : Sound(r) /\ Ordered(todo[r])
    /\ OneHolds
    /\ InTransaction
    /\ WrittenIsComplete

(* What a replica relies on at its stage. *)
Prepared(r) ==
    /\ stage[r] = "migrate" => ~Memory /\ \A n \in Names \ recorded : Occurs(n, todo[r])
    /\ stage[r] \in {"engines", "binlog", "material", "http", "bind", "serving", "draining"}
            /\ ~Memory => recorded = Names
    /\ stage[r] \in {"binlog", "material", "http", "bind", "serving", "draining"} /\ ~Memory
            => EnginesFit
    /\ stage[r] \in {"material", "http", "bind", "serving", "draining"} /\ ~Memory => BinlogFits

(* Requests are under way only where a replica serves. *)
Attended(q) == req[q].pc # "idle" => stage[req[q].at] \in {"serving", "draining"}

SchemaInv ==
    /\ MigrationInv
    /\ \A r \in Replicas : Prepared(r)
    /\ \A q \in Requests : Attended(q)

ModObjects == {"credentials", "status_lists", "idx_list_id", "idx_issuer", "idx_sub"}
HistoryObjects == {"status_list_history", "idx_resolution"}

LEMMA Catalogue ==
    /\ DOMAIN Migrator = 1..4
    /\ Migrator[1].name = "mod" /\ ToSet(Migrator[1].up) = ModObjects
    /\ Migrator[2].name = "add_updated_at" /\ ToSet(Migrator[2].up) = {"updated_at", "backfill"}
    /\ Migrator[3].name = "m20250101_000003_status_list_history"
    /\ ToSet(Migrator[3].up) = HistoryObjects
    /\ Migrator[4].name = "m20260727_000001_status_list_history_exp_index"
    /\ ToSet(Migrator[4].up) = {"idx_exp"}
  <1>1. DOMAIN Migrator = 1..4
    BY DEF Migrator
  <1>2. Migrator[1].name = "mod" /\ ToSet(Migrator[1].up) = ModObjects
    BY DEF Migrator, ToSet, ModObjects
  <1>3. Migrator[2].name = "add_updated_at" /\ ToSet(Migrator[2].up) = {"updated_at", "backfill"}
    BY DEF Migrator, ToSet
  <1>4. /\ Migrator[3].name = "m20250101_000003_status_list_history"
        /\ ToSet(Migrator[3].up) = HistoryObjects
    BY DEF Migrator, ToSet, HistoryObjects
  <1>5. /\ Migrator[4].name = "m20260727_000001_status_list_history_exp_index"
        /\ ToSet(Migrator[4].up) = {"idx_exp"}
    BY DEF Migrator, ToSet
  <1> QED BY <1>1, <1>2, <1>3, <1>4, <1>5

LEMMA NamesAre ==
    Names = {"mod", "add_updated_at", "m20250101_000003_status_list_history",
             "m20260727_000001_status_list_history_exp_index"}
  <1>1. \A i : i \in 1..4 <=> i = 1 \/ i = 2 \/ i = 3 \/ i = 4
    OBVIOUS
  <1> QED BY <1>1, Catalogue DEF Names

LEMMA StatementsAre ==
    Statements = ModObjects \cup {"updated_at", "backfill"} \cup HistoryObjects \cup {"idx_exp"}
  <1>1. \A i : i \in 1..4 <=> i = 1 \/ i = 2 \/ i = 3 \/ i = 4
    OBVIOUS
  <1> QED BY <1>1, Catalogue DEF Statements

LEMMA NeedsAre ==
    /\ Needs("mod") = ModObjects
    /\ Needs("add_updated_at") = {"updated_at", "backfill"}
    /\ Needs("m20250101_000003_status_list_history") = HistoryObjects
    /\ Needs("m20260727_000001_status_list_history_exp_index") = {"idx_exp"}
    /\ Needs("backfill") = {"updated_at"}
    /\ \A x \in Statements \ {"backfill"} : Needs(x) = {}
  <1>1. \A i : i \in 1..4 <=> i = 1 \/ i = 2 \/ i = 3 \/ i = 4
    OBVIOUS
  <1>2. \A x : Needs(x) = {s \in Statements :
                \/ x = "backfill" /\ s = "updated_at"
                \/ x = "mod" /\ s \in ModObjects
                \/ x = "add_updated_at" /\ s \in {"updated_at", "backfill"}
                \/ x = "m20250101_000003_status_list_history" /\ s \in HistoryObjects
                \/ x = "m20260727_000001_status_list_history_exp_index" /\ s = "idx_exp"}
    BY <1>1, Catalogue DEF Needs
  <1>3. \A x \in Statements : x \notin Names
    BY NamesAre, StatementsAre DEF ModObjects, HistoryObjects
  <1> QED BY <1>2, <1>3, NamesAre, StatementsAre

LEMMA KindsAre ==
    /\ Objects = ModObjects \cup {"updated_at"} \cup HistoryObjects \cup {"idx_exp"}
    /\ Tables \subseteq Objects /\ Indexes \subseteq Objects
    /\ "updated_at" \notin Tables \cup Indexes /\ "backfill" \notin Tables \cup Indexes
    /\ Statements \cap Names = {}
    /\ UNION {Needs(n) : n \in Names} = Statements
  <1>1. Objects = ModObjects \cup {"updated_at"} \cup HistoryObjects \cup {"idx_exp"}
    BY StatementsAre DEF Objects, ModObjects, HistoryObjects
  <1>2. Tables \subseteq Objects /\ Indexes \subseteq Objects
    BY <1>1 DEF Tables, Indexes, ModObjects, HistoryObjects
  <1>3. "updated_at" \notin Tables \cup Indexes /\ "backfill" \notin Tables \cup Indexes
    BY DEF Tables, Indexes
  <1>4. Statements \cap Names = {}
    BY NamesAre, StatementsAre DEF ModObjects, HistoryObjects
  <1>5. UNION {Needs(n) : n \in Names} = Statements
    BY NamesAre, StatementsAre, NeedsAre
  <1> QED BY <1>1, <1>2, <1>3, <1>4, <1>5

(* Nothing in s needs what does not come before it. *)
Closed(s) ==
    /\ s \in Seq(Statements \cup Names)
    /\ \A k \in 1..Len(s) : \A x \in Needs(s[k]) : \E j \in 1..(k - 1) : s[j] = x

LEMMA ClosedConcat ==
    ASSUME NEW s, NEW t, Closed(s), Closed(t)
    PROVE  /\ Closed(s \o t)
           /\ \A x : Occurs(x, s \o t) <=> Occurs(x, s) \/ Occurs(x, t)
  <1> DEFINE S == Statements \cup Names
  <1>1. s \in Seq(S) /\ t \in Seq(S)
    BY DEF Closed
  <1> HIDE DEF S
  <1>2. /\ s \o t \in Seq(S) /\ Len(s \o t) = Len(s) + Len(t) /\ Len(s) \in Nat /\ Len(t) \in Nat
        /\ \A k \in 1..Len(s) : (s \o t)[k] = s[k]
        /\ \A k \in 1..Len(t) : (s \o t)[k + Len(s)] = t[k]
    BY <1>1
  <1> DEFINE u == s \o t
  <1> HIDE DEF u
  <1>3. /\ Len(u) = Len(s) + Len(t)
        /\ \A k \in 1..Len(s) : u[k] = s[k]
        /\ \A k \in 1..Len(t) : u[k + Len(s)] = t[k]
        /\ \A k \in 1..Len(u) : k \in 1..Len(s) \/ k - Len(s) \in 1..Len(t)
    BY <1>2 DEF u
  <1>4. ASSUME NEW k \in 1..Len(u), NEW x \in Needs(u[k]) PROVE \E j \in 1..(k - 1) : u[j] = x
    <2>1. CASE k \in 1..Len(s)
      <3>1. PICK j \in 1..(k - 1) : s[j] = x
        BY <1>3, <1>4, <2>1 DEF Closed
      <3>2. j \in 1..Len(s)
        BY <1>2, <2>1, <3>1
      <3>3. u[j] = x
        BY <1>3, <3>1, <3>2
      <3> QED BY <3>1, <3>3
    <2>2. CASE k - Len(s) \in 1..Len(t)
      <3> DEFINE m == k - Len(s)
      <3>1. u[k] = t[m] /\ m \in 1..Len(t)
        BY <1>2, <1>3, <2>2
      <3>2. PICK j \in 1..(m - 1) : t[j] = x
        BY <1>4, <3>1 DEF Closed
      <3>3. j + Len(s) \in 1..(k - 1) /\ u[j + Len(s)] = x
        BY <1>2, <1>3, <3>1, <3>2
      <3> QED BY <3>3
    <2> QED BY <1>3, <2>1, <2>2
  <1>5. ASSUME NEW x PROVE Occurs(x, u) <=> Occurs(x, s) \/ Occurs(x, t)
    <2>1. ASSUME NEW k \in 1..Len(s), s[k] = x PROVE Occurs(x, u)
      BY <1>2, <1>3, <2>1 DEF Occurs
    <2>2. ASSUME NEW k \in 1..Len(t), t[k] = x PROVE Occurs(x, u)
      <3>1. k + Len(s) \in 1..Len(u) /\ u[k + Len(s)] = x
        BY <1>2, <1>3, <2>2
      <3> QED BY <3>1 DEF Occurs
    <2>3. ASSUME NEW k \in 1..Len(u), u[k] = x PROVE Occurs(x, s) \/ Occurs(x, t)
      <3>1. CASE k \in 1..Len(s)
        BY <1>3, <2>3, <3>1 DEF Occurs
      <3>2. CASE k - Len(s) \in 1..Len(t)
        <4>1. t[k - Len(s)] = x
          BY <1>2, <1>3, <2>3, <3>2
        <4> QED BY <3>2, <4>1 DEF Occurs
      <3> QED BY <1>3, <3>1, <3>2
    <2> QED BY <2>1, <2>2, <2>3 DEF Occurs
  <1> QED BY <1>2, <1>4, <1>5 DEF Closed, u, S

Stamping == {"updated_at", "backfill", "add_updated_at"}

LEMMA OrderedConcat ==
    ASSUME NEW s, NEW t, Closed(s), Closed(t), Ordered(s), Ordered(t),
           \/ \A x \in Stamping : ~Occurs(x, s)
           \/ \A x \in Stamping : ~Occurs(x, t)
    PROVE  Ordered(s \o t)
  <1> DEFINE S == Statements \cup Names
             u == s \o t
  <1>1. s \in Seq(S) /\ t \in Seq(S)
    BY DEF Closed
  <1> HIDE DEF S, u
  <1>2. /\ Len(u) = Len(s) + Len(t) /\ Len(s) \in Nat /\ Len(t) \in Nat
        /\ \A k \in 1..Len(s) : u[k] = s[k]
        /\ \A k \in 1..Len(t) : u[k + Len(s)] = t[k]
    BY <1>1 DEF u
  <1>3. CASE \A x \in Stamping : ~Occurs(x, t)
    <2>1. \A k \in 1..Len(u) : u[k] \in Stamping => k \in 1..Len(s) /\ s[k] = u[k]
      <3> SUFFICES ASSUME NEW k \in 1..Len(u), u[k] \in Stamping, k \notin 1..Len(s) PROVE FALSE
        BY <1>2
      <3>1. k - Len(s) \in 1..Len(t) /\ t[k - Len(s)] = u[k]
        BY <1>2
      <3> QED BY <1>3, <3>1 DEF Occurs
    <2>2. \A k \in 1..Len(s) : k \in 1..Len(u) /\ u[k] = s[k]
      BY <1>2
    <2> QED BY <2>1, <2>2 DEF Ordered, Stamping, u
  <1>4. CASE \A x \in Stamping : ~Occurs(x, s)
    <2>1. \A k \in 1..Len(u) : u[k] \in Stamping => k - Len(s) \in 1..Len(t) /\ t[k - Len(s)] = u[k]
      <3> SUFFICES ASSUME NEW k \in 1..Len(u), u[k] \in Stamping
                   PROVE  k - Len(s) \in 1..Len(t) /\ t[k - Len(s)] = u[k]
        OBVIOUS
      <3>1. k \notin 1..Len(s)
        BY <1>2, <1>4 DEF Occurs
      <3> QED BY <1>2, <3>1
    <2>2. \A k \in 1..Len(t) : k + Len(s) \in 1..Len(u) /\ u[k + Len(s)] = t[k]
      BY <1>2
    <2>3. ASSUME NEW j \in 1..Len(u), NEW k \in 1..Len(u)
          PROVE  /\ u[k] = "add_updated_at" /\ u[j] \in Stamping => j <= k
                 /\ u[j] = "updated_at" /\ u[k] = "backfill" => j < k
      <3>1. ASSUME u[j] \in Stamping, u[k] \in Stamping
            PROVE  /\ u[k] = "add_updated_at" /\ u[j] \in Stamping => j - Len(s) <= k - Len(s)
                   /\ u[j] = "updated_at" /\ u[k] = "backfill" => j - Len(s) < k - Len(s)
        BY <2>1, <3>1 DEF Ordered, Stamping
      <3> QED BY <1>2, <3>1 DEF Stamping
    <2>4. ASSUME NEW k \in 1..Len(u), u[k] = "backfill"
          PROVE  \E l \in 1..Len(u) : u[l] = "add_updated_at"
      BY <2>1, <2>2, <2>4 DEF Ordered, Stamping
    <2> QED BY <2>3, <2>4 DEF Ordered, Stamping, u
  <1> QED BY <1>3, <1>4

(* The part of Pending that one migration contributes. *)
LEMMA PendingPart ==
    ASSUME NEW done, NEW i \in 1..4
    PROVE  LET part == Unless(done, Migrator[i]) IN
           /\ Closed(part) /\ Ordered(part)
           /\ Migrator[i].name \notin done => Occurs(Migrator[i].name, part)
           /\ i # 2 => \A x \in Stamping : ~Occurs(x, part)
           /\ Occurs("add_updated_at", part) => Occurs("updated_at", part)
  <1> DEFINE part == Unless(done, Migrator[i])
             Goal == /\ Closed(part) /\ Ordered(part)
                     /\ Migrator[i].name \notin done => Occurs(Migrator[i].name, part)
                     /\ i # 2 => \A x \in Stamping : ~Occurs(x, part)
                     /\ Occurs("add_updated_at", part) => Occurs("updated_at", part)
  <1>1. CASE Migrator[i].name \in done
    <2>1. part = <<>>
      BY <1>1 DEF Unless
    <2> HIDE DEF part
    <2> QED BY <1>1, <2>1 DEF Closed, Ordered, Occurs, part
  <1>2. CASE Migrator[i].name \notin done /\ i = 1
    <2> DEFINE up == <<"credentials", "status_lists", "idx_list_id", "idx_issuer", "idx_sub">>
    <2>0. up \in Seq(Statements \cup Names) /\ "mod" \in Names /\ Len(up) = 5
      BY NamesAre, StatementsAre DEF ModObjects
    <2>1. part = Append(up, "mod")
      BY <1>2 DEF Unless, Migrator
    <2> HIDE DEF part
    <2>2. Len(part) = 6 /\ \A k \in 1..6 : k = 1 \/ k = 2 \/ k = 3 \/ k = 4 \/ k = 5 \/ k = 6
      BY <2>0, <2>1
    <2>3. /\ part[1] = "credentials" /\ part[2] = "status_lists" /\ part[3] = "idx_list_id"
          /\ part[4] = "idx_issuer" /\ part[5] = "idx_sub" /\ part[6] = "mod"
      BY <2>0, <2>1
    <2>4. part \in Seq(Statements \cup Names)
      BY <2>0, <2>1
    <2>5. \A k \in 1..6 : k # 6 => Needs(part[k]) = {}
      BY <2>2, <2>3, NeedsAre, StatementsAre DEF ModObjects
    <2>6. Closed(part)
      <3>1. ASSUME NEW x \in Needs(part[6]) PROVE \E j \in 1..5 : part[j] = x
        BY <2>3, NeedsAre DEF ModObjects
      <3> QED BY <2>2, <2>4, <2>5, <3>1 DEF Closed
    <2>7. \A x \in Stamping : ~Occurs(x, part)
      BY <2>2, <2>3 DEF Occurs, Stamping
    <2>8. Ordered(part)
      BY <2>2, <2>3 DEF Ordered
    <2>9. Occurs("mod", part)
      BY <2>2, <2>3 DEF Occurs
    <2> QED BY <1>2, <2>6, <2>7, <2>8, <2>9, Catalogue DEF part, Stamping
  <1>3. CASE Migrator[i].name \notin done /\ i = 2
    <2> DEFINE up == <<"updated_at", "backfill">>
    <2>0. up \in Seq(Statements \cup Names) /\ "add_updated_at" \in Names /\ Len(up) = 2
      BY NamesAre, StatementsAre
    <2>1. part = Append(up, "add_updated_at")
      BY <1>3 DEF Unless, Migrator
    <2> HIDE DEF part
    <2>2. Len(part) = 3 /\ \A k \in 1..3 : k = 1 \/ k = 2 \/ k = 3
      BY <2>0, <2>1
    <2>3. part[1] = "updated_at" /\ part[2] = "backfill" /\ part[3] = "add_updated_at"
      BY <2>0, <2>1
    <2>4. part \in Seq(Statements \cup Names)
      BY <2>0, <2>1
    <2>5. Needs(part[1]) = {} /\ Needs(part[2]) = {part[1]} /\ Needs(part[3]) = {part[1], part[2]}
      BY <2>3, NeedsAre, StatementsAre
    <2>6. Closed(part)
      BY <2>2, <2>4, <2>5 DEF Closed
    <2>7. Ordered(part)
      BY <2>2, <2>3 DEF Ordered
    <2>8. Occurs("add_updated_at", part) /\ Occurs("updated_at", part)
      BY <2>2, <2>3 DEF Occurs
    <2> QED BY <1>3, <2>6, <2>7, <2>8, Catalogue DEF part
  <1>4. CASE Migrator[i].name \notin done /\ i = 3
    <2> DEFINE up == <<"status_list_history", "idx_resolution">>
    <2>0. up \in Seq(Statements \cup Names) /\ "m20250101_000003_status_list_history" \in Names /\ Len(up) = 2
      BY NamesAre, StatementsAre DEF HistoryObjects
    <2>1. part = Append(up, "m20250101_000003_status_list_history")
      BY <1>4 DEF Unless, Migrator
    <2> HIDE DEF part
    <2>2. Len(part) = 3 /\ \A k \in 1..3 : k = 1 \/ k = 2 \/ k = 3
      BY <2>0, <2>1
    <2>3. /\ part[1] = "status_list_history" /\ part[2] = "idx_resolution"
          /\ part[3] = "m20250101_000003_status_list_history"
      BY <2>0, <2>1
    <2>4. part \in Seq(Statements \cup Names)
      BY <2>0, <2>1
    <2>5. Needs(part[1]) = {} /\ Needs(part[2]) = {} /\ Needs(part[3]) = {part[1], part[2]}
      BY <2>3, NeedsAre, StatementsAre DEF HistoryObjects
    <2>6. Closed(part)
      BY <2>2, <2>4, <2>5 DEF Closed
    <2>7. \A x \in Stamping : ~Occurs(x, part)
      BY <2>2, <2>3 DEF Occurs, Stamping
    <2>8. Ordered(part)
      BY <2>2, <2>3 DEF Ordered
    <2>9. Occurs(part[3], part)
      BY <2>2 DEF Occurs
    <2> QED BY <1>4, <2>3, <2>6, <2>7, <2>8, <2>9, Catalogue DEF part, Stamping
  <1>5. CASE Migrator[i].name \notin done /\ i = 4
    <2> DEFINE up == <<"idx_exp">>
    <2>0. /\ up \in Seq(Statements \cup Names) /\ Len(up) = 1
          /\ "m20260727_000001_status_list_history_exp_index" \in Names
      BY NamesAre, StatementsAre
    <2>1. part = Append(up, "m20260727_000001_status_list_history_exp_index")
      BY <1>5 DEF Unless, Migrator
    <2> HIDE DEF part
    <2>2. Len(part) = 2 /\ \A k \in 1..2 : k = 1 \/ k = 2
      BY <2>0, <2>1
    <2>3. part[1] = "idx_exp" /\ part[2] = "m20260727_000001_status_list_history_exp_index"
      BY <2>0, <2>1
    <2>4. part \in Seq(Statements \cup Names)
      BY <2>0, <2>1
    <2>5. Needs(part[1]) = {} /\ Needs(part[2]) = {part[1]}
      BY <2>3, NeedsAre, StatementsAre
    <2>6. Closed(part)
      BY <2>2, <2>4, <2>5 DEF Closed
    <2>7. \A x \in Stamping : ~Occurs(x, part)
      BY <2>2, <2>3 DEF Occurs, Stamping
    <2>8. Ordered(part)
      BY <2>2, <2>3 DEF Ordered
    <2>9. Occurs(part[2], part)
      BY <2>2 DEF Occurs
    <2> QED BY <1>5, <2>3, <2>6, <2>7, <2>8, <2>9, Catalogue DEF part, Stamping
  <1> QED BY <1>1, <1>2, <1>3, <1>4, <1>5

(* Pending runs every migration that is not recorded, each in its order.    *)
LEMMA PendingIsSound ==
    ASSUME NEW done
    PROVE  LET all == Pending(done) IN
           /\ Closed(all) /\ Ordered(all)
           /\ \A n \in Names \ done : Occurs(n, all)
           /\ Occurs("add_updated_at", all) => Occurs("updated_at", all)
  <1> DEFINE p(i) == Unless(done, Migrator[i])
             a == p(1) \o p(2)
             b == a \o p(3)
             c == b \o p(4)
  <1>1. /\ \A i \in 1..4 : Closed(p(i)) /\ Ordered(p(i))
        /\ \A i \in 1..4 : Migrator[i].name \notin done => Occurs(Migrator[i].name, p(i))
        /\ \A x \in Stamping : ~Occurs(x, p(1)) /\ ~Occurs(x, p(3)) /\ ~Occurs(x, p(4))
        /\ Occurs("add_updated_at", p(2)) => Occurs("updated_at", p(2))
    BY PendingPart
  <1>2. Pending(done) = c
    BY DEF Pending
  <1> HIDE DEF p
  <1>3. /\ Closed(a) /\ Ordered(a)
        /\ \A x : Occurs(x, a) <=> Occurs(x, p(1)) \/ Occurs(x, p(2))
    BY <1>1, ClosedConcat, OrderedConcat
  <1> HIDE DEF a
  <1>4. /\ Closed(b) /\ Ordered(b)
        /\ \A x : Occurs(x, b) <=> Occurs(x, a) \/ Occurs(x, p(3))
    BY <1>1, <1>3, ClosedConcat, OrderedConcat
  <1> HIDE DEF b
  <1>5. /\ Closed(c) /\ Ordered(c)
        /\ \A x : Occurs(x, c) <=> Occurs(x, b) \/ Occurs(x, p(4))
    BY <1>1, <1>4, ClosedConcat, OrderedConcat
  <1> HIDE DEF c
  <1>6. \A n \in Names \ done : Occurs(n, c)
    BY <1>1, <1>3, <1>4, <1>5, NamesAre, Catalogue
  <1>7. Occurs("add_updated_at", c) => Occurs("updated_at", c)
    BY <1>1, <1>3, <1>4, <1>5 DEF Stamping
  <1> QED BY <1>2, <1>5, <1>6, <1>7

(* A statement that is through is done, and what needs it may follow. *)
LEMMA ThroughKeepsOrder ==
    ASSUME MigrationInv, NEW r \in Replicas, todo[r] # <<>>, Through(r),
           NEW h, h = Head(todo[r]), h \in Statements => Did(h)',
           \A s \in Statements : Did(s) => Did(s)'
    PROVE  /\ todo' \in [Replicas -> Seq(Statements \cup Names)]
           /\ \A q \in Replicas : Sound(q)' /\ Ordered(todo[q])'
           /\ \A q \in Replicas : \A x : Occurs(x, todo[q])' => Occurs(x, todo[q])
           /\ \A q \in Replicas : \A x : Occurs(x, todo[q]) /\ (q = r => x # h) => Occurs(x, todo[q])'
  <1> DEFINE s == todo[r]
             t == Tail(s)
  <1>1. s \in Seq(Statements \cup Names) /\ s # <<>>
    BY DEF MigrationInv, MigrationTypeOK
  <1>2. todo' = [todo EXCEPT ![r] = t] /\ todo \in [Replicas -> Seq(Statements \cup Names)]
    BY DEF Through, MigrationInv, MigrationTypeOK
  <1> HIDE DEF s
  <1>3. /\ t \in Seq(Statements \cup Names) /\ Len(s) \in Nat \ {0} /\ Len(t) = Len(s) - 1
        /\ h = s[1] /\ \A k \in 1..Len(t) : t[k] = s[k + 1]
    BY <1>1 DEF s
  <1> HIDE DEF t
  <1>4. /\ todo' \in [Replicas -> Seq(Statements \cup Names)]
        /\ todo'[r] = t /\ \A q \in Replicas \ {r} : todo'[q] = todo[q]
    BY <1>2, <1>3
  <1>5. /\ \A k \in 1..Len(t) : k + 1 \in 1..Len(s) /\ s[k + 1] = t[k]
        /\ \A k \in 1..Len(s) : k # 1 => k - 1 \in 1..Len(t) /\ t[k - 1] = s[k]
    BY <1>3
  <1>6. \A x : Occurs(x, t) => Occurs(x, s)
    BY <1>5 DEF Occurs
  <1>7. \A x : Occurs(x, s) /\ x # h => Occurs(x, t)
    BY <1>3, <1>5 DEF Occurs
  <1>8. \A y : \A x \in Needs(y) : x \in Statements
    BY DEF Needs
  <1>9. Sound(r)'
    <2> SUFFICES ASSUME NEW k \in 1..Len(t), NEW x \in Needs(t[k]), ~Did(x)'
                 PROVE  \E j \in 1..(k - 1) : t[j] = x
      BY <1>4 DEF Sound
    <2>1. k + 1 \in 1..Len(s) /\ s[k + 1] = t[k] /\ x \in Statements /\ ~Did(x) /\ x # h
      BY <1>5, <1>8
    <2>2. PICK j \in 1..((k + 1) - 1) : s[j] = x
      <3>1. Sound(r) /\ s = todo[r]
        BY DEF MigrationInv, s
      <3> QED BY <2>1, <3>1 DEF Sound
    <2>3. j # 1 /\ j \in 1..Len(s)
      BY <1>3, <2>1, <2>2
    <2>4. j - 1 \in 1..(k - 1) /\ t[j - 1] = x
      BY <1>5, <2>2, <2>3
    <2> QED BY <2>4
  <1>10. ASSUME NEW q \in Replicas, q # r PROVE Sound(q)'
    <2>1. Sound(q) /\ todo'[q] = todo[q]
      BY <1>4, <1>10 DEF MigrationInv
    <2> QED BY <1>8, <2>1 DEF Sound
  <1>11. Ordered(t)
    <2>1. Ordered(s)
      BY DEF MigrationInv, s
    <2>2. ASSUME NEW j \in 1..Len(t), NEW k \in 1..Len(t)
          PROVE  /\ t[k] = "add_updated_at" /\ t[j] \in {"updated_at", "backfill", "add_updated_at"}
                        => j <= k
                 /\ t[j] = "updated_at" /\ t[k] = "backfill" => j < k
      <3>1. /\ s[k+1] = "add_updated_at" /\ s[j+1] \in {"updated_at", "backfill", "add_updated_at"}
                        => j + 1 <= k + 1
            /\ s[j+1] = "updated_at" /\ s[k+1] = "backfill" => j + 1 < k + 1
        BY <1>5, <2>1 DEF Ordered
      <3> QED BY <1>5, <3>1
    <2>3. ASSUME NEW k \in 1..Len(t), t[k] = "backfill"
          PROVE  \E l \in 1..Len(t) : t[l] = "add_updated_at"
      <3>1. PICK l \in 1..Len(s) : s[l] = "add_updated_at"
        BY <1>5, <2>1, <2>3 DEF Ordered
      <3>2. k + 1 <= l
        BY <1>5, <2>1, <2>3, <3>1 DEF Ordered
      <3>3. l # 1
        BY <3>2
      <3> QED BY <1>5, <3>1, <3>3
    <2> QED BY <2>2, <2>3 DEF Ordered
  <1>12. \A q \in Replicas : Ordered(todo'[q])
    BY <1>4, <1>11 DEF MigrationInv
  <1>13. \A q \in Replicas : Ordered(todo[q])'
    BY <1>12 DEF Ordered
  <1>14. ASSUME NEW q \in Replicas, NEW x
         PROVE  /\ Occurs(x, todo[q])' => Occurs(x, todo[q])
                /\ Occurs(x, todo[q]) /\ (q = r => x # h) => Occurs(x, todo[q])'
    <2>1. Occurs(x, todo[q])' <=> Occurs(x, todo'[q])
      BY DEF Occurs
    <2>2. CASE q = r
      BY <1>4, <1>6, <1>7, <2>1, <2>2 DEF s
    <2>3. CASE q # r
      BY <1>4, <2>1, <2>3
    <2> QED BY <2>2, <2>3
  <1> QED BY <1>4, <1>9, <1>10, <1>13, <1>14

(* A replica whose next statement is the backfill is the one that added the *)
(* column; so is one about to record add_updated_at.                        *)
LEMMA HeadHolds ==
    ASSUME MigrationInv, NEW r \in Replicas, todo[r] # <<>>,
           Head(todo[r]) \in {"backfill", "add_updated_at"}
    PROVE  Holds(r)
  <1> DEFINE s == todo[r]
  <1>1. s \in Seq(Statements \cup Names) /\ s # <<>> /\ Ordered(s)
    BY DEF MigrationInv, MigrationTypeOK
  <1> HIDE DEF s
  <1>2. Len(s) \in Nat \ {0} /\ s[1] \in {"backfill", "add_updated_at"} /\ 1 \in 1..Len(s)
    BY <1>1 DEF s
  <1>3. Occurs("add_updated_at", s)
    BY <1>1, <1>2 DEF Ordered, Occurs
  <1>4. ASSUME NEW j \in 1..Len(s), s[j] = "updated_at" PROVE FALSE
    <2>1. j # 1
      BY <1>2, <1>4
    <2>2. j <= 1
      BY <1>1, <1>2, <1>4 DEF Ordered
    <2> QED BY <2>1, <2>2
  <1> QED BY <1>3, <1>4 DEF Holds, Occurs, s

LEMMA HeadNeeds ==
    ASSUME MigrationInv, NEW r \in Replicas, todo[r] # <<>>, NEW s \in Needs(Head(todo[r]))
    PROVE  Did(s)
  <1>1. todo[r] \in Seq(Statements \cup Names) /\ Sound(r)
    BY DEF MigrationInv, MigrationTypeOK
  <1>2. Head(todo[r]) = todo[r][1] /\ 1 \in 1..Len(todo[r])
    BY <1>1
  <1>3. \A k \in 1..0 : FALSE
    OBVIOUS
  <1> QED BY <1>1, <1>2, <1>3 DEF Sound

LEMMA HoldsThrough ==
    ASSUME MigrationInv, NEW r \in Replicas, NEW h,
           \A q \in Replicas : \A x : Occurs(x, todo[q])' => Occurs(x, todo[q]),
           \A q \in Replicas : \A x : Occurs(x, todo[q]) /\ (q = r => x # h) => Occurs(x, todo[q])'
    PROVE  \A q \in Replicas : Holds(q)' => Holds(q) \/ (q = r /\ h = "updated_at")
  BY DEF Holds

LEMMA StepInv ==
    ASSUME MigrationInv, NEW r \in Replicas, ~Transactional, plan' = plan,
           MigrationStep(r, Mysql)
    PROVE  /\ MigrationInv'
           /\ updated_at = "written" => updated_at' = "written"
           /\ recorded \subseteq recorded'
           /\ \A n \in Names \ recorded' : Occurs(n, todo[r]) => Occurs(n, todo[r])'
           /\ \A q \in Replicas \ {r} : todo'[q] = todo[q]
           /\ verify_innodb_engines => verify_innodb_engines'
           /\ binlog' = binlog
  <1>h. PICK h : h = Head(todo[r])
    OBVIOUS
  <1>0. /\ schema \subseteq Objects /\ recorded \subseteq Names
        /\ engine \in [Tables -> {"InnoDB", "MyISAM"}]
        /\ todo \in [Replicas -> Seq(Statements \cup Names)]
        /\ updated_at \in {"absent", "zero", "migrated", "written"}
        /\ binlog \in {"ROW", "STATEMENT"}
    BY DEF MigrationInv, MigrationTypeOK
  <1>1. todo[r] # <<>> /\ Through(r)
    BY DEF MigrationStep, CreateTable, CreateIndex, AddUpdatedAt, Backfill, Record, Running
  <1>2. ~Transactional'
    BY DEF Transactional, config
  <1>3. \A q \in Replicas \ {r} : todo'[q] = todo[q]
    BY <1>0, <1>1 DEF Through
  <1>4. /\ "updated_at" \in Objects /\ "backfill" \notin Objects
        /\ "add_updated_at" \in Names /\ "add_updated_at" \notin Statements
        /\ Objects \subseteq Statements
    BY KindsAre, NamesAre DEF Objects
  (* The obligations that the five kinds of statement share. *)
  <1>5. ASSUME h \in Statements => Did(h)', \A s \in Statements : Did(s) => Did(s)'
        PROVE  /\ todo' \in [Replicas -> Seq(Statements \cup Names)]
               /\ \A q \in Replicas : Sound(q)' /\ Ordered(todo[q])'
               /\ \A q \in Replicas : Holds(q)' => Holds(q) \/ (q = r /\ h = "updated_at")
               /\ \A x : Occurs(x, todo[r]) /\ x # h => Occurs(x, todo[r])'
               /\ \A x : Occurs(x, todo[r])' => Occurs(x, todo[r])
    <2>1. /\ todo' \in [Replicas -> Seq(Statements \cup Names)]
          /\ \A q \in Replicas : Sound(q)' /\ Ordered(todo[q])'
          /\ \A q \in Replicas : \A x : Occurs(x, todo[q])' => Occurs(x, todo[q])
          /\ \A q \in Replicas : \A x : Occurs(x, todo[q]) /\ (q = r => x # h) => Occurs(x, todo[q])'
      BY <1>h, <1>1, <1>5, ThroughKeepsOrder
    <2>2. \A q \in Replicas : Holds(q)' => Holds(q) \/ (q = r /\ h = "updated_at")
      BY <2>1, HoldsThrough
    <2> QED BY <2>1, <2>2
  <1>6. ASSUME h \in Tables \cup Indexes, schema' = schema \cup {h},
               UNCHANGED <<recorded, binlog, updated_at>>,
               engine' \in [Tables -> {"InnoDB", "MyISAM"}],
               \A t \in Tables : engine'[t] = engine[t] \/ engine'[t] = "InnoDB",
               \A t \in Tables : t \in schema' \ schema => engine'[t] = "InnoDB"
        PROVE  /\ MigrationInv'
               /\ updated_at = "written" => updated_at' = "written"
               /\ \A n \in Names \ recorded' : Occurs(n, todo[r]) => Occurs(n, todo[r])'
               /\ verify_innodb_engines => verify_innodb_engines'
    <2>1. h \in Objects /\ h # "updated_at" /\ h # "backfill" /\ h \notin Names
      BY <1>4, <1>6, KindsAre
    <2>2. (h \in Statements => Did(h)') /\ \A s \in Statements : Did(s) => Did(s)'
      BY <1>6, <2>1 DEF Did
    <2>3. MigrationTypeOK'
      BY <1>0, <1>5, <1>6, <2>1, <2>2 DEF MigrationTypeOK
    <2>4. RecordedIsDone' /\ StampHasColumn' /\ WrittenIsComplete'
      <3>1. \A n : \A s \in Needs(n) : s \in Statements
        BY DEF Needs
      <3> QED BY <1>6, <2>1, <2>2, <3>1 DEF MigrationInv, RecordedIsDone, StampHasColumn,
              WrittenIsComplete, Did
    <2>5. OneHolds'
      BY <1>5, <1>6, <2>1, <2>2 DEF MigrationInv, OneHolds
    <2>6. InTransaction'
      BY <1>2 DEF InTransaction
    <2>7. MigrationInv'
      BY <1>5, <2>2, <2>3, <2>4, <2>5, <2>6 DEF MigrationInv
    <2>8. \A n \in Names : Occurs(n, todo[r]) => Occurs(n, todo[r])'
      BY <1>5, <2>1, <2>2
    <2>9. verify_innodb_engines => verify_innodb_engines'
      BY <1>6 DEF verify_innodb_engines
    <2> QED BY <1>6, <2>7, <2>8, <2>9
  <1>7. CASE CreateTable(r)
    <2>1. /\ h \in Tables \cup Indexes /\ schema' = schema \cup {h}
          /\ UNCHANGED <<recorded, binlog, updated_at>>
          /\ engine' \in [Tables -> {"InnoDB", "MyISAM"}]
          /\ \A t \in Tables : engine'[t] = engine[t] \/ engine'[t] = "InnoDB"
          /\ \A t \in Tables : t \in schema' \ schema => engine'[t] = "InnoDB"
      BY <1>h, <1>0, <1>7 DEF CreateTable, Running
    <2> QED BY <1>3, <1>6, <2>1
  <1>8. CASE CreateIndex(r, Mysql)
    <2>1. /\ h \in Tables \cup Indexes /\ schema' = schema \cup {h}
          /\ UNCHANGED <<recorded, binlog, updated_at, engine>>
          /\ h \notin Tables
      BY <1>h, <1>0, <1>8 DEF CreateIndex, Running, Tables, Indexes
    <2> QED BY <1>0, <1>3, <1>6, <2>1
  <1>9. CASE AddUpdatedAt(r)
    <2>1. /\ h = "updated_at" /\ "updated_at" \notin schema /\ schema' = schema \cup {"updated_at"}
          /\ updated_at' = "zero" /\ UNCHANGED <<recorded, engine, binlog>>
      BY <1>h, <1>9 DEF AddUpdatedAt, Running
    <2>2. updated_at \notin {"migrated", "written"}
      BY <2>1 DEF MigrationInv, StampHasColumn, Did
    <2>3. (h \in Statements => Did(h)') /\ \A s \in Statements : Did(s) => Did(s)'
      BY <2>1, <2>2 DEF Did
    <2>4. "add_updated_at" \notin recorded
      <3>1. "updated_at" \in Needs("add_updated_at")
        BY NeedsAre
      <3> QED BY <2>1, <3>1 DEF MigrationInv, RecordedIsDone, Did
    <2>5. MigrationTypeOK'
      BY <1>0, <1>4, <1>5, <2>1, <2>3 DEF MigrationTypeOK
    <2>6. RecordedIsDone' /\ StampHasColumn' /\ WrittenIsComplete' /\ InTransaction'
      <3>1. \A n : \A s \in Needs(n) : s \in Statements
        BY DEF Needs
      <3> QED BY <1>2, <2>1, <2>3, <3>1 DEF MigrationInv, RecordedIsDone, StampHasColumn,
              WrittenIsComplete, InTransaction, Did
    <2>7. OneHolds'
      <3>1. \A q \in Replicas : ~Holds(q)
        BY <2>1 DEF MigrationInv, OneHolds
      <3> QED BY <1>5, <2>1, <2>3, <2>4, <3>1 DEF OneHolds
    <2>8. \A n \in Names : Occurs(n, todo[r]) => Occurs(n, todo[r])'
      BY <1>4, <1>5, <2>1, <2>3, KindsAre
    <2>9. verify_innodb_engines => verify_innodb_engines'
      BY <2>1, KindsAre DEF verify_innodb_engines
    <2> QED BY <1>3, <1>5, <2>1, <2>2, <2>3, <2>5, <2>6, <2>7, <2>8, <2>9 DEF MigrationInv
  <1>10. CASE Backfill(r)
    <2>1. h = "backfill" /\ updated_at' = "migrated" /\ UNCHANGED <<schema, recorded, engine, binlog>>
      BY <1>h, <1>10 DEF Backfill, Running
    <2>2. "updated_at" \in schema
      <3>1. "updated_at" \in Needs(h)
        BY <2>1, NeedsAre
      <3>2. Did("updated_at")
        BY <1>1, <3>1, <1>h, HeadNeeds
      <3> QED BY <3>2 DEF Did
    <2>3. (h \in Statements => Did(h)') /\ \A s \in Statements : Did(s) => Did(s)'
      BY <2>1 DEF Did
    <2>4. MigrationTypeOK'
      BY <1>0, <1>5, <2>1, <2>3 DEF MigrationTypeOK
    <2>5. RecordedIsDone' /\ StampHasColumn' /\ WrittenIsComplete' /\ InTransaction'
      <3>1. \A n : \A s \in Needs(n) : s \in Statements
        BY DEF Needs
      <3> QED BY <1>2, <2>1, <2>2, <2>3, <3>1 DEF MigrationInv, RecordedIsDone, StampHasColumn,
              WrittenIsComplete, InTransaction
    <2>6. OneHolds'
      BY <1>5, <2>1, <2>3 DEF MigrationInv, OneHolds
    <2>7. updated_at # "written"
      <3>1. Holds(r)
        BY <1>1, <2>1, <1>h, HeadHolds
      <3> QED BY <1>4, <3>1 DEF MigrationInv, OneHolds, WrittenIsComplete
    <2>8. \A n \in Names : Occurs(n, todo[r]) => Occurs(n, todo[r])'
      BY <1>5, <2>1, <2>3, KindsAre, StatementsAre
    <2>9. verify_innodb_engines => verify_innodb_engines'
      BY <2>1 DEF verify_innodb_engines
    <2> QED BY <1>3, <1>5, <2>1, <2>3, <2>4, <2>5, <2>6, <2>7, <2>8, <2>9 DEF MigrationInv
  <1>11. CASE Record(r)
    <2>1. /\ h \in Names /\ h \notin recorded /\ recorded' = recorded \cup {h}
          /\ UNCHANGED <<schema, engine, binlog, updated_at>>
      BY <1>h, <1>11 DEF Record, Running
    <2>2. h \notin Statements /\ \A s \in Statements : Did(s) => Did(s)'
      BY <2>1, KindsAre DEF Did
    <2>3. MigrationTypeOK'
      BY <1>0, <1>5, <2>1, <2>2 DEF MigrationTypeOK
    <2>4. RecordedIsDone'
      <3>1. \A n : \A s \in Needs(n) : s \in Statements
        BY DEF Needs
      <3>2. \A s \in Needs(h) : Did(s)
        BY <1>1, <1>h, HeadNeeds
      <3> QED BY <2>1, <2>2, <3>1, <3>2 DEF MigrationInv, RecordedIsDone
    <2>5. StampHasColumn' /\ WrittenIsComplete' /\ InTransaction'
      BY <1>0, <1>2, <2>1 DEF MigrationInv, StampHasColumn, WrittenIsComplete, InTransaction, Did
    <2>6. OneHolds'
      <3>1. \A q \in Replicas : Holds(q)' => Holds(q)
        BY <1>5, <2>1, <2>2, <1>4
      <3>2. CASE h # "add_updated_at"
        BY <2>1, <3>1, <3>2 DEF MigrationInv, OneHolds
      <3>3. CASE h = "add_updated_at"
        <4>1. Holds(r)
          BY <1>1, <3>3, <1>h, HeadHolds
        <4>2. ~Occurs("add_updated_at", todo[r])'
          <5> DEFINE s == todo[r]
          <5>1. s \in Seq(Statements \cup Names) /\ s # <<>> /\ Ordered(s)
            BY <1>1 DEF MigrationInv, MigrationTypeOK
          <5>2. todo'[r] = Tail(s)
            BY <1>0, <1>1 DEF Through
          <5>3. s[1] = "add_updated_at"
            BY <1>h, <3>3, <5>1
          <5> HIDE DEF s
          <5>4. Len(Tail(s)) = Len(s) - 1 /\ \A k \in 1..Len(Tail(s)) : Tail(s)[k] = s[k + 1]
            BY <5>1
          <5>5. ASSUME NEW k \in 1..Len(Tail(s)), Tail(s)[k] = "add_updated_at" PROVE FALSE
            <6>1. s[k + 1] = "add_updated_at" /\ k + 1 \in 1..Len(s) /\ 1 \in 1..Len(s)
              BY <5>1, <5>4, <5>5
            <6>2. k + 1 <= 1
              BY <5>1, <5>3, <6>1 DEF Ordered
            <6> QED BY <6>2
          <5> QED BY <5>2, <5>5 DEF Occurs
        <4>3. \A q \in Replicas : ~Holds(q)'
          <5>1. ~Holds(r)'
            BY <4>2 DEF Holds
          <5> QED BY <3>1, <4>1, <5>1 DEF MigrationInv, OneHolds
        <4> QED BY <4>3 DEF OneHolds
      <3> QED BY <3>2, <3>3
    <2>7. \A n \in Names \ recorded' : Occurs(n, todo[r]) => Occurs(n, todo[r])'
      BY <1>5, <2>1, <2>2
    <2>8. verify_innodb_engines => verify_innodb_engines'
      BY <2>1 DEF verify_innodb_engines
    <2> QED BY <1>3, <1>5, <2>1, <2>2, <2>3, <2>4, <2>5, <2>6, <2>7, <2>8 DEF MigrationInv
  <1> QED BY <1>7, <1>8, <1>9, <1>10, <1>11 DEF MigrationStep

LEMMA ReadAppliedInv ==
    ASSUME MigrationInv, NEW r \in Replicas, plan' = plan, ReadApplied(r)
    PROVE  /\ MigrationInv'
           /\ \A n \in Names \ recorded' : Occurs(n, todo[r])'
           /\ \A q \in Replicas \ {r} : todo'[q] = todo[q]
  <1> DEFINE all == Pending(recorded)
  <1>1. /\ Closed(all) /\ Ordered(all)
        /\ \A n \in Names \ recorded : Occurs(n, all)
        /\ Occurs("add_updated_at", all) => Occurs("updated_at", all)
    BY PendingIsSound
  <1>2. /\ todo' = [todo EXCEPT ![r] = all] /\ UNCHANGED <<schema, recorded, engine, binlog, updated_at>>
        /\ todo \in [Replicas -> Seq(Statements \cup Names)]
    BY DEF ReadApplied, MigrationInv, MigrationTypeOK
  <1> HIDE DEF all
  <1>3. /\ todo' \in [Replicas -> Seq(Statements \cup Names)]
        /\ todo'[r] = all /\ \A q \in Replicas \ {r} : todo'[q] = todo[q]
    BY <1>1, <1>2 DEF Closed
  <1>4. \A q \in Replicas : Sound(q)'
    <2>1. Sound(r)'
      BY <1>1, <1>3 DEF Sound, Closed
    <2>2. ASSUME NEW q \in Replicas \ {r} PROVE Sound(q)'
      BY <1>2, <1>3 DEF Sound, Did, MigrationInv
    <2> QED BY <2>1, <2>2
  <1>5. \A q \in Replicas : Ordered(todo'[q])
    BY <1>1, <1>3 DEF MigrationInv
  <1>6. \A q \in Replicas : Ordered(todo[q])'
    BY <1>5 DEF Ordered
  <1>7. ASSUME NEW q \in Replicas, Holds(q)' PROVE Holds(q)
    <2>1. /\ Occurs("add_updated_at", todo'[q])
          /\ ~Occurs("updated_at", todo'[q])
      BY <1>7 DEF Holds, Occurs
    <2>2. q # r
      BY <1>1, <1>3, <2>1
    <2>3. todo'[q] = todo[q]
      BY <1>3, <2>2
    <2> QED BY <2>1, <2>3 DEF Holds
  <1>8. MigrationTypeOK'
    BY <1>2, <1>3 DEF MigrationInv, MigrationTypeOK
  <1>9. RecordedIsDone' /\ StampHasColumn' /\ OneHolds' /\ InTransaction' /\ WrittenIsComplete'
    BY <1>2, <1>7 DEF MigrationInv, RecordedIsDone, StampHasColumn, OneHolds, InTransaction,
       WrittenIsComplete, Did, Transactional, config
  <1>10. \A n \in Names \ recorded' : Occurs(n, todo[r])'
    BY <1>1, <1>2, <1>3 DEF Occurs
  <1> QED BY <1>3, <1>4, <1>6, <1>8, <1>9, <1>10 DEF MigrationInv

(* The end of a process, or of its transaction: nothing is left to run. *)
LEMMA EmptyInv ==
    ASSUME MigrationInv, NEW r \in Replicas, todo' = [todo EXCEPT ![r] = <<>>],
           \A s \in Statements : Did(s) => Did(s)'
    PROVE  /\ todo' \in [Replicas -> Seq(Statements \cup Names)]
           /\ \A q \in Replicas : Sound(q)' /\ Ordered(todo[q])' /\ (Holds(q)' => Holds(q))
           /\ todo'[r] = <<>> /\ \A q \in Replicas \ {r} : todo'[q] = todo[q]
  <1>1. todo \in [Replicas -> Seq(Statements \cup Names)]
    BY DEF MigrationInv, MigrationTypeOK
  <1>2. /\ todo' \in [Replicas -> Seq(Statements \cup Names)]
        /\ todo'[r] = <<>> /\ \A q \in Replicas \ {r} : todo'[q] = todo[q]
    BY <1>1
  <1>3. \A y : \A x \in Needs(y) : x \in Statements
    BY DEF Needs
  <1>4. \A k \in 1..Len(<<>>) : FALSE
    OBVIOUS
  <1>5. Sound(r)' /\ Ordered(todo[r])' /\ ~Holds(r)'
    BY <1>2, <1>4 DEF Sound, Ordered, Holds, Occurs
  <1>6. ASSUME NEW q \in Replicas \ {r} PROVE Sound(q)' /\ Ordered(todo[q])' /\ (Holds(q)' => Holds(q))
    <2>1. todo'[q] = todo[q] /\ Sound(q) /\ Ordered(todo[q])
      BY <1>2 DEF MigrationInv
    <2>2. Sound(q)'
      BY <1>3, <2>1 DEF Sound
    <2> QED BY <2>1, <2>2 DEF Ordered, Holds, Occurs
  <1> QED BY <1>2, <1>5, <1>6

LEMMA AbandonInv ==
    ASSUME MigrationInv, NEW r \in Replicas, plan' = plan, Abandon(r)
    PROVE  MigrationInv' /\ \A q \in Replicas \ {r} : todo'[q] = todo[q]
  <1>1. todo' = [todo EXCEPT ![r] = <<>>] /\ UNCHANGED <<schema, recorded, engine, binlog, updated_at>>
    BY DEF Abandon
  <1>2. \A s : Did(s)' <=> Did(s)
    BY <1>1 DEF Did
  <1>3. /\ todo' \in [Replicas -> Seq(Statements \cup Names)]
        /\ \A q \in Replicas : Sound(q)' /\ Ordered(todo[q])' /\ (Holds(q)' => Holds(q))
        /\ \A q \in Replicas \ {r} : todo'[q] = todo[q]
    BY <1>1, <1>2, EmptyInv
  <1>4. MigrationTypeOK'
    BY <1>1, <1>3 DEF MigrationInv, MigrationTypeOK
  <1>5. RecordedIsDone' /\ StampHasColumn' /\ OneHolds' /\ InTransaction' /\ WrittenIsComplete'
    BY <1>1, <1>2, <1>3 DEF MigrationInv, RecordedIsDone, StampHasColumn, OneHolds, InTransaction,
       WrittenIsComplete, Transactional, config
  <1> QED BY <1>3, <1>4, <1>5 DEF MigrationInv

LEMMA CommitInv ==
    ASSUME MigrationInv, NEW r \in Replicas, plan' = plan, Transactional, CommitAll(r)
    PROVE  /\ MigrationInv' /\ recorded' = Names
           /\ updated_at = "written" => updated_at' = "written"
           /\ \A q \in Replicas \ {r} : todo'[q] = todo[q]
           /\ binlog' = binlog /\ engine' = engine
  <1>1. /\ schema' = Objects /\ recorded' = Names /\ todo' = [todo EXCEPT ![r] = <<>>]
        /\ updated_at' = IF "updated_at" \in schema THEN updated_at ELSE "migrated"
        /\ UNCHANGED <<engine, binlog>>
    BY DEF CommitAll
  <1>2. "updated_at" \in Objects /\ \A s \in Statements : s # "backfill" => s \in Objects
    BY KindsAre DEF Objects
  <1>3. updated_at' \in {"migrated", "written"}
    BY <1>1 DEF MigrationInv, InTransaction, Did
  <1>4. \A s \in Statements : Did(s)'
    BY <1>1, <1>2, <1>3 DEF Did
  <1>5. /\ todo' \in [Replicas -> Seq(Statements \cup Names)]
        /\ \A q \in Replicas : Sound(q)' /\ Ordered(todo[q])' /\ (Holds(q)' => Holds(q))
        /\ \A q \in Replicas \ {r} : todo'[q] = todo[q]
    BY <1>1, <1>4, EmptyInv
  <1>6. \A q \in Replicas : ~Holds(q)'
    BY <1>5 DEF MigrationInv, InTransaction
  <1>7. MigrationTypeOK'
    BY <1>1, <1>3, <1>5 DEF MigrationInv, MigrationTypeOK
  <1>8. RecordedIsDone' /\ StampHasColumn' /\ OneHolds' /\ InTransaction' /\ WrittenIsComplete'
    <2>1. \A n : \A s \in Needs(n) : s \in Statements
      BY DEF Needs
    <2>2. RecordedIsDone' /\ StampHasColumn'
      BY <1>1, <1>2, <1>4, <2>1 DEF RecordedIsDone, StampHasColumn
    <2>3. OneHolds' /\ InTransaction' /\ WrittenIsComplete'
      BY <1>1, <1>3, <1>6 DEF OneHolds, InTransaction, WrittenIsComplete, Did
    <2> QED BY <2>2, <2>3
  <1>9. updated_at = "written" => updated_at' = "written"
    BY <1>1 DEF MigrationInv, StampHasColumn, Did
  <1> QED BY <1>1, <1>5, <1>7, <1>8, <1>9 DEF MigrationInv

LEMMA CompleteSchema ==
    ASSUME MigrationInv, recorded = Names
    PROVE  schema = Objects /\ updated_at \in {"migrated", "written"}
  <1>1. \A s \in Statements : Did(s)
    BY KindsAre DEF MigrationInv, RecordedIsDone
  <1>2. "backfill" \in Statements /\ schema \subseteq Objects
    BY StatementsAre DEF MigrationInv, MigrationTypeOK
  <1> QED BY <1>1, <1>2 DEF Did, Objects

LEMMA WrittenInv ==
    ASSUME MigrationInv, plan' = plan, recorded = Names, updated_at' = "written",
           UNCHANGED <<schema, recorded, engine, binlog, todo>>
    PROVE  MigrationInv'
  <1>1. schema = Objects /\ updated_at \in {"migrated", "written"} /\ "updated_at" \in Objects
    BY CompleteSchema, KindsAre
  <1>2. \A s : Did(s)' <=> Did(s)
    BY <1>1 DEF Did
  <1>3. \A q \in Replicas : Sound(q)' /\ Ordered(todo[q])' /\ (Holds(q)' => Holds(q))
    BY <1>2 DEF MigrationInv, Sound, Ordered, Holds, Occurs
  <1>4. MigrationTypeOK'
    BY DEF MigrationInv, MigrationTypeOK
  <1>5. RecordedIsDone' /\ StampHasColumn' /\ OneHolds' /\ InTransaction' /\ WrittenIsComplete'
    BY <1>1, <1>2, <1>3 DEF MigrationInv, RecordedIsDone, StampHasColumn, OneHolds, InTransaction,
       WrittenIsComplete, Transactional, config
  <1> QED BY <1>3, <1>4, <1>5 DEF MigrationInv

LEMMA OtherwiseInv ==
    ASSUME MigrationInv, plan' = plan, UNCHANGED <<schema, recorded, updated_at, todo>>,
           engine' \in [Tables -> {"InnoDB", "MyISAM"}], binlog' \in {"ROW", "STATEMENT"}
    PROVE  MigrationInv'
  <1>1. \A q \in Replicas : Sound(q)' /\ Ordered(todo[q])' /\ (Holds(q)' => Holds(q))
    BY DEF MigrationInv, Sound, Ordered, Holds, Occurs, Did
  <1>2. MigrationTypeOK'
    BY DEF MigrationInv, MigrationTypeOK
  <1>3. RecordedIsDone' /\ StampHasColumn' /\ OneHolds' /\ InTransaction' /\ WrittenIsComplete'
    BY <1>1 DEF MigrationInv, RecordedIsDone, StampHasColumn, OneHolds, InTransaction,
       WrittenIsComplete, Transactional, config, Did
  <1> QED BY <1>1, <1>2, <1>3 DEF MigrationInv

LEMMA MigrationInitInv ==
    ASSUME Init
    PROVE  MigrationInv
  <1> DEFINE install == plan.install
  <1>1. /\ install.version \in {"none", "first", "current"} /\ install.engine \in {"InnoDB", "MyISAM"}
        /\ install.binlog \in {"ROW", "STATEMENT"} /\ MigrationInit(install)
    BY PlansAssumption DEF Init
  <1> HIDE DEF install
  <1>2. /\ ModObjects \subseteq Objects /\ "updated_at" \notin ModObjects /\ "updated_at" \in Objects
        /\ \A s \in Objects : s # "backfill"
        /\ "mod" \in Names /\ Needs("mod") = ModObjects /\ "backfill" \notin ModObjects
        /\ \A n \in Names : Needs(n) \subseteq Objects \cup {"backfill"}
    BY KindsAre, NamesAre, NeedsAre DEF ModObjects, Objects, Needs
  <1>3. \/ schema = {} /\ recorded = {} /\ updated_at = "absent"
        \/ schema = ModObjects /\ recorded = {"mod"} /\ updated_at = "absent"
        \/ schema = Objects /\ recorded = Names /\ updated_at = "migrated"
    BY <1>1, Catalogue DEF MigrationInit
  <1>4. todo = [r \in Replicas |-> <<>>] /\ engine = [t \in Tables |-> install.engine]
        /\ binlog = install.binlog
    BY <1>1 DEF MigrationInit
  <1>5. \A k \in 1..Len(<<>>) : FALSE
    OBVIOUS
  <1>6. \A q \in Replicas : todo[q] = <<>>
    BY <1>4
  <1>7. \A q \in Replicas : Sound(q) /\ Ordered(todo[q]) /\ ~Holds(q)
    BY <1>5, <1>6 DEF Sound, Ordered, Holds, Occurs
  <1>8. MigrationTypeOK
    <2>1. schema \subseteq Objects /\ recorded \subseteq Names
      BY <1>2, <1>3
    <2>2. updated_at \in {"absent", "zero", "migrated", "written"}
      BY <1>3
    <2>3. engine \in [Tables -> {"InnoDB", "MyISAM"}] /\ binlog \in {"ROW", "STATEMENT"}
      BY <1>1, <1>4
    <2>4. todo \in [Replicas -> Seq(Statements \cup Names)]
      BY <1>4
    <2> QED BY <2>1, <2>2, <2>3, <2>4 DEF MigrationTypeOK
  <1>9. RecordedIsDone
    BY <1>2, <1>3 DEF RecordedIsDone, Did
  <1>10. StampHasColumn /\ OneHolds /\ InTransaction /\ WrittenIsComplete
    BY <1>2, <1>3, <1>7 DEF StampHasColumn, OneHolds, InTransaction, WrittenIsComplete, Did
  <1> QED BY <1>7, <1>8, <1>9, <1>10 DEF MigrationInv

LEMMA PreparedKept ==
    ASSUME NEW q \in Replicas, Prepared(q), plan' = plan, stage'[q] = stage[q],
           recorded \subseteq recorded', recorded' \subseteq Names,
           verify_innodb_engines => verify_innodb_engines',
           verify_binlog_format => verify_binlog_format',
           \A n \in Names \ recorded' : Occurs(n, todo[q]) => Occurs(n, todo[q])'
    PROVE  Prepared(q)'
  BY DEF Prepared, EnginesFit, BinlogFits, Memory, Mysql, config

(* A request stays where it came in until it is answered. *)
LEMMA RequestStays ==
    ASSUME AccessInv, NEW q \in Requests, NEW o \in Requests,
           \/ insert_one(q) \/ insert_one_fails(q)
           \/ find_credential(q) \/ find_credential_fails(q) \/ Verify(q)
           \/ \E answer \in Answers : RunHandler(q, answer)
           \/ Answered(q)
    PROVE  req'[o].pc # "idle" => req[o].pc # "idle" /\ req'[o].at = req[o].at
  <1>0. req \in [Requests -> RequestRecords]
    BY DEF AccessInv
  <1>1. ASSUME NEW answer \in Answers, req' = Reply(q, answer), req[q].pc # "idle"
        PROVE  req'[o].pc # "idle" => req[o].pc # "idle" /\ req'[o].at = req[o].at
    BY <1>0, <1>1, Replies
  <1>2. CASE Answered(q)
    BY <1>0, <1>2, IdleRequest DEF Answered
  <1>3. ASSUME NEW key, req' = [req EXCEPT ![q].pc = "verify", ![q].found = key], req[q].pc # "idle"
        PROVE  req'[o].pc # "idle" => req[o].pc # "idle" /\ req'[o].at = req[o].at
    BY <1>0, <1>3 DEF RequestRecords
  <1>4. ASSUME req' = [req EXCEPT ![q].pc = "handle"], req[q].pc # "idle"
        PROVE  req'[o].pc # "idle" => req[o].pc # "idle" /\ req'[o].at = req[o].at
    BY <1>0, <1>4 DEF RequestRecords
  <1>5. CASE insert_one(q) \/ insert_one_fails(q)
    BY <1>1, <1>5 DEF insert_one, insert_one_fails, Answers
  <1>6. CASE find_credential(q) \/ find_credential_fails(q)
    BY <1>1, <1>3, <1>6 DEF find_credential, find_credential_fails, Answers
  <1>7. CASE Verify(q)
    BY <1>1, <1>4, <1>7 DEF Verify, Answers
  <1>8. ASSUME NEW answer \in Answers, RunHandler(q, answer)
        PROVE  req'[o].pc # "idle" => req[o].pc # "idle" /\ req'[o].at = req[o].at
    BY <1>1, <1>8 DEF RunHandler
  <1> QED BY <1>2, <1>5, <1>6, <1>7, <1>8

(* A replica moves on, and the requests are not with it. *)
LEMMA StageMoveInv ==
    ASSUME StartInv, AccessInv, SchemaInv, plan' = plan, NEW r \in Replicas, NEW s,
           stage' = [stage EXCEPT ![r] = s],
           stage[r] \notin {"serving", "draining"} \/ s \in {"serving", "draining"},
           UNCHANGED req
    PROVE  \A q \in Requests : Attended(q)'
  <1> SUFFICES ASSUME NEW q \in Requests, req[q].pc # "idle"
               PROVE  stage'[req[q].at] \in {"serving", "draining"}
    BY DEF Attended
  <1>1. req[q].at \in Replicas /\ stage[req[q].at] \in {"serving", "draining"}
    BY PlansAssumption DEF AccessInv, Justified, SchemaInv, Attended
  <1> QED BY <1>1 DEF StartInv

LEMMA SchemaStep ==
    ASSUME StartInv, AccessInv, SchemaInv, [Next]_vars
    PROVE  SchemaInv' /\ (updated_at = "written" => updated_at' = "written")
  <1> DEFINE Kept == updated_at = "written" => updated_at' = "written"
  <1>0. /\ plan' = plan /\ stage \in [Replicas -> StageNames]
        /\ MigrationInv /\ recorded \subseteq Names
        /\ engine \in [Tables -> {"InnoDB", "MyISAM"}] /\ binlog \in {"ROW", "STATEMENT"}
        /\ \A r \in Replicas : Prepared(r)
        /\ \A q \in Requests : Attended(q)
    BY DEF Next, vars, SchemaInv, StartInv, MigrationInv, MigrationTypeOK
  <1>1. ASSUME UNCHANGED <<stage, req, migrationVars>> PROVE SchemaInv' /\ Kept
    <2>1. MigrationInv'
      BY <1>0, <1>1, OtherwiseInv DEF migrationVars
    <2>2. \A q \in Replicas : Prepared(q)'
      <3>1. \A q \in Replicas : \A n : Occurs(n, todo[q]) => Occurs(n, todo[q])'
        BY <1>1 DEF migrationVars, Occurs
      <3>2. /\ recorded' = recorded /\ stage' = stage
            /\ verify_innodb_engines => verify_innodb_engines'
            /\ verify_binlog_format => verify_binlog_format'
        BY <1>1 DEF migrationVars, verify_innodb_engines, verify_binlog_format
      <3> QED BY <1>0, <3>1, <3>2, PreparedKept
    <2>3. \A q \in Requests : Attended(q)'
      BY <1>0, <1>1 DEF Attended
    <2> QED BY <1>1, <2>1, <2>2, <2>3 DEF SchemaInv, migrationVars
  <1>2. ASSUME NEW r \in Replicas, NEW s \in StageNames, GoTo(r, s),
               UNCHANGED migrationVars, UNCHANGED accessVars,
               stage[r] \notin {"serving", "draining"} \/ s \in {"serving", "draining"},
               s # "migrate",
               s \in {"engines", "binlog", "material", "http", "bind", "serving", "draining"} /\ ~Memory
                    => recorded = Names,
               s \in {"binlog", "material", "http", "bind", "serving", "draining"} /\ ~Memory
                    => EnginesFit,
               s \in {"material", "http", "bind", "serving", "draining"} /\ ~Memory => BinlogFits
        PROVE  SchemaInv' /\ Kept
    <2>1. MigrationInv' /\ Kept
      BY <1>0, <1>2, OtherwiseInv DEF migrationVars
    <2>2. stage' = [stage EXCEPT ![r] = s] /\ stage'[r] = s
          /\ \A q \in Replicas \ {r} : stage'[q] = stage[q]
      BY <1>0, <1>2 DEF GoTo
    <2>3. \A q \in Requests : Attended(q)'
      BY <1>0, <1>2, <2>2, StageMoveInv DEF accessVars
    <2>4. /\ recorded' = recorded /\ (EnginesFit => EnginesFit') /\ (BinlogFits => BinlogFits')
          /\ (Memory' <=> Memory)
          /\ verify_innodb_engines => verify_innodb_engines'
          /\ verify_binlog_format => verify_binlog_format'
          /\ \A q \in Replicas : \A n : Occurs(n, todo[q]) => Occurs(n, todo[q])'
      BY <1>0, <1>2 DEF migrationVars, EnginesFit, BinlogFits, Mysql, config,
         verify_innodb_engines, verify_binlog_format, Memory, Occurs
    <2>5. Prepared(r)'
      BY <1>2, <2>2, <2>4 DEF Prepared
    <2>6. \A q \in Replicas \ {r} : Prepared(q)'
      BY <1>0, <2>2, <2>4, PreparedKept
    <2> QED BY <2>1, <2>3, <2>5, <2>6 DEF SchemaInv
  <1>3. ASSUME NEW r \in Replicas, Reset(r) PROVE SchemaInv' /\ Kept
    <2>1. /\ stage' = [stage EXCEPT ![r] = "down"] /\ Abandon(r)
          /\ req' = [q \in Requests |-> IF req[q].at = r THEN NoRequest ELSE req[q]]
      BY <1>3 DEF Reset, AccessReset
    <2>2. MigrationInv' /\ \A q \in Replicas \ {r} : todo'[q] = todo[q]
      BY <1>0, <2>1, AbandonInv
    <2>3. UNCHANGED <<schema, recorded, engine, binlog, updated_at>>
      BY <2>1 DEF Abandon
    <2>4. Prepared(r)'
      BY <1>0, <2>1 DEF Prepared
    <2>5. \A q \in Replicas \ {r} : Prepared(q)'
      <3>1. \A q \in Replicas \ {r} : \A n : Occurs(n, todo[q]) => Occurs(n, todo[q])'
        BY <2>2 DEF Occurs
      <3>2. \A q \in Replicas \ {r} : stage'[q] = stage[q]
        BY <1>0, <2>1
      <3>3. /\ recorded' = recorded
            /\ verify_innodb_engines => verify_innodb_engines'
            /\ verify_binlog_format => verify_binlog_format'
        BY <2>3 DEF verify_innodb_engines, verify_binlog_format
      <3> QED BY <1>0, <3>1, <3>2, <3>3, PreparedKept
    <2>6. ASSUME NEW q \in Requests PROVE Attended(q)'
      <3> SUFFICES ASSUME req'[q].pc # "idle" PROVE stage'[req'[q].at] \in {"serving", "draining"}
        BY DEF Attended
      <3>1. req'[q] = req[q] /\ req[q].at # r
        BY <2>1, IdleRequest
      <3>2. req[q].at \in Replicas /\ stage[req[q].at] \in {"serving", "draining"}
        BY <1>0, <3>1, PlansAssumption DEF AccessInv, Justified, Attended
      <3> QED BY <1>0, <2>1, <3>1, <3>2
    <2> QED BY <2>2, <2>3, <2>4, <2>5, <2>6 DEF SchemaInv
  <1>4. ASSUME NEW r \in Replicas, Startup(r) PROVE SchemaInv' /\ Kept
    <2> USE DEF At, GoTo, StageNames
    <2>1. CASE Start(r) \/ LoadConfig(r)
      BY <1>2, <2>1 DEF Start, LoadConfig, Quiet, Aside
    <2>2. CASE UseMemory(r)
      BY <1>2, <2>2 DEF UseMemory, Quiet, Aside
    <2>3. CASE Migrated(r)
      <3>1. stage[r] = "migrate" /\ todo[r] = <<>>
        BY <2>3 DEF Migrated
      <3>2. recorded = Names
        <4>1. \A k \in 1..Len(<<>>) : FALSE
          OBVIOUS
        <4> QED BY <1>0, <3>1, <4>1 DEF Prepared, Occurs
      <3> QED BY <1>2, <2>3, <3>1, <3>2 DEF Migrated, Quiet, Aside
    <2>4. CASE VerifyEngines(r)
      BY <1>0, <1>2, <2>4 DEF VerifyEngines, Quiet, Aside, Prepared
    <2>5. CASE VerifyBinlog(r)
      BY <1>0, <1>2, <2>5 DEF VerifyBinlog, Quiet, Aside, Prepared
    <2>6. CASE BuildMaterial(r)
      BY <1>0, <1>2, <2>6 DEF BuildMaterial, Quiet, Aside, Prepared
    <2>7. CASE BuildRouter(r)
      BY <1>0, <1>2, <2>7 DEF BuildRouter, Quiet, Aside, Prepared
    <2>8. CASE Bind(r)
      BY <1>0, <1>2, <2>8 DEF Bind, Quiet, Aside, Prepared
    <2>9. CASE MigrationFails(r) \/ Refused(r)
      BY <1>3, <2>9 DEF MigrationFails, Refused
    <2>10. CASE ConnectDatabase(r)
      <3>1. /\ stage[r] = "database" /\ ~Memory /\ stage' = [stage EXCEPT ![r] = "migrate"]
            /\ ReadApplied(r) /\ UNCHANGED req
        BY <2>10 DEF ConnectDatabase, Aside, accessVars
      <3>2. /\ MigrationInv' /\ \A n \in Names \ recorded' : Occurs(n, todo[r])'
            /\ \A q \in Replicas \ {r} : todo'[q] = todo[q]
        BY <1>0, <3>1, ReadAppliedInv
      <3>3. UNCHANGED <<schema, recorded, engine, binlog, updated_at>>
        BY <3>1 DEF ReadApplied
      <3>4. stage'[r] = "migrate" /\ \A q \in Replicas \ {r} : stage'[q] = stage[q]
        BY <1>0, <3>1
      <3>5. Prepared(r)'
        BY <1>0, <3>1, <3>2, <3>4 DEF Prepared, Memory, config
      <3>6. \A q \in Replicas \ {r} : Prepared(q)'
        <4>1. \A q \in Replicas \ {r} : \A n : Occurs(n, todo[q]) => Occurs(n, todo[q])'
          BY <3>2 DEF Occurs
        <4>2. /\ recorded' = recorded
              /\ verify_innodb_engines => verify_innodb_engines'
              /\ verify_binlog_format => verify_binlog_format'
          BY <3>3 DEF verify_innodb_engines, verify_binlog_format
        <4> QED BY <1>0, <3>4, <4>1, <4>2, PreparedKept
      <3>7. \A q \in Requests : Attended(q)'
        BY <1>0, <3>1, StageMoveInv
      <3> QED BY <3>2, <3>3, <3>5, <3>6, <3>7 DEF SchemaInv
    <2>11. CASE Migrate(r)
      <3>1. stage[r] = "migrate" /\ UNCHANGED stage /\ UNCHANGED req
        BY <2>11 DEF Migrate, Aside, accessVars
      <3>2. \A q \in Requests : Attended(q)'
        BY <1>0, <3>1 DEF Attended
      <3>3. CASE Transactional /\ CommitAll(r)
        <4>1. /\ MigrationInv' /\ recorded' = Names /\ Kept
              /\ \A q \in Replicas \ {r} : todo'[q] = todo[q]
              /\ binlog' = binlog /\ engine' = engine
          BY <1>0, <3>3, CommitInv
        <4>2. ASSUME NEW q \in Replicas PROVE Prepared(q)'
          <5>1. recorded' = Names /\ stage'[q] = stage[q] /\ Transactional
            BY <3>1, <3>3, <4>1
          <5>2. EnginesFit' /\ BinlogFits'
            BY <1>0, <3>3 DEF EnginesFit, BinlogFits, Mysql, Transactional, config
          <5>3. stage[q] = "migrate" => ~Memory'
            BY <1>0 DEF Prepared, Memory, config
          <5> QED BY <5>1, <5>2, <5>3 DEF Prepared
        <4> QED BY <3>2, <4>1, <4>2 DEF SchemaInv
      <3>4. CASE ~Transactional /\ MigrationStep(r, Mysql)
        <4>1. /\ MigrationInv' /\ Kept
              /\ recorded \subseteq recorded'
              /\ \A n \in Names \ recorded' : Occurs(n, todo[r]) => Occurs(n, todo[r])'
              /\ \A q \in Replicas \ {r} : todo'[q] = todo[q]
              /\ verify_innodb_engines => verify_innodb_engines'
              /\ binlog' = binlog
          BY <1>0, <3>4, StepInv
        <4>2. recorded' \subseteq Names
          BY <4>1 DEF MigrationInv, MigrationTypeOK
        <4>3. \A q \in Replicas \ {r} : \A n : Occurs(n, todo[q]) => Occurs(n, todo[q])'
          BY <4>1 DEF Occurs
        <4>4. verify_binlog_format => verify_binlog_format'
          BY <4>1 DEF verify_binlog_format
        <4>5. ASSUME NEW q \in Replicas PROVE Prepared(q)'
          BY <1>0, <3>1, <4>1, <4>2, <4>3, <4>4, PreparedKept
        <4> QED BY <3>2, <4>1, <4>5 DEF SchemaInv
      <3> QED BY <2>11, <3>3, <3>4 DEF Migrate
    <2> QED BY <1>4, <2>1, <2>2, <2>3, <2>4, <2>5, <2>6, <2>7, <2>8, <2>9, <2>10, <2>11 DEF
       Startup
  <1>5. ASSUME NEW r \in Replicas, Crash(r) \/ Drained(r) PROVE SchemaInv' /\ Kept
    BY <1>3, <1>5 DEF Crash, Drained
  <1>6. ASSUME NEW r \in Replicas, Terminate(r) PROVE SchemaInv' /\ Kept
    BY <1>0, <1>2, <1>6 DEF Terminate, At, StageNames, Prepared
  <1>7. ASSUME NEW q \in Requests, Arrives(q) PROVE SchemaInv' /\ Kept
    <2>1. UNCHANGED <<stage, migrationVars>>
      BY <1>7 DEF Arrives, AccessOnly, serverVars
    <2>2. PICK r \in plan.replicas, body \in plan.bodies :
            /\ At(r, "serving")
            /\ IF body \in Tokens THEN Manage(q, r, body) ELSE Register(q, r, body)
      BY <1>7 DEF Arrives
    <2>3. PICK new : req' = [req EXCEPT ![q] = new] /\ new.at = r
      <3>1. CASE body \in Tokens
        <4>1. [NoRequest EXCEPT !.pc = "find", !.at = r, !.body = body].at = r
          BY DEF NoRequest
        <4> QED BY <2>2, <3>1, <4>1 DEF Manage
      <3>2. CASE body \notin Tokens
        <4>1. [NoRequest EXCEPT !.pc = "insert", !.at = r, !.body = body].at = r
          BY DEF NoRequest
        <4> QED BY <2>2, <3>2, <4>1 DEF Register
      <3> QED BY <3>1, <3>2
    <2>4. \A o \in Requests : Attended(o)'
      BY <1>0, <2>1, <2>2, <2>3 DEF Attended, At, AccessInv
    <2>5. MigrationInv' /\ \A o \in Replicas : Prepared(o)'
      <3>1. MigrationInv'
        BY <1>0, <2>1, OtherwiseInv DEF migrationVars
      <3>2. \A o \in Replicas : \A n : Occurs(n, todo[o]) => Occurs(n, todo[o])'
        BY <2>1 DEF migrationVars, Occurs
      <3>3. /\ recorded' = recorded /\ stage' = stage
            /\ verify_innodb_engines => verify_innodb_engines'
            /\ verify_binlog_format => verify_binlog_format'
        BY <2>1 DEF migrationVars, verify_innodb_engines, verify_binlog_format
      <3> QED BY <1>0, <3>1, <3>2, <3>3, PreparedKept
    <2> QED BY <2>1, <2>4, <2>5 DEF SchemaInv, migrationVars
  <1>8. ASSUME NEW q \in Requests, UNCHANGED <<stage, schema, recorded, engine, binlog, todo>>,
               updated_at' = updated_at \/ (updated_at' = "written" /\ recorded = Names),
               \A o \in Requests : req'[o].pc # "idle" => req[o].pc # "idle" /\ req'[o].at = req[o].at
        PROVE  SchemaInv' /\ Kept
    <2>1. MigrationInv'
      BY <1>0, <1>8, OtherwiseInv, WrittenInv
    <2>2. \A o \in Replicas : Prepared(o)'
      <3>1. \A o \in Replicas : \A n : Occurs(n, todo[o]) => Occurs(n, todo[o])'
        BY <1>8 DEF Occurs
      <3>2. /\ recorded' = recorded /\ stage' = stage
            /\ verify_innodb_engines => verify_innodb_engines'
            /\ verify_binlog_format => verify_binlog_format'
        BY <1>8 DEF verify_innodb_engines, verify_binlog_format
      <3> QED BY <1>0, <3>1, <3>2, PreparedKept
    <2>3. \A o \in Requests : Attended(o)'
      BY <1>0, <1>8 DEF Attended
    <2> QED BY <1>8, <2>1, <2>2, <2>3 DEF SchemaInv
  <1>9. ASSUME NEW q \in Requests, RequestRuns(q) \/ RequestRefused(q) \/ RequestFails(q)
        PROVE  SchemaInv' /\ Kept
    <2>1. UNCHANGED <<stage, schema, recorded, engine, binlog, updated_at, todo>>
      BY <1>9 DEF RequestRuns, RequestRefused, RequestFails, AccessOnly, serverVars, migrationVars
    <2>2. \A o \in Requests : req'[o].pc # "idle" => req[o].pc # "idle" /\ req'[o].at = req[o].at
      BY <1>9, RequestStays DEF RequestRuns, RequestRefused, RequestFails, CallFails, Answers
    <2> QED BY <1>8, <2>1, <2>2
  <1>10. ASSUME NEW q \in Requests, WriteList(q) PROVE SchemaInv' /\ Kept
    <2>1. /\ RunHandler(q, "handled") /\ UNCHANGED <<stage, schema, recorded, engine, binlog, todo>>
          /\ updated_at' = IF Memory THEN updated_at ELSE "written"
      BY <1>10 DEF WriteList, serverVars
    <2>2. \A o \in Requests : req'[o].pc # "idle" => req[o].pc # "idle" /\ req'[o].at = req[o].at
      BY <2>1, RequestStays DEF Answers
    <2>3. ~Memory => recorded = Names
      <3>1. req[q].pc # "idle"
        BY <2>1 DEF RunHandler
      <3>2. req[q].at \in Replicas /\ stage[req[q].at] \in {"serving", "draining"}
        BY <1>0, <3>1, PlansAssumption DEF AccessInv, Justified, Attended
      <3> QED BY <1>0, <3>2 DEF Prepared
    <2> QED BY <1>8, <2>1, <2>2, <2>3
  <1>11. ASSUME OperatorSteps PROVE SchemaInv' /\ Kept
    <2>1. /\ UNCHANGED <<stage, req, schema, recorded, updated_at, todo>>
          /\ engine' = [t \in Tables |-> "InnoDB"] /\ binlog' = "ROW"
      BY <1>11 DEF OperatorSteps, OperatorFixes, serverVars, accessVars
    <2>2. MigrationInv'
      BY <1>0, <2>1, OtherwiseInv
    <2>3. \A o \in Replicas : Prepared(o)'
      <3>1. \A o \in Replicas : \A n : Occurs(n, todo[o]) => Occurs(n, todo[o])'
        BY <2>1 DEF Occurs
      <3>2. recorded' = recorded /\ stage' = stage /\ verify_innodb_engines' /\ verify_binlog_format'
        BY <2>1 DEF verify_innodb_engines, verify_binlog_format
      <3> QED BY <1>0, <3>1, <3>2, PreparedKept
    <2>4. \A o \in Requests : Attended(o)'
      BY <1>0, <2>1 DEF Attended
    <2> QED BY <2>1, <2>2, <2>3, <2>4 DEF SchemaInv
  <1>12. ASSUME NEW p \in Probes, ProbeComes(p) \/ ProbeLeaves(p) \/ ProbeRuns(p)
         PROVE  SchemaInv' /\ Kept
    BY <1>1, <1>12 DEF ProbeComes, ProbeLeaves, ProbeRuns, ReadinessOnly, serverVars, accessVars
  <1>13. ASSUME NEW k \in Checks, CheckRuns(k) \/ DependencyChanges(k) PROVE SchemaInv' /\ Kept
    BY <1>1, <1>13 DEF CheckRuns, DependencyChanges, ReadinessOnly, serverVars, accessVars
  <1>14. ASSUME NEW w \in Writers, WriterComes(w) \/ WriterRuns(w) \/ WriterLeaves(w)
         PROVE  SchemaInv' /\ Kept
    BY <1>1, <1>14 DEF WriterComes, WriterRuns, WriterLeaves, MemoryOnly, serverVars, accessVars
  <1>15. SnapshotCleanup \/ Tick \/ UNCHANGED vars => SchemaInv' /\ Kept
    BY <1>1 DEF SnapshotCleanup, Tick, vars, MemoryOnly, serverVars, accessVars, AccessTick
  <1> QED BY <1>4, <1>5, <1>6, <1>7, <1>9, <1>10, <1>11, <1>12, <1>13, <1>14, <1>15 DEF Next

LEMMA SchemaInvariant == Spec => [](StartInv /\ AccessInv /\ SchemaInv)
  <1>1. Init => SchemaInv
    <2> SUFFICES ASSUME Init PROVE SchemaInv
      OBVIOUS
    <2>1. MigrationInv
      BY MigrationInitInv
    <2>2. ASSUME NEW r \in Replicas PROVE Prepared(r)
      <3>1. /\ plan \in Plans /\ plan.start \in {"down", "serving"}
            /\ stage[r] \in {"down", plan.start}
        BY PlansAssumption DEF Init
      <3>2. ASSUME plan.start = "serving"
            PROVE  recorded = Names /\ EnginesFit /\ BinlogFits
        BY <3>1, <3>2, PlansAssumption DEF Init, MigrationInit, EnginesFit, BinlogFits,
           verify_innodb_engines, verify_binlog_format
      <3> QED BY <3>1, <3>2 DEF Prepared
    <2>3. \A q \in Requests : req[q].pc = "idle"
      BY IdleRequest DEF Init, AccessInit
    <2> QED BY <2>1, <2>2, <2>3 DEF SchemaInv, Attended
  <1>2. StartInv /\ AccessInv /\ SchemaInv /\ [Next]_vars => SchemaInv'
    BY SchemaStep
  <1> QED BY <1>1, <1>2, StartInvariant, AccessInvariant, PTL DEF Spec

(* A replica serves only on the complete schema, with every migration       *)
(* recorded and every list stamped, on tables and binary logging fit for    *)
(* its transactions, however many replicas migrate at once and wherever one *)
(* of them ends (build_state_impl, Migrator).                               *)
THEOREM ServingHasSchema == Spec => []ServesCompleteSchema
  <1>1. SchemaInv => ServesCompleteSchema
    <2> SUFFICES ASSUME SchemaInv, NEW r \in Replicas, stage[r] \in {"serving", "draining"}, ~Memory
                 PROVE  /\ schema = Objects /\ recorded = Names
                        /\ updated_at \notin {"absent", "zero"}
                        /\ EnginesFit /\ BinlogFits
      BY DEF ServesCompleteSchema
    <2>1. MigrationInv /\ recorded = Names /\ EnginesFit /\ BinlogFits
      BY DEF SchemaInv, Prepared
    <2> QED BY <2>1, CompleteSchema
  <1> QED BY <1>1, SchemaInvariant, PTL

(* The stamp of a list that a serving replica wrote is never replaced by    *)
(* the backfill of one that is migrating (add_updated_at).                  *)
THEOREM StampsAreKept == Spec => StampsSurvive
  <1>1. StartInv /\ AccessInv /\ SchemaInv /\ [Next]_vars
            => [updated_at = "written" => updated_at' = "written"]_vars
    BY SchemaStep
  <1> QED BY <1>1, SchemaInvariant, PTL DEF Spec, StampsSurvive

-----------------------------------------------------------------------------
(* Lists kept in memory *)

WriterRecords ==
    [pc : {"idle", "lock", "snapshot", "row", "done"}, op : {"publish", "update"},
     list : MemoryLists \cup {NoRow}, read : Rows \cup {NoRow}, work : Rows \cup {NoRow}]

SnapshotRecords == [list : MemoryLists, iat : Nat, exp : Nat, applied : SUBSET Writers]

Under(w) == writer[w].pc \in {"lock", "snapshot", "row"}
Locks(w) == writer[w].pc \in {"snapshot", "row"}

(* What a writer wants to write builds on what it read and has not been     *)
(* outlived by the retention of its snapshot.                               *)
WorkIsSound(w) ==
    /\ writer[w].list \in MemoryLists /\ writer[w].work \in Rows
    /\ now <= writer[w].work.stamp + MemoryLifetime + MemoryRetention
    /\ w \in writer[w].work.applied
    /\ \A v \in writer[w].work.applied : v # w => writer[v].pc = "done"
    /\ writer[w].op = "publish" => writer[w].work.applied = {w}
    /\ writer[w].op = "update" =>
        /\ writer[w].read \in Rows
        /\ w \notin writer[w].read.applied
        /\ writer[w].work.applied = writer[w].read.applied \cup {w}
        /\ writer[w].work.issuer = writer[w].read.issuer
        /\ writer[w].work.stamp > writer[w].read.stamp

(* The stamp of a row tells whether it is still the row that was read. *)
StampTells(w) ==
    writer[w].op = "update" =>
        /\ values[writer[w].list] \in Rows
        /\ values[writer[w].list].stamp >= writer[w].read.stamp
        /\ values[writer[w].list].stamp = writer[w].read.stamp
                => values[writer[w].list] = writer[w].read

(* Under the lock, it is. *)
LockKeeps(w) ==
    /\ writer[w].op = "publish" => values[writer[w].list] = NoRow
    /\ writer[w].op = "update" => values[writer[w].list] = writer[w].read

MemoryInv ==
    /\ values \in [MemoryLists -> Rows \cup {NoRow}]
    /\ writer \in [Writers -> WriterRecords]
    /\ snapshots \subseteq SnapshotRecords
    /\ horizon \in Nat
    /\ MemoryRetention = 0 => snapshots = {}
    /\ \A v, w \in Writers : Locks(v) /\ Locks(w) => v = w
    /\ \A w \in Writers : Under(w) => WorkIsSound(w) /\ StampTells(w)
    /\ \A w \in Writers : Locks(w) => LockKeeps(w)
    /\ \A w \in Writers : writer[w].pc = "snapshot" => MemoryRetention > 0
    /\ \A w \in Writers : writer[w].pc = "row" /\ MemoryRetention > 0 => SnapshotOf(w) \in snapshots
    /\ \A l \in MemoryLists : values[l] \in Rows =>
            \A v \in values[l].applied : writer[v].pc = "done"
    /\ \A s \in snapshots : \A v \in s.applied : writer[v].pc \in {"row", "done"}

LEMMA MoveTo ==
    ASSUME writer \in [Writers -> WriterRecords], NEW w \in Writers,
           NEW pc \in {"idle", "lock", "snapshot", "row", "done"}, WriterAt(w, pc)
    PROVE  /\ writer' \in [Writers -> WriterRecords]
           /\ writer'[w].pc = pc
           /\ writer'[w].op = writer[w].op /\ writer'[w].list = writer[w].list
           /\ writer'[w].read = writer[w].read /\ writer'[w].work = writer[w].work
           /\ \A v \in Writers \ {w} : writer'[v] = writer[v]
           /\ \A v \in Writers : SnapshotOf(v)' = SnapshotOf(v)
  <1>1. /\ writer' \in [Writers -> WriterRecords]
        /\ writer'[w].pc = pc
        /\ writer'[w].op = writer[w].op /\ writer'[w].list = writer[w].list
        /\ writer'[w].read = writer[w].read /\ writer'[w].work = writer[w].work
        /\ \A v \in Writers \ {w} : writer'[v] = writer[v]
    BY DEF WriterAt, WriterRecords
  <1>2. \A v \in Writers : writer'[v].list = writer[v].list /\ writer'[v].work = writer[v].work
    BY <1>1
  <1> QED BY <1>1, <1>2 DEF SnapshotOf

(* A step of writer w that leaves the rows alone. *)
LEMMA MemoryKeep ==
    ASSUME MemoryInv, NEW w \in Writers, UNCHANGED <<values, now, horizon>>,
           writer' \in [Writers -> WriterRecords],
           \A v \in Writers \ {w} : writer'[v] = writer[v],
           writer[w].pc # "done", writer[w].pc = "row" => writer'[w].pc \in {"row", "done"},
           snapshots \subseteq snapshots', snapshots' \subseteq SnapshotRecords,
           MemoryRetention = 0 => snapshots' = {},
           \A s \in snapshots' : \A v \in s.applied : writer'[v].pc \in {"row", "done"},
           Under(w)' => WorkIsSound(w)' /\ StampTells(w)',
           Locks(w)' => LockKeeps(w)' /\ \A v \in Writers \ {w} : ~Locks(v),
           writer'[w].pc = "snapshot" => MemoryRetention > 0,
           writer'[w].pc = "row" /\ MemoryRetention > 0 => SnapshotOf(w)' \in snapshots'
    PROVE  MemoryInv'
  <1>1. \A v \in Writers : writer[v].pc = "done" => writer'[v].pc = "done"
    OBVIOUS
  <1>2. ASSUME NEW v \in Writers, v # w
        PROVE  /\ Under(v)' => WorkIsSound(v)' /\ StampTells(v)'
               /\ Locks(v)' => Locks(v) /\ LockKeeps(v)'
               /\ writer'[v].pc = "snapshot" => MemoryRetention > 0
               /\ writer'[v].pc = "row" /\ MemoryRetention > 0 => SnapshotOf(v)' \in snapshots'
    <2>1. writer'[v] = writer[v]
      BY <1>2
    <2>2. Under(v)' => Under(v) /\ WorkIsSound(v) /\ StampTells(v)
      BY <2>1 DEF Under, MemoryInv
    <2>3. WorkIsSound(v) => WorkIsSound(v)'
      <3> SUFFICES ASSUME WorkIsSound(v) PROVE WorkIsSound(v)'
        OBVIOUS
      <3>1. writer[v].work.applied \subseteq Writers
        BY DEF WorkIsSound, Rows
      <3> QED BY <1>1, <2>1, <3>1 DEF WorkIsSound
    <2>4. (StampTells(v) => StampTells(v)') /\ (LockKeeps(v) => LockKeeps(v)')
      BY <2>1 DEF StampTells, LockKeeps
    <2>5. Locks(v)' => Locks(v) /\ LockKeeps(v)
      BY <2>1 DEF Locks, MemoryInv
    <2>6. /\ writer'[v].pc = "snapshot" => MemoryRetention > 0
          /\ writer'[v].pc = "row" /\ MemoryRetention > 0 => SnapshotOf(v)' \in snapshots'
      BY <2>1 DEF MemoryInv, SnapshotOf
    <2> QED BY <2>2, <2>3, <2>4, <2>5, <2>6
  <1>3. \A u, v \in Writers : Locks(u)' /\ Locks(v)' => u = v
    BY <1>2 DEF MemoryInv
  <1>4. \A l \in MemoryLists : values'[l] \in Rows =>
            \A v \in values'[l].applied : writer'[v].pc = "done"
    BY <1>1 DEF MemoryInv, Rows
  <1>5. /\ values' \in [MemoryLists -> Rows \cup {NoRow}] /\ horizon' \in Nat
    BY DEF MemoryInv
  <1> QED BY <1>2, <1>3, <1>4, <1>5 DEF MemoryInv

(* Its step seen from outside: nothing happens. *)
LEMMA ShownKept ==
    ASSUME UNCHANGED snapshots,
           \A v \in Writers : writer'[v].pc = "row" <=> writer[v].pc = "row",
           \A v \in Writers : writer[v].pc = "row" => SnapshotOf(v)' = SnapshotOf(v)
    PROVE  Shown' = Shown
  BY DEF Shown

LEMMA ComesInv ==
    ASSUME MemoryInv, now \in Nat, now' = now, NEW w \in Writers, NEW l \in MemoryLists,
           NEW i \in MemoryIssuers, MemoryPublish(w, l, i, now) \/ MemoryUpdate(w, l, i, now)
    PROVE  MemoryInv' /\ UNCHANGED <<values, Shown, horizon>>
  <1>0. /\ writer \in [Writers -> WriterRecords] /\ values \in [MemoryLists -> Rows \cup {NoRow}]
        /\ snapshots \subseteq SnapshotRecords /\ MemoryRetention \in Nat /\ MemoryLifetime \in Nat
        /\ writer[w].pc = "idle" /\ UNCHANGED <<values, snapshots, horizon>>
    BY MemoryAssumption DEF MemoryInv, MemoryPublish, MemoryUpdate
  <1>1. ASSUME NEW rec \in WriterRecords, writer' = [writer EXCEPT ![w] = rec],
               rec.pc \in {"lock", "done"},
               rec.pc = "lock" => WorkIsSound(w)' /\ StampTells(w)'
        PROVE  MemoryInv' /\ UNCHANGED <<values, Shown, horizon>>
    <2>1. /\ writer' \in [Writers -> WriterRecords] /\ writer'[w] = rec
          /\ \A v \in Writers \ {w} : writer'[v] = writer[v]
      BY <1>0, <1>1
    <2>2. \A s \in snapshots' : \A v \in s.applied : writer'[v].pc \in {"row", "done"}
      <3> SUFFICES ASSUME NEW s \in snapshots, NEW v \in s.applied
                   PROVE  writer'[v].pc \in {"row", "done"}
        BY <1>0
      <3>1. v \in Writers /\ writer[v].pc \in {"row", "done"}
        BY <1>0 DEF MemoryInv, SnapshotRecords
      <3> QED BY <1>0, <2>1, <3>1
    <2>3. MemoryInv'
      <3>1. Under(w)' => WorkIsSound(w)' /\ StampTells(w)'
        BY <1>1, <2>1 DEF Under
      <3>2. ~Locks(w)' /\ writer'[w].pc # "snapshot" /\ writer'[w].pc # "row"
        BY <1>1, <2>1 DEF Locks
      <3>3. MemoryRetention = 0 => snapshots' = {}
        BY <1>0 DEF MemoryInv
      <3> QED BY <1>0, <2>1, <2>2, <3>1, <3>2, <3>3, MemoryKeep
    <2>4. Shown' = Shown
      <3>1. \A v \in Writers : writer'[v].pc = "row" <=> writer[v].pc = "row"
        BY <1>0, <1>1, <2>1
      <3>2. \A v \in Writers : writer[v].pc = "row" => SnapshotOf(v)' = SnapshotOf(v)
        BY <1>0, <2>1 DEF SnapshotOf
      <3> QED BY <1>0, <3>1, <3>2, ShownKept
    <2> QED BY <1>0, <2>3, <2>4
  <1>2. CASE MemoryPublish(w, l, i, now)
    <2> DEFINE work == [issuer |-> i, stamp |-> now, applied |-> {w}]
               rec == [pc |-> "lock", op |-> "publish", list |-> l, read |-> NoRow, work |-> work]
    <2>1. work \in Rows /\ work.stamp = now /\ work.applied = {w}
      BY DEF Rows
    <2>2. writer' = [writer EXCEPT ![w] = rec]
      BY <1>2 DEF MemoryPublish
    <2> HIDE DEF work
    <2>3. /\ rec \in WriterRecords /\ rec.pc = "lock" /\ rec.op = "publish" /\ rec.list = l
          /\ rec.work = work
      BY <2>1 DEF WriterRecords
    <2> HIDE DEF rec
    <2>4. writer'[w] = rec
      BY <1>0, <2>2
    <2>5. WorkIsSound(w)' /\ StampTells(w)'
      BY <1>0, <2>1, <2>3, <2>4 DEF WorkIsSound, StampTells
    <2> QED BY <1>1, <2>2, <2>3, <2>5
  <1>3. CASE MemoryUpdate(w, l, i, now) /\ ~Owned(l, i)
    <2>1. WriterAt(w, "done")
      BY <1>3 DEF MemoryUpdate
    <2>2. writer' = [writer EXCEPT ![w] = writer'[w]]
      BY <1>0, <2>1 DEF WriterAt
    <2>3. writer'[w] \in WriterRecords /\ writer'[w].pc = "done"
      BY <1>0, <2>1, MoveTo
    <2> QED BY <1>1, <2>2, <2>3
  <1>4. CASE MemoryUpdate(w, l, i, now) /\ Owned(l, i)
    <2> DEFINE old == values[l]
               stamp == IF now > old.stamp THEN now ELSE old.stamp + 1
               work == [issuer |-> i, stamp |-> stamp, applied |-> old.applied \cup {w}]
               rec == [pc |-> "lock", op |-> "update", list |-> l, read |-> old, work |-> work]
    <2>1. old \in Rows /\ old.issuer = i /\ old.stamp \in Nat /\ old.applied \subseteq Writers
      BY <1>0, <1>4 DEF Owned, Rows
    <2>2. stamp \in Nat /\ stamp > old.stamp /\ stamp >= now
      BY <2>1
    <2>3. writer' = [writer EXCEPT ![w] = rec]
      BY <1>4 DEF MemoryUpdate
    <2>4. \A v \in old.applied : writer[v].pc = "done"
      BY <2>1 DEF MemoryInv
    <2> HIDE DEF old, stamp
    <2>5. /\ work \in Rows /\ work.stamp = stamp /\ work.applied = old.applied \cup {w}
          /\ work.issuer = i
      BY <2>1, <2>2 DEF Rows
    <2> HIDE DEF work
    <2>6. /\ rec \in WriterRecords /\ rec.pc = "lock" /\ rec.op = "update" /\ rec.list = l
          /\ rec.work = work /\ rec.read = old
      BY <2>1, <2>5 DEF WriterRecords
    <2> HIDE DEF rec
    <2>7. writer'[w] = rec /\ \A v \in Writers \ {w} : writer'[v] = writer[v]
      BY <1>0, <2>3
    <2>8. w \notin old.applied
      BY <1>0, <2>4
    <2>9. \A v \in work.applied : v # w => writer'[v].pc = "done"
      BY <2>1, <2>4, <2>5, <2>7
    <2>10. WorkIsSound(w)'
      BY <1>0, <2>1, <2>2, <2>5, <2>6, <2>7, <2>8, <2>9 DEF WorkIsSound
    <2>11. StampTells(w)'
      BY <1>0, <2>1, <2>6, <2>7 DEF StampTells, old
    <2> QED BY <1>1, <2>3, <2>6, <2>10, <2>11
  <1> QED BY <1>2, <1>3, <1>4

(* A writer that goes on, or is dropped, keeps what it read and wants. *)
LEMMA MovedIsSound ==
    ASSUME MemoryInv, NEW w \in Writers, NEW pc \in {"idle", "lock", "snapshot", "row", "done"},
           WriterAt(w, pc), UNCHANGED <<values, now>>, Under(w)
    PROVE  WorkIsSound(w)' /\ StampTells(w)' /\ (LockKeeps(w) => LockKeeps(w)')
  <1>1. /\ writer'[w].op = writer[w].op /\ writer'[w].list = writer[w].list
        /\ writer'[w].read = writer[w].read /\ writer'[w].work = writer[w].work
        /\ \A v \in Writers \ {w} : writer'[v] = writer[v]
    BY MoveTo DEF MemoryInv
  <1>2. WorkIsSound(w) /\ StampTells(w)
    BY DEF MemoryInv
  <1>3. writer[w].work.applied \subseteq Writers
    BY <1>2 DEF WorkIsSound, Rows
  <1>4. \A v \in writer'[w].work.applied : v # w => writer'[v].pc = "done"
    BY <1>1, <1>2, <1>3 DEF WorkIsSound
  <1>5. WorkIsSound(w)'
    BY <1>1, <1>2, <1>4 DEF WorkIsSound
  <1>6. StampTells(w)' /\ (LockKeeps(w) => LockKeeps(w)')
    BY <1>1, <1>2 DEF StampTells, LockKeeps
  <1> QED BY <1>5, <1>6

LEMMA LockInv ==
    ASSUME MemoryInv, now' = now, NEW w \in Writers, MemoryLock(w) \/ MemoryDropped(w)
    PROVE  MemoryInv' /\ UNCHANGED <<values, Shown, horizon>>
  <1>0. /\ writer \in [Writers -> WriterRecords] /\ snapshots \subseteq SnapshotRecords
        /\ MemoryRetention \in Nat /\ UNCHANGED <<values, snapshots, horizon>>
        /\ writer[w].pc \in {"lock", "snapshot"} /\ Under(w)
    BY MemoryAssumption DEF MemoryInv, MemoryLock, MemoryDropped, Under
  <1>1. PICK pc \in {"snapshot", "row", "done"} :
            /\ WriterAt(w, pc)
            /\ pc # "done" => LockKeeps(w) /\ \A v \in Writers : ~Locks(v)
            /\ pc = "snapshot" => MemoryRetention > 0
            /\ pc = "row" => MemoryRetention = 0
    <2>1. CASE MemoryDropped(w)
      BY <2>1 DEF MemoryDropped
    <2>2. CASE MemoryLock(w)
      <3>1. \A v \in Writers : ~Locks(v)
        BY <2>2 DEF MemoryLock, Locked, Locks
      <3>2. WorkIsSound(w) /\ StampTells(w)
        BY <1>0 DEF MemoryInv
      <3>3. CASE (writer[w].op = "publish" /\ Vacant(w)) \/ (writer[w].op = "update" /\ Unchanged(w))
        <4>1. LockKeeps(w)
          BY <3>2, <3>3 DEF LockKeeps, Vacant, Unchanged, StampTells
        <4>2. WriterAt(w, IF MemoryRetention > 0 THEN "snapshot" ELSE "row")
          BY <2>2, <3>3 DEF MemoryLock
        <4> QED BY <1>0, <3>1, <4>1, <4>2
      <3>4. CASE ~((writer[w].op = "publish" /\ Vacant(w)) \/ (writer[w].op = "update" /\ Unchanged(w)))
        <4>1. WriterAt(w, "done")
          BY <2>2, <3>4 DEF MemoryLock
        <4> QED BY <4>1
      <3> QED BY <3>3, <3>4
    <2> QED BY <2>1, <2>2
  <1>2. /\ writer' \in [Writers -> WriterRecords] /\ writer'[w].pc = pc
        /\ \A v \in Writers \ {w} : writer'[v] = writer[v]
        /\ \A v \in Writers : SnapshotOf(v)' = SnapshotOf(v)
    BY <1>0, <1>1, MoveTo
  <1>3. WorkIsSound(w)' /\ StampTells(w)' /\ (LockKeeps(w) => LockKeeps(w)')
    BY <1>0, <1>1, MovedIsSound
  <1>4. \A s \in snapshots' : \A v \in s.applied : writer'[v].pc \in {"row", "done"}
    <2> SUFFICES ASSUME NEW s \in snapshots, NEW v \in s.applied
                 PROVE  writer'[v].pc \in {"row", "done"}
      BY <1>0
    <2>1. v \in Writers /\ writer[v].pc \in {"row", "done"}
      BY <1>0 DEF MemoryInv, SnapshotRecords
    <2> QED BY <1>0, <1>2, <2>1
  <1>5. MemoryInv'
    <2>1. Locks(w)' => LockKeeps(w)' /\ \A v \in Writers \ {w} : ~Locks(v)
      BY <1>1, <1>2, <1>3 DEF Locks
    <2>2. MemoryRetention = 0 => snapshots' = {}
      BY <1>0 DEF MemoryInv
    <2>3. writer[w].pc # "done" /\ writer[w].pc # "row" /\ snapshots' = snapshots
      BY <1>0
    <2>4. /\ writer'[w].pc = "snapshot" => MemoryRetention > 0
          /\ ~(writer'[w].pc = "row" /\ MemoryRetention > 0)
      BY <1>0, <1>1, <1>2
    <2> QED BY <1>0, <1>2, <1>3, <1>4, <2>1, <2>2, <2>3, <2>4, MemoryKeep
  <1>6. Shown' = Shown
    <2>1. CASE MemoryRetention = 0
      <3>1. snapshots = {}
        BY <2>1 DEF MemoryInv
      <3> QED BY <1>0, <3>1 DEF Shown
    <2>2. CASE MemoryRetention # 0
      <3>1. \A v \in Writers : writer'[v].pc = "row" <=> writer[v].pc = "row"
        BY <1>0, <1>1, <1>2, <2>2
      <3> QED BY <1>0, <1>2, <3>1, ShownKept
    <2> QED BY <2>1, <2>2
  <1> QED BY <1>0, <1>5, <1>6

LEMMA SnapshotTyped ==
    ASSUME MemoryInv, NEW w \in Writers, Under(w)
    PROVE  /\ SnapshotOf(w) \in SnapshotRecords
           /\ SnapshotOf(w).list = writer[w].list /\ SnapshotOf(w).iat = writer[w].work.stamp
           /\ SnapshotOf(w).exp = writer[w].work.stamp + MemoryLifetime
           /\ SnapshotOf(w).applied = writer[w].work.applied
  <1>1. writer[w].list \in MemoryLists /\ writer[w].work \in Rows /\ MemoryLifetime \in Nat
    BY MemoryAssumption DEF MemoryInv, WorkIsSound
  <1>2. writer[w].work.stamp \in Nat /\ writer[w].work.applied \in SUBSET Writers
    BY <1>1 DEF Rows
  <1>3. writer[w].work.stamp + MemoryLifetime \in Nat
    BY <1>1, <1>2
  <1> QED BY <1>1, <1>2, <1>3 DEF SnapshotOf, SnapshotRecords

LEMMA SnapshotInv ==
    ASSUME MemoryInv, now' = now, NEW w \in Writers, MemorySnapshot(w)
    PROVE  MemoryInv' /\ UNCHANGED <<values, Shown, horizon>>
  <1>0. /\ writer \in [Writers -> WriterRecords] /\ snapshots \subseteq SnapshotRecords
        /\ UNCHANGED <<values, horizon>> /\ snapshots' = snapshots \cup {SnapshotOf(w)}
        /\ writer[w].pc = "snapshot" /\ Under(w) /\ Locks(w) /\ WriterAt(w, "row")
        /\ MemoryRetention > 0 /\ MemoryRetention \in Nat
    BY MemoryAssumption DEF MemoryInv, MemorySnapshot, Under, Locks
  <1>1. /\ writer' \in [Writers -> WriterRecords] /\ writer'[w].pc = "row"
        /\ \A v \in Writers \ {w} : writer'[v] = writer[v]
        /\ \A v \in Writers : SnapshotOf(v)' = SnapshotOf(v)
    BY <1>0, MoveTo
  <1>2. WorkIsSound(w)' /\ StampTells(w)' /\ LockKeeps(w)' /\ WorkIsSound(w)
    BY <1>0, MovedIsSound DEF MemoryInv
  <1>3. \A v \in Writers \ {w} : ~Locks(v)
    BY <1>0 DEF MemoryInv
  <1>4. SnapshotOf(w) \in SnapshotRecords /\ SnapshotOf(w).applied = writer[w].work.applied
    BY <1>0, SnapshotTyped
  <1>5. ASSUME NEW s \in snapshots', NEW v \in s.applied PROVE writer'[v].pc \in {"row", "done"}
    <2>1. CASE s \in snapshots
      <3>1. v \in Writers /\ writer[v].pc \in {"row", "done"}
        BY <1>0, <2>1 DEF MemoryInv, SnapshotRecords
      <3> QED BY <1>0, <1>1, <3>1
    <2>2. CASE s = SnapshotOf(w)
      <3>1. v \in Writers /\ (v # w => writer[v].pc = "done")
        BY <1>2, <1>4, <2>2 DEF WorkIsSound, Rows
      <3> QED BY <1>1, <3>1
    <2> QED BY <1>0, <2>1, <2>2
  <1>6. MemoryInv'
    BY <1>0, <1>1, <1>2, <1>3, <1>4, <1>5, MemoryKeep
  <1>7. Shown' = Shown
    <2>1. SnapshotOf(w) \notin snapshots
      <3>1. w \in SnapshotOf(w).applied
        BY <1>2, <1>4 DEF WorkIsSound
      <3> QED BY <1>0, <3>1 DEF MemoryInv
    <2>2. \A v \in Writers : writer[v].pc # "row" /\ (writer'[v].pc = "row" => v = w)
      BY <1>0, <1>1, <1>3 DEF Locks
    <2>3. Shown = snapshots
      BY <2>2 DEF Shown
    <2>4. Shown' = snapshots' \ {SnapshotOf(w)}
      BY <1>1, <2>2 DEF Shown
    <2> QED BY <1>0, <2>1, <2>3, <2>4
  <1> QED BY <1>0, <1>6, <1>7

LEMMA RowInv ==
    ASSUME MemoryInv, now' = now, NEW w \in Writers, MemoryRow(w)
    PROVE  MemoryInv' /\ Atomic!Next
  <1> DEFINE l == writer[w].list
             work == writer[w].work
  <1>0. /\ writer \in [Writers -> WriterRecords] /\ values \in [MemoryLists -> Rows \cup {NoRow}]
        /\ snapshots \subseteq SnapshotRecords /\ MemoryRetention \in Nat
        /\ UNCHANGED <<snapshots, horizon>> /\ values' = [values EXCEPT ![l] = work]
        /\ writer[w].pc = "row" /\ Under(w) /\ Locks(w) /\ WriterAt(w, "done")
        /\ writer[w].op \in {"publish", "update"}
    BY MemoryAssumption DEF MemoryInv, MemoryRow, Under, Locks, WriterRecords
  <1>1. /\ writer' \in [Writers -> WriterRecords] /\ writer'[w].pc = "done"
        /\ \A v \in Writers \ {w} : writer'[v] = writer[v]
        /\ \A v \in Writers : SnapshotOf(v)' = SnapshotOf(v)
    BY <1>0, MoveTo
  <1>2. WorkIsSound(w) /\ LockKeeps(w)
    BY <1>0 DEF MemoryInv
  <1>3. \A v \in Writers : ~Locks(v)'
    BY <1>0, <1>1 DEF MemoryInv, Locks
  <1>4. \A v \in Writers : writer[v].pc = "done" => writer'[v].pc = "done"
    BY <1>1
  <1>5. l \in MemoryLists /\ work \in Rows /\ work.stamp \in Nat /\ work.applied \subseteq Writers
    BY <1>2 DEF WorkIsSound, Rows
  <1>6. /\ values' \in [MemoryLists -> Rows \cup {NoRow}] /\ values'[l] = work
        /\ \A m \in MemoryLists \ {l} : values'[m] = values[m]
    BY <1>0, <1>5
  <1>7. MemoryInv'
    <2>1. ASSUME NEW v \in Writers, Under(v)' PROVE WorkIsSound(v)' /\ StampTells(v)'
      <3>1. v # w /\ writer'[v] = writer[v]
        BY <1>1, <2>1 DEF Under
      <3>2. WorkIsSound(v) /\ StampTells(v)
        BY <2>1, <3>1 DEF MemoryInv, Under
      <3>3. writer[v].work.applied \subseteq Writers
        BY <3>2 DEF WorkIsSound, Rows
      <3>4. WorkIsSound(v)'
        BY <1>4, <3>1, <3>2, <3>3 DEF WorkIsSound
      <3>5. CASE writer[v].list # l \/ writer[v].op # "update"
        <4>1. writer[v].list \in MemoryLists
          BY <3>2 DEF WorkIsSound
        <4> QED BY <1>6, <3>1, <3>2, <3>4, <3>5, <4>1 DEF StampTells
      <3>6. CASE writer[v].list = l /\ writer[v].op = "update"
        <4>1. /\ values[l] \in Rows /\ values[l].stamp >= writer[v].read.stamp
              /\ writer[v].read \in Rows
          BY <3>2, <3>6 DEF StampTells, WorkIsSound
        <4>2. writer[w].op = "update" /\ values[l] = writer[w].read
          BY <1>0, <1>2, <4>1, NoRowAssumption DEF LockKeeps
        <4>3. work.stamp > values[l].stamp
          BY <1>2, <4>2 DEF WorkIsSound
        <4>4. values[l].stamp \in Nat /\ writer[v].read.stamp \in Nat
          BY <4>1 DEF Rows
        <4>5. work.stamp > writer[v].read.stamp
          BY <1>5, <4>1, <4>3, <4>4
        <4>6. work.stamp >= writer[v].read.stamp /\ work.stamp # writer[v].read.stamp
          BY <1>5, <4>4, <4>5
        <4>7. StampTells(v)'
          <5> HIDE DEF work, l
          <5> QED BY <1>5, <1>6, <3>1, <3>6, <4>6 DEF StampTells
        <4> QED BY <3>4, <4>7
      <3> QED BY <3>5, <3>6
    <2>2. ASSUME NEW m \in MemoryLists, values'[m] \in Rows, NEW v \in values'[m].applied
          PROVE  writer'[v].pc = "done"
      <3>1. CASE m = l
        <4>1. v \in work.applied /\ v \in Writers
          BY <1>5, <1>6, <2>2, <3>1
        <4> QED BY <1>1, <1>2, <1>4, <4>1 DEF WorkIsSound
      <3>2. CASE m # l
        <4>1. values'[m] = values[m]
          BY <1>6, <3>2
        <4>2. writer[v].pc = "done" /\ v \in Writers
          BY <2>2, <4>1 DEF MemoryInv, Rows
        <4> QED BY <1>4, <4>2
      <3> QED BY <3>1, <3>2
    <2>3. ASSUME NEW s \in snapshots', NEW v \in s.applied PROVE writer'[v].pc \in {"row", "done"}
      <3>1. s \in snapshots /\ v \in Writers /\ writer[v].pc \in {"row", "done"}
        BY <1>0, <2>3 DEF MemoryInv, SnapshotRecords
      <3> QED BY <1>1, <3>1
    <2>4. \A v \in Writers : writer'[v].pc # "snapshot" /\ writer'[v].pc # "row"
      BY <1>3 DEF Locks
    <2>5. horizon' \in Nat /\ (MemoryRetention = 0 => snapshots' = {})
      BY <1>0 DEF MemoryInv
    <2>6. snapshots' \subseteq SnapshotRecords
      BY <1>0
    <2> HIDE DEF work, l
    <2> QED BY <1>1, <1>3, <1>6, <2>1, <2>2, <2>3, <2>4, <2>5, <2>6 DEF MemoryInv
  <1>8. Shown' = snapshots
    <2>1. \A v \in Writers : writer'[v].pc # "row"
      BY <1>3 DEF Locks
    <2> QED BY <1>0, <2>1 DEF Shown
  <1>9. Shown = snapshots \ {SnapshotOf(w)}
    <2>1. \A v \in Writers : writer[v].pc = "row" <=> v = w
      BY <1>0 DEF MemoryInv, Locks
    <2> QED BY <2>1 DEF Shown
  <1>10. Atomic!Write(l)
    <2> HIDE DEF l, work
    <2> QED BY <1>0, <1>5, <1>6 DEF Atomic!Write, Atomic!Record, Rows
  <1>11. Atomic!Remember(l)
    <2>1. CASE MemoryRetention > 0
      <3> DEFINE s == SnapshotOf(w)
      <3>1. s \in snapshots
        BY <1>0, <2>1 DEF MemoryInv
      <3>2. /\ s \in SnapshotRecords /\ s.list = l /\ s.iat = work.stamp /\ s.applied = work.applied
        BY <1>0, SnapshotTyped
      <3> HIDE DEF s, work, l
      <3>3. Shown' = Shown \cup {s} /\ s \in Shown'
        BY <1>8, <1>9, <3>1 DEF s
      <3> QED BY <1>6, <2>1, <3>2, <3>3 DEF Atomic!Remember, Atomic!Snapshot, SnapshotRecords
    <2>2. CASE ~(MemoryRetention > 0)
      <3>1. snapshots = {}
        BY <1>0, <2>2 DEF MemoryInv
      <3> QED BY <1>8, <1>9, <2>2, <3>1 DEF Atomic!Remember
    <2> QED BY <2>1, <2>2
  <1>12. CASE writer[w].op = "publish"
    <2>1. values[l] = NoRow /\ work.applied = {w}
      BY <1>2, <1>12 DEF LockKeeps, WorkIsSound
    <2>2. Atomic!Publish(l, w)
      BY <1>0, <1>6, <1>10, <1>11, <2>1 DEF Atomic!Publish
    <2> QED BY <1>5, <1>7, <2>2 DEF Atomic!Next
  <1>13. CASE writer[w].op = "update"
    <2>1. /\ values[l] = writer[w].read /\ writer[w].read \in Rows /\ w \notin writer[w].read.applied
          /\ work.applied = writer[w].read.applied \cup {w} /\ work.issuer = writer[w].read.issuer
          /\ work.stamp > writer[w].read.stamp
      BY <1>2, <1>13 DEF LockKeeps, WorkIsSound
    <2>2. values[l] # NoRow
      BY <2>1, NoRowAssumption
    <2>3. Atomic!Update(l, w)
      BY <1>0, <1>6, <1>10, <1>11, <2>1, <2>2 DEF Atomic!Update
    <2> QED BY <1>5, <1>7, <2>3 DEF Atomic!Next
  <1> QED BY <1>0, <1>12, <1>13

LEMMA SweepInv ==
    ASSUME MemoryInv, now \in Nat, now' = now, MemorySweep(now)
    PROVE  MemoryInv' /\ Atomic!Next
  <1> DEFINE cutoff == now - MemoryRetention
  <1>1. /\ MemoryRetention > 0 /\ now > MemoryRetention /\ UNCHANGED <<values, writer>>
        /\ snapshots' = {s \in snapshots : ~(s.exp < cutoff)}
        /\ horizon' = IF cutoff > horizon THEN cutoff ELSE horizon
        /\ MemoryRetention \in Nat /\ MemoryLifetime \in Nat /\ horizon \in Nat /\ cutoff \in Nat
    BY MemoryAssumption DEF MemorySweep, MemoryInv
  <1>2. horizon' \in Nat /\ horizon' >= horizon /\ horizon' >= cutoff
    BY <1>1
  <1>3. ASSUME NEW w \in Writers, writer[w].pc = "row" PROVE SnapshotOf(w) \in snapshots'
    <2>1. Under(w) /\ WorkIsSound(w) /\ SnapshotOf(w) \in snapshots
      BY <1>1, <1>3 DEF MemoryInv, Under
    <2>2. writer[w].work.stamp \in Nat /\ now <= writer[w].work.stamp + MemoryLifetime + MemoryRetention
      BY <2>1 DEF WorkIsSound, Rows
    <2>3. SnapshotOf(w).exp = writer[w].work.stamp + MemoryLifetime
      BY <2>1, SnapshotTyped
    <2>4. ~(SnapshotOf(w).exp < cutoff)
      BY <1>1, <2>2, <2>3
    <2> QED BY <1>1, <2>1, <2>4
  <1>4. MemoryInv'
    <2>1. \A w \in Writers : SnapshotOf(w)' = SnapshotOf(w)
      BY <1>1 DEF SnapshotOf
    <2>2. \A w \in Writers : (Under(w)' <=> Under(w)) /\ (Locks(w)' <=> Locks(w))
      BY <1>1 DEF Under, Locks
    <2>3. \A w \in Writers : /\ WorkIsSound(w) => WorkIsSound(w)'
                             /\ StampTells(w) => StampTells(w)'
                             /\ LockKeeps(w) => LockKeeps(w)'
      BY <1>1 DEF WorkIsSound, StampTells, LockKeeps
    <2>4. snapshots' \subseteq snapshots
      BY <1>1
    <2> QED BY <1>1, <1>2, <1>3, <2>1, <2>2, <2>3, <2>4 DEF MemoryInv
  <1>5. Shown' \subseteq Shown
    <2>1. \A w \in Writers : SnapshotOf(w)' = SnapshotOf(w) /\ writer'[w].pc = writer[w].pc
      BY <1>1 DEF SnapshotOf
    <2> QED BY <1>1, <2>1 DEF Shown
  <1>6. ASSUME NEW s \in Shown \ Shown' PROVE s.exp < horizon'
    <2>1. \A w \in Writers : SnapshotOf(w)' = SnapshotOf(w) /\ writer'[w].pc = writer[w].pc
      BY <1>1 DEF SnapshotOf
    <2>2. s \in snapshots /\ s \notin snapshots'
      BY <2>1 DEF Shown
    <2>3. s.exp < cutoff /\ s.exp \in Nat
      BY <1>1, <2>2 DEF MemoryInv, SnapshotRecords
    <2> QED BY <1>1, <1>2, <2>3
  <1>7. Atomic!Purge
    BY <1>1, <1>2, <1>5, <1>6 DEF Atomic!Purge
  <1> QED BY <1>4, <1>7 DEF Atomic!Next

LEMMA MemoryResetInv ==
    ASSUME MemoryInv, now' = now, MemoryReset
    PROVE  MemoryInv' /\ Forgotten
  <1>1. /\ values' = NoRows /\ snapshots' = {} /\ horizon' = horizon
        /\ writer' = [w \in Writers |-> IF writer[w].pc = "idle" THEN writer[w]
                                        ELSE [writer[w] EXCEPT !.pc = "done"]]
        /\ writer \in [Writers -> WriterRecords]
    BY DEF MemoryReset, MemoryInv
  <1>2. ASSUME NEW w \in Writers
        PROVE  writer'[w] \in WriterRecords /\ writer'[w].pc \in {"idle", "done"}
    BY <1>1 DEF WriterRecords
  <1>3. writer' \in [Writers -> WriterRecords]
    BY <1>1, <1>2
  <1>4. values' \in [MemoryLists -> Rows \cup {NoRow}] /\ \A l \in MemoryLists : values'[l] \notin Rows
    BY <1>1, NoRowAssumption DEF NoRows
  <1>5. \A w \in Writers : ~Under(w)' /\ ~Locks(w)' /\ writer'[w].pc # "row" /\ writer'[w].pc # "snapshot"
    BY <1>2 DEF Under, Locks
  <1>6. MemoryInv'
    BY <1>1, <1>3, <1>4, <1>5 DEF MemoryInv
  <1>7. Shown' = {}
    BY <1>1 DEF Shown
  <1> QED BY <1>1, <1>6, <1>7 DEF Forgotten

(* Time passes, but not beyond the retention of a write under way. *)
LEMMA MemoryTickInv ==
    ASSUME MemoryInv, now \in Nat, UNCHANGED memoryVars, now' = now \/ (now' = now + 1 /\ WritesEnd)
    PROVE  MemoryInv' /\ UNCHANGED <<values, Shown, horizon>>
  <1>1. UNCHANGED <<values, snapshots, writer, horizon>>
    BY DEF memoryVars
  <1>2. \A w \in Writers : SnapshotOf(w)' = SnapshotOf(w)
    BY <1>1 DEF SnapshotOf
  <1>3. \A w \in Writers : (Under(w)' <=> Under(w)) /\ (Locks(w)' <=> Locks(w))
    BY <1>1 DEF Under, Locks
  <1>4. ASSUME NEW w \in Writers, Under(w) PROVE WorkIsSound(w)'
    <2>1. WorkIsSound(w)
      BY <1>4 DEF MemoryInv
    <2>2. writer[w].work.stamp \in Nat /\ MemoryLifetime \in Nat /\ MemoryRetention \in Nat
      BY <2>1, MemoryAssumption DEF WorkIsSound, Rows
    <2>3. now' <= writer[w].work.stamp + MemoryLifetime + MemoryRetention
      BY <1>4, <2>1, <2>2 DEF WorkIsSound, WritesEnd, Under
    <2> QED BY <1>1, <2>1, <2>3 DEF WorkIsSound
  <1>5. \A w \in Writers : /\ StampTells(w) => StampTells(w)'
                           /\ LockKeeps(w) => LockKeeps(w)'
    BY <1>1 DEF StampTells, LockKeeps
  <1>6. MemoryInv'
    BY <1>1, <1>2, <1>3, <1>4, <1>5 DEF MemoryInv
  <1>7. Shown' = Shown
    BY <1>1, <1>2, ShownKept
  <1> QED BY <1>1, <1>6, <1>7

LEMMA MemoryStep ==
    ASSUME AccessInv, MemoryInv, [Next]_vars
    PROVE  MemoryInv' /\ (Atomic!Next \/ Forgotten \/ UNCHANGED <<values, Shown, horizon>>)
  <1> DEFINE Goal == MemoryInv' /\ (Atomic!Next \/ Forgotten \/ UNCHANGED <<values, Shown, horizon>>)
  <1>0. now \in Nat
    BY AccessAssumption DEF AccessInv
  <1>1. ASSUME UNCHANGED memoryVars, now' = now PROVE Goal
    BY <1>0, <1>1, MemoryTickInv
  <1>2. ASSUME NEW r \in Replicas, Reset(r) PROVE Goal
    <2>1. now' = now /\ (MemoryReset \/ UNCHANGED memoryVars)
      BY <1>2 DEF Reset, AccessReset
    <2> QED BY <1>1, <2>1, MemoryResetInv
  <1>3. ASSUME NEW r \in Replicas, Startup(r) \/ Crash(r) \/ Terminate(r) \/ Drained(r) PROVE Goal
    <2>1. \/ Reset(r)
          \/ UNCHANGED memoryVars /\ UNCHANGED accessVars
      BY <1>3 DEF Startup, Start, LoadConfig, ConnectDatabase, UseMemory, Migrate, MigrationFails,
         Migrated, VerifyEngines, VerifyBinlog, BuildMaterial, BuildRouter, Bind, Refused, Crash,
         Terminate, Drained, Aside, Quiet
    <2> QED BY <1>1, <1>2, <2>1 DEF accessVars
  <1>4. ASSUME NEW p \in Probes, ProbeComes(p) \/ ProbeLeaves(p) \/ ProbeRuns(p) PROVE Goal
    BY <1>1, <1>4 DEF ProbeComes, ProbeLeaves, ProbeRuns, ReadinessOnly, accessVars
  <1>5. ASSUME NEW k \in Checks, CheckRuns(k) \/ DependencyChanges(k) PROVE Goal
    BY <1>1, <1>5 DEF CheckRuns, DependencyChanges, ReadinessOnly, accessVars
  <1>6. ASSUME NEW q \in Requests, \/ Arrives(q) \/ RequestRuns(q) \/ WriteList(q)
                                  \/ RequestRefused(q) \/ RequestFails(q)
        PROVE  Goal
    <2>1. UNCHANGED memoryVars
      BY <1>6 DEF Arrives, RequestRuns, WriteList, RequestRefused, RequestFails, AccessOnly
    <2>2. now' = now
      BY <1>6 DEF Arrives, RequestRuns, WriteList, RequestRefused, RequestFails, CallFails,
         Manage, Register, insert_one, insert_one_fails, find_credential, find_credential_fails,
         Verify, RunHandler, Answered
    <2> QED BY <1>1, <2>1, <2>2
  <1>7. ASSUME NEW w \in Writers, WriterComes(w) PROVE Goal
    <2>1. PICK l \in MemoryLists, i \in MemoryIssuers :
              MemoryPublish(w, l, i, now) \/ MemoryUpdate(w, l, i, now)
      BY <1>7 DEF WriterComes
    <2>2. now' = now
      BY <1>7 DEF WriterComes, MemoryOnly, accessVars
    <2> QED BY <1>0, <2>1, <2>2, ComesInv
  <1>8. ASSUME NEW w \in Writers, WriterRuns(w) \/ WriterLeaves(w) PROVE Goal
    <2>1. now' = now
      BY <1>8 DEF WriterRuns, WriterLeaves, MemoryOnly, accessVars
    <2>2. MemoryLock(w) \/ MemoryDropped(w) \/ MemorySnapshot(w) \/ MemoryRow(w)
      BY <1>8 DEF WriterRuns, WriterLeaves, MemoryWrites
    <2> QED BY <2>1, <2>2, LockInv, SnapshotInv, RowInv
  <1>9. ASSUME SnapshotCleanup PROVE Goal
    <2>1. now' = now /\ MemorySweep(now)
      BY <1>9 DEF SnapshotCleanup, MemoryOnly, accessVars
    <2> QED BY <1>0, <2>1, SweepInv
  <1>10. ASSUME Tick PROVE Goal
    <2>1. UNCHANGED memoryVars /\ (now' = now \/ (now' = now + 1 /\ WritesEnd))
      BY <1>10 DEF Tick, AccessTick, accessVars
    <2> QED BY <1>0, <2>1, MemoryTickInv
  <1>11. OperatorSteps \/ UNCHANGED vars => Goal
    BY <1>1 DEF OperatorSteps, vars, accessVars
  <1> HIDE DEF Goal
  <1>12. Goal
    BY <1>3, <1>4, <1>5, <1>6, <1>7, <1>8, <1>9, <1>10, <1>11 DEF Next
  <1> QED BY <1>12 DEF Goal

LEMMA MemoryInvariant == Spec => [](AccessInv /\ MemoryInv)
  <1>1. Init => MemoryInv
    <2> SUFFICES ASSUME Init PROVE MemoryInv
      OBVIOUS
    <2>1. /\ values = NoRows /\ snapshots = {} /\ horizon = 0
          /\ writer = [w \in Writers |-> NewWriter]
      BY DEF Init, MemoryInit
    <2>2. NewWriter \in WriterRecords /\ NewWriter.pc = "idle"
      BY DEF NewWriter, WriterRecords
    <2>3. writer \in [Writers -> WriterRecords] /\ \A w \in Writers : writer[w].pc = "idle"
      BY <2>1, <2>2
    <2>4. values \in [MemoryLists -> Rows \cup {NoRow}] /\ \A l \in MemoryLists : values[l] \notin Rows
      BY <2>1, NoRowAssumption DEF NoRows
    <2>5. \A w \in Writers : ~Under(w) /\ ~Locks(w)
      BY <2>3 DEF Under, Locks
    <2> QED BY <2>1, <2>3, <2>4, <2>5 DEF MemoryInv
  <1>2. AccessInv /\ MemoryInv /\ [Next]_vars => MemoryInv'
    BY MemoryStep
  <1> QED BY <1>1, <1>2, AccessInvariant, PTL DEF Spec

(* While a process lives, the two maps it keeps behind two locks are the    *)
(* register of StatusListRegister: each write takes effect once, with its   *)
(* snapshot, on top of the row it read, for any number of writers and any   *)
(* lifetime and retention (insert_with_snapshot, update_with_snapshot).     *)
THEOREM MemoryIsRegister == Spec => MemoryIsAtomic
  <1> DEFINE Step == Atomic!Next \/ Forgotten
  <1>1. AccessInv /\ MemoryInv /\ [Next]_vars => [Step]_<<values, Shown, horizon>>
    BY MemoryStep
  <1> HIDE DEF Step
  <1>2. Spec => [][Step]_<<values, Shown, horizon>>
    BY <1>1, MemoryInvariant, PTL DEF Spec
  <1> QED BY <1>2 DEF MemoryIsAtomic, Step

-----------------------------------------------------------------------------
(* Types *)

LEMMA FaultsInvariant == Spec => [](plan \in Plans /\ faults \in 0..plan.faults)
  <1>1. Init => plan \in Plans /\ faults \in 0..plan.faults
    BY PlansAssumption DEF Init
  <1>2. plan \in Plans /\ faults \in 0..plan.faults /\ [Next]_vars
            => (plan \in Plans /\ faults \in 0..plan.faults)'
    <2> SUFFICES ASSUME plan \in Plans, faults \in 0..plan.faults, [Next]_vars
                 PROVE  plan' \in Plans /\ faults' \in 0..plan'.faults
      OBVIOUS
    <2>1. plan' = plan /\ plan.faults \in Nat
      BY PlansAssumption DEF Next, vars
    <2>2. ASSUME NEW r \in Replicas, Startup(r) \/ Crash(r) \/ Terminate(r) \/ Drained(r)
          PROVE  faults' = faults \/ (faults > 0 /\ faults' = faults - 1)
      BY <2>2 DEF Startup, Start, LoadConfig, ConnectDatabase, UseMemory, Migrate, MigrationFails,
         Migrated, VerifyEngines, VerifyBinlog, BuildMaterial, BuildRouter, Bind, Refused, Crash,
         Terminate, Drained, Aside, Quiet
    <2>3. ASSUME NEW p \in Probes, ProbeComes(p) \/ ProbeLeaves(p) \/ ProbeRuns(p)
          PROVE  faults' = faults \/ (faults > 0 /\ faults' = faults - 1)
      BY <2>3 DEF ProbeComes, ProbeLeaves, ProbeRuns, ReadinessOnly, serverVars
    <2>4. ASSUME NEW k \in Checks, CheckRuns(k) \/ DependencyChanges(k)
          PROVE  faults' = faults \/ (faults > 0 /\ faults' = faults - 1)
      BY <2>4 DEF CheckRuns, DependencyChanges, ReadinessOnly, serverVars
    <2>5. ASSUME NEW q \in Requests, \/ Arrives(q) \/ RequestRuns(q) \/ WriteList(q)
                                    \/ RequestRefused(q) \/ RequestFails(q)
          PROVE  faults' = faults \/ (faults > 0 /\ faults' = faults - 1)
      BY <2>5 DEF Arrives, RequestRuns, WriteList, RequestRefused, RequestFails, AccessOnly,
         serverVars
    <2>6. ASSUME NEW w \in Writers, WriterComes(w) \/ WriterRuns(w) \/ WriterLeaves(w)
          PROVE  faults' = faults \/ (faults > 0 /\ faults' = faults - 1)
      BY <2>6 DEF WriterComes, WriterRuns, WriterLeaves, serverVars
    <2>7. SnapshotCleanup \/ Tick \/ OperatorSteps \/ UNCHANGED vars => faults' = faults
      BY DEF SnapshotCleanup, Tick, OperatorSteps, vars, serverVars
    <2>8. faults' = faults \/ (faults > 0 /\ faults' = faults - 1)
      BY <2>2, <2>3, <2>4, <2>5, <2>6, <2>7 DEF Next
    <2> QED BY <2>1, <2>8
  <1> QED BY <1>1, <1>2, PTL DEF Spec

(* Every variable of the composed server keeps its type. *)
THEOREM TypeCorrect == Spec => []TypeOK
  <1>1. ReadinessInv /\ StartInv /\ AccessInv /\ SchemaInv /\ MemoryInv /\ faults \in 0..plan.faults
            => TypeOK
    <2> SUFFICES ASSUME ReadinessInv, StartInv, AccessInv, SchemaInv, MemoryInv,
                        faults \in 0..plan.faults
                 PROVE  TypeOK
      OBVIOUS
    <2>1. stage \in [Replicas -> ToSet(Stages) \cup {"down", "serving", "draining"}]
      <3>1. ToSet(Stages) = {"load", "database", "migrate", "engines", "binlog", "material", "http", "bind"}
        BY DEF ToSet, Stages
      <3> QED BY <3>1 DEF StartInv, StageNames
    <2>2. MigrationTypeOK /\ ReadinessTypeOK
      BY DEF SchemaInv, MigrationInv, ReadinessInv
    <2>3. AccessTypeOK(Replicas)
      <3>1. \A q \in Requests : /\ req[q].pc \in {"idle", "insert", "find", "verify", "handle", "answer"}
                                /\ req[q].at \in Replicas \cup {NoReplica}
                                /\ req[q].body \in Bodies
                                /\ req[q].found \in Keys \cup {NoKey}
        BY DEF AccessInv, RequestRecords
      <3> QED BY <3>1 DEF AccessInv, AccessTypeOK, Bodies
    <2>4. MemoryTypeOK
      <3>1. \A w \in Writers : /\ writer[w].pc \in {"idle", "lock", "snapshot", "row", "done"}
                               /\ writer[w].op \in {"publish", "update"}
                               /\ writer[w].read \in Rows \cup {NoRow}
                               /\ writer[w].work \in Rows \cup {NoRow}
        BY DEF MemoryInv, WriterRecords
      <3>2. \A s \in snapshots : s.list \in MemoryLists /\ s.applied \subseteq Writers
        BY DEF MemoryInv, SnapshotRecords
      <3> QED BY <3>1, <3>2 DEF MemoryInv, MemoryTypeOK
    <2> QED BY <2>1, <2>2, <2>3, <2>4 DEF TypeOK
  <1> QED BY <1>1, ReadinessInvariant, SchemaInvariant, MemoryInvariant, FaultsInvariant, PTL
=============================================================================
