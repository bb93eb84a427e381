------------------------------- MODULE Server -------------------------------
(***************************************************************************)
(* A replica from its start to its end (main.rs, setup.rs, startup.rs): it *)
(* loads the configuration, connects and migrates the database, assembles  *)
(* key material and router, serves until it is told to stop, and drains.   *)
(* It is started again whenever it ends.  While it serves it answers       *)
(* readiness probes and requests, on the database the replicas share.      *)
(***************************************************************************)
EXTENDS Configuration, Migrations, Readiness, Access, MemoryStore

CONSTANT Plans

VARIABLES
    plan,   \* the deployment: its configuration, replicas and clients
    stage,  \* how far each replica has got
    faults  \* what may still go wrong

serverVars == <<stage, faults>>
vars == <<plan, serverVars, migrationVars, readinessVars, accessVars, memoryVars>>

Stages == <<"load", "database", "migrate", "engines", "binlog", "material", "http", "bind">>

config == plan.config
Memory == Backend(config) = "memory"
AcmeBuild(c) == c.features \cap {"acme", "vault", "gcp", "azure", "aws"} # {}
Acme == AcmeBuild(config)

TypeOK ==
    /\ stage \in [Replicas -> ToSet(Stages) \cup {"down", "serving", "draining"}]
    /\ faults \in 0..plan.faults
    /\ MigrationTypeOK
    /\ ReadinessTypeOK
    /\ AccessTypeOK(Replicas)
    /\ MemoryTypeOK

Init ==
    /\ plan \in Plans
    /\ stage = [r \in Replicas |-> IF r \in plan.replicas THEN plan.start ELSE "down"]
    /\ faults = plan.faults
    /\ MigrationInit(plan.install)
    /\ ReadinessInit
    /\ AccessInit
    /\ MemoryInit

-----------------------------------------------------------------------------
(* Start-up *)

At(r, s) == r \in plan.replicas /\ stage[r] = s

GoTo(r, s) == stage' = [stage EXCEPT ![r] = s]

Reset(r) ==
    /\ stage' = [stage EXCEPT ![r] = "down"]
    /\ Abandon(r)
    /\ AccessReset(r, Memory)
    /\ IF r = plan.home THEN ReadinessReset ELSE UNCHANGED readinessVars
    /\ IF Memory THEN MemoryReset ELSE UNCHANGED memoryVars

Aside == UNCHANGED <<faults, readinessVars, accessVars, memoryVars>>
Quiet == Aside /\ UNCHANGED migrationVars

Start(r) == At(r, "down") /\ GoTo(r, "load") /\ Quiet

LoadConfig(r) ==
    /\ At(r, "load")
    /\ load(config) /\ init_telemetry(config)
    /\ GoTo(r, "database")
    /\ Quiet

(* connect_database_pool *)
DatabaseUsable ==
    LET url == load_resolved_url(config) IN
    /\ url # Error /\ validate_url_scheme(config, url)
    /\ Backend(config) \in config.features

ConnectDatabase(r) ==
    /\ At(r, "database") /\ ~Memory
    /\ DatabaseUsable /\ service["database"] = "up"
    /\ GoTo(r, "migrate")
    /\ ReadApplied(r)
    /\ Aside

UseMemory(r) ==
    /\ At(r, "database") /\ Memory
    /\ "memory" \in config.features
    /\ GoTo(r, "material")
    /\ Quiet

(* SeaORM wraps the migrations on Postgres alone. *)
Transactional == Backend(config) = "postgres"
Mysql == Backend(config) = "mysql"

Migrate(r) ==
    /\ At(r, "migrate")
    /\ \/ Transactional /\ todo[r] # <<>> /\ CommitAll(r)
       \/ ~Transactional /\ MigrationStep(r, Mysql)
    /\ Aside /\ UNCHANGED stage

MigrationFails(r) ==
    /\ At(r, "migrate") /\ todo[r] # <<>>
    /\ IF Transactional THEN TransactionFails(r) ELSE Overtaken(r, Mysql)
    /\ Reset(r)
    /\ UNCHANGED faults

Migrated(r) == At(r, "migrate") /\ todo[r] = <<>> /\ GoTo(r, "engines") /\ Quiet

EnginesFit == Mysql => verify_innodb_engines
BinlogFits == Mysql => verify_binlog_format

(* Report the tables and go on. *)
VerifyEngines_logged(r) == At(r, "engines") /\ GoTo(r, "binlog") /\ Quiet

VerifyEngines(r) == At(r, "engines") /\ EnginesFit /\ GoTo(r, "binlog") /\ Quiet

VerifyBinlog(r) == At(r, "binlog") /\ BinlogFits /\ GoTo(r, "material") /\ Quiet

(* build_state_impl, second half: ACME builds set up the secret backend,   *)
(* where Vault is asked for a token, and the DNS provider; the others read *)
(* a certificate and its key.                                              *)
MaterialUsable ==
    IF Acme
    THEN /\ build_crypto_storage(config)
         /\ SecretBackend(config) = "vault" => service["cert_store"] = "up"
         /\ resolve(config) # Error
         /\ build_dns_challenge_handler(config, resolve(config))
         /\ build_manager(config)
         /\ setup_cert_renewal_scheduler(config)
    ELSE \/ CertSource(config) = "filesystem" /\ service["cert_store"] = "up"
         \/ CertSource(config) = "inline" /\ "certificate" \notin config.bad

BuildMaterial(r) ==
    /\ At(r, "material")
    /\ MaterialUsable
    /\ GoTo(r, "http")
    /\ Quiet

BuildRouter(r) ==
    /\ At(r, "http")
    /\ build_governor_configs(config) /\ validate_aggregation_uri(config)
    /\ GoTo(r, "bind")
    /\ Quiet

Bind(r) == At(r, "bind") /\ GoTo(r, "serving") /\ Quiet

(* main returns the first error there is. *)
Refused(r) ==
    /\ \/ At(r, "load") /\ ~(load(config) /\ init_telemetry(config))
       \/ At(r, "database") /\ Memory /\ "memory" \notin config.features
       \/ /\ At(r, "database") /\ ~Memory
          /\ ~DatabaseUsable \/ service["database"] # "up"
       \/ At(r, "engines") /\ ~EnginesFit
       \/ At(r, "binlog") /\ ~BinlogFits
       \/ At(r, "material") /\ ~MaterialUsable
       \/ At(r, "http") /\ ~(build_governor_configs(config) /\ validate_aggregation_uri(config))
    /\ Reset(r)
    /\ UNCHANGED faults

(* The process is killed, or a statement, the listener or another call     *)
(* fails for reasons of its own.                                           *)
Crash(r) ==
    /\ r \in plan.replicas /\ stage[r] # "down"
    /\ faults > 0 /\ faults' = faults - 1
    /\ Reset(r)

Startup(r) ==
    \/ Start(r) \/ LoadConfig(r) \/ ConnectDatabase(r) \/ UseMemory(r)
    \/ Migrate(r) \/ MigrationFails(r) \/ Migrated(r)
    \/ VerifyEngines(r) \/ VerifyBinlog(r)
    \/ BuildMaterial(r) \/ BuildRouter(r) \/ Bind(r)
    \/ Refused(r)

-----------------------------------------------------------------------------
(* Graceful shutdown *)

(* SIGTERM or ctrl-C: the listener is closed, what is under way goes on. *)
Terminate(r) ==
    /\ At(r, "serving")
    /\ faults > 0 /\ faults' = faults - 1
    /\ GoTo(r, "draining")
    /\ UNCHANGED <<migrationVars, readinessVars, accessVars, memoryVars>>

Drained(r) ==
    /\ At(r, "draining")
    /\ \A q \in Requests : req[q].at # r
    /\ r = plan.home => \A p \in Probes : probe[p] = "idle"
    /\ \A w \in Writers : writer[w].pc \in {"idle", "done"}
    /\ Reset(r)
    /\ UNCHANGED faults

-----------------------------------------------------------------------------
(* Probes, which go to one of the replicas *)

ReadinessOnly == UNCHANGED <<serverVars, migrationVars, accessVars, memoryVars>>

ProbeComes(p) ==
    /\ At(plan.home, "serving") /\ p \in plan.probes
    /\ ProbeArrives(p)
    /\ ReadinessOnly

ProbeLeaves(p) ==
    /\ faults > 0 /\ faults' = faults - 1
    /\ ProbeDropped(p)
    /\ UNCHANGED <<stage, migrationVars, accessVars, memoryVars>>

ProbeRuns(p) ==
    /\ CachedReport(p) \/ SpawnChecks(p) \/ JoinChecks(p) \/ ProbeAnswered(p)
    /\ ReadinessOnly

CheckRuns(k) ==
    /\ CheckAnswers(k) \/ CheckTimesOut(k)
    /\ ReadinessOnly

(* Memory answers, and inline certificates leave no file to look at. *)
AlwaysReady ==
    {k \in Checks : \/ k = "database" /\ Memory
                    \/ k = "cert_store" /\ ~Acme /\ CertSource(config) = "inline"}

DependencyChanges(k) ==
    /\ plan.probes # {} /\ k \notin AlwaysReady
    /\ faults > 0 /\ faults' = faults - 1
    /\ ServiceChanges(k)
    /\ UNCHANGED <<stage, migrationVars, accessVars, memoryVars>>

-----------------------------------------------------------------------------
(* Requests *)

AccessOnly == UNCHANGED <<serverVars, migrationVars, readinessVars, memoryVars>>

Arrives(q) ==
    /\ q \in plan.requests
    /\ \E r \in plan.replicas, body \in plan.bodies :
        /\ At(r, "serving")
        /\ IF body \in Tokens THEN Manage(q, r, body) ELSE Register(q, r, body)
    /\ AccessOnly

DatabaseAnswers == Memory \/ service["database"] = "up"

RequestRuns(q) ==
    /\ \/ DatabaseAnswers /\ (insert_one(q) \/ find_credential(q))
       \/ Verify(q)
       \/ Answered(q)
    /\ AccessOnly

CallFails(q) == insert_one_fails(q) \/ find_credential_fails(q) \/ RunHandler(q, "internal_error")

RequestRefused(q) ==
    /\ ~Memory /\ service["database"] = "down"
    /\ CallFails(q)
    /\ AccessOnly

RequestFails(q) ==
    /\ ~Memory
    /\ faults > 0 /\ faults' = faults - 1
    /\ CallFails(q)
    /\ UNCHANGED <<stage, migrationVars, readinessVars, memoryVars>>

(* publish_status and update_status stamp the list they write. *)
WriteList(q) ==
    /\ DatabaseAnswers
    /\ RunHandler(q, "handled")
    /\ updated_at' = IF Memory THEN updated_at ELSE "written"
    /\ UNCHANGED <<serverVars, schema, recorded, engine, binlog, todo, readinessVars, memoryVars>>

-----------------------------------------------------------------------------
(* Writes to lists kept in memory *)

MemoryOnly == UNCHANGED <<migrationVars, readinessVars, accessVars>>

WriterComes(w) ==
    /\ At(plan.home, "serving") /\ Memory /\ w \in plan.writers
    /\ \E l \in MemoryLists, i \in MemoryIssuers :
        MemoryPublish(w, l, i, now) \/ MemoryUpdate(w, l, i, now)
    /\ MemoryOnly /\ UNCHANGED serverVars

WriterRuns(w) == MemoryWrites(w) /\ MemoryOnly /\ UNCHANGED serverVars

WriterLeaves(w) ==
    /\ faults > 0 /\ faults' = faults - 1
    /\ MemoryDropped(w)
    /\ MemoryOnly /\ UNCHANGED stage

(* The daily job that setup_snapshot_cleanup_scheduler starts. *)
SnapshotCleanup ==
    /\ At(plan.home, "serving") /\ Memory
    /\ MemorySweep(now)
    /\ MemoryOnly /\ UNCHANGED serverVars

-----------------------------------------------------------------------------
(* No write is under way for longer than its snapshot is kept. *)
WritesEnd ==
    \A w \in Writers : writer[w].pc \in {"lock", "snapshot", "row"} =>
        now < writer[w].work.stamp + MemoryLifetime + MemoryRetention

Tick ==
    /\ ReadinessTick
    /\ IF now < plan.clock /\ WritesEnd THEN AccessTick ELSE UNCHANGED accessVars
    /\ UNCHANGED <<serverVars, migrationVars, memoryVars>>

OperatorSteps ==
    /\ Mysql
    /\ OperatorFixes
    /\ UNCHANGED <<serverVars, readinessVars, accessVars, memoryVars>>

Next ==
    /\ \/ \E r \in Replicas : \/ Startup(r) \/ Crash(r)
                              \/ Terminate(r) \/ Drained(r)
       \/ \E p \in Probes : ProbeComes(p) \/ ProbeLeaves(p) \/ ProbeRuns(p)
       \/ \E k \in Checks : CheckRuns(k) \/ DependencyChanges(k)
       \/ \E q \in Requests : \/ Arrives(q) \/ RequestRuns(q) \/ WriteList(q)
                              \/ RequestRefused(q) \/ RequestFails(q)
       \/ \E w \in Writers : WriterComes(w) \/ WriterRuns(w) \/ WriterLeaves(w)
       \/ SnapshotCleanup
       \/ Tick
       \/ OperatorSteps
    /\ UNCHANGED plan

(* A replica that ended is started again and start-up goes on; a request   *)
(* or probe that was let in is worked on, and time passes.                 *)
Fairness ==
    /\ \A r \in Replicas : WF_vars(Startup(r) /\ UNCHANGED plan)
                           /\ WF_vars(Drained(r) /\ UNCHANGED plan)
    /\ \A p \in Probes : WF_vars(ProbeRuns(p) /\ UNCHANGED plan)
    /\ \A k \in Checks : WF_vars(CheckRuns(k) /\ UNCHANGED plan)
    /\ \A q \in Requests : WF_vars((RequestRuns(q) \/ WriteList(q) \/ RequestRefused(q)) /\ UNCHANGED plan)
    /\ \A w \in Writers : WF_vars(WriterRuns(w) /\ UNCHANGED plan)
    /\ WF_vars(Tick /\ UNCHANGED plan)

Spec == Init /\ [][Next]_vars /\ Fairness

-----------------------------------------------------------------------------
(* Properties *)

(* A replica serves only on the complete schema, with every migration      *)
(* recorded, on tables and binary logging fit for its transactions, and    *)
(* with no list left unstamped, however many replicas migrated at once and *)
(* wherever one of them ended (build_state_impl, Migrator).                *)
ServesCompleteSchema ==
    \A r \in Replicas : (stage[r] \in {"serving", "draining"} /\ ~Memory) =>
        /\ schema = Objects /\ recorded = Names
        /\ updated_at \notin {"absent", "zero"}
        /\ EnginesFit /\ BinlogFits

(* The stamp of a list written by a replica that serves is never replaced  *)
(* by the backfill of one that is still migrating (add_updated_at).        *)
StampsSurvive == [][updated_at = "written" => updated_at' = "written"]_vars

PasswordGiven(c) ==
    \/ c.files["password_file"] = "unset" /\ "password" \in c.given
    \/ c.files["password_file"] = "value"

NamedOnce(c) ==
    \/ /\ c.url = Backend(c)
       /\ c.given \cap {"host", "username", "name", "password"} = {}
       /\ c.files["password_file"] = "unset"
    \/ /\ c.url = "unset" /\ Backend(c) \in {"postgres", "mysql"}
       /\ {"host", "username", "name"} \subseteq c.given
       /\ PasswordGiven(c)

OneSource(c) ==
    \E here, there \in {FileSource, InlineSource} :
        here # there /\ here \subseteq c.given /\ c.given \cap there = {}

(* What the operator has to get right, as the errors of start-up tell it. *)
Coherent(c) ==
    /\ c.bad \cap ({"host", "query"} \cap c.given) = {}
    /\ "otlp_endpoint" \in c.bad => "telemetry" \notin c.given
    /\ c.zeros = {}
    /\ Backend(c) \in c.features
    /\ Backend(c) # "memory" => NamedOnce(c)
    /\ AcmeBuild(c) => /\ build_crypto_storage(c) /\ resolve(c) # Error
                       /\ build_dns_challenge_handler(c, resolve(c))
                       /\ "acme_directory_url" \in c.given
                       /\ "renewal_cron_schedule" \notin c.bad
    /\ ~AcmeBuild(c) => OneSource(c) /\ (InlineSource \subseteq c.given => "certificate" \notin c.bad)
    /\ c.aggregation_uri \in {"unset", "route"}

(* Lists kept in memory are those of one process.  A deployment that is    *)
(* serving to begin with is one that start-up let through.                 *)
ASSUME PlansAssumption ==
    \A p \in Plans :
        /\ p.config \in Configurations
        /\ p.replicas \subseteq Replicas
        /\ Backend(p.config) = "memory" => p.replicas \subseteq {p.home}
        /\ p.bodies \subseteq Registrations \cup Tokens
        /\ p.faults \in Nat
        /\ p.install \in [version : {"none", "first", "current"},
                          engine : {"InnoDB", "MyISAM"}, binlog : {"ROW", "STATEMENT"}]
        /\ p.start \in {"down", "serving"}
        /\ p.start = "serving" =>
             /\ Coherent(p.config)
             /\ p.install = [version |-> "current", engine |-> "InnoDB", binlog |-> "ROW"]

(* No replica serves with settings that contradict each other: a database  *)
(* named twice or by the wrong scheme, a key from one source beside a      *)
(* certificate from another (resolved_url, build_state_impl).              *)
ServesOnlyCoherent ==
    \A r \in Replicas : stage[r] = "serving" => Coherent(config)

(* Once dependencies stay up, every replica comes to serve again and       *)
(* again, whatever crashes it and the others went through, unless the      *)
(* settings are refused, the operator has to change the database, or a     *)
(* crash has left the schema wedged.                                       *)
StartsUp ==
    <>[](\A k \in Checks : service[k] = "up") =>
        \A r \in Replicas :
            []<>(\/ stage[r] = "serving" \/ r \notin plan.replicas
                 \/ ~Coherent(config)
                 \/ ~Transactional /\ Wedged(Mysql)
                 \/ ~EnginesFit \/ ~BinlogFits)

(* The pool bounds the wait for a connection, nothing the wait for an      *)
(* answer on it.                                                           *)
Stuck ==
    /\ ~DatabaseAnswers
    /\ \E q \in Requests : req[q].pc \in {"insert", "find", "handle"}

(* A replica told to stop comes to its end, also when a dependency hangs   *)
(* under a probe, unless the database leaves a request without an answer   *)
(* (HttpServer::run, Readiness::run).                                      *)
Drains ==
    \A r \in Replicas : (stage[r] = "draining") ~> (stage[r] # "draining" \/ Stuck)

=============================================================================
