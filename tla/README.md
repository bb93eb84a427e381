# TLA+ models of the status-list server

The repository is a Rust server for IETF OAuth Token Status Lists: issuers
register a public key, publish compressed arrays of credential statuses and flip
entries in them; relying parties fetch each list as a signed token (JWT or CWT),
for now or for a past instant. This directory holds TLA+ models of the server,
the TLC runs that check them and the TLAPS proofs about them.

Paths below are relative to the repository root.

## The system

| component | source | state it keeps | operations | hard behaviour |
|---|---|---|---|---|
| write path | `src/domain/service.rs`, `src/outbound/sql/store.rs`, `src/outbound/sql/error.rs` | `status_lists` rows, open transactions | publish, update | replicas race on one row; a transaction can fail at every statement, in its rollback and in its commit |
| historical snapshots | `src/outbound/sql/store.rs`, `src/setup.rs` (cleanup job) | `status_list_history` rows | one snapshot per version, `find_valid_at`, batched `delete_older_than` | windows overlap, the sweep is not atomic, clocks differ |
| read path and list cache | `src/domain/service.rs` (`get_status_list`), `src/outbound/cache.rs`, `src/server/handlers/status_list/get_status_list.rs` | one TTL cache per process | get, put, invalidate | read, put and invalidate are separate awaits; nothing invalidates another replica's cache |
| codec | `src/domain/models/status_list.rs` | none | create, update, decode | widening from 1 to 2, 4, 8 or more bits, cross-byte entries, length rounding |
| conditional requests and tokens | `utils/conditional.rs`, `utils/etag.rs`, `utils/token.rs` under `src/server/handlers/status_list/` | none | ETag, 304, token claims | validators ignore time, tokens expire |
| credentials and authentication | `src/server/auth/`, `src/server/handlers/issue_credential.rs` | `credentials` rows | register, authenticate | two replicas register one issuer; a registration is retried after a lost answer |
| in-memory store | `src/outbound/memory.rs` | two maps behind a lock each | the store interface | a write is dropped between its two locks |
| certificate manager | `src/utils/cert_manager.rs`, `src/utils/cert_manager/` | account, key and certificate in shared storage; per-process caches | provision, renew, `signing_material` | several replicas renew at once, crash between writes |
| ACME order and challenges | `src/utils/cert_manager.rs`, `src/utils/cert_manager/challenge/` | TXT record sets, the challenge server, clean-ups to run | account, order, publish, wait, poll, clean up | two processes edit one record set; answers get lost; every error path must clean up |
| secret backends | `src/outbound/{aws,gcp_secret,azure_kv,vault}.rs`, `src/utils/cert_manager/storage.rs` | a TTL cache per process | load, store, update, delete, reachable | the secret is created, deleted and recovered by others between two calls of one store |
| Vault client | `src/outbound/vault.rs` | token, issue time, lease, renewability, each behind a lock of its own | login, renew, re-login | the fast path reads the four apart; everybody finds the token due at once |
| filesystem certificates and file watching | `src/outbound/cert.rs`, `src/utils/file_watcher.rs` | the loaded pair, the last fingerprint | reload, debounce | partial writes, changes while a callback runs |
| database credential rotation | `src/setup.rs`, `src/outbound/sql/mod.rs` | current pool, draining pool | connect, ping, swap, drain | requests in flight on the old pool |
| migrations | `src/outbound/sql/migrations.rs` | schema, record of migrations | four migrations | replicas migrate together; on MySQL and SQLite a crash falls between two statements |
| configuration | `src/config.rs` | none after start | load, resolve, validate | settings that contradict each other |
| start-up, shutdown | `src/main.rs`, `src/setup.rs`, `src/startup.rs` | how far a replica has got | build the state, serve, drain | a refusal or a crash at any stage; requests under way at the end |
| readiness | `src/server/health.rs` | the cached report | probe | probes queue behind a lock, are dropped, and meet dependencies that hang |
| telemetry, rate limiting, wire formats | `src/utils/telemetry.rs`, `src/utils/metrics*.rs`, `src/server/rate_limit.rs`, `utils/token.rs` | none of this program's | | none a state machine would show |

Every handler runs as its own task on one of any number of replicas. Replicas
share only the database, the certificate storage and the DNS zone. A handler gives
up the processor at every `await`; it can be dropped there (the client went away,
the process stopped) and the database finishes or undoes what it had begun.

## What makes each part correct

* **Write path**: an acknowledged write is in the list and stays there; a write
  that was refused is in no version; a conflict has a winner; only the publisher
  of a list changes it; row and snapshot commit together; every request ends.
* **Snapshots**: a historical answer is what the list held at that instant,
  retention removes only what is behind its horizon, wherever a sweep stops, and
  an answer that was given as immutable stays the same.
* **Read path**: how old an answer can be is bounded, a 304 is true, and every
  replica ends up with the last version.
* **Certificate manager**: the certificate and the key that are stored and served
  belong together, a renewal never goes backwards, a due certificate is replaced.
* **Order and challenges**: whoever is told that a challenge is ready finds its
  answer; the edits of two processes do not undo each other; what was published is
  removed again; an order ends.
* **Secret backends**: what load answers is recent, an acknowledged write was
  taken, every request carries a live token, logins do not pile up.
* **Codec**: an update changes the named entries and nothing else, at any width.
* **File rotation**: after the last change of a file the process uses its content.
* **In-memory store**: it is the same atomic register as the SQL store.
* **Start-up**: nobody serves on half a schema or on contradictory settings, stamps
  survive migrations, a replica comes up again and drains.
* **Access**: one key per issuer is ever acknowledged, and it authenticates.
* **Readiness**: READY is never older than its TTL.

## Modules

| module | models | checked by | proved in |
|---|---|---|---|
| `StatusListRegister` | what the write path promises: an atomic register per list with a retained history | as a property of `races` and `server` | `StatusListService_proofs`, `Server_proofs` |
| `StatusListService` | the write path, snapshots and their retention | `MCStatusListService` | `StatusListService_proofs` |
| `StatusListReads` | the read path with its caches and validators; its writes are the atomic steps of the register | `MCStatusListReads` | `StatusListReads_proofs` |
| `CertManager` | renewal, provisioning and signing material | `MCCertManager` | `CertManager_proofs` |
| `FileRotation` | file watching, reload of certificate and key, database pools | `MCFileRotation` | `FileRotation_proofs` |
| `StatusListCodec` | create, update and decode on the packed array | `MCStatusListCodec` | `StatusListCodec_proofs` |
| `TxtRecords` | what a merging DNS provider promises: calls are atomic edits | as a property of `orders` | `AcmeOrder_proofs` |
| `AcmeOrder` | an ACME order, call by call, with HTTP-01 and six DNS providers | `MCAcmeOrder` | `AcmeOrder_proofs` |
| `DnsZones` | the choice of the zone for a name, with its reference | `MCAcmeOrder` | |
| `VaultToken` | the token manager of the Vault client | through `SecretStore` | `SecretStore_proofs` |
| `SecretStore` | the five secret backends and the cache in front of them; extends `VaultToken` | `MCSecretStore` | `SecretStore_proofs` |
| `Configuration` | which configurations start-up accepts | through `Server` | `Server_proofs` |
| `Migrations` | the statements of the migrations, by concurrent replicas | through `Server` | `Server_proofs` |
| `Readiness` | the cached report, its lock and its checks | through `Server` | `Server_proofs` |
| `Access` | registration and authentication | through `Server` | `Server_proofs` |
| `MemoryStore` | the in-memory store | through `Server` | `Server_proofs` |
| `Server` | composes the five above: start-up, serving, shutdown | `MCServer` | `Server_proofs` |

`PROJECT.json` maps every definition to the lines it stands for. Definitions
whose name has a suffix (`GuardMatches_unguarded`, `Live_forever`) are mutated
forms of the definition they precede: replacing the one by the other must make
TLC report the property named there.

### StatusListService

A request stands for the status entries it carries, so the content of a list is
the set of requests applied to it. One value of `pc` is one place where a handler
awaits: before reading (`start`), before the row statement (`insert`, `update`),
inside the transaction (`history`, `commit`), before the cache invalidation, and
`done`. `orphan` is a transaction whose handler is gone or whose rollback failed;
the database ends it (`ReapOrphan`). `Refuse`, `PreparePublish`, `PrepareUpdate`,
`UpdateMissingList` and `UpdateForeignList` are `Service::publish_status_list`
and `Service::update_statuses` up to the store call. `InsertRow`, `UpdateRow`,
`UpdateConflict`, `InsertHistory`, `RollBack`, `Commit` and their failures are
the statements of `SqlStatusListRepo`. `CommitAckLost` is a COMMIT that took
effect while its caller got an error. `StatementFails` is split between
contention (409) and other errors (500) as `contention_err` does. The sweep
deletes any `BatchSize` expired snapshots per step, since the statement has no
order, and stops when a batch was not full. One sweep runs at a time in the
model; several at once delete nothing more, because a sweep only ever removes
snapshots whose `exp` is below a cutoff that is at most `horizon`, and it may be
interrupted anywhere. `versions` and `horizon` are history variables.

Clocks: a replica reads any instant within `MaxSkew` of true time.

### StatusListReads

One list; entries of different lists meet only in capacity eviction, which may
happen at any time (`Evict`). Ages replace clocks: `Tick` makes cache entries,
running requests and acknowledgements one tick older, ages saturate, so the state
space is finite without a bound on time. A GET is four steps (`Ask`, `CacheHit`
or `CacheMiss`, `Find`, `Put`) and an answer, and any other task may run between
them. The validators of a request are chosen when they are evaluated, because
nothing looks at them before and its client's token does not change meanwhile.
`MaxLatency` bounds how many ticks a GET takes. The server sets no timeout
on its requests, so this is an assumption about the deployment (a proxy's
timeout); the bound the model proves is stated in terms of it.

### CertManager

The backend holds one certificate and one key. Each process has four copies:
`certificate_cache` (never expires), `signing_key_cache` (may expire at any time),
`cert_chain_cache` and `active_signing_material`. Renewal tasks check outside
`provisioning_lock` and provision under it; handlers take the snapshot, or build it
under the lock. `deployment`, which never changes, has the strategy (`Acme`) and whether
the backend's store keeps an existing value. A certificate is the key it certifies and
the time it is valid from. Placing an ACME order, with its account and challenges, is
the single step `Order`. Every call to the backend or the CA may fail (`CallFails`), a
write may happen and be reported as failed (`WriteAckLost`), a process may stop at any
step and lose its copies (`Crash`), and the operator of the store strategy replaces the
two halves of a pair one at a time (`RotateSource`).

### FileRotation

One watcher with one of its two users (`target`): a certificate and a key file
(`setup.rs`, `spawn_cert_rotation`; `outbound/cert.rs`), or a database password
file (`spawn_database_rotation`). Files are read one per step (`Read`), so that an
operator's change can fall between any two reads. A body is a number, `Bad` one
that does not parse or is not accepted; a pair validates when both bodies are the
same. `pc` is where start-up and then the debouncer stand: the load of
`build_state`, the first fingerprints, waiting, debouncing, fingerprinting, and
the awaited callback. The channel of 32 events is a flag: the debouncer takes all
events before it looks at the files, so one event and several are the same, and a
full channel only delays the sender. Pools are numbered; a request holds the
`Arc` of one (`Acquire`, `ReleasePool`), and a drain task closes a pool when it has
the only reference left (`Drain`).

`excused` is a history variable that names the three ways in which the code may
stay behind a valid file until its next change: the change fell between the load
and the first fingerprints (`unwatched`), it brought back the content that was
fingerprinted last (`reverted`), or its reload failed although the file is valid
(`failed`). `Follows` promises everything else.

### StatusListCodec

A list is its `bits` and its array of bytes. A `u8` and a `u32` are the sets of the
positions of their one bits, so that shifts, masks, `&` and `|` are operations on sets
and a status may use all 32 bits. `SetBits` is what both write paths do to one byte;
`apply_update` keeps the split between an entry that lies in one byte and one that
crosses bytes, as the code has it, and `StatusAt` reads an entry back byte by byte.
`written` is the reference: the last accepted status of each index. zlib and base64url
are left out; the list created without entries has no bytes, which `update` can extend
(the test `update_on_empty_created_list_works_end_to_end`). Refused requests change
nothing and are no steps.

### AcmeOrder, TxtRecords and DnsZones

`AcmeOrder` is `request_acme_certificate` call by call: the account (stored,
rejected and deleted, or created and saved), the order, one challenge per domain,
`poll_ready`, the clean-ups and `finalize`. `provider` selects the handler, and
each handler keeps its own sequence of calls: Azure and Cloud DNS read a record
set, write it back on condition that it has not changed and retry a conflict
(`CONFLICT_RETRIES`); Cloudflare adds and removes single values; Route 53 and
Pebble replace the record set as a whole; ACME-DNS keeps the last two values of an
account; HTTP-01 runs a server on one port, which a clean-up shuts down whether
its delete succeeds or not. Route 53, Azure and Cloud DNS wait for a change
to be visible. `records` is the zone, `served` what the authoritative servers
answer, which follows some time later (`Propagate`). Every call may fail
(`CallFails`), may take effect and lose its answer (`EditLost`), and a process may
stop (`Crash`). `dropped` is a history variable: the orders that ended with a
clean-up not done.

`TxtRecords` is what a provider promises the processes that share a zone: a call
takes effect at most once, at one instant, as a change of one value.
`MergesEdits` says that the three merging providers implement it, under the
refinement mapping `Txt` (the record sets, the call each process is in, whether it
has taken effect). `DnsZones` has `find_best_match` over the characters of a name,
with `ClosestZone` over its labels as the reference, for zones that begin with a
wildcard label as for others: `*.p` covers what lies below `p`, and is closer than
`p` and less close than `x.p`. Two cases, in which the code does otherwise, are
named and excepted (`SplitsLabel`, `LooksAlike`).

Two assumptions about Azure: the fixed delay that `create_txt_record` waits for is
long enough for its change to be served, and every record set it returns has an
etag. The code writes without a precondition when there is none (`azure.rs:362`,
`413`), which is the mutant `AzureEdit_blind`.

`CertManager!Order` is the same request seen as one step.

### VaultToken and SecretStore

`VaultToken` is `ensure_valid` with the read of each lock as a step. Token, issue time,
lease and renewability are written one after the other (`life` and `newLife` are what
Vault itself thinks of the old and the new token), the fast path reads two of them, and
the request is sent with the third. Time is kept as ages. A request can be dropped at
any await (`Dropped`, `DropAuth`): the readiness check runs under a time limit
(`health.rs:87`), and clients go away. The lock is released, what was written stays, and
a call under way may have taken effect. A `renew-self` that reaches Vault after its
caller is gone is taken to arrive at the moment of the drop. `torn` is a history
variable: a renewal was dropped after it wrote `issued_at` and before it wrote a lease
that is shorter than the recorded one, and no lease has been recorded since.
`SecretStore` adds the operations of the five backends, each with the calls of its
adapter: describe, create and update for AWS; add a version, create, add again for
Google; set, recover, poll and set again for Azure; delete and purge. Other clients of
the service store and delete the secret between any two calls (`ElsewhereStores`,
`ElsewhereDeletes`), Azure finishes a recovery and AWS a deletion when it likes
(`ServiceSettles`), and a call may fail before or after it took effect (`CallFails`).
`gone` is a history variable: how long ago the service last held each value.

### Configuration, Migrations, Readiness, Access, MemoryStore and Server

`Server` composes the others: a replica passes through `Stages`, where
`Configuration` says which settings are refused and `Migrations` runs statement by
statement on the database the replicas share, then serves probes (`Readiness`),
registrations and authenticated requests (`Access`) and list writes in memory
(`MemoryStore`), and drains when it is told to stop. A crash may fall between any
two steps. Each of the five modules declares its own variables and actions;
`Server` adds which of them may happen at which stage and what a crash takes with
it. `plan` is the deployment an execution is about, chosen in the initial state.

* A configuration is which settings are given, bad or zero, what the files named
  by settings contain and which features the build has. `Coherent` says what the
  operator has to get right, independently of the order in which start-up looks.
* `Migrations`: the statements of a migration are steps, its record is the last
  one; on Postgres all of them are one transaction. `Once` are the statements that
  cannot be repeated. `updated_at` is the stamp of the lists that were there
  before: absent, zero, backfilled, or written by a replica that serves.
* `Readiness`: the report with its age, the mutex, and the two checks with their
  time limit. `service` is how each dependency behaves: `up`, `down` or `hung`.
* `Access`: a registration is one insert, which may lose a lock race or fail with
  or without effect. A token is its claims; a signature verifies when the key is
  the one it was made with.
* `MemoryStore`: a write takes the lock of the rows, checks the row, waits for the
  lock of the snapshots, and writes both. Futures are dropped where they wait. The
  refinement mapping `Atomic` hides the snapshot of a write that has not reached
  its row, which no reader can see because the row lock is held. `WritesEnd`
  assumes that no write is under way for longer than the lifetime of its token
  and the retention together; otherwise a sweep could take its snapshot first.

## Runs

| run | instance | shows |
|---|---|---|
| `races` | 3 requests, 2 issuers, 1 list, clocks one second apart | no update is lost, 4xx answers leave no trace, conflicts have winners, lists keep their owner; the whole implements `StatusListRegister` |
| `history` | 3 requests, clock to 4, token lifetime 2, retention 1, batches of 1 | row and snapshot agree, historical answers inside the window are true while sweeps run and stop, and do not change once the clock and the writes under way have passed their instant |
| `snapshots_off` | 3 requests, no snapshots | over the plain insert and the guarded update every request ends, whoever holds the row |
| `retry_after_500` | 2 requests | **violation**: a 500 can hide a committed update |
| `reads` | 2 writers, 1 reader, 2 replicas, 2 contents, a list that exists or not, TTL 1, latency 1 | a 304 is true of the record it was computed from; staleness is bounded and ends |
| `one_process` | 2 renewals, 2 handlers in one process, 1 restart; ACME on a store that keeps existing values, with 3 failures and 2 ticks; an operator's pair of up to 3 keys on a store that overwrites | pairs match, renewals never go backwards and do happen; half-written pairs are repaired and the operator's pair is served |
| `rotation` | both users, both watchers, 3 bodies and a bad one, 3 changes, 1 failure, 2 requests | nothing torn is activated, the last valid content is used, pools close when and only when they are unused |
| `codec` | up to 2 entries per request; indexes 0, 1 and 8, one negative and one too large; statuses of 1, 2, 9, 17 and 32 bits and a reserved one | decoding gives the last accepted statuses; no list becomes undecodable |
| `orders` | each of 7 handlers with 2 domains in one process; each merging provider with 2 processes; 2 orders, 2 faults, 1 retry; names of up to 3 labels, pairs of zones with and without a wildcard | the CA finds what it was told about, clean-ups leave nothing, merging providers implement `TxtRecords`, the closest zone is chosen outside the two named cases, orders end |
| `secrets` | 2 requests on each of 5 backends, dropped at any await, 2 values, TTL 2, 2 polls; Vault leases of 0, 10 and 12 ticks | loads are recent, acknowledged writes were taken, live tokens are sent unless the record is torn, renewals and failed logins do not pile up |
| `dropped_renewal` | 2 requests at Vault; leases of 4 and 8 ticks, no latency | **violation**: after a renewal that was dropped half way, a request is passed with a token that has run out |
| `server` | every configuration one setting away from nine that work; 2 replicas that upgrade together, with a crash; 2 clients, 2 probes, 3 writers in memory | see *What makes each part correct*: start-up, access, readiness and the in-memory store |

Why the bounds are enough to be interesting. Three requests are one publisher and
two updaters that read the same row, or three racing publishers. A token lifetime
of 2 with ticks of 1 makes successive windows overlap; a clock that reaches 4
lets a sweep with retention 1 expire the first snapshot while a second version is
valid. Two writers change a list that was published before and change it back
between two reads of one reader, or conflict; the wall clock stands still
meanwhile, which is the worst case for stamps (the theorem is about any clocks).
A TTL of 1 and a latency of 1 let an entry be filled late, be invalidated first,
and be served late. Three failures exhaust `MAX_RETRIES`. Two ticks make a
certificate due, and due again after its renewal. Three changes of the files are
a change, a second one while the first is being read, and a third that undoes one
of them. Statuses of 9 and 17 bits cross one and two byte boundaries, index 8 is
in another byte than 0 and 1 at every width, and an update can widen a list that
was widened before; a status of 32 bits is the widest there is. The codec's state
space is finite without a bound on the number of updates.

In `orders`, two orders are one that fails and one after it, or one of each of two
processes; two faults are a lost answer and the failure of its retry, or of the
clean-up; one retry is one conflict that is repaired and one that is not. Two domains
fill the two places of an ACME-DNS account. The labels `a` and `ba` make one name end
like another inside a label, and `a` is as long as the wildcard. In `secrets` a lease of
10 ticks is the shortest for which the margin of a fifth covers the two latencies the
assumption `MarginAssumption` names, and 12 is longer by enough for the fast path to
outlive a lease of 10; ages saturate, so time needs no bound. Two polls stand for the
ten of `RECOVERY_ATTEMPTS`. The questions about the secret are asked with a token that
does not expire, those about the token with readiness checks, which touch no secret, and
nobody else at the service. In `server` two replicas meet in every pair of migration
statements, and one crash leaves every prefix of them; `LastTime` is 6 so that a token
can be early, valid and late within the leeway.

Symmetry is used in `races`, `history` and `secrets` only, which check no liveness.
Deadlock is checked everywhere but in `snapshots_off`, where the clock stops and
every handler ends, `rotation`, where the operator's changes end and a watcher with
nothing to report waits, and `orders`, where orders and faults are used up.

The invariants `TypeOK` of the service, the reads, the certificate manager, the
orders, the codec, file rotation, the secret stores and the server are theorems, and
no run repeats them.

### Fairness

* `StatusListService!Fairness`: a handler that was not dropped is polled again
  (tokio), and the database ends transactions whose connection is gone. Failures
  are never forced, since a lock wait has no limit by default.
* `StatusListReads!Fairness`: writers and GETs go on and time passes.
* `CertManager!FairSpec`: tasks go on, the scheduler starts a check again and
  again (start-up call and cron loop), time passes. Calls fail finitely often
  (`MaxFaults`), as otherwise no renewal can be promised.
* `FileRotation!Fairness`: the watcher thread, the debouncer and its callback, and
  the drain tasks keep running, and every request ends. The operator is not fair.
* `AcmeOrder!Fairness`: the task of an order is polled again, the CA looks at the
  challenges it was told about, and a zone's servers catch up with it. No new
  order and no failure is forced.
* `Server!Fairness`: a replica that ended is started again (the Helm chart runs it
  as a Kubernetes Deployment), what it has let in is polled, time passes. Crashes,
  probes, requests and the repair of a dependency are not forced: `StartsUp` asks
  that dependencies stay up from some time on.
* `SecretStore` states safety only and has no fairness.

## What the violations show

* `retry_after_500`: `docs/openapi.yaml` promises for an update that a 500 means that
  the list is unchanged. `store.rs:444` maps every commit error that is not
  contention to 500, also when the COMMIT took effect.
* `dropped_renewal`: `ensure_valid` is to "Ensure the current token is still valid"
  (`vault.rs:646`). The four fields are written across four awaits
  (`vault.rs:756-759`, `787-790`). A task that is dropped after `issued_at` leaves the
  new issue time beside the lease of the token before; when Vault granted less this
  time, as it does on the way to a token's `max_ttl`, the fast path goes on past the
  end of the token. The write of `lease_duration` gives up the processor only when a
  reader has its lock, so the window is small. The record is right again once
  another lease is recorded, for which the fast path must first find it due.

## Limits of the code that the models show

Some of these appear after changing one line of a configuration, others are
conditions that a property has to name. They have no run of their own.

Reads and history:

* `docs/openapi.yaml` tells a client that got 409 to re-read the list. The losing
  update does not touch the cache (`service.rs:195`), nor does the winner touch
  those of other replicas, so the re-read can return what the update was based on,
  for as long as `BoundedStaleness` allows.
* A 304 is about content alone (`get_status_list.rs:98`): a client that is told so
  goes on with a token that has its own `exp`.
* `history` with `TokenExps = {1, 3}`: a snapshot written with a longer token
  lifetime outlives its successor and answers for instants at which it was
  superseded, so `HistoricalAnswerIsCurrent` fails.
* A historical answer for the current second, for one within the clock skew or for
  one before the stamp of a write under way may still change, although
  `get_status_list.rs:169` marks it immutable. `HistorySettles` begins after that.

Codec:

* `docs/compliance_matrix.md` and `docs/openapi.yaml` know lists of 1, 2, 4 and 8
  bits. A status of 256 or more, which requests may carry, gives 9 and more bits
  (`status_list.rs:200`); `BitFlag`, which the matrix names, is not used.

Certificates and secrets:

* `docs/secrets-backends.md` describes the stored certificate as the one of the
  stored key. Two processes that start on an empty backend each generate a key
  (`cert_manager.rs:414`) and can leave one's key with the other's certificate;
  `StoredPairMatches` is checked and proved for one process or a preset key.
* `one_process` with `maxFaults = 1` for the store strategy: when the acknowledgement of the last
  write is lost, later provisionings find the backend unchanged
  (`strategy.rs:172`) and return without replacing the signing material, so
  `StoreConverges` fails.
* A process that answers its first request before any certificate exists caches
  signing material without one (`cert_manager.rs:493`). Only its own next
  provisioning replaces it; when another process provisions, the check finds a
  valid certificate and leaves it. `RenewalHappens` therefore speaks of
  certificates that are served, not of processes that have none.
* `docs/secrets-backends.md` says that `SIGNING_KEY_CACHE_TTL=0` makes every
  private-key read query the backend. `AskSigningMaterial` answers from the active
  signing material, which holds the key and does not expire
  (`cert_manager.rs:482`).
* `poll_ready` fails, or a later authorization does, and the clean-ups collected so
  far are dropped (`cert_manager.rs:373`): their values stay in the zone.
  `NoResidue` says that nothing else leaves one.
* Route 53 and Pebble replace a record set as a whole (`route53.rs:210`): a second
  process that orders for the same name takes the first one's value away. They are
  checked with one process.
* `find_best_match` is to find the matching zone for the domain (`mod.rs:123`). For a
  wildcard zone it compares the ends of the texts without the dot (`mod.rs:134`), so
  that `a.ba` is taken to lie below `*.a` (`SplitsLabel`). And a wildcard zone `*.p`
  and a zone `x.p` of one letter have names of one length, so the one listed first is
  chosen (`mod.rs:155`), also for names in `x.p` (`LooksAlike`). `ClosestZoneWins`
  excepts exactly these two cases; without either exception it fails.
* The list of zones is read once in the life of a process (`gcloud.rs:154`).
* `AwsSecretsManager::store` acknowledges without writing when it finds a secret
  (`aws.rs:56`), also one that is scheduled for deletion; `AckMeansTaken` leaves
  it out.
* During the cooldown after a failed login Vault requests are refused although
  their token has a fifth of its lease left (`vault.rs:681`).

File rotation:

* A reload that fails for a passing reason is not repeated
  (`file_watcher.rs:202`): without the excuse `failed`, `Follows` does not hold.
  The same is true of `unwatched` and `reverted`.

Start-up and shutdown:

* On MySQL and SQLite a crash between a statement that cannot be repeated and the
  record of its migration (`migrations.rs:382`) makes every later start fail on
  that statement. `StartsUp` names these states (`Wedged`).
* A refusal that concerns DNS, the rate limiter, the aggregation URI or the listen
  address comes after the migrations have run.
* An empty `APP_DATABASE__PASSWORD_FILE` makes the start fail, although
  `has_split_connection_fields` treats it as not set.
* Shutdown waits for the requests under way, and nothing bounds how long the
  database may take to answer one (`startup.rs:109`). `Drains` names these states
  (`Stuck`).
* The key of an issuer cannot be replaced once it is registered.

## Proofs

Each theorem holds for every value of the constants that satisfies the named
assumptions; no bound of a run is used.

**Write path** (`StatusListService_proofs`). `TypeCorrect`, `NoLostUpdateHolds`,
`RejectedLeavesNoTraceHolds`, `ConflictHasWinnerHolds`, `OwnerOnlyHolds`,
`SnapshotPerVersionHolds`, `HistoricalAnswerHolds` (one token lifetime),
`HistorySettlesHolds` and `ServiceImplementsRegister`. None of the invariants is
inductive alone. `LockInv` says that row locks are open transactions, and `HeldInv`
that what the guard saw holds for as long as the lock does. From these a commit
extends the version it read: `ReadInv` and `ChainInv` make the versions of a list a
chain that ends in its row. `AppliedInv` and `AnswerInv` tie answers to versions,
and `HistoryInv` ties snapshots to versions up to the horizon.

`HistorySettlesHolds` rests on three lemmas. A stamp is never older than the clock
less the skew when it is chosen (`StampIsRecent`), so an instant that has settled
stays settled (`SettledStays`): whatever is chosen later lies after it. A snapshot
that is added after that does not cover it, and a sweep removes only what ended
before its cutoff, which is at most the horizon, so the set of snapshots that cover
the instant stays the same (`ValidAtStays`), and the answer with it.

**Read path** (`StatusListReads_proofs`). `TypeCorrect`,
`NotModifiedIsTrueHolds`, `BoundedStalenessHolds`. `StampInv` (later versions
have later stamps, whatever the clocks read) gives the 304 its meaning.
`StaleInv` bounds the age of what a cached entry misses by the entry's age, and
of what a running GET misses by its latency.

**Certificate manager** (`CertManager_proofs`). `TypeCorrect`;
`ServedPairMatchesHolds` and `StoredPairMatchesHolds` for ACME with a preset key
or a single process. `PairInv` says that every copy of the key is the backend's and
every copy of a certificate certifies it, but for the key a task is about to store;
`LockInv` makes that task unique in its process.
`NoDowngradeHolds` is for one process (`SoleProcess`) and both strategies. The
check that finds a certificate due is made outside the lock, so what it found says
nothing about what is stored later. `AgeInv` says instead that what a task is about
to write is at least as new as what is stored, and nothing is newer than what the CA
or the operator would hand out now. It holds because the order, or the read of the
operator's pair, and the write fall under one hold of `provisioning_lock`
(`LockInv`); `StrategyInv` ties the steps to the strategy.

**Codec** (`StatusListCodec_proofs`). `TypeCorrect`, `StatusesAreRightHolds` and
`NeverCorruptHolds`, for any indexes, statuses, limit on the index and size of
requests. `CodecInv` describes the array bit by bit (`Holds`): bit `p` of the array is
bit `p % width` of the last status accepted for index `p \div width`, and zero where
none was, the bits after the last whole entry included; less than eight bits are
left over (`SizeFits`: the size that `calculate_array_size` computes has no spare
byte), and every index that was written has its entry in the array. That is
stronger than either property, which look at whole entries. It is needed because an update that widens
the list decodes every entry, the padding too, and writes it again: an entry nobody
wrote has to come out as zero. The argument has one lemma per helper: `UpdateBits`
(`apply_update` changes the bits of its entry and no other, in both of its write
paths), `UpdatesBits` (the loop leaves each index the last status named for it),
`StatusAtBits` (what is read back), `ResizedHolds` and `RebuiltHolds` (growing and
widening), and `WidthHolds` (no accepted status is wider than `determine_bits` says).
The loop is a recursive function and is followed by the least counterexample, as in
`Least`.

**ACME order** (`AcmeOrder_proofs`), for any processes, domains, orders, faults and
retries, and every deployment unless a hypothesis is named:

* `TypeCorrect`, from `OrderInv`: `ShapeInv` says what a request has in hand at each
  step and that two requests never have the same order number, `SeenInv` that the
  etag of a record set tells whether it is still what was read.
* `NoResidueHolds`. `ResidueInv` gives every value in the zone a request that is
  still going to remove it (`Owed`), or an order that was given up. A delete that
  returns has removed its value, which for Azure and Cloud DNS needs `SeenInv`: the
  record set that was edited is the one that was read.
* `MergesEditsHolds`: Cloudflare, Azure and Cloud DNS implement `TxtRecords`. The
  call of a process begins where its request starts `find_zone`, takes effect with
  the write that is accepted, or when the read finds nothing to change, and returns
  with it or after the wait for propagation. A lost answer or a restart is a call
  that failed and may have taken effect.
* `ReadyIsAnsweredHolds`, for the deployments `Supported` describes: an order has one
  authorization per domain, and only a provider that merges is shared by several
  processes. Without the second half the property is false: Route 53's Upsert takes away
  what another process wrote. `orders` evaluates `Supported` for the
  deployments it enumerates. `AskInv` says how far a request is with its challenges;
  `FreshInv` that Cloud DNS has no value of an order before it is created, so that
  the early return of its read (nothing to change) is never that of a create;
  `PresentInv` that a value which is presented is in the zone and served, and that a
  value whose change is awaited is in the zone. A write of another process removes
  only values of its own order (`PresentOther`). A write of the same request goes to
  another record set, but for ACME-DNS: there the value presented before is the
  later of the two in the window for as long as the account has another domain to
  come (`InZone`), the new value pushes out the one before it (`Window`), and
  `check_order_domains` leaves no third (`TwoPerAccount`, by cardinality).

What `Without` leaves of a sequence is a recursive function; `WithoutRange` is
proved by the least counterexample (`Least`, from the library's `WFMin` over the
naturals), since the provers cannot use the induction rules of the library.

**Secret stores and Vault** (`SecretStore_proofs`): `TypeCorrect`, `TokenIsLive`,
`OneRenewalPerLease`, `LoadsAreRecent` and `AcksAreTaken`, all with requests that are
dropped at any await. `VaultInv` says that a record which looks safe differs from the
token by at most the latency of the answer that brought it, unless it is torn
(`RecordIsTrue`), that only the holder of the renewal lock changes them and how far it
got (`OneHolder`, `GrantIsFresh`), and that a token found valid outlives the rest of the
latency of the request it is put into (`DecisionHolds`). A renewal that is dropped
before `issued_at` leaves a record that may be wrong but is still due (`RenewalIsDue`),
so nobody trusts it; one that is dropped after it leaves a lease that covers no more
than the new one (`LongerCovers`) or a torn record, which `TokenIsLive` excepts and
`dropped_renewal` shows. The last step is arithmetic on `MarginAssumption`: a lease is
at least ten latencies, or never ends. `RenewalIsDue` also gives `OneRenewalPerLease`.
`StoreInv` bounds the age of a cached value by its entry, and that of a fetched value by
the call that fetched it; an acknowledged store has its own value at the service from a
call that is at most a latency old.

**Server** (`Server_proofs`): `TypeCorrect` and one theorem for each part.

* `ReadyReportsAreFresh`: `ReadinessInv` bounds the silence of each dependency by
  the age of the check under way and of the cached report.
* `AcknowledgedKeysStand`: `AccessInv`, whose part `Justified` says what each request
  has found: a key that was looked up or stored is still the one of its issuer, and
  a request in its handler was verified with it.
* `ServingIsCoherent`: `StartInv`, by stage: what start-up has checked so far, over
  all configurations of `Configurations`.
* `ServingHasSchema` and `StampsAreKept`: `SchemaInv`. Whatever a statement or a
  record still to run needs was done by somebody or comes before it (`Sound`), so a
  migration is recorded only when all it does is there; a replica past its
  migrations has all of them recorded (`Prepared`). Of the replicas that run
  `add_updated_at` outside a transaction only one gets past adding the column
  (`OneHolds`), and lists are written only when everything is recorded
  (`WrittenIsComplete`), so no backfill is left to come then. `Attended` keeps
  requests to replicas that serve.
* `MemoryIsRegister`: the refinement `Atomic` of `StatusListRegister`. `MemoryInv`
  says that one writer at most is past the check of the row, that until it ends the
  row is what it checked, that its stamp is newer than that row, and that the
  snapshot of a write which reaches its row is there. `WritesEnd` is a guard of the
  clock in the model and carries the last part.

Deployments are restricted by `PlansAssumption` alone: lists in memory belong to one
process, and a deployment that is taken to be serving already has settings that
start-up accepts and a current schema.

**File rotation** (`FileRotation_proofs`). `TypeCorrect`, `ActiveMatchesHolds`,
`NoUseAfterCloseHolds`. The last one needs `PoolInv`: the active pool is open, so
that whoever takes it takes an open one, and nobody holds a pool before start-up
has made one.

The inductive invariants were model-checked first.

Only model-checked:

* the liveness properties (`EveryRequestEnds`, `Convergence`, `RenewalHappens`,
  `StoreConverges`, `Follows`, `OldPoolsClose`, `RequestEnds`, `StartsUp`,
  `Drains`), which are out of the prover's reach;
* `ClosestZoneWins`, which compares two algorithms over names and pairs of zones of
  up to three labels: what they compute for every input needs induction over names
  and lists.

## Not modelled

* The encodings of tokens (JWT, CWT, COSE) and lists (zlib, base64url): formats
  without state.
* Telemetry and metrics, which are written and never read; only the settings that
  make their set-up fail are part of `Configuration`.
* The rate limiter, CORS and trace layers: their state belongs to libraries.
* The `down` direction of the migrations, which the program never runs, and
  `MemoryStatusListCache`, which it does not use.
* The services themselves (databases, clouds, CA, DNS): external, with the
  behaviour the code relies on and the failures it handles.

## Plan

That the writers of `StatusListReads` implement the register, and that an order of
`AcmeOrder` implements the step `Order` of `CertManager`.
