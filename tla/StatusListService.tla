------------------------- MODULE StatusListService -------------------------
(***************************************************************************)
(* The write path of the status-list server: Service::publish_status_list, *)
(* Service::update_statuses and Service::cleanup_snapshots on top of the   *)
(* SQL store's transactions (begin, guarded statement, history insert,     *)
(* commit or rollback), run by any number of concurrent requests on any    *)
(* number of replicas that share one database.                             *)
(*                                                                         *)
(* Data abstraction. A request stands for the status entries it carries,   *)
(* so the content of a list is the set of requests applied to it; issuer   *)
(* and updated_at are kept, sub and the compressed bytes are not.          *)
(***************************************************************************)
EXTENDS Integers, FiniteSets

CONSTANTS
    Requests,          \* client requests (one handler run each)
    Lists,             \* list identifiers
    Issuers,           \* authenticated issuers
    TokenExps,         \* token_exp_secs values in use across replicas
    Retention,         \* snapshot_retention_secs; 0 turns snapshots off
    BatchSize,         \* BATCH_SIZE of the retention sweep
    MaxTime,           \* bound: the clock stops here
    MaxSkew,           \* bound: replica clocks differ from true time by this
    None               \* absence of a row, a lock holder, a sweep

ASSUME TokenExpsAssumption == TokenExps \subseteq Nat /\ TokenExps # {}
ASSUME RetentionAssumption == Retention \in Nat /\ MaxTime \in Nat /\ MaxSkew \in Nat
ASSUME BatchSizeAssumption == BatchSize \in Nat \ {0}

(* Service::snapshots_enabled: a snapshot repository is configured.         *)
SnapshotsEnabled == Retention > 0

Record == [issuer: Issuers, stamp: Nat, applied: SUBSET Requests]

Snapshot == [list: Lists, iat: Nat, exp: Nat, applied: SUBSET Requests]

ASSUME NoneAssumption == None \notin Record /\ None \notin Requests /\ None \notin Int

VARIABLES
    row,       \* status_lists: committed row of each list, or None
    history,   \* status_list_history: committed snapshots
    lock,      \* per list: the request whose open transaction holds the row
    pc,        \* where each request's handler stands
    req,       \* the operation, list and issuer of each request
    read,      \* the row an update read before computing its write
    work,      \* the row a request wants to write
    lifetime,  \* token_exp_secs of the replica that serves the request
    resp,      \* the outcome the client has received ("none": not yet or never)
    sweep,     \* cutoff of the retention sweep in progress, or None
    now,       \* true time
    versions,  \* history variable: every version ever committed
    horizon    \* history variable: the furthest cutoff any sweep has used

store == <<row, history, lock>>
handler == <<pc, req, read, work, lifetime, resp>>
vars == <<store, handler, sweep, now, versions, horizon>>

Operations == {"publish", "update"}

(* Outcomes that tell the client its write did not happen, and why.         *)
Rejections == {"invalid", "not_found", "forbidden", "duplicate", "conflict", "contention"}

Outcomes == Rejections \cup {"none", "ok", "internal"}

(* Handler positions in which a transaction holds the row.                  *)
Holding == {"history", "commit", "orphan"}

Positions == Holding \cup {"start", "insert", "update", "invalidate", "done"}

TypeOK ==
    /\ row \in [Lists -> Record \cup {None}]
    /\ history \subseteq Snapshot
    /\ lock \in [Lists -> Requests \cup {None}]
    /\ pc \in [Requests -> Positions]
    /\ req \in [Requests -> [op: Operations, list: Lists, issuer: Issuers]]
    /\ read \in [Requests -> Record \cup {None}]
    /\ work \in [Requests -> Record \cup {None}]
    /\ lifetime \in [Requests -> TokenExps]
    /\ resp \in [Requests -> Outcomes]
    /\ sweep \in Int \cup {None}
    /\ now \in Nat
    /\ versions \subseteq Snapshot
    /\ horizon \in Nat

Init ==
    /\ row = [l \in Lists |-> None]
    /\ history = {}
    /\ lock = [l \in Lists |-> None]
    /\ pc = [r \in Requests |-> "start"]
    /\ req \in [Requests -> [op: Operations, list: Lists, issuer: Issuers]]
    /\ read = [r \in Requests |-> None]
    /\ work = [r \in Requests |-> None]
    /\ lifetime \in [Requests -> TokenExps]
    /\ resp = [r \in Requests |-> "none"]
    /\ sweep = None
    /\ now = 0
    /\ versions = {}
    /\ horizon = 0

----------------------------------------------------------------------------
(* Helpers the handlers share.                                              *)

(* current_unix_timestamp() on a replica whose clock may be off by MaxSkew. *)
current_unix_timestamp == { t \in 0..(now + MaxSkew) : now - MaxSkew <= t }

(* Mutant: the stamp only counts versions and ignores the clock.            *)
next_updated_at_counts(previous, t) == previous + 1

next_updated_at(previous, t) == IF t > previous THEN t ELSE previous + 1

build_snapshot(r) ==
    [list |-> req[r].list,
     iat |-> work[r].stamp,
     exp |-> work[r].stamp + lifetime[r],
     applied |-> work[r].applied]

Respond(r, outcome) ==
    /\ pc' = [pc EXCEPT ![r] = "done"]
    /\ resp' = [resp EXCEPT ![r] = outcome]

----------------------------------------------------------------------------
(* Service::publish_status_list and Service::update_statuses up to the      *)
(* first statement of their transaction.                                    *)

(* Request validation, the codec or the size limit refuses the entries, or  *)
(* the read of the row fails; nothing has been written yet.                 *)
Refuse(r) ==
    /\ pc[r] = "start"
    /\ \/ Respond(r, "invalid")
       \/ req[r].op = "update" /\ Respond(r, "internal")
    /\ UNCHANGED <<store, req, read, work, lifetime, sweep, now, versions, horizon>>

PreparePublish(r) ==
    /\ pc[r] = "start"
    /\ req[r].op = "publish"
    /\ \E t \in current_unix_timestamp :
          work' = [work EXCEPT ![r] = [issuer |-> req[r].issuer,
                                       stamp |-> t,
                                       applied |-> {r}]]
    /\ pc' = [pc EXCEPT ![r] = "insert"]
    /\ UNCHANGED <<store, req, read, lifetime, resp, sweep, now, versions, horizon>>

(* Mutant: the ownership check of update_statuses is missing.               *)
PrepareUpdate_anyone(r) ==
    LET existing == row[req[r].list] IN
    /\ pc[r] = "start"
    /\ req[r].op = "update"
    /\ existing # None
    /\ read' = [read EXCEPT ![r] = existing]
    /\ \E t \in current_unix_timestamp :
          work' = [work EXCEPT ![r] =
                     [issuer |-> existing.issuer,
                      stamp |-> next_updated_at(existing.stamp, t),
                      applied |-> existing.applied \cup {r}]]
    /\ pc' = [pc EXCEPT ![r] = "update"]
    /\ UNCHANGED <<store, req, lifetime, resp, sweep, now, versions, horizon>>

(* find, ownership check, StatusList::update and the next stamp: the handler *)
(* computes its write from the row it has just read.                        *)
PrepareUpdate(r) ==
    LET existing == row[req[r].list] IN
    /\ pc[r] = "start"
    /\ req[r].op = "update"
    /\ existing # None
    /\ existing.issuer = req[r].issuer
    /\ read' = [read EXCEPT ![r] = existing]
    /\ \E t \in current_unix_timestamp :
          work' = [work EXCEPT ![r] =
                     [issuer |-> existing.issuer,
                      stamp |-> next_updated_at(existing.stamp, t),
                      applied |-> existing.applied \cup {r}]]
    /\ pc' = [pc EXCEPT ![r] = "update"]
    /\ UNCHANGED <<store, req, lifetime, resp, sweep, now, versions, horizon>>

UpdateMissingList(r) ==
    /\ pc[r] = "start"
    /\ req[r].op = "update"
    /\ row[req[r].list] = None
    /\ Respond(r, "not_found")
    /\ UNCHANGED <<store, req, read, work, lifetime, sweep, now, versions, horizon>>

UpdateForeignList(r) ==
    LET existing == row[req[r].list] IN
    /\ pc[r] = "start"
    /\ req[r].op = "update"
    /\ existing # None
    /\ existing.issuer # req[r].issuer
    /\ Respond(r, "forbidden")
    /\ UNCHANGED <<store, req, read, work, lifetime, sweep, now, versions, horizon>>

----------------------------------------------------------------------------
(* The SQL store. A statement that finds the row locked waits: its action   *)
(* is not enabled until the holder commits, rolls back or is reaped.        *)

AfterRowStatement == IF SnapshotsEnabled THEN "history" ELSE "commit"

TakeRow(r) ==
    /\ lock' = [lock EXCEPT ![req[r].list] = r]
    /\ pc' = [pc EXCEPT ![r] = AfterRowStatement]
    /\ UNCHANGED <<row, history, req, read, work, lifetime, resp, sweep, now, versions, horizon>>

(* Mutant: the insert is an upsert, so a taken list_id is overwritten.      *)
InsertRow_upsert(r) ==
    /\ pc[r] = "insert"
    /\ lock[req[r].list] = None
    /\ TakeRow(r)

(* INSERT INTO status_lists succeeds inside the transaction.                *)
InsertRow(r) ==
    /\ pc[r] = "insert"
    /\ lock[req[r].list] = None
    /\ row[req[r].list] = None
    /\ TakeRow(r)

(* The primary key is taken: rolled back, and reported as a duplicate unless *)
(* the rollback fails too.                                                  *)
InsertDuplicate(r) ==
    /\ pc[r] = "insert"
    /\ lock[req[r].list] = None
    /\ row[req[r].list] # None
    /\ Respond(r, "duplicate") \/ Respond(r, "internal")
    /\ UNCHANGED <<store, req, read, work, lifetime, sweep, now, versions, horizon>>

(* Mutant: the UPDATE is keyed on list_id alone.                            *)
GuardMatches_unguarded(r) == row[req[r].list] # None

(* Mutant: the UPDATE is guarded on the new stamp instead of the one read.  *)
GuardMatches_newStamp(r) ==
    /\ row[req[r].list] # None
    /\ row[req[r].list].stamp = work[r].stamp

GuardMatches(r) ==
    /\ row[req[r].list] # None
    /\ row[req[r].list].stamp = read[r].stamp

(* UPDATE ... WHERE list_id = ? AND updated_at = ? affects one row. The     *)
(* store refuses a stamp that does not advance before it opens the          *)
(* transaction.                                                             *)
UpdateRow(r) ==
    /\ pc[r] = "update"
    /\ work[r].stamp > read[r].stamp
    /\ lock[req[r].list] = None
    /\ GuardMatches(r)
    /\ TakeRow(r)

(* The guard misses: zero rows affected, the empty transaction ends and the *)
(* service answers Conflict. Without snapshots the empty transaction is     *)
(* committed, and that commit may fail.                                     *)
UpdateConflict(r) ==
    /\ pc[r] = "update"
    /\ work[r].stamp > read[r].stamp
    /\ lock[req[r].list] = None
    /\ ~GuardMatches(r)
    /\ \/ Respond(r, "conflict")
       \/ ~SnapshotsEnabled /\ Respond(r, "internal")
    /\ UNCHANGED <<store, req, read, work, lifetime, sweep, now, versions, horizon>>

(* The store refuses the stamp, BEGIN or the row statement fails, or the    *)
(* lock wait times out. No row is held. Only a failure the driver names as  *)
(* a lost lock race becomes "contention".                                   *)
StatementFails(r) ==
    /\ pc[r] \in {"insert", "update"}
    /\ Respond(r, "contention") \/ Respond(r, "internal")
    /\ UNCHANGED <<store, req, read, work, lifetime, sweep, now, versions, horizon>>

(* Mutant: the snapshot is inserted outside the row's transaction.          *)
InsertHistory_autocommit(r) ==
    /\ pc[r] = "history"
    /\ history' = history \cup {build_snapshot(r)}
    /\ pc' = [pc EXCEPT ![r] = "commit"]
    /\ UNCHANGED <<row, lock, req, read, work, lifetime, resp, sweep, now, versions, horizon>>

InsertHistory(r) ==
    /\ pc[r] = "history"
    /\ pc' = [pc EXCEPT ![r] = "commit"]
    /\ UNCHANGED <<store, req, read, work, lifetime, resp, sweep, now, versions, horizon>>

Release(r) == lock' = [lock EXCEPT ![req[r].list] = None]

(* The snapshot insert or the commit fails and the transaction is rolled    *)
(* back, classified only after the rollback succeeded.                      *)
RollBack(r) ==
    /\ pc[r] \in {"history", "commit"}
    /\ Release(r)
    /\ Respond(r, "contention") \/ Respond(r, "internal")
    /\ UNCHANGED <<row, history, req, read, work, lifetime, sweep, now, versions, horizon>>

(* The rollback fails as well, or COMMIT never reaches the database: the    *)
(* classification is dropped, the client gets an internal error and the     *)
(* transaction stays open on a connection nobody owns.                      *)
RollBackFails(r) ==
    /\ pc[r] \in {"history", "commit"}
    /\ pc' = [pc EXCEPT ![r] = "orphan"]
    /\ resp' = [resp EXCEPT ![r] = "internal"]
    /\ UNCHANGED <<store, req, read, work, lifetime, sweep, now, versions, horizon>>

(* COMMIT takes effect in the database: row and snapshot together.          *)
Land(r) ==
    /\ row' = [row EXCEPT ![req[r].list] = work[r]]
    /\ history' = IF SnapshotsEnabled THEN history \cup {build_snapshot(r)} ELSE history
    /\ versions' = versions \cup {build_snapshot(r)}
    /\ Release(r)

(* COMMIT is acknowledged. A publish answers; an update goes on to          *)
(* invalidate the replica's cache entry.                                    *)
Commit(r) ==
    /\ pc[r] = "commit"
    /\ Land(r)
    /\ IF req[r].op = "publish"
       THEN Respond(r, "ok")
       ELSE pc' = [pc EXCEPT ![r] = "invalidate"] /\ UNCHANGED resp
    /\ UNCHANGED <<req, read, work, lifetime, sweep, now, horizon>>

(* Mutant: a lost acknowledgement is classified as retryable contention.    *)
CommitAckLost_contention(r) ==
    /\ pc[r] = "commit"
    /\ Land(r)
    /\ Respond(r, "contention")
    /\ UNCHANGED <<req, read, work, lifetime, sweep, now, horizon>>

(* COMMIT takes effect but its acknowledgement is lost: the driver reports  *)
(* a connection error, which is not one of the contention codes.            *)
CommitAckLost(r) ==
    /\ pc[r] = "commit"
    /\ Land(r)
    /\ Respond(r, "internal")
    /\ UNCHANGED <<req, read, work, lifetime, sweep, now, horizon>>

(* invalidate_after_commit, whose failure is only logged, then Ok.          *)
Finish(r) ==
    /\ pc[r] = "invalidate"
    /\ Respond(r, "ok")
    /\ UNCHANGED <<store, req, read, work, lifetime, sweep, now, versions, horizon>>

----------------------------------------------------------------------------
(* The handler stops without answering: its replica crashes, or the client  *)
(* goes away and the server drops the future at an await.                   *)

Abandon(r) ==
    /\ pc[r] \in {"start", "insert", "update", "history", "commit", "invalidate"}
    /\ pc' = [pc EXCEPT ![r] = IF pc[r] \in Holding THEN "orphan" ELSE "done"]
    /\ UNCHANGED <<store, req, read, work, lifetime, resp, sweep, now, versions, horizon>>

(* The handler stops while COMMIT is on its way; the database still executes *)
(* it.                                                                      *)
AbandonCommitted(r) ==
    /\ pc[r] = "commit"
    /\ Land(r)
    /\ pc' = [pc EXCEPT ![r] = "done"]
    /\ UNCHANGED <<req, read, work, lifetime, resp, sweep, now, horizon>>

(* Mutant: an abandoned transaction keeps its row lock.                     *)
ReapOrphan_keepsLock(r) ==
    /\ pc[r] = "orphan"
    /\ pc' = [pc EXCEPT ![r] = "done"]
    /\ UNCHANGED <<store, req, read, work, lifetime, resp, sweep, now, versions, horizon>>

(* The database rolls back a transaction whose connection is gone.          *)
ReapOrphan(r) ==
    /\ pc[r] = "orphan"
    /\ Release(r)
    /\ pc' = [pc EXCEPT ![r] = "done"]
    /\ UNCHANGED <<row, history, req, read, work, lifetime, resp, sweep, now, versions, horizon>>

----------------------------------------------------------------------------
(* Service::cleanup_snapshots, run by the daily job: delete_older_than      *)
(* deletes in batches, in no particular order, each in its own transaction. *)

Expired(cutoff) == { s \in history : s.exp < cutoff }

StartSweep ==
    /\ SnapshotsEnabled
    /\ sweep = None
    /\ \E t \in current_unix_timestamp : sweep' = t - Retention
    /\ horizon' = IF sweep' > horizon THEN sweep' ELSE horizon
    /\ UNCHANGED <<store, handler, now, versions>>

(* A full batch: as many rows as BATCH_SIZE were deleted, so the loop runs  *)
(* again.                                                                   *)
SweepFullBatch ==
    /\ sweep # None
    /\ \E batch \in SUBSET Expired(sweep) :
          /\ Cardinality(batch) = BatchSize
          /\ history' = history \ batch
    /\ UNCHANGED <<row, lock, handler, sweep, now, versions, horizon>>

(* A short batch takes everything that is left and ends the loop.           *)
SweepLastBatch ==
    /\ sweep # None
    /\ Cardinality(Expired(sweep)) < BatchSize
    /\ history' = history \ Expired(sweep)
    /\ sweep' = None
    /\ UNCHANGED <<row, lock, handler, now, versions, horizon>>

(* A batch fails (the sweep is the likeliest deadlock victim) or the replica *)
(* stops; earlier batches stay deleted.                                     *)
SweepFails ==
    /\ sweep # None
    /\ sweep' = None
    /\ UNCHANGED <<store, handler, now, versions, horizon>>

Tick ==
    /\ now < MaxTime
    /\ now' = now + 1
    /\ UNCHANGED <<store, handler, sweep, versions, horizon>>

----------------------------------------------------------------------------

Handle(r) ==
    \/ Refuse(r) \/ PreparePublish(r) \/ PrepareUpdate(r)
    \/ UpdateMissingList(r) \/ UpdateForeignList(r)
    \/ InsertRow(r) \/ InsertDuplicate(r)
    \/ UpdateRow(r) \/ UpdateConflict(r)
    \/ StatementFails(r) \/ InsertHistory(r)
    \/ RollBack(r) \/ RollBackFails(r)
    \/ Commit(r) \/ CommitAckLost(r) \/ Finish(r)

Next ==
    \/ \E r \in Requests : Handle(r) \/ Abandon(r) \/ AbandonCommitted(r) \/ ReapOrphan(r)
    \/ StartSweep \/ SweepFullBatch \/ SweepLastBatch \/ SweepFails
    \/ Tick

Spec == Init /\ [][Next]_vars

----------------------------------------------------------------------------
(* Properties.                                                              *)

(* An acknowledged write is in the list, whatever ran concurrently: the     *)
(* guarded update never lets one writer overwrite another's flip.           *)
NoLostUpdate ==
    \A r \in Requests :
        resp[r] = "ok" => /\ row[req[r].list] # None
                          /\ r \in row[req[r].list].applied

(* A 4xx answer to a write (409 update_conflict, write_contention and       *)
(* already_exists included) means that no version ever contains it, not     *)
(* even one that a still-open transaction commits later.                    *)
RejectedLeavesNoTrace ==
    \A r \in Requests :
        resp[r] \in Rejections =>
            /\ \A v \in versions : r \notin v.applied
            /\ pc[r] = "done"

(* 409 update_conflict is only ever answered because another writer's       *)
(* update landed between this request's read and its guarded UPDATE.        *)
ConflictHasWinner ==
    \A r \in Requests :
        resp[r] = "conflict" => /\ row[req[r].list] # None
                                /\ row[req[r].list].stamp > read[r].stamp

(* Only the issuer that published a list ever gets entries into it, also    *)
(* when two issuers race to publish the same list_id.                       *)
OwnerOnly ==
    \A l \in Lists :
        row[l] # None =>
            \A r \in row[l].applied : req[r].issuer = row[l].issuer /\ req[r].list = l

(* Row and snapshot commit together or not at all: every snapshot is of a   *)
(* committed version, every committed version keeps its snapshot until the  *)
(* retention horizon has passed its exp, and the row is the newest version. *)
SnapshotPerVersion ==
    /\ history \subseteq versions
    /\ SnapshotsEnabled => \A v \in versions : v \in history \/ v.exp < horizon
    /\ \A v \in versions : /\ row[v.list] # None
                           /\ v.iat <= row[v.list].stamp
                           /\ v.applied \subseteq row[v.list].applied

(* StatusListSnapshotRepo::find_valid_at: the newest snapshot whose         *)
(* half-open validity window contains the instant t.                        *)
ValidAt(l, t) == { s \in history : s.list = l /\ s.iat <= t /\ t < s.exp }

(* Mutant: ORDER BY iat ASC.                                                *)
find_valid_at_oldest(l, t) ==
    { s \in ValidAt(l, t) : \A o \in ValidAt(l, t) : s.iat <= o.iat }

find_valid_at(l, t) ==
    { s \in ValidAt(l, t) : \A o \in ValidAt(l, t) : o.iat <= s.iat }

(* What the list held at instant t: its newest version stamped at or before *)
(* t.                                                                       *)
VersionAt(l, t) ==
    { v \in versions :
        /\ v.list = l /\ v.iat <= t
        /\ \A w \in versions : w.list = l /\ w.iat <= t => w.iat <= v.iat }

(* The instants a historical query may ask about: time > 0 and not after    *)
(* the clock of the replica that answers.                                   *)
QueryTimes == 1..(now + MaxSkew)

(* A historical answer is never a superseded version: for an instant inside *)
(* the retention window the snapshot returned is what the list held then.   *)
HistoricalAnswerIsCurrent ==
    \A l \in Lists : \A t \in QueryTimes :
        t >= horizon => find_valid_at(l, t) \subseteq VersionAt(l, t)

(* The API description's claim for updates: a 500 means the list is         *)
(* unchanged and no snapshot was recorded.                                  *)
InternalErrorMeansUnchanged ==
    \A r \in Requests :
        resp[r] = "internal" /\ req[r].op = "update" =>
            \A v \in versions : r \notin v.applied

(* No write that is under way can still add a version stamped at or before  *)
(* the past instant t.                                                      *)
Settled(l, t) ==
    /\ t < now - MaxSkew
    /\ \A r \in Requests :
          req[r].list = l /\ pc[r] \in {"insert", "update"} \cup Holding => work[r].stamp > t

Settles ==
    \A l \in Lists : \A t \in QueryTimes :
        Settled(l, t) => /\ Settled(l, t)'
                         /\ t >= horizon' => find_valid_at(l, t)' = find_valid_at(l, t)

(* An answer marked immutable stays the answer: once the clock skew and the *)
(* writes under way have passed an instant, later updates, crashes, skewed  *)
(* replicas and sweeps never change what a historical query for that        *)
(* instant returns, until retention itself reaches it.                      *)
HistorySettles == [][Settles]_vars

(* The refinement mapping: the committed rows, the committed snapshots and  *)
(* the furthest cutoff; transactions, locks and handlers are hidden.        *)
Register == INSTANCE StatusListRegister
                WITH row <- row, history <- history, horizon <- horizon

(* The service with all its concurrency and failures behaves as the atomic  *)
(* register: each list is created once, only advances, one owner's request  *)
(* at a time, and snapshots leave only behind the retention horizon.        *)
ImplementsRegister == Register!Spec

----------------------------------------------------------------------------
(* Fairness. A handler that is not abandoned keeps being polled, and the    *)
(* database reaps transactions whose connection is gone. Nothing forces a   *)
(* lock wait to time out (PostgreSQL has no such limit by default), so the  *)
(* failure alternatives are not part of what must happen.                   *)

Progress(r) ==
    \/ PreparePublish(r) \/ PrepareUpdate(r)
    \/ UpdateMissingList(r) \/ UpdateForeignList(r)
    \/ InsertRow(r) \/ InsertDuplicate(r)
    \/ UpdateRow(r) \/ UpdateConflict(r)
    \/ InsertHistory(r) \/ Commit(r) \/ Finish(r)

Fairness ==
    \A r \in Requests : WF_vars(Progress(r)) /\ WF_vars(ReapOrphan(r))

FairSpec == Spec /\ Fairness

(* No writer waits for ever: every request ends, also behind a transaction  *)
(* whose owner crashed while holding the row.                               *)
EveryRequestEnds == \A r \in Requests : <>(pc[r] = "done")

----------------------------------------------------------------------------
(* The inductive invariant behind the theorems of StatusListService_proofs. *)

(* What a request is about to write follows from what it read.              *)
WorkInv ==
    \A r \in Requests :
        /\ pc[r] = "insert" => req[r].op = "publish"
        /\ pc[r] = "update" => req[r].op = "update"
        /\ pc[r] \in {"insert", "update"} \cup Holding =>
              /\ work[r] \in Record
              /\ work[r].issuer = req[r].issuer
        /\ pc[r] \in {"insert", "update"} \cup Holding /\ req[r].op = "publish" =>
              work[r].applied = {r}
        /\ pc[r] \in {"insert", "update"} \cup Holding /\ req[r].op = "update" =>
              /\ read[r] \in Record
              /\ read[r].issuer = req[r].issuer
              /\ work[r].applied = read[r].applied \cup {r}
        /\ pc[r] \in Holding /\ req[r].op = "update" => work[r].stamp > read[r].stamp

(* The row locks are exactly the open transactions.                         *)
LockInv ==
    /\ \A r \in Requests : pc[r] \in Holding => lock[req[r].list] = r
    /\ \A l \in Lists : lock[l] # None => pc[lock[l]] \in Holding /\ req[lock[l]].list = l

(* While a transaction is open, what its guard saw is still true.           *)
HeldInv ==
    \A r \in Requests :
        pc[r] \in Holding =>
            IF req[r].op = "publish"
            THEN row[req[r].list] = None
            ELSE row[req[r].list] # None /\ row[req[r].list].stamp = read[r].stamp

(* What an update read was a committed version of its list.                 *)
ReadInv ==
    \A r \in Requests :
        read[r] # None =>
            /\ read[r] \in Record
            /\ row[req[r].list] # None
            /\ row[req[r].list].issuer = read[r].issuer
            /\ \E v \in versions : /\ v.list = req[r].list
                                   /\ v.iat = read[r].stamp
                                   /\ v.applied = read[r].applied

(* The versions of a list form a chain that ends in its row.                *)
ChainInv ==
    /\ \A l \in Lists : row[l] # None =>
          \E v \in versions : v.list = l /\ v.iat = row[l].stamp /\ v.applied = row[l].applied
    /\ \A v \in versions : /\ row[v.list] # None
                           /\ v.iat <= row[v.list].stamp
                           /\ v.applied \subseteq row[v.list].applied
    /\ \A v, w \in versions :
          v.list = w.list /\ v.iat <= w.iat => v.applied \subseteq w.applied
    /\ \A v \in versions : \E e \in TokenExps : v.exp = v.iat + e

(* A request that is part of a version has committed.                       *)
AppliedInv ==
    \A v \in versions : \A r \in v.applied :
        /\ pc[r] \in {"invalidate", "done"}
        /\ resp[r] \notin Rejections
        /\ req[r].list = v.list
        /\ req[r].issuer = row[v.list].issuer

(* What has been answered, and when an update is known to have landed.      *)
AnswerInv ==
    \A r \in Requests :
        /\ resp[r] \in Rejections \cup {"ok"} => pc[r] = "done"
        /\ resp[r] = "ok" \/ pc[r] = "invalidate" =>
              row[req[r].list] # None /\ r \in row[req[r].list].applied
        /\ resp[r] = "conflict" =>
              /\ read[r] # None
              /\ row[req[r].list] # None
              /\ row[req[r].list].stamp > read[r].stamp

(* Snapshots mirror versions up to the horizon, which bounds every sweep.   *)
HistoryInv ==
    /\ history \subseteq versions
    /\ \A s \in versions : ~SnapshotsEnabled \/ s \in history \/ s.exp < horizon
    /\ ~SnapshotsEnabled => history = {}
    /\ sweep # None => sweep <= horizon

IInv ==
    /\ LockInv /\ HeldInv /\ ReadInv /\ ChainInv
    /\ AppliedInv /\ AnswerInv /\ HistoryInv

=============================================================================
