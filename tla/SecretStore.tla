---------------------------- MODULE SecretStore ----------------------------
(***************************************************************************)
(* The secret backends behind the Storage trait: AWS Secrets Manager, GCP  *)
(* Secret Manager, Azure Key Vault, Vault and the in-memory map, each with *)
(* the call sequence of its adapter and, except in memory, a TTL cache in  *)
(* front of load.  One secret is followed; keys do not interact.  Requests *)
(* of one process run concurrently, other processes store and delete the   *)
(* secret at the service.                                                  *)
(*                                                                         *)
(* A call at the service may fail, before or after it took effect, and a   *)
(* request may be dropped at every await.                                  *)
(***************************************************************************)
EXTENDS VaultToken

CONSTANTS
    Plans,       \* a backend each, the operations tried with it, the leases of the
                 \* token to begin with and the values other processes store
    Values,
    SecretsTTL,  \* secrets_cache_ttl in ticks; 0 builds no cache
    RECOVERY_ATTEMPTS,
    NoValue

ASSUME StoreAssumption ==
    /\ SecretsTTL \in Nat
    /\ RECOVERY_ATTEMPTS \in Nat \ {0}
    /\ NoValue \notin Values

VARIABLES
    plan,
    remote,      \* the secret at the service: a state and the value it holds
    cache,       \* the cached value and the ticks it has left
    gone,        \* for each value, ticks since the service last held it
    task

storeVars == <<plan, remote, cache, gone, task>>
vars == <<vaultVars, storeVars>>

Kinds == {"aws", "gcp", "azure", "vault", "memory"}
kind == plan.kind

Operations == {"load", "store", "update", "delete", "reachable"}

ASSUME PlansAssumption ==
    Plans \subseteq [kind : Kinds, ops : SUBSET Operations, leases : SUBSET Leases,
                     others : SUBSET Values]

(* No staleness is counted further than this. *)
GoneCap == SecretsTTL + MaxLatency + 1

(* empty: a GCP container without a version; deleted, recovering: the soft *)
(* delete of Azure; scheduled: a deleted AWS secret in its recovery window.*)
RemoteStates == {"absent", "held", "empty", "deleted", "recovering", "scheduled"}

Steps == {"idle", "auth", "call", "create", "add", "recover", "poll", "purge",
          "cache", "done"}

IdleTask == [pc |-> "idle", op |-> "load", val |-> NoValue, tries |-> 0, delay |-> 0,
             effect |-> "keep", answer |-> "ok"]

TypeOK ==
    /\ VaultTypeOK
    /\ plan \in Plans
    /\ remote \in [st : RemoteStates, val : Values \cup {NoValue}]
    /\ cache \in [val : Values \cup {NoValue}, left : 0..SecretsTTL]
    /\ cache.left > 0 => cache.val # NoValue
    /\ gone \in [Values -> 0..GoneCap]
    /\ task \in [Tasks -> [pc : Steps, op : Operations,
                           val : Values \cup {NoValue}, tries : 0..RECOVERY_ATTEMPTS,
                           delay : 0..MaxLatency, effect : {"keep", "insert", "invalidate"},
                           answer : {"ok", "none", "err"}]]

Absent == [st |-> "absent", val |-> NoValue]
Held(v) == [st |-> "held", val |-> v]
Uncached == [val |-> NoValue, left |-> 0]

Init ==
    /\ VaultInit
    /\ plan \in Plans
    /\ lease_duration \in plan.leases
    /\ kind # "vault" => renewable = 1
    /\ remote \in {Absent} \cup {Held(v) : v \in plan.others}
    /\ cache = Uncached
    /\ gone = [v \in Values |-> IF remote.val = v THEN 0 ELSE GoneCap]
    /\ task = [t \in Tasks |-> IdleTask]

(* The service changes; a value it holds is current again. *)
SetRemote(r) ==
    /\ remote' = r
    /\ gone' = IF r.st = "held" THEN [gone EXCEPT ![r.val] = 0] ELSE gone

(* What a deletion leaves of a secret that was there. *)
DeletedRemote ==
    IF kind = "azure" THEN [remote EXCEPT !.st = "deleted"]
    ELSE IF kind = "aws" THEN [remote EXCEPT !.st = "scheduled"]
    ELSE Absent

SameService == UNCHANGED <<remote, gone>>

To(t, step) == task' = [task EXCEPT ![t].pc = step]

(* The answer is known; the cache follows in a step of its own. *)
Settle(t, answer, effect) ==
    task' = [task EXCEPT ![t].pc = "cache", ![t].delay = 0, ![t].answer = answer,
                         ![t].effect = effect]

Fail(t) == Settle(t, "err", "keep")

Stored(t) == Settle(t, "ok", "insert")

-----------------------------------------------------------------------------
(* A request begins *)

(* Vault authenticates first, the other SDKs hold their own credentials. *)
FirstStep == IF kind = "vault" THEN "auth" ELSE "call"

Begin(t) ==
    /\ task[t].pc = "idle"
    /\ \E op \in plan.ops \ {"load"}, v \in Values :
        task' = [task EXCEPT ![t].pc = FirstStep, ![t].op = op,
                             ![t].val = IF op \in {"store", "update"} THEN v ELSE NoValue]
    /\ UNCHANGED <<plan, cache, vaultVars>> /\ SameService

(* time_to_idle instead of time_to_live *)
LoadHit_idle(t) ==
    /\ task[t].pc = "idle" /\ "load" \in plan.ops
    /\ cache.left > 0
    /\ task' = [task EXCEPT ![t].pc = "done", ![t].op = "load", ![t].val = cache.val]
    /\ cache' = [cache EXCEPT !.left = SecretsTTL]
    /\ UNCHANGED <<plan, vaultVars>> /\ SameService

LoadHit(t) ==
    /\ task[t].pc = "idle" /\ "load" \in plan.ops
    /\ cache.left > 0
    /\ task' = [task EXCEPT ![t].pc = "done", ![t].op = "load", ![t].val = cache.val]
    /\ UNCHANGED <<plan, cache, vaultVars>> /\ SameService

LoadMiss(t) ==
    /\ task[t].pc = "idle" /\ "load" \in plan.ops
    /\ cache.left = 0
    /\ task' = [task EXCEPT ![t].pc = FirstStep, ![t].op = "load"]
    /\ UNCHANGED <<plan, cache, vaultVars>> /\ SameService

(* add_auth_headers: TokenManager decides, the token is taken, the call is sent. *)
Authenticate(t) ==
    /\ task[t].pc = "auth"
    /\ \/ ReadIssuedAt(t) /\ UNCHANGED task
       \/ VaultStep(t) /\ UNCHANGED task
       \/ /\ At(t, "failed")
          /\ auth' = [auth EXCEPT ![t] = NoAuth]
          /\ Fail(t)
          /\ UNCHANGED <<life, newLife, age, lease_duration, renewable, renewal_lock,
                         sinceFailure, torn>>
       \/ /\ At(t, "sent")
          /\ auth' = [auth EXCEPT ![t] = NoAuth]
          /\ To(t, "call")
          /\ UNCHANGED <<life, newLife, age, lease_duration, renewable, renewal_lock,
                         sinceFailure, torn>>
    /\ UNCHANGED <<plan, cache>> /\ SameService

-----------------------------------------------------------------------------
(* The calls, one action per operation and adapter *)

Calling(t, k, ops) == task[t].pc = "call" /\ kind \in k /\ task[t].op \in ops

AtStep(t, step) == task[t].pc = step

Frame == UNCHANGED <<plan, cache, vaultVars>>

(* load: a value, which the cache takes, or nothing. *)
Found(t, effect) ==
    /\ remote.st = "held"
    /\ task' = [task EXCEPT ![t].pc = "cache", ![t].delay = 0, ![t].val = remote.val,
                            ![t].effect = effect]

NotFound(t) == Settle(t, "none", "keep")

(* Only ResourceNotFound means "not there": GetSecretValue refuses a secret *)
(* that is scheduled for deletion in another way.                           *)
AwsLoad(t) ==
    /\ Calling(t, {"aws"}, {"load"})
    /\ \/ Found(t, "insert")
       \/ remote.st = "absent" /\ NotFound(t)
       \/ remote.st = "scheduled" /\ Fail(t)
    /\ SameService /\ Frame

(* A container without a version has no "latest" one. *)
GcpLoad(t) ==
    /\ Calling(t, {"gcp"}, {"load"})
    /\ \/ Found(t, "insert")
       \/ remote.st \in {"absent", "empty"} /\ NotFound(t)
    /\ SameService /\ Frame

AzureLoad(t) ==
    /\ Calling(t, {"azure"}, {"load"})
    /\ \/ Found(t, "insert")
       \/ remote.st \in {"absent", "deleted", "recovering"} /\ NotFound(t)
    /\ SameService /\ Frame

VaultLoad(t) ==
    /\ Calling(t, {"vault"}, {"load"})
    /\ Found(t, "insert") \/ (remote.st = "absent" /\ NotFound(t))
    /\ SameService /\ Frame

MemoryLoad(t) ==
    /\ Calling(t, {"memory"}, {"load"})
    /\ Found(t, "keep") \/ (remote.st = "absent" /\ NotFound(t))
    /\ SameService /\ Frame

(* No adapter touches a secret to see whether its service answers: each one *)
(* asks for a name that should not exist (Vault: for the configuration of   *)
(* the mount), and an answer is enough.                                     *)
Answers(t) == Settle(t, "ok", "keep") /\ SameService /\ Frame

AwsReachable(t) == Calling(t, {"aws"}, {"reachable"}) /\ Answers(t)

GcpReachable(t) == Calling(t, {"gcp"}, {"reachable"}) /\ Answers(t)

AzureReachable(t) == Calling(t, {"azure"}, {"reachable"}) /\ Answers(t)

VaultReachable(t) == Calling(t, {"vault"}, {"reachable"}) /\ Answers(t)

MemoryReachable(t) == Calling(t, {"memory"}, {"reachable"}) /\ Answers(t)

VaultStore(t) ==
    /\ Calling(t, {"vault"}, {"store", "update"})
    /\ SetRemote(Held(task[t].val))
    /\ Stored(t)
    /\ Frame

MemoryStore(t) ==
    /\ Calling(t, {"memory"}, {"store", "update"})
    /\ SetRemote(Held(task[t].val))
    /\ Settle(t, "ok", "keep")
    /\ Frame

(* AwsSecretsManager::store creates what DescribeSecret does not find, and *)
(* DescribeSecret finds a secret that is scheduled for deletion.           *)
AwsDescribe(t) ==
    /\ Calling(t, {"aws"}, {"store"})
    /\ IF remote.st = "absent" THEN To(t, "create") ELSE Settle(t, "ok", "keep")
    /\ SameService /\ Frame

AwsCreate(t) ==
    /\ AtStep(t, "create") /\ kind = "aws"
    /\ IF remote.st = "absent"
       THEN SetRemote(Held(task[t].val)) /\ Settle(t, "ok", "keep")
       ELSE SameService /\ Fail(t)
    /\ Frame

AwsUpdate(t) ==
    /\ Calling(t, {"aws"}, {"update"})
    /\ IF remote.st = "held"
       THEN SetRemote(Held(task[t].val)) /\ Stored(t)
       ELSE SameService /\ Fail(t)
    /\ Frame

AwsDelete(t) ==
    /\ Calling(t, {"aws"}, {"delete"})
    /\ IF remote.st = "held"
       THEN SetRemote(DeletedRemote) /\ Settle(t, "ok", "invalidate")
       ELSE SameService /\ Fail(t)
    /\ Frame

(* GCP: add a version, and create the container first if there is none. *)
GcpAddVersion(t) ==
    /\ Calling(t, {"gcp"}, {"store", "update"})
    /\ IF remote.st = "absent"
       THEN SameService /\ To(t, "create")
       ELSE SetRemote(Held(task[t].val)) /\ Stored(t)
    /\ Frame

GcpCreate_existsIsDone(t) ==
    /\ AtStep(t, "create") /\ kind = "gcp"
    /\ IF remote.st = "absent"
       THEN SetRemote([st |-> "empty", val |-> NoValue]) /\ To(t, "add")
       ELSE SameService /\ Stored(t)
    /\ Frame

(* AlreadyExists: somebody else created it meanwhile. *)
GcpCreate(t) ==
    /\ AtStep(t, "create") /\ kind = "gcp"
    /\ IF remote.st = "absent"
       THEN SetRemote([st |-> "empty", val |-> NoValue])
       ELSE SameService
    /\ To(t, "add")
    /\ Frame

GcpAddAgain(t) ==
    /\ AtStep(t, "add")
    /\ IF remote.st = "absent"
       THEN SameService /\ Fail(t)
       ELSE SetRemote(Held(task[t].val)) /\ Stored(t)
    /\ Frame

(* The container with its versions, or nothing: both are fine. *)
GcpDelete(t) ==
    /\ Calling(t, {"gcp"}, {"delete"})
    /\ SetRemote(Absent)
    /\ Settle(t, "ok", "invalidate")
    /\ Frame

(* The metadata, hence every version. *)
VaultDelete(t) ==
    /\ Calling(t, {"vault"}, {"delete"})
    /\ SetRemote(Absent)
    /\ Settle(t, "ok", "invalidate")
    /\ Frame

MemoryDelete(t) ==
    /\ Calling(t, {"memory"}, {"delete"})
    /\ SetRemote(Absent)
    /\ Settle(t, "ok", "keep")
    /\ Frame

(* Azure: a soft-deleted secret is recovered before it can be set. *)
AzureSet(t) ==
    /\ Calling(t, {"azure"}, {"store", "update"})
    /\ IF remote.st \in {"deleted", "recovering"}
       THEN SameService /\ To(t, "recover")
       ELSE SetRemote(Held(task[t].val)) /\ Stored(t)
    /\ Frame

AzureRecover(t) ==
    /\ AtStep(t, "recover")
    /\ IF remote.st = "deleted"
       THEN SetRemote([remote EXCEPT !.st = "recovering"]) /\ To(t, "poll")
       ELSE SameService /\ Fail(t)
    /\ Frame

(* Ten attempts with growing pauses; a conflict is tried again. *)
AzurePoll(t) ==
    /\ AtStep(t, "poll")
    /\ IF remote.st \in {"deleted", "recovering"}
       THEN /\ SameService
            /\ IF task[t].tries + 1 = RECOVERY_ATTEMPTS
               THEN Fail(t)
               ELSE task' = [task EXCEPT ![t].tries = @ + 1]
       ELSE SetRemote(Held(task[t].val)) /\ Stored(t)
    /\ Frame

AzureDelete(t) ==
    /\ Calling(t, {"azure"}, {"delete"})
    /\ \/ /\ remote.st = "held"
          /\ SetRemote(DeletedRemote)
          /\ cache' = Uncached
          /\ task' = [task EXCEPT ![t].pc = "purge"]
       \/ /\ remote.st \in {"absent", "deleted"}
          /\ SameService /\ Settle(t, "ok", "invalidate") /\ UNCHANGED cache
       \/ /\ remote.st = "recovering"
          /\ SameService /\ Fail(t) /\ UNCHANGED cache
    /\ UNCHANGED <<plan, vaultVars>>

(* Whether the vault allows it or not, delete has succeeded. *)
AzurePurge(t) ==
    /\ AtStep(t, "purge")
    /\ \/ remote.st = "deleted" /\ SetRemote(Absent)
       \/ SameService
    /\ Settle(t, "ok", "keep")
    /\ Frame

(* Would the write of this step get through? *)
WriteLands(t) ==
    /\ task[t].op \in {"store", "update"}
    /\ task[t].pc \in {"call", "add", "poll"} \/ (task[t].pc = "create" /\ kind = "aws")
    /\ \/ remote.st \in {"held", "empty"} /\ (kind # "aws" \/ task[t].op = "update")
       \/ remote.st = "absent" /\ (kind \in {"vault", "azure"} \/ task[t].pc = "create")

(* What a call that failed or was dropped on its way may have left at the  *)
(* service.                                                                *)
Aftermath(t) ==
    {remote}
    \cup {r \in {Held(task[t].val)} : WriteLands(t)}
    \cup {r \in {DeletedRemote} :
            task[t].pc = "call" /\ task[t].op = "delete" /\ remote.st = "held"}
    \cup {r \in {Absent} : task[t].pc = "purge" /\ remote.st = "deleted"}
    \cup {r \in {[st |-> "empty", val |-> NoValue]} :
            kind = "gcp" /\ task[t].pc = "create" /\ remote.st = "absent"}
    \cup {r \in {[remote EXCEPT !.st = "recovering"]} :
            task[t].pc = "recover" /\ remote.st = "deleted"}

CallFails(t) ==
    /\ task[t].pc \in {"call", "create", "add", "recover", "poll"}
    /\ kind # "memory"
    /\ \E r \in Aftermath(t) : SetRemote(r)
    /\ Fail(t)
    /\ Frame

-----------------------------------------------------------------------------
(* The cache follows, the answer is handed over *)

Insert(v) == IF SecretsTTL = 0 THEN cache ELSE [val |-> v, left |-> SecretsTTL]

UpdateCache(t) ==
    /\ AtStep(t, "cache")
    /\ cache' = CASE task[t].effect = "insert" -> Insert(task[t].val)
                  [] task[t].effect = "invalidate" -> Uncached
                  [] task[t].effect = "keep" -> cache
    /\ To(t, "done")
    /\ UNCHANGED <<plan, vaultVars>> /\ SameService

Return(t) ==
    /\ AtStep(t, "done")
    /\ task' = [task EXCEPT ![t] = IdleTask]
    /\ Frame /\ SameService

(* The request is dropped: a readiness check after CHECK_TIMEOUT, the others*)
(* with their client or their task.  A store or a delete that reached the  *)
(* service then leaves the cache as it was.                                *)
Dropped(t) ==
    /\ task[t].pc \notin {"idle", "done"}
    /\ task' = [task EXCEPT ![t] = IdleTask]
    /\ IF task[t].pc = "auth"
       THEN DropAuth(t) /\ SameService
       ELSE UNCHANGED vaultVars /\ \E r \in Aftermath(t) : SetRemote(r)
    /\ UNCHANGED <<plan, cache>>

-----------------------------------------------------------------------------
(* The service and its other clients *)

ElsewhereStores ==
    /\ remote.st \in {"absent", "empty", "held"}
    /\ \E v \in plan.others : SetRemote(Held(v))
    /\ UNCHANGED task /\ Frame

ElsewhereDeletes ==
    /\ remote.st = "held"
    /\ SetRemote(DeletedRemote)
    /\ UNCHANGED task /\ Frame

(* Azure brings the old value back; AWS ends the recovery window. *)
ServiceSettles ==
    /\ \/ remote.st = "recovering" /\ SetRemote(Held(remote.val))
       \/ remote.st = "scheduled" /\ SetRemote(Absent)
    /\ UNCHANGED task /\ Frame

Tick ==
    /\ \A t \in Tasks : /\ task[t].pc # "done"
                        /\ task[t].pc = "cache" => task[t].delay < MaxLatency
    /\ IF kind = "vault" THEN VaultTick ELSE UNCHANGED vaultVars
    /\ cache' = IF cache.left > 1 THEN [cache EXCEPT !.left = @ - 1] ELSE Uncached
    /\ gone' = [v \in Values |-> IF remote = Held(v) THEN 0 ELSE More(gone[v], GoneCap)]
    /\ task' = [t \in Tasks |-> IF task[t].pc = "cache"
                                THEN [task[t] EXCEPT !.delay = @ + 1] ELSE task[t]]
    /\ UNCHANGED <<plan, remote>>

TaskStep(t) ==
    \/ Authenticate(t)
    \/ VaultLoad(t) \/ VaultReachable(t) \/ VaultStore(t) \/ VaultDelete(t)
    \/ MemoryLoad(t) \/ MemoryReachable(t) \/ MemoryStore(t) \/ MemoryDelete(t)
    \/ AwsLoad(t) \/ AwsReachable(t) \/ AwsDescribe(t) \/ AwsCreate(t)
    \/ AwsUpdate(t) \/ AwsDelete(t)
    \/ GcpLoad(t) \/ GcpReachable(t) \/ GcpAddVersion(t) \/ GcpCreate(t)
    \/ GcpAddAgain(t) \/ GcpDelete(t)
    \/ AzureLoad(t) \/ AzureReachable(t) \/ AzureSet(t) \/ AzureRecover(t)
    \/ AzurePoll(t) \/ AzureDelete(t) \/ AzurePurge(t)
    \/ CallFails(t)
    \/ UpdateCache(t) \/ Return(t)
    \/ Dropped(t)

Next ==
    \/ \E t \in Tasks : Begin(t) \/ LoadHit(t) \/ LoadMiss(t) \/ TaskStep(t)
    \/ ElsewhereStores \/ ElsewhereDeletes \/ ServiceSettles
    \/ Tick

Spec == Init /\ [][Next]_vars

-----------------------------------------------------------------------------
(* Properties *)

(* What load answers was the secret at the service at most one cache TTL   *)
(* and one latency ago, whatever stores, deletes and late insertions of    *)
(* other loads interleave, here or in other processes.                     *)
LoadIsRecent ==
    \A t \in Tasks :
        task[t].pc = "done" /\ task[t].op = "load" /\ task[t].val # NoValue
            => gone[task[t].val] <= SecretsTTL + MaxLatency

(* A value whose store was acknowledged was at the service within the last *)
(* latency, although others create, delete and recover the secret between  *)
(* the calls of one store.  (AwsSecretsManager::store acknowledges without *)
(* writing when it finds a secret, so only its update is meant.)           *)
AckMeansTaken ==
    \A t \in Tasks :
        /\ task[t].pc = "done" /\ task[t].answer = "ok"
        /\ task[t].op = "update" \/ (task[t].op = "store" /\ kind # "aws")
        => gone[task[t].val] <= MaxLatency

=============================================================================
