-------------------------- MODULE StatusListReads --------------------------
(***************************************************************************)
(* The read path: GET of a status list through the per-process TTL cache   *)
(* (Service::get_status_list over MokaStatusListCache) and the conditional *)
(* request handling of the get_status_list handler, on several replicas,   *)
(* while writers update the list.                                          *)
(*                                                                         *)
(* One list is modelled: entries of different lists meet only in capacity  *)
(* eviction, which may strike at any time here. A write is one guarded     *)
(* atomic step on the row, which is what StatusListService is proved to    *)
(* implement, followed by the writer's own cache invalidation.             *)
(*                                                                         *)
(* Stamps come from wall clocks, which are not assumed to agree or to      *)
(* advance. The cache's TTL runs on elapsed time, which is modelled by     *)
(* ages that Tick increments, so there is no clock to bound.               *)
(***************************************************************************)
EXTENDS Integers, Sequences, FiniteSets

CONSTANTS
    Replicas,     \* server processes, one cache each
    Writers,      \* publish or update requests, one run each
    Clients,      \* relying parties, which read again and again
    Contents,     \* what a list can hold (bits, lst, issuer and sub)
    ClockValues,  \* readings of a wall clock
    TTL,          \* config.cache.ttl; 0 disables the cache
    MaxLatency,   \* bound: a GET is answered within this many ticks
    None          \* absence of an entry, a token, an age

ASSUME TTLAssumption == TTL \in Nat
ASSUME LatencyAssumption == MaxLatency \in Nat
ASSUME ClockAssumption == ClockValues \subseteq Nat /\ ClockValues # {}
ASSUME ReadsNoneAssumption == None \notin Int /\ None \notin Replicas

VARIABLES
    versions,  \* every committed version of the row, oldest first
    ackAge,    \* ticks since the writer of a version was told 200, or None
    cache,     \* per replica: the entry for the list, or None
    wpc,       \* where each writer stands
    base,      \* the version an update read
    cpc,       \* where each client's GET stands
    chome,     \* the replica that serves it
    latency,   \* ticks since it arrived
    rec,       \* the version the handler answers from
    held       \* the version in the token a client holds, or None

writing == <<versions, ackAge, wpc, base>>
reading == <<cpc, chome, latency, rec, held>>
vars == <<writing, cache, reading>>

Version == [content: Contents, stamp: Nat]

(* The oldest a version missing from an answer can be: a handler that took  *)
(* MaxLatency to fill the entry, the entry's lifetime, and a handler that   *)
(* took MaxLatency to answer from it.                                       *)
MaxStaleness == IF TTL = 0 THEN MaxLatency ELSE TTL - 1 + 2 * MaxLatency

(* Ages saturate beyond the largest age that is told apart.                 *)
AgeLimit == MaxStaleness + 1

Ages == 0..AgeLimit

Older(age) == IF age < AgeLimit THEN age + 1 ELSE age

(* An entry as old as TTL is dead, however long it stays.                   *)
Entry == [version: Nat \ {0}, age: 0..TTL]

Validators == {"none", "etag", "date", "star"}

TypeOK ==
    /\ versions \in Seq(Version)
    /\ ackAge \in [1..Len(versions) -> Ages \cup {None}]
    /\ cache \in [Replicas -> Entry \cup {None}]
    /\ wpc \in [Writers -> {"start", "write", "invalidate", "ok", "rejected", "conflict", "lost"}]
    /\ base \in [Writers -> Nat]
    /\ cpc \in [Clients -> {"idle", "get", "find", "put", "answer"}]
    /\ chome \in [Clients -> Replicas \cup {None}]
    /\ latency \in [Clients -> 0..MaxLatency]
    /\ rec \in [Clients -> Nat]
    /\ held \in [Clients -> (Nat \ {0}) \cup {None}]

(* The list does not exist yet, or was published long ago.                  *)
Init ==
    /\ versions \in {<< >>} \cup {<<v>> : v \in [content: Contents, stamp: ClockValues]}
    /\ ackAge = [n \in 1..Len(versions) |-> AgeLimit]
    /\ cache = [p \in Replicas |-> None]
    /\ wpc = [w \in Writers |-> "start"]
    /\ base = [w \in Writers |-> 0]
    /\ cpc = [c \in Clients |-> "idle"]
    /\ chome = [c \in Clients |-> None]
    /\ latency = [c \in Clients |-> 0]
    /\ rec = [c \in Clients |-> 0]
    /\ held = [c \in Clients |-> None]

----------------------------------------------------------------------------
(* The write side.                                                          *)

(* The row is the newest version; 0 stands for "no row".                    *)
Row == Len(versions)

(* Mutant: an update inside the second of the previous one keeps its stamp. *)
next_updated_at_sameSecond(previous, t) == IF t > previous THEN t ELSE previous

next_updated_at(previous, t) == IF t > previous THEN t ELSE previous + 1

Extend(age) == [n \in 1..(Row + 1) |-> IF n = Row + 1 THEN age ELSE ackAge[n]]

(* publish_status_list: the insert is the first and only visible step; no   *)
(* entry can be cached for a list that did not exist.                       *)
Publish(w) ==
    /\ wpc[w] = "start"
    /\ Row = 0
    /\ \E c \in Contents, t \in ClockValues :
          versions' = Append(versions, [content |-> c, stamp |-> t])
    /\ \/ ackAge' = Extend(0) /\ wpc' = [wpc EXCEPT ![w] = "ok"]
       \/ ackAge' = Extend(None) /\ wpc' = [wpc EXCEPT ![w] = "lost"]
    /\ UNCHANGED <<cache, base, reading>>

(* update_statuses reads the row it will modify straight from the store.    *)
ReadRow(w) ==
    /\ wpc[w] = "start"
    /\ Row > 0
    /\ base' = [base EXCEPT ![w] = Row]
    /\ wpc' = [wpc EXCEPT ![w] = "write"]
    /\ UNCHANGED <<versions, ackAge, cache, reading>>

(* The guarded update lands. Its acknowledgement may be lost, or the        *)
(* handler dropped, and then nothing invalidates the cache.                 *)
WriteRow(w) ==
    /\ wpc[w] = "write"
    /\ base[w] = Row
    /\ \E c \in Contents, t \in ClockValues :
          versions' = Append(versions,
                             [content |-> c,
                              stamp |-> next_updated_at(versions[Row].stamp, t)])
    /\ ackAge' = Extend(None)
    /\ \E after \in {"invalidate", "lost"} : wpc' = [wpc EXCEPT ![w] = after]
    /\ UNCHANGED <<cache, base, reading>>

(* Another writer was faster: 409 update_conflict, and no cache is touched. *)
WriteConflict(w) ==
    /\ wpc[w] = "write"
    /\ base[w] # Row
    /\ wpc' = [wpc EXCEPT ![w] = "conflict"]
    /\ UNCHANGED <<versions, ackAge, cache, base, reading>>

(* Every other way a write ends without effect.                             *)
WriteRejected(w) ==
    /\ wpc[w] \in {"start", "write"}
    /\ wpc' = [wpc EXCEPT ![w] = "rejected"]
    /\ UNCHANGED <<versions, ackAge, cache, base, reading>>

(* invalidate_after_commit on the replica p that served the update, then    *)
(* 200. Until here nothing depends on which replica that is.                *)
Invalidate(w) ==
    /\ wpc[w] = "invalidate"
    /\ \E p \in Replicas : cache' = [cache EXCEPT ![p] = None]
    /\ wpc' = [wpc EXCEPT ![w] = "ok"]
    /\ ackAge' = [ackAge EXCEPT ![base[w] + 1] = 0]
    /\ UNCHANGED <<versions, base, reading>>

(* The handler stops between its commit and its invalidation.               *)
AbandonWrite(w) ==
    /\ wpc[w] = "invalidate"
    /\ wpc' = [wpc EXCEPT ![w] = "lost"]
    /\ UNCHANGED <<versions, ackAge, cache, base, reading>>

----------------------------------------------------------------------------
(* The cache of one process.                                                *)

(* Mutant: entries never expire.                                            *)
Live_forever(p) == cache[p] # None

(* MokaStatusListCache::get: time_to_live, counted from the insert.         *)
Live(p) == cache[p] # None /\ cache[p].age < TTL

(* Capacity eviction, or the process restarts with an empty cache.          *)
Evict(p) ==
    /\ cache[p] # None
    /\ cache' = [cache EXCEPT ![p] = None]
    /\ UNCHANGED <<writing, reading>>

----------------------------------------------------------------------------
(* GET: Service::get_status_list and the handler around it.                 *)

(* A client asks some replica.                                              *)
Ask(c) ==
    /\ cpc[c] = "idle"
    /\ \E p \in Replicas : chome' = [chome EXCEPT ![c] = p]
    /\ cpc' = [cpc EXCEPT ![c] = "get"]
    /\ UNCHANGED <<writing, cache, latency, rec, held>>

CacheHit(c) ==
    /\ cpc[c] = "get"
    /\ Live(chome[c])
    /\ rec' = [rec EXCEPT ![c] = cache[chome[c]].version]
    /\ cpc' = [cpc EXCEPT ![c] = "answer"]
    /\ UNCHANGED <<writing, cache, chome, latency, held>>

CacheMiss(c) ==
    /\ cpc[c] = "get"
    /\ ~Live(chome[c])
    /\ cpc' = [cpc EXCEPT ![c] = "find"]
    /\ UNCHANGED <<writing, cache, chome, latency, rec, held>>

Find(c) ==
    /\ cpc[c] = "find"
    /\ Row > 0
    /\ rec' = [rec EXCEPT ![c] = Row]
    /\ cpc' = [cpc EXCEPT ![c] = "put"]
    /\ UNCHANGED <<writing, cache, chome, latency, held>>

(* status_list_cache.put, which overwrites whatever is there.               *)
Put(c) ==
    /\ cpc[c] = "put"
    /\ cache' = [cache EXCEPT ![chome[c]] = [version |-> rec[c], age |-> 0]]
    /\ cpc' = [cpc EXCEPT ![c] = "answer"]
    /\ UNCHANGED <<writing, chome, latency, rec, held>>

(* generate_etag hashes the content and not the stamp; matching is weak.    *)
evaluate_if_none_match(c) == versions[held[c]].content = versions[rec[c]].content

(* Last-Modified of the held token against updated_at; a date that lies in  *)
(* the future of the replica's clock t does not count.                      *)
evaluate_if_modified_since(c, t) ==
    /\ versions[held[c]].stamp <= t
    /\ versions[rec[c]].stamp <= versions[held[c]].stamp

(* The validators a request can carry: those of the token its client holds, *)
(* or If-None-Match: *.  They are chosen when they are looked at, since     *)
(* nothing depends on them before and the client holds on to its token.     *)
Headers(c) == IF held[c] = None THEN {"none", "star"} ELSE Validators

(* evaluate_conditional_request of a request with validator v on a replica  *)
(* whose clock reads t: TRUE stands for NotModified.                        *)
NotModified(c, v, t) ==
    CASE v = "none" -> FALSE
      [] v = "star" -> TRUE
      [] v = "etag" -> evaluate_if_none_match(c)
      [] v = "date" -> evaluate_if_modified_since(c, t)

(* The handler returns and its local state is gone.                         *)
Return(c) ==
    /\ cpc' = [cpc EXCEPT ![c] = "idle"]
    /\ chome' = [chome EXCEPT ![c] = None]
    /\ latency' = [latency EXCEPT ![c] = 0]
    /\ rec' = [rec EXCEPT ![c] = 0]

(* 304: the client keeps the token it holds.                                *)
AnswerNotModified(c) ==
    /\ cpc[c] = "answer"
    /\ \E v \in Headers(c), t \in ClockValues : NotModified(c, v, t)
    /\ Return(c)
    /\ UNCHANGED <<writing, cache, held>>

(* 200 with a freshly signed token over the record.                         *)
AnswerToken(c) ==
    /\ cpc[c] = "answer"
    /\ \E v \in Headers(c), t \in ClockValues : ~NotModified(c, v, t)
    /\ held' = [held EXCEPT ![c] = rec[c]]
    /\ Return(c)
    /\ UNCHANGED <<writing, cache>>

(* No such list, a failing store, no signing material, or the request is    *)
(* dropped: the client keeps what it holds.                                 *)
AnswerNothing(c) ==
    /\ cpc[c] # "idle"
    /\ Return(c)
    /\ UNCHANGED <<writing, cache, held>>

----------------------------------------------------------------------------
(* Elapsed time. No GET is in flight for more than MaxLatency ticks: an     *)
(* assumption about the deployment, the server itself has no such limit.    *)

Tick ==
    /\ \A c \in Clients : cpc[c] # "idle" => latency[c] < MaxLatency
    /\ latency' = [c \in Clients |-> IF cpc[c] = "idle" THEN 0 ELSE latency[c] + 1]
    /\ cache' = [p \in Replicas |->
                   IF cache[p] = None THEN None
                   ELSE [cache[p] EXCEPT !.age = IF @ < TTL THEN @ + 1 ELSE @]]
    /\ ackAge' = [n \in 1..Row |-> IF ackAge[n] = None THEN None ELSE Older(ackAge[n])]
    /\ UNCHANGED <<versions, wpc, base, cpc, chome, rec, held>>

Write(w) ==
    \/ Publish(w) \/ ReadRow(w) \/ WriteRow(w) \/ WriteConflict(w)
    \/ WriteRejected(w) \/ Invalidate(w) \/ AbandonWrite(w)

Read(c) ==
    \/ Ask(c) \/ CacheHit(c) \/ CacheMiss(c) \/ Find(c) \/ Put(c)
    \/ AnswerNotModified(c) \/ AnswerToken(c) \/ AnswerNothing(c)

Next ==
    \/ \E w \in Writers : Write(w)
    \/ \E c \in Clients : Read(c)
    \/ \E p \in Replicas : Evict(p)
    \/ Tick

Spec == Init /\ [][Next]_vars

(* A handler keeps being polled until it answers or is dropped, and time    *)
(* passes. Nobody has to ask.                                               *)
Progress(c) ==
    \/ CacheHit(c) \/ CacheMiss(c) \/ Find(c) \/ Put(c)
    \/ AnswerNotModified(c) \/ AnswerToken(c) \/ AnswerNothing(c)

Fairness ==
    /\ \A w \in Writers : WF_vars(Write(w))
    /\ \A c \in Clients : WF_vars(Progress(c))
    /\ WF_vars(Tick)

FairSpec == Spec /\ Fairness

----------------------------------------------------------------------------
(* Properties.                                                              *)

(* How stale a GET can be, whichever replica answers and however fetches,   *)
(* puts and invalidations interleave: a version that the answer misses was  *)
(* acknowledged at most MaxStaleness ticks ago.                             *)
BoundedStaleness ==
    \A c \in Clients :
        cpc[c] = "answer" =>
            \A n \in (rec[c] + 1)..Row : ackAge[n] = None \/ ackAge[n] <= MaxStaleness

(* A 304 is true of the record the handler answers from: what the client    *)
(* holds has the same content, or is newer than a stale cache entry. Weak   *)
(* ETags ignore the stamp and dates have one-second resolution, so this     *)
(* rests on every update advancing the stamp.                               *)
NotModifiedIsTrue ==
    \A c \in Clients :
        /\ cpc[c] = "answer"
        /\ held[c] # None
        /\ \E v \in {"etag", "date"}, t \in ClockValues : NotModified(c, v, t)
        => \/ versions[held[c]].content = versions[rec[c]].content
           \/ held[c] > rec[c]

(* Once the last write is over, every replica comes to answer with it: no   *)
(* put of an old record and no skipped invalidation lasts.                  *)
Convergence ==
    <>[](\A c \in Clients : cpc[c] = "answer" => rec[c] = Row)

----------------------------------------------------------------------------
(* The inductive invariant behind the theorems of StatusListReads_proofs.   *)

(* Whatever names a version names a committed one.                          *)
RefInv ==
    /\ \A c \in Clients :
          /\ cpc[c] \in {"put", "answer"} => rec[c] \in 1..Row
          /\ cpc[c] # "idle" => chome[c] \in Replicas
          /\ held[c] # None => held[c] \in 1..Row
    /\ \A p \in Replicas : cache[p] # None => cache[p].version \in 1..Row
    /\ \A w \in Writers : wpc[w] = "write" => base[w] \in 1..Row
    /\ \A w \in Writers : wpc[w] = "invalidate" => base[w] \in 1..(Row - 1)

(* Every version has a later stamp than the one before it.                  *)
StampInv == \A m, n \in 1..Row : m < n => versions[m].stamp < versions[n].stamp

(* n was acknowledged at most limit ticks ago, if at all.                   *)
Recent(n, limit) == ackAge[n] = None \/ ackAge[n] <= limit

(* What a handler or a cache entry is missing is recent, measured on the    *)
(* handler's own latency and the entry's own age.                           *)
StaleInv ==
    /\ \A c \in Clients :
          cpc[c] = "put" => \A n \in (rec[c] + 1)..Row : Recent(n, latency[c])
    /\ \A p \in Replicas :
          cache[p] # None /\ cache[p].age < TTL =>
              \A n \in (cache[p].version + 1)..Row : Recent(n, cache[p].age + MaxLatency)
    /\ \A c \in Clients :
          cpc[c] = "answer" =>
              \A n \in (rec[c] + 1)..Row :
                  \/ Recent(n, latency[c])
                  \/ TTL > 0 /\ Recent(n, TTL - 1 + MaxLatency + latency[c])

IInv == RefInv /\ StampInv /\ StaleInv

=============================================================================
