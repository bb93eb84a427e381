----------------------------- MODULE AcmeOrder -----------------------------
(* An ACME order as request_acme_certificate places it: the account, the    *)
(* order, one challenge per domain, the poll and the clean-up, for every    *)
(* challenge handler: HTTP-01, and DNS-01 with each of its providers.       *)
(* Processes serialise their own orders (provisioning_lock) and share the   *)
(* DNS zone, the account secret and the CA.  What CertManager takes as one  *)
(* step, Order, is here every call it makes.                                *)
EXTENDS Integers, Sequences, FiniteSets, SequencesExt

CONSTANTS
    Replicas,        \* server processes
    Names,           \* domain names
    Deployments,     \* [provider, replicas, domains]: handler, processes, order's domains
    SharedAccount,   \* TRUE: the ACME-DNS domains share one account
    CONFLICT_RETRIES,\* retries after a conflicting change of a record set
    MaxOrders,       \* bound: orders placed
    MaxFaults,       \* bound: failed calls and restarts
    None

Providers == {"route53", "cloudflare", "azure", "gcloud", "acmedns", "pebble", "http01"}

ASSUME DeploymentAssumption ==
    Deployments \subseteq [provider: Providers, replicas: SUBSET Replicas, domains: Seq(Names)]
ASSUME RetryAssumption == CONFLICT_RETRIES \in Nat
ASSUME BoundAssumption == MaxOrders \in Nat /\ MaxFaults \in Nat

(* The key authorization of one challenge, here its order and domain.       *)
Value == [order: 1..MaxOrders, domain: Names]

(* A record set as it was read.                                             *)
Read == [etag: Nat, recs: Seq(Value)]

(* A call of a provider that merges.                                        *)
DnsCalls == [kind: {"create", "delete"}, name: Names, value: Value]

ASSUME NoneAssumption == None \notin Read \cup DnsCalls

VARIABLES
    deployment,          \* what the server is configured with
    records, etag,       \* the zone: values of each record set, its version
    served,              \* what the authoritative servers answer
    server,              \* per process: the HTTP-01 challenge server
    secret, account,     \* the stored ACME account; each process's copy
    authz,               \* at the CA: per process, the authorizations of its order
    zones,               \* per process: 1 once the zone list is cached
    pc, order, todo,     \* per process: step, order number, domains still to do
    cleanups,            \* per process: cleanup_futures
    doing, seen, tries,  \* per process: the provider call in progress
    reply,               \* per process: what its last provider call returned
    result,              \* per process: what poll_ready returned
    dropped,             \* orders that ended with a clean-up not done
    orders, faults

zone == <<records, etag, served>>
acct == <<secret, account>>
task == <<pc, order, todo, cleanups, doing, seen, tries, result>>
env == <<deployment, orders>>
vars == <<zone, server, acct, authz, zones, task, reply, dropped, faults, env>>

provider == deployment.provider

Domains == deployment.domains

----------------------------------------------------------------------------
(* Challenge handlers and DNS providers.                                    *)

(* Providers whose calls change a record set value by value.                *)
Merging == {"cloudflare", "azure", "gcloud"}

(* Providers that list the zones they manage.                               *)
Zoned == {"route53", "cloudflare", "azure", "gcloud"}

(* The deployments in which a challenge can be relied on: the order lists   *)
(* one authorization per domain, and processes share a zone only where the  *)
(* provider merges (Upsert replaces what another process wrote, an ACME-DNS *)
(* account keeps two values, Pebble clears them all).                       *)
Supported ==
    \A dep \in Deployments :
        /\ \A i, j \in DOMAIN dep.domains : dep.domains[i] = dep.domains[j] => i = j
        /\ dep.provider \notin Merging => \A r, q \in dep.replicas : r = q

(* Normalised domain -> account, the default account for the others: with   *)
(* one account every domain's _acme-challenge is a CNAME to one subdomain.  *)
credentials_for(d) ==
    IF provider = "acmedns" /\ SharedAccount THEN Domains[1] ELSE d

(* Start-up check: no ACME-DNS account serves more than two domains.        *)
check_order_domains ==
    \A a \in Names : Cardinality({d \in Range(Domains) : credentials_for(d) = a}) <= 2

current(r) == Head(todo[r])

Token(r) == [order |-> order[r], domain |-> current(r)]

(* The record set (or the key of the HTTP-01 challenge store) of the        *)
(* current domain.                                                          *)
Name(r) == credentials_for(current(r))

Steps ==
    {"idle", "account", "create", "save", "newOrder", "authz", "bind", "zone", "get",
     "edit", "wait", "ready", "cleanup", "finalize"}

Calling == {"bind", "zone", "get", "edit", "wait"}

TypeOK ==
    /\ deployment \in Deployments
    /\ records \in [Names -> Seq(Value)]
    /\ etag \in [Names -> Nat]
    /\ served \in [Names -> Seq(Value)]
    /\ server \in [Replicas -> {"down", "up", "stopping"}]
    /\ secret \in 0..MaxOrders
    /\ account \in [Replicas -> 0..MaxOrders]
    /\ authz \in [Replicas -> [Names -> {"none", "pending", "ready", "valid", "invalid"}]]
    /\ zones \in [Replicas -> 0..1]
    /\ pc \in [Replicas -> Steps]
    /\ order \in [Replicas -> 0..MaxOrders]
    /\ todo \in [Replicas -> Seq(Names)]
    /\ cleanups \in [Replicas -> Seq(Names)]
    /\ doing \in [Replicas -> {"create", "delete"}]
    /\ seen \in [Replicas -> Read \cup {None}]
    /\ tries \in [Replicas -> 0..CONFLICT_RETRIES]
    /\ reply \in [Replicas -> {"none", "ok", "err"}]
    /\ result \in [Replicas -> {"none", "ready", "invalid"}]
    /\ dropped \subseteq 1..MaxOrders
    /\ orders \in 0..MaxOrders
    /\ faults \in 0..MaxFaults

Init ==
    /\ deployment \in Deployments
    /\ check_order_domains
    /\ records = [d \in Names |-> <<>>]
    /\ etag = [d \in Names |-> 0]
    /\ served = [d \in Names |-> <<>>]
    /\ server = [r \in Replicas |-> "down"]
    /\ secret = 0
    /\ account = [r \in Replicas |-> 0]
    /\ authz = [r \in Replicas |-> [d \in Names |-> "none"]]
    /\ zones = [r \in Replicas |-> 0]
    /\ pc = [r \in Replicas |-> "idle"]
    /\ order = [r \in Replicas |-> 0]
    /\ todo = [r \in Replicas |-> <<>>]
    /\ cleanups = [r \in Replicas |-> <<>>]
    /\ doing = [r \in Replicas |-> "create"]
    /\ seen = [r \in Replicas |-> None]
    /\ tries = [r \in Replicas |-> 0]
    /\ reply = [r \in Replicas |-> "none"]
    /\ result = [r \in Replicas |-> "none"]
    /\ dropped = {}
    /\ orders = 0
    /\ faults = 0

----------------------------------------------------------------------------
(* Moving a request along.                                                  *)

Goto(r, step) == pc' = [pc EXCEPT ![r] = step]

(* The request returns; its locals are dropped, clean-ups with them.  The   *)
(* CA keeps the authorizations that are valid.                              *)
End(r) ==
    /\ Goto(r, "idle")
    /\ order' = [order EXCEPT ![r] = 0]
    /\ todo' = [todo EXCEPT ![r] = <<>>]
    /\ cleanups' = [cleanups EXCEPT ![r] = <<>>]
    /\ doing' = [doing EXCEPT ![r] = "create"]
    /\ seen' = [seen EXCEPT ![r] = None]
    /\ tries' = [tries EXCEPT ![r] = 0]
    /\ result' = [result EXCEPT ![r] = "none"]
    /\ authz' = [authz EXCEPT ![r] = [d \in Names |-> IF @[d] = "valid" THEN "valid" ELSE "none"]]

(* An error leaves the request before its clean-ups ran.                    *)
Abandon(r) == End(r) /\ dropped' = dropped \cup {order[r]}

Fault == faults < MaxFaults /\ faults' = faults + 1

(* A provider call returns.  An error of create_txt_record ends the         *)
(* request, an error of a clean-up is only logged.                          *)
ReturnOk(r) ==
    /\ reply' = [reply EXCEPT ![r] = "ok"]
    /\ seen' = [seen EXCEPT ![r] = None]
    /\ tries' = [tries EXCEPT ![r] = 0]
    /\ IF doing[r] = "create"
       THEN Goto(r, "ready") /\ UNCHANGED todo
       ELSE Goto(r, "cleanup") /\ todo' = [todo EXCEPT ![r] = Tail(@)]
    /\ UNCHANGED <<order, cleanups, doing, result, authz, dropped>>

ReturnErr(r) ==
    /\ reply' = [reply EXCEPT ![r] = "err"]
    /\ IF doing[r] = "create"
       THEN Abandon(r)
       ELSE /\ Goto(r, "cleanup")
            /\ todo' = [todo EXCEPT ![r] = Tail(@)]
            /\ seen' = [seen EXCEPT ![r] = None]
            /\ tries' = [tries EXCEPT ![r] = 0]
            /\ dropped' = dropped \cup {order[r]}
            /\ UNCHANGED <<order, cleanups, doing, result, authz>>

----------------------------------------------------------------------------
(* request_acme_certificate: account and order.                             *)

Start(r) ==
    /\ r \in deployment.replicas
    /\ pc[r] = "idle"
    /\ orders < MaxOrders
    /\ orders' = orders + 1
    /\ order' = [order EXCEPT ![r] = orders']
    /\ Goto(r, "account")
    /\ UNCHANGED <<zone, server, acct, authz, zones, todo, cleanups, doing, seen, tries, result,
                   reply, dropped, faults, deployment>>

(* The process's copy, else the stored credentials, else a new account; an  *)
(* account is named after the order it was created for.                     *)
LoadAccount(r) ==
    /\ pc[r] = "account"
    /\ account[r] # 0 \/ secret # 0
    /\ account' = [account EXCEPT ![r] = IF @ # 0 THEN @ ELSE secret]
    /\ Goto(r, "newOrder")
    /\ UNCHANGED <<zone, server, secret, authz, zones, order, todo, cleanups, doing, seen,
                   tries, result, reply, dropped, faults, env>>

(* from_credentials fails, for whatever reason: the secret is deleted.      *)
RejectAccount(r) ==
    /\ pc[r] = "account"
    /\ account[r] = 0 /\ secret # 0
    /\ Fault
    /\ secret' = 0
    /\ Goto(r, "create")
    /\ UNCHANGED <<zone, server, account, authz, zones, order, todo, cleanups, doing, seen,
                   tries, result, reply, dropped, env>>

NeedsAccount(r) == pc[r] = "create" \/ (pc[r] = "account" /\ account[r] = 0 /\ secret = 0)

CreateAccount(r) ==
    /\ NeedsAccount(r)
    /\ Goto(r, "save")
    /\ UNCHANGED <<zone, server, acct, authz, zones, order, todo, cleanups, doing, seen, tries,
                   result, reply, dropped, faults, env>>

SaveAccount(r) ==
    /\ pc[r] = "save"
    /\ secret' = order[r]
    /\ account' = [account EXCEPT ![r] = order[r]]
    /\ Goto(r, "newOrder")
    /\ UNCHANGED <<zone, server, authz, zones, order, todo, cleanups, doing, seen, tries, result,
                   reply, dropped, faults, env>>

(* The CA may count an authorization of an earlier order as still valid.    *)
NewOrder(r) ==
    /\ pc[r] = "newOrder"
    /\ \E still \in SUBSET {d \in Names : authz[r][d] = "valid"} :
          authz' = [authz EXCEPT ![r] = [d \in Names |-> IF d \in still THEN "valid" ELSE "pending"]]
    /\ todo' = [todo EXCEPT ![r] = Domains]
    /\ Goto(r, "authz")
    /\ UNCHANGED <<zone, server, acct, zones, order, cleanups, doing, seen, tries, result, reply,
                   dropped, faults, env>>

(* Where a call of the handler starts.                                      *)
FirstStep(kind) ==
    IF provider \in Zoned THEN "zone"
    ELSE IF provider = "http01" /\ kind = "create" THEN "bind" ELSE "edit"

NextAuthorization(r) ==
    /\ pc[r] = "authz"
    /\ todo[r] # <<>>
    /\ IF authz[r][current(r)] = "valid"
       THEN todo' = [todo EXCEPT ![r] = Tail(@)] /\ UNCHANGED pc
       ELSE Goto(r, FirstStep("create")) /\ UNCHANGED todo
    /\ UNCHANGED <<zone, server, acct, authz, zones, order, cleanups, doing, seen, tries, result,
                   reply, dropped, faults, env>>

(* handle_authorization, once the challenge can be answered: the CA is      *)
(* told, and the clean-up is handed to the request.                         *)
SetReady(r) ==
    /\ pc[r] = "ready"
    /\ authz' = [authz EXCEPT ![r][current(r)] = "ready"]
    /\ cleanups' = [cleanups EXCEPT ![r] = Append(@, current(r))]
    /\ todo' = [todo EXCEPT ![r] = Tail(@)]
    /\ Goto(r, "authz")
    /\ UNCHANGED <<zone, server, acct, zones, order, doing, seen, tries, result, reply, dropped,
                   faults, env>>

----------------------------------------------------------------------------
(* What each provider's create_txt_record and delete_txt_record do to the   *)
(* record set: whether the change is accepted, and what is there after it.  *)

With(s, v) == IF v \in Range(s) THEN s ELSE Append(s, v)

(* A filter, as a recursive function of how much of s has been looked at.   *)
Without(s, v) ==
    LET kept[k \in 0..Len(s)] ==
            IF k = 0 THEN <<>>
            ELSE IF s[k] = v THEN kept[k - 1] ELSE Append(kept[k - 1], s[k])
    IN  kept[Len(s)]

(* What a record set becomes when the value of the call is merged in.       *)
Edited(r, s) == IF doing[r] = "create" THEN With(s, Token(r)) ELSE Without(s, Token(r))

(* Upsert replaces the whole record set, Delete has to name it exactly.     *)
Route53Edit(r) ==
    IF doing[r] = "create"
    THEN [accepted |-> TRUE, recs |-> <<Token(r)>>]
    ELSE [accepted |-> records[Name(r)] = <<Token(r)>>, recs |-> <<>>]

(* One record per value, found again by its content.                        *)
CloudflareEdit(r) == [accepted |-> TRUE, recs |-> Edited(r, records[Name(r)])]

(* Mutant: the change is written without If-Match.                          *)
AzureEdit_blind(r) == [accepted |-> TRUE, recs |-> Edited(r, seen[r].recs)]

(* The record set read before, with the value added or removed, under       *)
(* If-Match or If-None-Match; deleting a record set that is gone succeeds.  *)
(* Azure gives every record set an etag; the code writes without a          *)
(* precondition if one comes without, which is AzureEdit_blind.             *)
AzureEdit(r) ==
    LET recs == Edited(r, seen[r].recs)
        now == records[Name(r)]
    IN  [accepted |-> \/ seen[r].recs = <<>> /\ now = <<>>
                      \/ seen[r].recs # <<>> /\ etag[Name(r)] = seen[r].etag
                      \/ recs = <<>> /\ now = <<>>,
         recs |-> recs]

(* One change that deletes the record set as it was read and adds the new   *)
(* one; a different record set by then is a conflict.                       *)
GcloudEdit(r) ==
    [accepted |-> records[Name(r)] = seen[r].recs, recs |-> Edited(r, seen[r].recs)]

(* Mutant: the window holds one value.                                      *)
AcmeDnsEdit_one(r) ==
    [accepted |-> TRUE,
     recs |-> IF doing[r] = "create" THEN <<Token(r)>> ELSE records[Name(r)]]

(* The account's two most recent values; there is no delete.                *)
AcmeDnsEdit(r) ==
    LET all == Append(records[Name(r)], Token(r))
    IN  [accepted |-> TRUE,
         recs |-> IF doing[r] = "create"
                  THEN SubSeq(all, IF Len(all) > 2 THEN Len(all) - 1 ELSE 1, Len(all))
                  ELSE records[Name(r)]]

(* set-txt adds a value, clear-txt removes them all.                        *)
PebbleEdit(r) ==
    [accepted |-> TRUE,
     recs |-> IF doing[r] = "create" THEN Edited(r, records[Name(r)]) ELSE <<>>]

(* The challenge store, keyed by the token.                                 *)
Http01Edit(r) == [accepted |-> TRUE, recs |-> Edited(r, records[Name(r)])]

ProviderEdit(r) ==
    CASE provider = "route53"    -> Route53Edit(r)
      [] provider = "cloudflare" -> CloudflareEdit(r)
      [] provider = "azure"      -> AzureEdit(r)
      [] provider = "gcloud"     -> GcloudEdit(r)
      [] provider = "acmedns"    -> AcmeDnsEdit(r)
      [] provider = "pebble"     -> PebbleEdit(r)
      [] provider = "http01"     -> Http01Edit(r)

----------------------------------------------------------------------------
(* The steps of a provider call.                                            *)

(* find_zone: the list of zones is fetched once and kept.                   *)
FindZone(r, next) ==
    /\ pc[r] = "zone"
    /\ zones' = [zones EXCEPT ![r] = 1]
    /\ Goto(r, next)
    /\ UNCHANGED <<zone, server, acct, authz, order, todo, cleanups, doing, seen, tries, result,
                   reply, dropped, faults, env>>

Route53Zone(r) == provider = "route53" /\ FindZone(r, "edit")

CloudflareZone(r) == provider = "cloudflare" /\ FindZone(r, "edit")

AzureZone(r) == provider = "azure" /\ FindZone(r, "get")

GcloudZone(r) == provider = "gcloud" /\ FindZone(r, "get")

(* Read the record set to be merged with; when there is nothing to change   *)
(* the call returns.                                                        *)
ReadRecords(r, unchanged) ==
    /\ pc[r] = "get"
    /\ IF unchanged
       THEN ReturnOk(r)
       ELSE /\ seen' = [seen EXCEPT ![r] = [etag |-> etag[Name(r)], recs |-> records[Name(r)]]]
            /\ Goto(r, "edit")
            /\ UNCHANGED <<authz, order, todo, cleanups, doing, tries, result, reply, dropped>>
    /\ UNCHANGED <<zone, server, acct, zones, faults, env>>

AzureGet(r) ==
    /\ provider = "azure"
    /\ ReadRecords(r, doing[r] = "delete" /\ records[Name(r)] = <<>>)

GcloudGet(r) ==
    /\ provider = "gcloud"
    /\ ReadRecords(r, Edited(r, records[Name(r)]) = records[Name(r)])

(* Start the challenge server unless it runs; a server on its way down      *)
(* still has the port.                                                      *)
StartServer(r) ==
    /\ pc[r] = "bind"
    /\ IF server[r] = "stopping"
       THEN ReturnErr(r) /\ UNCHANGED server
       ELSE /\ server' = [server EXCEPT ![r] = "up"]
            /\ Goto(r, "edit")
            /\ UNCHANGED <<authz, order, todo, cleanups, doing, seen, tries, result, reply, dropped>>
    /\ UNCHANGED <<zone, acct, zones, faults, env>>

ServerStops(r) ==
    /\ server[r] = "stopping"
    /\ server' = [server EXCEPT ![r] = "down"]
    /\ UNCHANGED <<zone, acct, authz, zones, task, reply, dropped, faults, env>>

(* HTTP-01 joins the delete of a challenge with the shutdown of its server, *)
(* which goes down whether the delete succeeds or not.                      *)
ServerAfter(r) ==
    IF provider = "http01" /\ doing[r] = "delete" /\ server[r] = "up"
    THEN [server EXCEPT ![r] = "stopping"]
    ELSE server

(* The provider takes the change.                                           *)
Write(r) ==
    LET n == Name(r)
    IN  /\ ProviderEdit(r).accepted
        /\ records' = [records EXCEPT ![n] = ProviderEdit(r).recs]
        /\ etag' = [etag EXCEPT ![n] = IF records'[n] = records[n] THEN @ ELSE @ + 1]
        /\ served' = IF provider \in Zoned THEN served ELSE records'
        /\ server' = ServerAfter(r)

(* create_txt_record returns once the change is served: Route 53 and Cloud  *)
(* DNS are polled for the change, Azure's documented window is waited out.  *)
Route53Awaits(r) == provider = "route53" /\ doing[r] = "create"

AzureAwaits(r) == provider = "azure" /\ doing[r] = "create"

GcloudAwaits(r) == provider = "gcloud"

Awaits(r) == Route53Awaits(r) \/ AzureAwaits(r) \/ GcloudAwaits(r)

Edit(r) ==
    /\ pc[r] = "edit"
    /\ Write(r)
    /\ IF Awaits(r)
       THEN /\ Goto(r, "wait")
            /\ UNCHANGED <<authz, order, todo, cleanups, doing, seen, tries, result, reply, dropped>>
       ELSE ReturnOk(r)
    /\ UNCHANGED <<acct, zones, faults, env>>

(* The change was made, its answer is lost.                                 *)
EditLost(r) ==
    /\ pc[r] = "edit"
    /\ Fault
    /\ Write(r)
    /\ ReturnErr(r)
    /\ UNCHANGED <<acct, zones, env>>

(* Mutant: the change is sent again without reading the record set again.   *)
Conflict_resend(r) ==
    /\ pc[r] = "edit"
    /\ ~ProviderEdit(r).accepted
    /\ UNCHANGED vars

(* The record set changed since it was read: read it again, a few times.    *)
Conflict(r) ==
    /\ pc[r] = "edit"
    /\ ~ProviderEdit(r).accepted
    /\ IF provider \in {"azure", "gcloud"} /\ tries[r] < CONFLICT_RETRIES
       THEN /\ tries' = [tries EXCEPT ![r] = @ + 1]
            /\ seen' = [seen EXCEPT ![r] = None]
            /\ Goto(r, "get")
            /\ UNCHANGED <<authz, order, todo, cleanups, doing, result, reply, dropped>>
       ELSE ReturnErr(r)
    /\ UNCHANGED <<zone, server, acct, zones, faults, env>>

ServedAt(n, v) == v \in Range(served[n])

WaitForPropagation(r) ==
    /\ pc[r] = "wait"
    /\ ServedAt(Name(r), Token(r)) <=> doing[r] = "create"
    /\ ReturnOk(r)
    /\ UNCHANGED <<zone, server, acct, zones, faults, env>>

(* A call of the provider fails or times out without further effect.        *)
CallFails(r) ==
    /\ pc[r] \in Calling
    /\ pc[r] = "zone" => zones[r] = 0
    /\ Fault
    /\ server' = ServerAfter(r)
    /\ ReturnErr(r)
    /\ UNCHANGED <<zone, acct, zones, env>>

(* The authoritative servers catch up with the zone.                        *)
Propagate(n) ==
    /\ served[n] # records[n]
    /\ served' = [served EXCEPT ![n] = records[n]]
    /\ UNCHANGED <<records, etag, server, acct, authz, zones, task, reply, dropped, faults, env>>

----------------------------------------------------------------------------
(* The CA, poll_order and the end of the request.                           *)

TokenOf(r, d) == [order |-> order[r], domain |-> d]

(* All authorizations are handled; poll_order waits for the CA.             *)
Polling(r) == pc[r] = "authz" /\ todo[r] = <<>>

(* What the CA finds when it looks.                                         *)
Answered(r, d) ==
    /\ ServedAt(credentials_for(d), TokenOf(r, d))
    /\ provider = "http01" => server[r] = "up"

Validate(r, d) ==
    /\ authz[r][d] = "ready"
    /\ authz' = [authz EXCEPT ![r][d] = IF Answered(r, d) THEN "valid" ELSE "invalid"]
    /\ UNCHANGED <<zone, server, acct, zones, task, reply, dropped, faults, env>>

(* The CA rejects the challenge for a reason of its own.                    *)
Reject(r, d) ==
    /\ authz[r][d] = "ready"
    /\ Fault
    /\ authz' = [authz EXCEPT ![r][d] = "invalid"]
    /\ UNCHANGED <<zone, server, acct, zones, task, reply, dropped, env>>

(* Mutant: the first clean-up is skipped.                                   *)
PollReady_tail(r, state) ==
    /\ Polling(r)
    /\ result' = [result EXCEPT ![r] = state]
    /\ todo' = [todo EXCEPT ![r] = IF cleanups[r] = <<>> THEN <<>> ELSE Tail(cleanups[r])]
    /\ doing' = [doing EXCEPT ![r] = "delete"]
    /\ Goto(r, "cleanup")
    /\ UNCHANGED <<zone, server, acct, authz, zones, order, cleanups, seen, tries, reply, dropped,
                   faults, env>>

PollReady(r, state) ==
    /\ Polling(r)
    /\ result' = [result EXCEPT ![r] = state]
    /\ todo' = [todo EXCEPT ![r] = cleanups[r]]
    /\ doing' = [doing EXCEPT ![r] = "delete"]
    /\ Goto(r, "cleanup")
    /\ UNCHANGED <<zone, server, acct, authz, zones, order, cleanups, seen, tries, reply, dropped,
                   faults, env>>

OrderReady(r) == PollReady(r, "ready") /\ \A d \in Range(Domains) : authz[r][d] = "valid"

OrderInvalid(r) == PollReady(r, "invalid") /\ \E d \in Names : authz[r][d] = "invalid"

RunCleanup(r) ==
    /\ pc[r] = "cleanup"
    /\ todo[r] # <<>>
    /\ Goto(r, FirstStep("delete"))
    /\ UNCHANGED <<zone, server, acct, authz, zones, order, todo, cleanups, doing, seen, tries,
                   result, reply, dropped, faults, env>>

CleanupsDone(r) ==
    /\ pc[r] = "cleanup"
    /\ todo[r] = <<>>
    /\ IF result[r] = "ready"
       THEN Goto(r, "finalize") /\ UNCHANGED <<authz, order, todo, cleanups, doing, seen, tries, result>>
       ELSE End(r)
    /\ UNCHANGED <<zone, server, acct, zones, reply, dropped, faults, env>>

(* The rest of the request (CertManager models it) holds no challenge.      *)
Finalize(r) ==
    /\ pc[r] = "finalize"
    /\ End(r)
    /\ UNCHANGED <<zone, server, acct, zones, reply, dropped, faults, env>>

(* Any other call the request makes fails: the error leaves the function.   *)
RequestFails(r) ==
    /\ pc[r] \in {"account", "create", "save", "newOrder", "authz", "ready"}
    /\ Fault
    /\ Abandon(r)
    /\ UNCHANGED <<zone, server, acct, zones, reply, env>>

(* The process restarts: what it had in memory and its server are gone.     *)
Crash(r) ==
    /\ r \in deployment.replicas
    /\ Fault
    /\ End(r)
    /\ dropped' = dropped \cup ({order[r]} \ {0})
    /\ reply' = IF pc[r] \in Calling THEN [reply EXCEPT ![r] = "err"] ELSE reply
    /\ server' = [server EXCEPT ![r] = "down"]
    /\ account' = [account EXCEPT ![r] = 0]
    /\ zones' = [zones EXCEPT ![r] = 0]
    /\ UNCHANGED <<zone, secret, env>>

Progress(r) ==
    \/ LoadAccount(r) \/ CreateAccount(r) \/ SaveAccount(r)
    \/ NewOrder(r) \/ NextAuthorization(r) \/ SetReady(r)
    \/ Route53Zone(r) \/ CloudflareZone(r) \/ AzureZone(r) \/ GcloudZone(r)
    \/ AzureGet(r) \/ GcloudGet(r) \/ StartServer(r)
    \/ Edit(r) \/ Conflict(r) \/ WaitForPropagation(r)
    \/ OrderReady(r) \/ OrderInvalid(r) \/ RunCleanup(r) \/ CleanupsDone(r) \/ Finalize(r)

Failure(r) ==
    \/ RejectAccount(r) \/ EditLost(r) \/ CallFails(r) \/ RequestFails(r) \/ Crash(r)

Next ==
    \/ \E r \in Replicas : Start(r) \/ Progress(r) \/ Failure(r) \/ ServerStops(r)
    \/ \E r \in Replicas, d \in Names : Validate(r, d) \/ Reject(r, d)
    \/ \E n \in Names : Propagate(n)

Spec == Init /\ [][Next]_vars

(* A request is a future its task keeps polling; the CA looks at every      *)
(* challenge it was told about and every change is served in the end.       *)
Fairness ==
    /\ \A r \in Replicas : WF_vars(Progress(r))
    /\ \A r \in Replicas, d \in Names : WF_vars(Validate(r, d))
    /\ \A n \in Names : WF_vars(Propagate(n))

FairSpec == Spec /\ Fairness

----------------------------------------------------------------------------
(* Properties.                                                              *)

(* When the CA is told that a challenge is ready, and until it has looked   *)
(* or the order is decided, the challenge is answered: the value is served  *)
(* by the authoritative servers, or by the running challenge server,        *)
(* whatever other domains, other processes and earlier failed orders do to  *)
(* the record set.                                                          *)
(* Cloudflare offers no way to wait: there the value is in the zone.        *)
ReadyIsAnswered ==
    \A r \in Replicas, d \in Names :
        authz[r][d] = "ready" /\ result[r] = "none" =>
            IF provider = "cloudflare"
            THEN TokenOf(r, d) \in Range(records[credentials_for(d)])
            ELSE Answered(r, d)

(* A challenge value outlives its request only when the request left before *)
(* its clean-ups or a clean-up failed: poll_order cleans up all it made,    *)
(* and one process's clean-up is never undone by another's merge.           *)
NoResidue ==
    provider # "acmedns" =>
        \A n \in Names : \A v \in Range(records[n]) :
            \/ v.order \in dropped
            \/ \E r \in Replicas : order[r] = v.order /\ pc[r] # "finalize"

(* Every request ends: no conflict is retried for ever, no wait has to wait *)
(* for another process.                                                     *)
RequestEnds == \A r \in Replicas : pc[r] # "idle" ~> pc[r] = "idle"

(* The call a process has in progress at a provider that merges.            *)
DnsCall(r) ==
    IF provider \in Merging /\ pc[r] \in Calling
    THEN [kind |-> doing[r], name |-> Name(r), value |-> Token(r)]
    ELSE None

Txt == INSTANCE TxtRecords WITH
    Owners <- Replicas,
    Names <- Names,
    Values <- Value,
    Nothing <- None,
    txt <- [n \in Names |-> IF provider \in Merging THEN Range(records[n]) ELSE {}],
    call <- [r \in Replicas |-> DnsCall(r)],
    taken <- [r \in Replicas |-> IF provider \in Merging /\ pc[r] = "wait" THEN 1 ELSE 0],
    reply <- [r \in Replicas |-> IF provider \in Merging THEN reply[r] ELSE "none"]

(* Cloudflare, Azure and Cloud DNS keep what TxtRecords promises: whatever  *)
(* reads, conflicts, retries and lost answers a call goes through, it is    *)
(* one atomic change of its own value.                                      *)
MergesEdits == Txt!TxtSpec

=============================================================================
