------------------------------ MODULE MCServer ------------------------------
EXTENDS Server

CONSTANTS r1, r2, p1, p2, q1, q2, i1, k1, k2, w1, w2, w3

NoFiles == [f \in {"password_file", "secret_id_path", "service_account_key_path"} |-> "unset"]

Base(features, given) ==
    [features |-> features, given |-> given \cup {"telemetry"},
     backend |-> "unset", url |-> "unset",
     bad |-> {}, zeros |-> {}, files |-> NoFiles, accounts |-> {}, sections |-> {},
     auth_method |-> "approle", provider |-> "unset", production |-> 1,
     aggregation_uri |-> "unset"]

Split == {"host", "username", "password", "name"}
Directory == {"acme_directory_url"}

OnMemory == Base({"memory"}, InlineSource)
OnPostgres == [Base({"postgres"}, FileSource) EXCEPT !.url = "postgres"]
OnMysql == Base({"mysql"}, Split \cup InlineSource)
OnSqlite == [Base({"sqlite"}, FileSource) EXCEPT !.url = "sqlite"]

OnVault ==
    [Base({"postgres", "vault"}, Split \cup Directory \cup
          {"role_id", "secret_id", "mount", "auth_mount", "query", "api_token"})
     EXCEPT !.provider = "cloudflare", !.sections = {"cloudflare"}]
OnGcp ==
    [Base({"postgres", "gcp"}, Directory \cup {"project_id", "dns.project_id", "service_account_key"})
     EXCEPT !.url = "postgres", !.provider = "gcloud", !.sections = {"gcloud"}]
OnAzure ==
    [Base({"mysql", "azure"}, Directory \cup {"vault_url", "subscription_id", "resource_group"})
     EXCEPT !.url = "mysql", !.provider = "azure", !.sections = {"azure"}]
OnAws == Base({"memory", "aws"}, Directory \cup {"server_url"} \cup AccountFields)
OnAcmeDns == [OnAws EXCEPT !.provider = "acmedns", !.sections = {"acmedns"}]

Deployments == {OnMemory, OnPostgres, OnMysql, OnSqlite, OnVault, OnGcp, OnAzure, OnAws, OnAcmeDns}

Settings ==
    Split \cup Directory \cup FileSource \cup InlineSource \cup AccountFields \cup
    {"role_id", "secret_id", "k8s_role", "mount", "vault_url", "project_id", "server_url",
     "subscription_id", "dns.project_id", "api_token", "allow_anonymous_credentials"}

Toggle(set, x) == IF x \in set THEN set \ {x} ELSE set \cup {x}

(* Every configuration one setting away from one that works. *)
Edits(c) ==
    {c}
    \cup {[c EXCEPT !.given = Toggle(@, x)] : x \in Settings}
    \cup {[c EXCEPT !.bad = {x}] : x \in {"host", "query", "otlp_endpoint", "addr", "certificate",
                                          "service_account_key", "azure_credential",
                                          "renewal_cron_schedule"}}
    \cup {[c EXCEPT !.zeros = {x}] : x \in {"max_token_lifetime_secs", "strict_burst_size",
                                            "permissive_period_secs"}}
    \cup {[c EXCEPT !.files[f] = v] : f \in DOMAIN NoFiles,
                                      v \in {"empty", "unreadable", "blank", "value"}}
    \cup {[c EXCEPT !.accounts = x] : x \in {{"ours"}, {"others"}, {"ours", "clashing"}, {"unusable"}}}
    \cup {[c EXCEPT !.url = x] : x \in {"unset", "postgres", "mysql", "sqlite"}}
    \cup {[c EXCEPT !.backend = x] : x \in {"memory", "postgres", "mysql", "sqlite"}}
    \cup {[c EXCEPT !.provider = x, !.sections = y] :
            x \in {"unset", "route53", "pebble", "cloudflare", "acmedns"},
            y \in {{}, {"cloudflare"}, {"acmedns"}}}
    \cup {[c EXCEPT !.production = 0], [c EXCEPT !.auth_method = "kubernetes"]}
    \cup {[c EXCEPT !.aggregation_uri = x] : x \in {"route", "other"}}

Empty == [version |-> "none", engine |-> "InnoDB", binlog |-> "ROW"]
Current == [Empty EXCEPT !.version = "current"]

Deployment(c) ==
    [config |-> c, replicas |-> {r1}, home |-> r1, probes |-> {}, requests |-> {}, bodies |-> {},
     writers |-> {}, clock |-> 0,
     install |-> Empty, start |-> "down", faults |-> 0]

Sweep == {Deployment(c) : c \in UNION {Edits(d) : d \in Deployments}}

(* Replicas of one version started together on an older database. *)
Upgrade(c, install) ==
    [Deployment(c) EXCEPT !.replicas = {r1, r2}, !.faults = 1, !.install = install]

Versions == {Empty, [Empty EXCEPT !.version = "first"]}

Upgrades ==
    {Upgrade(c, install) : c \in {OnMysql, OnSqlite, OnPostgres}, install \in Versions}
    \cup {Upgrade(OnMysql, [version |-> "first", engine |-> e, binlog |-> b]) :
            e \in {"InnoDB", "MyISAM"}, b \in {"ROW", "STATEMENT"}}

Registration(k) == [issuer |-> i1, key |-> k]

(* One that is good, one that lives too long, one meant for others. *)
Good == [iss |-> i1, key |-> k1, iat |-> 1, nbf |-> 0, exp |-> 3, aud |-> "us"]
Long == [iss |-> i1, key |-> k1, iat |-> 1, nbf |-> 0, exp |-> 5, aud |-> "us"]
Others == [iss |-> i1, key |-> k2, iat |-> 0, nbf |-> 0, exp |-> 2, aud |-> "them"]

MCTokens == {Good, Long, Others}

(* Clients of a deployment that serves. *)
Serving(c) == [Deployment(c) EXCEPT !.start = "serving", !.install = Current]

Registrants ==
    {[Serving(OnMysql) EXCEPT !.replicas = {r1, r2}, !.faults = 1, !.requests = {q1, q2},
        !.bodies = {Registration(k1), Registration(k2), Good}],
     [Serving(OnMemory) EXCEPT !.faults = 1, !.requests = {q1, q2},
        !.bodies = {Registration(k1), Registration(k2), Good}]}

TokenHolders ==
    {[Serving(OnSqlite) EXCEPT !.requests = {q1, q2}, !.clock = LastTime,
        !.bodies = {Registration(k1)} \cup MCTokens]}

(* A list written by the first replica to serve, while the other migrates. *)
Rolling ==
    {[Upgrade(c, [Empty EXCEPT !.version = "first"]) EXCEPT
        !.requests = {q1}, !.bodies = {Registration(k1), Good}] :
        c \in {OnMysql, OnSqlite, OnPostgres}}

Probed ==
    {[Serving(OnPostgres) EXCEPT !.faults = 2, !.probes = {p1, p2}]}
    \cup {[Serving(c) EXCEPT !.faults = 1, !.probes = {p1},
             !.requests = {q1}, !.bodies = {Registration(k1), Good}] : c \in {OnSqlite, OnMemory}}

(* Writers of one list kept in memory. *)
InMemory == {[Serving(OnMemory) EXCEPT !.faults = 1, !.writers = {w1, w2, w3}, !.clock = 3]}

AllPlans == Sweep \cup Upgrades \cup Registrants \cup TokenHolders \cup Rolling \cup Probed \cup InMemory

=============================================================================
