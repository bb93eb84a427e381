--------------------------- MODULE Configuration ---------------------------
(***************************************************************************)
(* What start-up decides from the configuration (config.rs, setup.rs,      *)
(* startup.rs).  A configuration is abstracted to which of its settings    *)
(* are usable:                                                             *)
(*                                                                         *)
(*   given    optional settings that count as set where they are read:     *)
(*            not blank for most, not empty for database.password, which   *)
(*            is only trimmed later, and present at all for an inline      *)
(*            service account key                                          *)
(*   bad      settings that are set and do not parse, as an inline service *)
(*            account key that is empty; "azure_credential" when the       *)
(*            environment has no source for the default Azure credential   *)
(*   zeros    numeric settings that are 0                                  *)
(*   files    for each setting that names a file, what reading it yields;  *)
(*            "empty" is a path that is set to the empty string            *)
(*   accounts the kinds of entries of server.cert.dns.acmedns.accounts;    *)
(*            "clashing" are two entries of one domain that differ         *)
(*   url      the backend whose scheme database.url has                    *)
(*                                                                         *)
(* Texts themselves play no role in what is decided.                       *)
(***************************************************************************)
EXTENDS Integers, FiniteSets

Error == "error"

Configurations ==
    [features : SUBSET STRING, given : SUBSET STRING, bad : SUBSET STRING,
     zeros : SUBSET {"max_token_lifetime_secs", "strict_burst_size", "strict_period_secs",
                     "permissive_burst_size", "permissive_period_secs"},
     files : [{"password_file", "secret_id_path", "service_account_key_path"}
                -> {"unset", "empty", "unreadable", "blank", "value"}],
     accounts : SUBSET {"ours", "others", "clashing", "unusable"}, sections : SUBSET STRING,
     backend : {"unset", "memory", "postgres", "mysql", "sqlite"},
     url : {"unset", "postgres", "mysql", "sqlite"},
     auth_method : {"approle", "kubernetes"}, provider : STRING, production : 0..1,
     aggregation_uri : {"unset", "route", "other"}]

-----------------------------------------------------------------------------
(* Config::load *)

(* The backend a build uses when none is configured. *)
DefaultBackend(features) ==
    CASE "postgres" \in features -> "postgres"
      [] "postgres" \notin features /\ "sqlite" \in features -> "sqlite"
      [] features \cap {"postgres", "sqlite"} = {} /\ "mysql" \in features -> "mysql"
      [] features \cap {"postgres", "sqlite", "mysql"} = {} -> "memory"

Backend(c) == IF c.backend = "unset" THEN DefaultBackend(c.features) ELSE c.backend

validate_database_host(c) == "host" \notin c.bad

(* Keys that look like credentials are refused. *)
validate_database_query(c) == "query" \notin c.bad

validate_management_auth(c) == "max_token_lifetime_secs" \notin c.zeros

load(c) ==
    /\ "host" \in c.given => validate_database_host(c)
    /\ "query" \in c.given => validate_database_query(c)
    /\ validate_management_auth(c)

(* Exporters are built only when telemetry is enabled. *)
init_telemetry(c) == "telemetry" \in c.given => "otlp_endpoint" \notin c.bad

-----------------------------------------------------------------------------
(* The database URL *)

has_split_connection_fields(c) ==
    \/ c.given \cap {"host", "username", "password", "name"} # {}
    \/ c.files["password_file"] \notin {"unset", "empty"}

(* Either the full URL or all of the split fields, for a network backend. *)
resolved_url(c) ==
    CASE ~has_split_connection_fields(c) ->
            IF c.url = "unset" THEN Error ELSE c.url
      [] /\ has_split_connection_fields(c)
         /\ c.url = "unset"
         /\ Backend(c) \in {"postgres", "mysql"}
         /\ {"host", "username", "password", "name"} \subseteq c.given
         /\ validate_database_host(c)
         /\ "query" \in c.given => validate_database_query(c) -> Backend(c)
      [] OTHER -> Error

(* A password file replaces the configured password. *)
load_resolved_url(c) ==
    CASE c.files["password_file"] = "unset" -> resolved_url(c)
      [] c.files["password_file"] \in {"empty", "unreadable"} -> Error
      [] c.files["password_file"] = "value" ->
            resolved_url([c EXCEPT !.given = @ \cup {"password"}])
      [] c.files["password_file"] = "blank" ->
            resolved_url([c EXCEPT !.given = @ \ {"password"}])

validate_url_scheme(c, url) == url = Backend(c)

-----------------------------------------------------------------------------
(* The backend for keys and certificates *)

(* Features are additive; the first of these wins. *)
SecretBackend(c) ==
    CASE "vault" \in c.features -> "vault"
      [] "vault" \notin c.features /\ "gcp" \in c.features -> "gcp"
      [] c.features \cap {"vault", "gcp"} = {} /\ "azure" \in c.features -> "azure"
      [] c.features \cap {"vault", "gcp", "azure"} = {} /\ "aws" \in c.features -> "aws"
      [] c.features \cap {"vault", "gcp", "azure", "aws"} = {} -> "memory"

resolve_secret_id(c) ==
    "secret_id" \in c.given \/ c.files["secret_id_path"] = "value"

VaultSettings(c) ==
    /\ IF c.auth_method = "approle"
       THEN "role_id" \in c.given /\ resolve_secret_id(c)
       ELSE "k8s_role" \in c.given
    /\ "addr" \notin c.bad
    /\ {"mount", "auth_mount"} \subseteq c.given

(* Inline keys come before key files, and both may be left out. *)
GcpSettings(c) ==
    /\ "project_id" \in c.given
    /\ \/ "allow_anonymous_credentials" \in c.given
       \/ /\ "service_account_key" \in c.given
          /\ "service_account_key" \notin c.bad
       \/ /\ "service_account_key" \notin c.given
          /\ c.files["service_account_key_path"] \in {"unset", "value"}

AzureSettings(c) == "vault_url" \in c.given /\ "azure_credential" \notin c.bad

build_crypto_storage(c) ==
    CASE SecretBackend(c) = "vault" -> VaultSettings(c)
      [] SecretBackend(c) = "gcp" -> GcpSettings(c)
      [] SecretBackend(c) = "azure" -> AzureSettings(c)
      [] SecretBackend(c) \in {"aws", "memory"} -> TRUE

-----------------------------------------------------------------------------
(* The DNS provider *)

AccountFields == {"acmedns.username", "acmedns.password", "acmedns.subdomain"}

default_account(c) == AccountFields \subseteq c.given

validate_acmedns(c) ==
    /\ "server_url" \in c.given
    /\ c.given \cap AccountFields \in {{}, AccountFields}
    /\ default_account(c) \/ c.accounts # {}
    /\ "unusable" \notin c.accounts

validate_azure(c) == {"subscription_id", "resource_group"} \subseteq c.given

validate_gcloud(c) == "dns.project_id" \in c.given

validate_cloudflare(c) == "api_token" \in c.given

DnsProviderKind(c) ==
    IF c.provider # "unset" THEN c.provider
    ELSE IF c.production = 1 THEN "route53" ELSE "pebble"

resolve(c) ==
    LET kind == DnsProviderKind(c)
        usable == \/ kind \in {"route53", "pebble"}
                  \/ kind = "cloudflare" /\ validate_cloudflare(c)
                  \/ kind = "gcloud" /\ validate_gcloud(c)
                  \/ kind = "azure" /\ validate_azure(c)
                  \/ kind = "acmedns" /\ validate_acmedns(c)
    IN  IF usable /\ (kind \in {"route53", "pebble"} \/ kind \in c.sections)
        THEN kind ELSE Error

(* Providers that need a cloud SDK need its feature, Azure a source of     *)
(* credentials; ACME-DNS needs an account for the domain of the server and *)
(* refuses two that differ for one domain.                                 *)
build_dns_challenge_handler(c, kind) ==
    CASE kind = "route53" -> "aws" \in c.features
      [] kind = "gcloud" -> "gcp" \in c.features
      [] kind = "azure" -> "azure" \in c.features /\ "azure_credential" \notin c.bad
      [] kind = "acmedns" -> /\ "clashing" \notin c.accounts
                             /\ default_account(c) \/ "ours" \in c.accounts
      [] kind \in {"cloudflare", "pebble"} -> TRUE

(* CertificateManagerBuilder::build for the ACME strategy, and the job     *)
(* that renews.                                                            *)
build_manager(c) == "acme_directory_url" \in c.given

setup_cert_renewal_scheduler(c) == "renewal_cron_schedule" \notin c.bad

-----------------------------------------------------------------------------
(* Static certificates, for builds without the ACME feature *)

FileSource == {"certificate_path", "signing_key_path"}
InlineSource == {"certificate", "signing_key"}

CertSource_first(c) ==
    CASE FileSource \subseteq c.given -> "filesystem"
      [] ~(FileSource \subseteq c.given) /\ InlineSource \subseteq c.given -> "inline"
      [] OTHER -> Error

(* Both from files or both inline. *)
CertSource(c) ==
    CASE c.given \cap (FileSource \cup InlineSource) = FileSource -> "filesystem"
      [] c.given \cap (FileSource \cup InlineSource) = InlineSource -> "inline"
      [] OTHER -> Error

-----------------------------------------------------------------------------
(* HttpServer::new *)

build_governor_configs(c) ==
    c.zeros \cap {"strict_burst_size", "strict_period_secs",
                  "permissive_burst_size", "permissive_period_secs"} = {}

validate_aggregation_uri(c) == c.aggregation_uri \in {"unset", "route"}

=============================================================================
