------------------------------- MODULE Access -------------------------------
(***************************************************************************)
(* Issuer credentials and the authentication of management requests        *)
(* (server/handlers/issue_credential.rs, server/auth/mod.rs).              *)
(*                                                                         *)
(* Anybody may register a key for an issuer that has none, and the primary *)
(* key of the table is the only thing that makes it the only one.  A       *)
(* management request carries a token signed with that key; the credential *)
(* is read first and the token verified with what was read.                *)
(***************************************************************************)
EXTENDS Integers, FiniteSets

CONSTANTS
    Requests, Issuers, Keys,
    UnusableKeys,  \* keys DecodingKey::from_jwk refuses
    Tokens,        \* [iss, key, iat, nbf, exp, aud]
    audiences,
    leeway_secs,
    max_token_lifetime_secs,
    LastTime,
    NoKey, NoReplica

ASSUME AccessAssumption ==
    /\ UnusableKeys \subseteq Keys /\ NoKey \notin Keys
    /\ leeway_secs \in Nat /\ max_token_lifetime_secs \in Nat \ {0}
    /\ LastTime \in Nat

ASSUME TokensAssumption == \A token \in Tokens : token.iss \in Issuers /\ token.key \in Keys

VARIABLES
    credentials,  \* the key of each issuer
    req,          \* the request each client has under way
    acked,        \* the keys whose registration was acknowledged
    now

accessVars == <<credentials, req, acked, now>>

NoRequest == [pc |-> "idle", at |-> NoReplica, body |-> <<>>, found |-> NoKey,
              answer |-> "none"]

Registrations == [issuer : Issuers, key : Keys]

AccessTypeOK(replicas) ==
    /\ credentials \in [Issuers -> Keys \cup {NoKey}]
    /\ \A q \in Requests :
        /\ req[q].pc \in {"idle", "insert", "find", "verify", "handle", "answer"}
        /\ req[q].at \in replicas \cup {NoReplica}
        /\ req[q].body \in Registrations \cup Tokens \cup {<<>>}
        /\ req[q].found \in Keys \cup {NoKey}
    /\ acked \in [Issuers -> SUBSET Keys]
    /\ now \in 0..LastTime

AccessInit ==
    /\ credentials = [i \in Issuers |-> NoKey]
    /\ req = [q \in Requests |-> NoRequest]
    /\ acked = [i \in Issuers |-> {}]
    /\ now = 0

Reply(q, answer) == [req EXCEPT ![q].pc = "answer", ![q].answer = answer]

-----------------------------------------------------------------------------
(* Registration *)

(* credential_handler *)
Register(q, r, body) ==
    /\ req[q].pc = "idle"
    /\ req' = [req EXCEPT ![q] = [NoRequest EXCEPT !.pc = "insert", !.at = r, !.body = body]]
    /\ UNCHANGED <<credentials, acked, now>>

Put(i, key) == [credentials EXCEPT ![i] = key]

insert_one_upsert(q) ==
    /\ req[q].pc = "insert"
    /\ credentials' = Put(req[q].body.issuer, req[q].body.key)
    /\ req' = Reply(q, "stored")
    /\ UNCHANGED <<acked, now>>

(* One insert; the key of the table decides between two of them. *)
insert_one(q) ==
    /\ req[q].pc = "insert"
    /\ LET i == req[q].body.issuer IN
       \/ /\ credentials[i] = NoKey
          /\ credentials' = Put(i, req[q].body.key)
          /\ req' = Reply(q, "stored")
       \/ /\ credentials[i] # NoKey
          /\ req' = Reply(q, "credentials_already_exist")
          /\ UNCHANGED credentials
    /\ UNCHANGED <<acked, now>>

(* The insert lost a lock race and was rolled back, or its commit failed   *)
(* and may have been carried out all the same.                             *)
insert_one_fails(q) ==
    /\ req[q].pc = "insert"
    /\ LET i == req[q].body.issuer IN
       \/ /\ req' = Reply(q, "write_contention")
          /\ UNCHANGED credentials
       \/ /\ req' = Reply(q, "internal_error")
          /\ UNCHANGED credentials
       \/ /\ credentials[i] = NoKey
          /\ req' = Reply(q, "internal_error")
          /\ credentials' = Put(i, req[q].body.key)
    /\ UNCHANGED <<acked, now>>

-----------------------------------------------------------------------------
(* Management requests *)

(* auth: the token's issuer is read unverified. *)
Manage(q, r, token) ==
    /\ req[q].pc = "idle"
    /\ req' = [req EXCEPT ![q] = [NoRequest EXCEPT !.pc = "find", !.at = r, !.body = token]]
    /\ UNCHANGED <<credentials, acked, now>>

find_credential(q) ==
    /\ req[q].pc = "find"
    /\ LET key == credentials[req[q].body.iss] IN
       \/ /\ key = NoKey
          /\ req' = Reply(q, "issuer_not_found")
       \/ /\ key # NoKey
          /\ req' = [req EXCEPT ![q].pc = "verify", ![q].found = key]
    /\ UNCHANGED <<credentials, acked, now>>

find_credential_fails(q) ==
    /\ req[q].pc = "find"
    /\ req' = Reply(q, "internal_error")
    /\ UNCHANGED <<credentials, acked, now>>

(* jsonwebtoken::decode under the Validation that auth sets up. *)
decode(token, key) ==
    /\ key \notin UnusableKeys
    /\ token.key = key
    /\ token.exp >= now - leeway_secs
    /\ token.nbf <= now + leeway_secs
    /\ audiences # {} => token.aud \in audiences

validate_policy(token) ==
    /\ token.exp > token.iat
    /\ token.iat <= now + leeway_secs
    /\ token.nbf <= now + leeway_secs
    /\ token.exp - token.iat <= max_token_lifetime_secs

Verify(q) ==
    /\ req[q].pc = "verify"
    /\ LET token == req[q].body IN
       \/ /\ decode(token, req[q].found) /\ validate_policy(token)
          /\ req' = [req EXCEPT ![q].pc = "handle"]
       \/ /\ ~decode(token, req[q].found)
          /\ req' = Reply(q, "jwt_error")
       \/ /\ decode(token, req[q].found) /\ ~validate_policy(token)
          /\ req' = Reply(q, "invalid_token")
    /\ UNCHANGED <<credentials, acked, now>>

(* next.run: the handler of the route. *)
RunHandler(q, answer) ==
    /\ req[q].pc = "handle"
    /\ req' = Reply(q, answer)
    /\ UNCHANGED <<credentials, acked, now>>

-----------------------------------------------------------------------------
(* The client *)

Answered(q) ==
    /\ req[q].pc = "answer"
    /\ req' = [req EXCEPT ![q] = NoRequest]
    /\ acked' = IF req[q].answer = "stored"
                THEN [acked EXCEPT ![req[q].body.issuer] = @ \cup {req[q].body.key}]
                ELSE acked
    /\ UNCHANGED <<credentials, now>>

(* The replica is gone, and with it what it kept in memory only. *)
AccessReset(r, memory) ==
    /\ req' = [q \in Requests |-> IF req[q].at = r THEN NoRequest ELSE req[q]]
    /\ credentials' = IF memory THEN [i \in Issuers |-> NoKey] ELSE credentials
    /\ acked' = IF memory THEN [i \in Issuers |-> {}] ELSE acked
    /\ UNCHANGED now

AccessTick ==
    /\ now < LastTime
    /\ now' = now + 1
    /\ UNCHANGED <<credentials, req, acked>>

-----------------------------------------------------------------------------
(* Properties *)

(* Of all registrations for an issuer, sent to several replicas, retried   *)
(* after an error or a lost answer, one key at most is ever acknowledged,  *)
(* and it is the one requests are authenticated with                       *)
(* (credential_handler, insert_one, auth).                                 *)
AckedKeyStands ==
    \A i \in Issuers : acked[i] # {} =>
        /\ acked[i] = {credentials[i]}
        /\ \A q \in Requests : (req[q].pc = "handle" /\ req[q].body.iss = i)
                                    => req[q].body.key \in acked[i]

=============================================================================
