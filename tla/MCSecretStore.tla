--------------------------- MODULE MCSecretStore ---------------------------
(* A small instance of SecretStore for TLC: every backend with the          *)
(* operations in which it differs from the others; update is store for     *)
(* every adapter but AWS.                                                   *)
EXTENDS SecretStore, TLC

(* For the questions about the secret, Vault's token does not expire. *)
SecretPlan(k, ops) ==
    [kind |-> k, ops |-> ops, leases |-> {IF k = "vault" THEN 0 ELSE MaxLease}, others |-> Values]

SecretPlans ==
    {SecretPlan("aws", {"load", "store", "update", "delete", "reachable"}),
     SecretPlan("gcp", {"load", "store", "delete", "reachable"}),
     SecretPlan("azure", {"load", "store", "delete", "reachable"}),
     SecretPlan("memory", {"load", "update", "delete", "reachable"}),
     SecretPlan("vault", {"load", "store"}),
     SecretPlan("vault", {"delete"})}

(* For the questions about the token, the operation that touches no secret. *)
TokenPlan == [kind |-> "vault", ops |-> {"reachable"}, leases |-> Leases, others |-> {}]

TokenPlans == {TokenPlan}

EveryPlan == SecretPlans \cup TokenPlans

StoreSymmetry == Permutations(Tasks) \cup Permutations(Values)

=============================================================================
