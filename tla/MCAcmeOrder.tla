---------------------------- MODULE MCAcmeOrder ----------------------------
EXTENDS AcmeOrder, DnsZones

(* One process with every handler and an order for two domains; two         *)
(* processes that share a zone whose provider merges.                       *)
AllDeployments ==
    {[provider |-> p, replicas |-> {"p1"}, domains |-> <<"a", "b">>] : p \in Providers}
      \cup {[provider |-> p, replicas |-> {"p1", "p2"}, domains |-> <<"a">>] : p \in Merging}

ASSUME SupportedAssumption == Supported

(* find_best_match picks the closest enclosing zone, wildcard or not, on    *)
(* names of up to three labels of which one ends like another, but for the  *)
(* two cases that DnsZones names.                                           *)
ClosestZoneWins == orders = 0 => BestMatchIsClosest({<<"a">>, <<"b", "a">>}, 3)
=============================================================================
