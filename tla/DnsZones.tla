------------------------------ MODULE DnsZones ------------------------------
(* The zone a challenge record is written to: find_best_match, over names   *)
(* as sequences of characters, against zones as sequences of labels.        *)
EXTENDS Integers, Sequences, SequencesExt

EndsWith(s, suffix) == IsSuffix(suffix, s)

Prefix(s, n) == SubSeq(s, 1, n)

(* Mutant: any suffix matches, label or not.                                *)
Matches_suffix(lookup, zone) == EndsWith(lookup, zone)

(* A wildcard zone matches below its parent, any other zone matches itself  *)
(* and the names under it.                                                  *)
Matches(lookup, zone) ==
    IF IsPrefix(<<"*", ".">>, zone)
    THEN LET stripped == SubSeq(zone, 3, Len(zone))
         IN  /\ EndsWith(lookup, stripped)
             /\ "." \in Range(Prefix(lookup, Len(lookup) - Len(stripped)))
    ELSE \/ lookup = zone
         \/ Len(lookup) > Len(zone) /\ EndsWith(lookup, <<".">> \o zone)

(* The first of the longest matching zones, as its place in the list.       *)
find_best_match(lookup, zones) ==
    LET matching == {i \in DOMAIN zones : Matches(lookup, zones[i])}
        longest == {i \in matching : \A j \in matching : Len(zones[j]) <= Len(zones[i])}
    IN  IF matching = {} THEN 0 ELSE CHOOSE i \in longest : \A j \in longest : i <= j

Dotted(labels) ==
    FoldLeft(LAMBDA name, label : IF name = <<>> THEN label ELSE name \o <<".">> \o label, <<>>, labels)

(* Names of one to n labels.                                                *)
LabelSeqs(labels, n) == UNION {[1..k -> labels] : k \in 1..n}

Star == <<"*">>

(* Zones of one to n labels, of which the first may be the wildcard.        *)
ZoneSeqs(labels, n) == LabelSeqs(labels, n) \union {<<Star>> \o p : p \in LabelSeqs(labels, n - 1)}

IsWildcard(zone) == Head(zone) = Star

(* Reference, on labels: a wildcard zone covers the names below its parent, *)
(* any other zone itself and the names below it.                            *)
Covers(zone, lookup) ==
    IF IsWildcard(zone) THEN IsStrictSuffix(Tail(zone), lookup) ELSE IsSuffix(zone, lookup)

(* How close a covering zone is: p, then *.p, then x.p.                     *)
Depth(zone) == IF IsWildcard(zone) THEN 2 * Len(zone) - 1 ELSE 2 * Len(zone)

(* The first of the closest zones that cover the name.                      *)
ClosestZone(lookup, zones) ==
    LET covering == {i \in DOMAIN zones : Covers(zones[i], lookup)}
    IN  IF covering = {} THEN 0
        ELSE CHOOSE i \in covering :
                \A j \in covering : \/ Depth(zones[j]) < Depth(zones[i])
                                    \/ Depth(zones[j]) = Depth(zones[i]) /\ i <= j

(* The parent of a wildcard zone ends the name in the middle of a label, as *)
(* *.a and c.ba: ends_with does not look for the dot.                       *)
SplitsLabel(zone, lookup) ==
    /\ IsWildcard(zone)
    /\ EndsWith(Dotted(lookup), Dotted(Tail(zone)))
    /\ ~IsSuffix(Tail(zone), lookup)

(* A wildcard zone and a sibling of one letter, *.a and c.a, have names of  *)
(* one length, and the length is all that ranks them.                       *)
LooksAlike(z1, z2) == IsWildcard(z1) # IsWildcard(z2) /\ Len(Dotted(z1)) = Len(Dotted(z2))

(* find_best_match returns the closest enclosing zone: a zone whose name    *)
(* merely ends like the domain is not it, nor is a wider one listed first.  *)
(* Two cases with a wildcard zone are excepted, in which the code takes     *)
(* another one: SplitsLabel and LooksAlike.                                 *)
BestMatchIsClosest(labels, n) ==
    \A lookup \in LabelSeqs(labels, n), z1, z2 \in ZoneSeqs(labels, n) :
        \/ SplitsLabel(z1, lookup) \/ SplitsLabel(z2, lookup) \/ LooksAlike(z1, z2)
        \/ find_best_match(Dotted(lookup), <<Dotted(z1), Dotted(z2)>>) = ClosestZone(lookup, <<z1, z2>>)
=============================================================================
