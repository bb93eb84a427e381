------------------------- MODULE AcmeOrder_proofs -------------------------
(***************************************************************************)
(* Proofs about AcmeOrder, for any set of processes, domains and           *)
(* deployments and any number of orders, failed calls and restarts.        *)
(***************************************************************************)
EXTENDS AcmeOrder, FiniteSetTheorems, SequenceTheorems, WellFoundedInduction, TLAPS

----------------------------------------------------------------------------
(* Sequences.                                                               *)

(* The least number principle, for a set of numbers.                        *)
LEMMA Least ==
    ASSUME NEW S, S \subseteq Nat, S # {}
    PROVE  \E x \in S : \A y \in S : x <= y
  <1> DEFINE R == OpToRel(<, Nat)
  <1>1. IsWellFoundedOn(R, Nat)
    BY NatLessThanWellFounded
  <1>2. \A x, y \in Nat : ~(<<y, x>> \in R) => x <= y
    BY DEF OpToRel
  <1> HIDE DEF R
  <1>3. PICK x \in S : \A y \in S : ~(<<y, x>> \in R)
    BY <1>1, WFMin
  <1> QED BY <1>2, <1>3

LEMMA AppendRange ==
    ASSUME NEW S, NEW s \in Seq(S), NEW v \in S
    PROVE  Range(Append(s, v)) = Range(s) \cup {v}
  <1>1. /\ DOMAIN Append(s, v) = 1..(Len(s) + 1)
        /\ DOMAIN s = 1..Len(s)
        /\ Append(s, v)[Len(s) + 1] = v
        /\ \A k \in 1..Len(s) : Append(s, v)[k] = s[k]
        /\ Len(s) \in Nat
    OBVIOUS
  <1>2. ASSUME NEW x PROVE x \in Range(Append(s, v)) <=> x \in Range(s) \cup {v}
    BY <1>1 DEF Range
  <1> QED BY <1>2

(* f is the function that Without(s, v) reads the filtered sequence from.   *)
Filters(f, s, v, n) ==
    f = [k \in 0..n |->
            IF k = 0 THEN <<>>
            ELSE IF s[k] = v THEN f[k - 1] ELSE Append(f[k - 1], s[k])]

LEMMA FilterExists ==
    ASSUME NEW s, Len(s) \in Nat, NEW v, NEW n \in 0..Len(s)
    PROVE  \E f : Filters(f, s, v, n)
  <1> DEFINE Bad == {k \in 0..Len(s) : ~ \E f : Filters(f, s, v, k)}
  <1> SUFFICES ASSUME Bad # {} PROVE FALSE
    OBVIOUS
  <1>0. Bad \subseteq Nat
    OBVIOUS
  <1>1. PICK m \in Bad : \A k \in Bad : m <= k
    <2> HIDE DEF Bad
    <2> QED BY <1>0, Least
  <1>2. m \in Nat /\ m <= Len(s) /\ ~ \E f : Filters(f, s, v, m)
    BY <1>1
  <1>3. CASE m = 0
    <2>1. Filters([k \in 0..0 |-> <<>>], s, v, 0)
      BY DEF Filters
    <2> QED BY <1>2, <1>3, <2>1
  <1>4. CASE m # 0
    <2>1. m - 1 \in 0..Len(s) /\ m - 1 \notin Bad
      BY <1>1, <1>2, <1>4
    <2>2. PICK f : Filters(f, s, v, m - 1)
      BY <2>1
    <2> DEFINE last == IF s[m] = v THEN f[m - 1] ELSE Append(f[m - 1], s[m])
               g == [k \in 0..m |-> IF k = m THEN last ELSE f[k]]
               h == [k \in 0..m |->
                        IF k = 0 THEN <<>>
                        ELSE IF s[k] = v THEN g[k - 1] ELSE Append(g[k - 1], s[k])]
    <2>3. ASSUME NEW k \in 0..m PROVE g[k] = h[k]
      <3>1. CASE k = m
        BY <1>2, <1>4, <3>1
      <3>2. CASE k # m
        <4>1. k \in 0..(m - 1)
          BY <1>2, <3>2
        <4>2. f[k] = IF k = 0 THEN <<>>
                     ELSE IF s[k] = v THEN f[k - 1] ELSE Append(f[k - 1], s[k])
          BY <2>2, <4>1 DEF Filters
        <4>3. g[k] = f[k]
          BY <3>2
        <4>4. k # 0 => g[k - 1] = f[k - 1]
          BY <1>2, <4>1
        <4> HIDE DEF g
        <4>5. QED BY <4>2, <4>3, <4>4
      <3> QED BY <3>1, <3>2
    <2>4. g = h
      BY <2>3
    <2>5. Filters(g, s, v, m)
      BY <2>4 DEF Filters
    <2> QED BY <1>2, <2>5
  <1> QED BY <1>3, <1>4

LEMMA WithoutIsFilter ==
    ASSUME NEW s, Len(s) \in Nat, NEW v
    PROVE  \E f : Filters(f, s, v, Len(s)) /\ Without(s, v) = f[Len(s)]
  <1> DEFINE f == CHOOSE f : Filters(f, s, v, Len(s))
  <1>1. Filters(f, s, v, Len(s))
    BY FilterExists
  <1>2. Without(s, v) = f[Len(s)]
    BY DEF Without, Filters
  <1> QED BY <1>1, <1>2

(* Without drops v and nothing else.                                        *)
LEMMA WithoutRange ==
    ASSUME NEW S, NEW s \in Seq(S), NEW v
    PROVE  /\ Without(s, v) \in Seq(S)
           /\ Range(Without(s, v)) = Range(s) \ {v}
  <1>1. PICK f : Filters(f, s, v, Len(s)) /\ Without(s, v) = f[Len(s)]
    BY WithoutIsFilter
  <1> DEFINE Good(k) == f[k] \in Seq(S) /\ Range(f[k]) = {s[i] : i \in 1..k} \ {v}
             Bad == {k \in 0..Len(s) : ~Good(k)}
  <1>2. \A k \in 0..Len(s) :
           f[k] = IF k = 0 THEN <<>>
                  ELSE IF s[k] = v THEN f[k - 1] ELSE Append(f[k - 1], s[k])
    BY <1>1 DEF Filters
  <1>3. Bad = {}
    <2> SUFFICES ASSUME Bad # {} PROVE FALSE
      OBVIOUS
    <2>0. Bad \subseteq Nat
      OBVIOUS
    <2>1. PICK m \in Bad : \A k \in Bad : m <= k
      <3> HIDE DEF Bad
      <3> QED BY <2>0, Least
    <2>2. m \in 0..Len(s) /\ ~Good(m)
      BY <2>1
    <2>3. CASE m = 0
      <3>1. f[0] = <<>>
        BY <1>2
      <3>2. f[0] \in Seq(S) /\ Range(f[0]) = {}
        BY <3>1 DEF Range
      <3>3. {s[i] : i \in 1..0} = {}
        OBVIOUS
      <3> QED BY <2>2, <2>3, <3>2, <3>3
    <2>4. CASE m # 0
      <3>0. m - 1 \in 0..Len(s) /\ m \in 1..Len(s) /\ ~(m <= m - 1)
        BY <2>2, <2>4
      <3>1. m - 1 \notin Bad
        <4> HIDE DEF Bad
        <4> QED BY <2>1, <3>0
      <3>2. f[m - 1] \in Seq(S) /\ Range(f[m - 1]) = {s[i] : i \in 1..(m - 1)} \ {v}
        BY <3>0, <3>1
      <3>3. s[m] \in S /\ {s[i] : i \in 1..m} = {s[i] : i \in 1..(m - 1)} \cup {s[m]}
        BY <3>0
      <3>4. CASE s[m] = v
        BY <1>2, <2>2, <2>4, <3>2, <3>3, <3>4
      <3>5. CASE s[m] # v
        <4>1. f[m] = Append(f[m - 1], s[m])
          BY <1>2, <2>2, <2>4, <3>5
        <4>2. Range(Append(f[m - 1], s[m])) = Range(f[m - 1]) \cup {s[m]}
          BY <3>2, <3>3, AppendRange
        <4>3. f[m] \in Seq(S)
          BY <3>2, <3>3, <4>1
        <4>4. Range(f[m]) = {s[i] : i \in 1..m} \ {v}
          BY <3>2, <3>3, <3>5, <4>1, <4>2
        <4> QED BY <2>2, <4>3, <4>4
      <3> QED BY <3>4, <3>5
    <2> QED BY <2>3, <2>4
  <1>4. Good(Len(s))
    <2> HIDE DEF Good
    <2> QED BY <1>3
  <1>5. Range(s) = {s[i] : i \in 1..Len(s)}
    BY DEF Range
  <1> QED BY <1>1, <1>4, <1>5

----------------------------------------------------------------------------
(* The inductive invariant.                                                 *)

(* Where a request is tells what it has in hand; orders are numbered apart. *)
ShapeInv ==
    /\ \A r \in Replicas :
          /\ pc[r] = "idle" <=> order[r] = 0
          /\ order[r] <= orders
          /\ pc[r] \in Calling \cup {"ready"} => todo[r] # <<>>
          /\ pc[r] = "finalize" => todo[r] = <<>>
          /\ pc[r] \in {"idle", "account", "create", "save", "newOrder", "authz", "ready"}
                => doing[r] = "create"
          /\ pc[r] \in {"cleanup", "finalize"} => doing[r] = "delete"
          /\ pc[r] = "bind" => provider = "http01"
          /\ todo[r] # <<>> \/ cleanups[r] # <<>> => Domains # <<>>
    /\ \A r, q \in Replicas : order[r] = order[q] /\ order[r] # 0 => r = q

(* Between a read of a record set and the write it leads to the version     *)
(* tells whether the record set is still what was read.                     *)
SeenInv ==
    \A r \in Replicas : pc[r] = "edit" /\ provider \in {"azure", "gcloud"} =>
        /\ seen[r] # None
        /\ seen[r].etag <= etag[Name(r)]
        /\ seen[r].etag = etag[Name(r)] => seen[r].recs = records[Name(r)]

OrderInv == TypeOK /\ ShapeInv /\ SeenInv

(* The request of r is still going to remove v.                             *)
Owed(r, v) ==
    /\ order[r] = v.order
    /\ \/ doing[r] = "create" /\ v.domain \in Range(cleanups[r])
       \/ doing[r] = "create" /\ pc[r] \in Calling \cup {"ready"} /\ v.domain = current(r)
       \/ doing[r] = "delete" /\ v.domain \in Range(todo[r])

ResidueInv ==
    provider # "acmedns" =>
        /\ \A n \in Names : \A v \in Range(records[n]) :
              /\ v.domain = n
              /\ v.order \in dropped \/ \E r \in Replicas : Owed(r, v)
        /\ \A r \in Replicas : pc[r] = "wait" /\ doing[r] = "delete" =>
              Token(r) \notin Range(records[Name(r)])

----------------------------------------------------------------------------
(* Types.                                                                   *)

LEMMA ProviderIsKnown == TypeOK => provider \in Providers /\ Domains \in Seq(Names)
  BY DeploymentAssumption DEF TypeOK, provider, Domains

(* The value a request is about to present or to remove.                    *)
LEMMA TokenType ==
    ASSUME TypeOK, ShapeInv, NEW r \in Replicas, pc[r] \in Calling \cup {"ready"}
    PROVE  /\ current(r) \in Names
           /\ order[r] \in 1..MaxOrders
           /\ Token(r) \in Value
           /\ Name(r) \in Names
           /\ Tail(todo[r]) \in Seq(Names)
  <1>1. todo[r] \in Seq(Names) /\ todo[r] # <<>>
    BY DEF TypeOK, ShapeInv
  <1>2. current(r) \in Names /\ Tail(todo[r]) \in Seq(Names)
    BY <1>1 DEF current
  <1>3. order[r] \in 0..MaxOrders /\ order[r] # 0
    BY DEF TypeOK, ShapeInv, Calling
  <1>4. order[r] \in 1..MaxOrders
    BY <1>3, BoundAssumption
  <1>5. Domains \in Seq(Names) /\ Domains # <<>>
    BY <1>1, ProviderIsKnown DEF ShapeInv
  <1>6. Domains[1] \in Names
    BY <1>5
  <1>7. Name(r) \in Names
    BY <1>2, <1>6 DEF Name, credentials_for
  <1> QED BY <1>2, <1>4, <1>7 DEF Token, Value

(* What a request has in hand, typed: the part of TypeOK that the end of a  *)
(* provider call or of the request touches.                                 *)
TaskTypeOK ==
    /\ authz \in [Replicas -> [Names -> {"none", "pending", "ready", "valid", "invalid"}]]
    /\ pc \in [Replicas -> Steps]
    /\ order \in [Replicas -> 0..MaxOrders]
    /\ todo \in [Replicas -> Seq(Names)]
    /\ cleanups \in [Replicas -> Seq(Names)]
    /\ doing \in [Replicas -> {"create", "delete"}]
    /\ seen \in [Replicas -> Read \cup {None}]
    /\ tries \in [Replicas -> 0..CONFLICT_RETRIES]
    /\ reply \in [Replicas -> {"none", "ok", "err"}]
    /\ result \in [Replicas -> {"none", "ready", "invalid"}]
    /\ dropped \subseteq 1..MaxOrders

LEMMA EndType ==
    ASSUME TypeOK, NEW r \in Replicas, End(r), dropped' \subseteq 1..MaxOrders,
           reply' \in [Replicas -> {"none", "ok", "err"}]
    PROVE  TaskTypeOK'
  <1> USE RetryAssumption, BoundAssumption
  <1>1. authz' \in [Replicas -> [Names -> {"none", "pending", "ready", "valid", "invalid"}]]
    BY DEF End, TypeOK
  <1>2. /\ pc' \in [Replicas -> Steps]
        /\ order' \in [Replicas -> 0..MaxOrders]
        /\ doing' \in [Replicas -> {"create", "delete"}]
        /\ tries' \in [Replicas -> 0..CONFLICT_RETRIES]
        /\ result' \in [Replicas -> {"none", "ready", "invalid"}]
    BY DEF End, Goto, TypeOK, Steps
  <1>3. /\ todo' \in [Replicas -> Seq(Names)]
        /\ cleanups' \in [Replicas -> Seq(Names)]
        /\ seen' \in [Replicas -> Read \cup {None}]
    BY DEF End, TypeOK
  <1> QED BY <1>1, <1>2, <1>3 DEF TaskTypeOK

LEMMA ReturnType ==
    ASSUME TypeOK, ShapeInv, NEW r \in Replicas, pc[r] \in Calling, ReturnOk(r) \/ ReturnErr(r)
    PROVE  TaskTypeOK'
  <1> USE RetryAssumption, BoundAssumption
  <1>1. Tail(todo[r]) \in Seq(Names) /\ order[r] \in 1..MaxOrders
    BY TokenType
  <1>2. reply' \in [Replicas -> {"none", "ok", "err"}]
    BY DEF ReturnOk, ReturnErr, TypeOK
  <1>3. CASE ReturnOk(r)
    <2>1. pc' \in [Replicas -> Steps]
      BY <1>3 DEF ReturnOk, Goto, TypeOK, Steps
    <2>2. todo' \in [Replicas -> Seq(Names)]
      BY <1>1, <1>3 DEF ReturnOk, TypeOK
    <2>3. seen' \in [Replicas -> Read \cup {None}] /\ tries' \in [Replicas -> 0..CONFLICT_RETRIES]
      BY <1>3 DEF ReturnOk, TypeOK
    <2> QED BY <1>2, <1>3, <2>1, <2>2, <2>3 DEF ReturnOk, TypeOK, TaskTypeOK
  <1>4. CASE ReturnErr(r) /\ doing[r] = "create"
    <2>1. End(r) /\ dropped' \subseteq 1..MaxOrders
      BY <1>1, <1>4 DEF ReturnErr, Abandon, TypeOK
    <2> QED BY <1>2, <2>1, EndType
  <1>5. CASE ReturnErr(r) /\ doing[r] # "create"
    <2>1. /\ Goto(r, "cleanup")
          /\ todo' = [todo EXCEPT ![r] = Tail(@)]
          /\ seen' = [seen EXCEPT ![r] = None]
          /\ tries' = [tries EXCEPT ![r] = 0]
          /\ dropped' = dropped \cup {order[r]}
          /\ UNCHANGED <<order, cleanups, doing, result, authz>>
      BY <1>5 DEF ReturnErr
    <2>2. pc' \in [Replicas -> Steps]
      BY <2>1 DEF Goto, TypeOK, Steps
    <2>3. todo' \in [Replicas -> Seq(Names)] /\ dropped' \subseteq 1..MaxOrders
      BY <1>1, <2>1 DEF TypeOK
    <2>4. seen' \in [Replicas -> Read \cup {None}] /\ tries' \in [Replicas -> 0..CONFLICT_RETRIES]
      BY <2>1 DEF TypeOK
    <2> QED BY <1>2, <2>1, <2>2, <2>3, <2>4 DEF TypeOK, TaskTypeOK
  <1> QED BY <1>3, <1>4, <1>5

(* What a provider makes of a record set.                                   *)
LEMMA EditedIs ==
    ASSUME TypeOK, ShapeInv, NEW r \in Replicas, pc[r] \in Calling, NEW s \in Seq(Value)
    PROVE  /\ Edited(r, s) \in Seq(Value)
           /\ Range(Edited(r, s)) = IF doing[r] = "create" THEN Range(s) \cup {Token(r)}
                                                            ELSE Range(s) \ {Token(r)}
  <1>1. Token(r) \in Value
    BY TokenType
  <1>2. Append(s, Token(r)) \in Seq(Value) /\ Range(Append(s, Token(r))) = Range(s) \cup {Token(r)}
    BY <1>1, AppendRange
  <1>3. Without(s, Token(r)) \in Seq(Value) /\ Range(Without(s, Token(r))) = Range(s) \ {Token(r)}
    BY WithoutRange
  <1>4. Token(r) \in Range(s) => Range(s) = Range(s) \cup {Token(r)}
    OBVIOUS
  <1> QED BY <1>2, <1>3, <1>4 DEF Edited, With

(* The accepted change of a record set, for every provider that keeps one   *)
(* record set per domain: a create adds the value of the call and no other, *)
(* a delete removes it; a provider that merges removes nothing else.        *)
EditFacts(r) ==
    LET old == Range(records[Name(r)])
        new == Range(ProviderEdit(r).recs)
    IN  /\ Name(r) = current(r)
        /\ new \subseteq old \cup {Token(r)}
        /\ doing[r] = "delete" => Token(r) \notin new
        /\ provider \in Merging =>
              new = IF doing[r] = "create" THEN old \cup {Token(r)} ELSE old \ {Token(r)}

LEMMA EditIs ==
    ASSUME OrderInv, NEW r \in Replicas, pc[r] = "edit"
    PROVE  /\ ProviderEdit(r).recs \in Seq(Value)
           /\ provider # "acmedns" /\ ProviderEdit(r).accepted => EditFacts(r)
  <1> DEFINE n == Name(r)
             t == Token(r)
  <1>1. /\ provider \in Providers /\ doing[r] \in {"create", "delete"}
        /\ t \in Value /\ current(r) \in Names
        /\ \A d \in Names : records[d] \in Seq(Value)
    BY ProviderIsKnown, TokenType DEF OrderInv, TypeOK, Calling
  <1>2. ASSUME NEW s \in Seq(Value)
        PROVE  /\ Edited(r, s) \in Seq(Value)
               /\ Range(Edited(r, s)) = IF doing[r] = "create" THEN Range(s) \cup {t}
                                                                ELSE Range(s) \ {t}
    BY EditedIs DEF OrderInv, Calling
  <1>3. provider # "acmedns" => n = current(r)
    BY DEF Name, credentials_for
  <1>4. Range(<<>>) = {} /\ Range(<<t>>) = {t} /\ <<>> \in Seq(Value) /\ <<t>> \in Seq(Value)
    BY <1>1 DEF Range
  <1>5. CASE provider = "route53"
    <2>1. ProviderEdit(r) = Route53Edit(r)
      BY <1>5 DEF ProviderEdit
    <2> QED BY <1>1, <1>3, <1>4, <1>5, <2>1 DEF Route53Edit, EditFacts, Merging
  <1>6. CASE provider \in {"cloudflare", "http01"}
    <2>1. ProviderEdit(r).recs = Edited(r, records[n])
      BY <1>6 DEF ProviderEdit, CloudflareEdit, Http01Edit
    <2> QED BY <1>1, <1>2, <1>3, <1>6, <2>1 DEF EditFacts
  <1>7. CASE provider = "pebble"
    <2>1. ProviderEdit(r).recs = IF doing[r] = "create" THEN Edited(r, records[n]) ELSE <<>>
      BY <1>7 DEF ProviderEdit, PebbleEdit
    <2> QED BY <1>1, <1>2, <1>3, <1>4, <1>7, <2>1 DEF EditFacts, Merging
  <1>8. CASE provider = "acmedns"
    <2> DEFINE all == Append(records[n], t)
    <2>1. ProviderEdit(r).recs =
            IF doing[r] = "create"
            THEN SubSeq(all, IF Len(all) > 2 THEN Len(all) - 1 ELSE 1, Len(all))
            ELSE records[n]
      BY <1>8 DEF ProviderEdit, AcmeDnsEdit
    <2>2. n \in Names
      BY TokenType DEF OrderInv, Calling
    <2>3. all \in Seq(Value) /\ Len(all) \in Nat /\ Len(all) >= 1
      BY <1>1, <2>2
    <2> HIDE DEF all
    <2>4. SubSeq(all, IF Len(all) > 2 THEN Len(all) - 1 ELSE 1, Len(all)) \in Seq(Value)
      BY <2>3
    <2> QED BY <1>1, <1>8, <2>1, <2>2, <2>4
  <1>9. CASE provider \in {"azure", "gcloud"}
    <2>1. seen[r] \in Read /\ seen[r].recs \in Seq(Value) /\ seen[r].etag \in Nat
      BY <1>9 DEF OrderInv, TypeOK, SeenInv, Read
    <2>2. ProviderEdit(r).recs = Edited(r, seen[r].recs)
      BY <1>9 DEF ProviderEdit, AzureEdit, GcloudEdit
    <2>3. ASSUME ProviderEdit(r).accepted
          PROVE  \/ seen[r].recs = records[n]
                 \/ Edited(r, seen[r].recs) = <<>> /\ records[n] = <<>>
      <3>1. CASE provider = "gcloud"
        BY <2>3, <3>1 DEF ProviderEdit, GcloudEdit
      <3>2. CASE provider = "azure"
        BY <2>3, <3>2 DEF ProviderEdit, AzureEdit, OrderInv, SeenInv
      <3> QED BY <1>9, <3>1, <3>2
    <2>4. ASSUME ProviderEdit(r).accepted PROVE EditFacts(r)
      <3>1. CASE seen[r].recs = records[n]
        BY <1>1, <1>2, <1>3, <1>9, <2>1, <2>2, <3>1 DEF EditFacts
      <3>2. CASE Edited(r, seen[r].recs) = <<>> /\ records[n] = <<>>
        <4>1. doing[r] = "delete"
          BY <1>1, <1>2, <1>4, <2>1, <3>2
        <4> QED BY <1>1, <1>3, <1>4, <1>9, <2>2, <3>2, <4>1 DEF EditFacts
      <3> QED BY <2>3, <2>4, <3>1, <3>2
    <2> QED BY <1>2, <2>1, <2>2, <2>4
  <1> QED BY <1>1, <1>5, <1>6, <1>7, <1>8, <1>9 DEF Providers

(* The zone and the challenge server, typed.                                *)
WorldTypeOK ==
    /\ records \in [Names -> Seq(Value)]
    /\ etag \in [Names -> Nat]
    /\ served \in [Names -> Seq(Value)]
    /\ server \in [Replicas -> {"down", "up", "stopping"}]

LEMMA WriteType ==
    ASSUME OrderInv, NEW r \in Replicas, pc[r] = "edit", Write(r)
    PROVE  WorldTypeOK'
  <1>1. Name(r) \in Names /\ ProviderEdit(r).recs \in Seq(Value)
    BY EditIs, TokenType DEF OrderInv, Calling
  <1>2. records' = [records EXCEPT ![Name(r)] = ProviderEdit(r).recs]
    BY DEF Write
  <1>3. records' \in [Names -> Seq(Value)]
    BY <1>1, <1>2 DEF OrderInv, TypeOK
  <1>4. etag' \in [Names -> Nat]
    BY <1>1 DEF Write, OrderInv, TypeOK
  <1>5. served' \in [Names -> Seq(Value)] /\ server' \in [Replicas -> {"down", "up", "stopping"}]
    BY <1>3 DEF Write, ServerAfter, OrderInv, TypeOK
  <1> QED BY <1>3, <1>4, <1>5 DEF WorldTypeOK

LEMMA TypeStep ==
    ASSUME OrderInv, [Next]_vars
    PROVE  TypeOK'
  <1> USE BoundAssumption, RetryAssumption
  <1>1. ASSUME NEW r \in Replicas, Start(r) PROVE TypeOK'
    BY <1>1 DEF Start, Goto, zone, acct, OrderInv, TypeOK, ShapeInv, Steps
  <1>2. ASSUME NEW r \in Replicas, LoadAccount(r) PROVE TypeOK'
    BY <1>2 DEF LoadAccount, Goto, zone, env, OrderInv, TypeOK, ShapeInv, Steps
  <1>3. ASSUME NEW r \in Replicas, CreateAccount(r) PROVE TypeOK'
    BY <1>3 DEF CreateAccount, Goto, NeedsAccount, zone, acct, env, OrderInv, TypeOK,
       ShapeInv, Steps
  <1>4. ASSUME NEW r \in Replicas, SaveAccount(r) PROVE TypeOK'
    BY <1>4 DEF SaveAccount, Goto, zone, env, OrderInv, TypeOK, ShapeInv, Steps
  <1>5. ASSUME NEW r \in Replicas, NewOrder(r) PROVE TypeOK'
    <2>1. PICK still \in SUBSET {d \in Names : authz[r][d] = "valid"} :
             authz' = [authz EXCEPT ![r] = [d \in Names |-> IF d \in still THEN "valid" ELSE "pending"]]
      BY <1>5 DEF NewOrder
    <2>2. authz' \in [Replicas -> [Names -> {"none", "pending", "ready", "valid", "invalid"}]]
      BY <2>1 DEF OrderInv, TypeOK
    <2>3. todo' \in [Replicas -> Seq(Names)] /\ pc' \in [Replicas -> Steps]
      BY <1>5, ProviderIsKnown DEF NewOrder, Goto, OrderInv, TypeOK, Steps
    <2> QED BY <1>5, <2>2, <2>3 DEF NewOrder, zone, acct, env, OrderInv, TypeOK
  <1>6. ASSUME NEW r \in Replicas, NextAuthorization(r) PROVE TypeOK'
    <2>1. Tail(todo[r]) \in Seq(Names)
      BY <1>6 DEF NextAuthorization, OrderInv, TypeOK
    <2>2. todo' \in [Replicas -> Seq(Names)] /\ pc' \in [Replicas -> Steps]
      BY <1>6, <2>1 DEF NextAuthorization, Goto, FirstStep, OrderInv, TypeOK, Steps
    <2> QED BY <1>6, <2>2 DEF NextAuthorization, zone, acct, env, OrderInv, TypeOK
  <1>7. ASSUME NEW r \in Replicas, SetReady(r) PROVE TypeOK'
    <2>1. current(r) \in Names /\ Tail(todo[r]) \in Seq(Names)
      BY <1>7, TokenType DEF SetReady, OrderInv
    <2>2. authz' \in [Replicas -> [Names -> {"none", "pending", "ready", "valid", "invalid"}]]
      BY <1>7, <2>1 DEF SetReady, OrderInv, TypeOK
    <2>3. /\ cleanups' \in [Replicas -> Seq(Names)] /\ todo' \in [Replicas -> Seq(Names)]
          /\ pc' \in [Replicas -> Steps]
      BY <1>7, <2>1 DEF SetReady, Goto, OrderInv, TypeOK, Steps
    <2> QED BY <1>7, <2>2, <2>3 DEF SetReady, zone, acct, env, OrderInv, TypeOK
  <1>8. ASSUME NEW r \in Replicas, Route53Zone(r) PROVE TypeOK'
    BY <1>8 DEF Route53Zone, FindZone, Goto, zone, acct, env, OrderInv, TypeOK,
       ShapeInv, Steps
  <1>9. ASSUME NEW r \in Replicas, CloudflareZone(r) PROVE TypeOK'
    BY <1>9 DEF CloudflareZone, FindZone, Goto, zone, acct, env, OrderInv, TypeOK,
       ShapeInv, Steps
  <1>10. ASSUME NEW r \in Replicas, AzureZone(r) PROVE TypeOK'
    BY <1>10 DEF AzureZone, FindZone, Goto, zone, acct, env, OrderInv, TypeOK, ShapeInv,
       Steps
  <1>11. ASSUME NEW r \in Replicas, GcloudZone(r) PROVE TypeOK'
    BY <1>11 DEF GcloudZone, FindZone, Goto, zone, acct, env, OrderInv, TypeOK,
       ShapeInv, Steps
  <1>12. ASSUME NEW r \in Replicas, AzureGet(r) PROVE TypeOK'
    <2>1. CASE ReturnOk(r)
      <3>1. TaskTypeOK'
        BY <1>12, <2>1, ReturnType DEF OrderInv, AzureGet, ReadRecords, Calling
      <3> QED BY <1>12, <3>1 DEF AzureGet, ReadRecords, zone, acct, env, TaskTypeOK, OrderInv,
         TypeOK
    <2>2. CASE ~ReturnOk(r)
      <3>1. /\ seen' = [seen EXCEPT ![r] = [etag |-> etag[Name(r)], recs |-> records[Name(r)]]]
            /\ Goto(r, "edit")
            /\ UNCHANGED <<authz, order, todo, cleanups, doing, tries, result, reply, dropped>>
            /\ UNCHANGED <<zone, server, acct, zones, faults, env>>
        BY <1>12, <2>2 DEF AzureGet, ReadRecords
      <3>2. [etag |-> etag[Name(r)], recs |-> records[Name(r)]] \in Read
        BY <1>12, TokenType DEF AzureGet, ReadRecords, OrderInv, TypeOK, Read, Calling
      <3>3. seen' \in [Replicas -> Read \cup {None}]
        BY <3>1, <3>2 DEF OrderInv, TypeOK
      <3> QED BY <3>1, <3>3 DEF Goto, zone, acct, env, OrderInv, TypeOK, Steps
    <2> QED BY <2>1, <2>2
  <1>13. ASSUME NEW r \in Replicas, GcloudGet(r) PROVE TypeOK'
    <2>1. CASE ReturnOk(r)
      <3>1. TaskTypeOK'
        BY <1>13, <2>1, ReturnType DEF OrderInv, GcloudGet, ReadRecords, Calling
      <3> QED BY <1>13, <3>1 DEF GcloudGet, ReadRecords, zone, acct, env, TaskTypeOK, OrderInv,
         TypeOK
    <2>2. CASE ~ReturnOk(r)
      <3>1. /\ seen' = [seen EXCEPT ![r] = [etag |-> etag[Name(r)], recs |-> records[Name(r)]]]
            /\ Goto(r, "edit")
            /\ UNCHANGED <<authz, order, todo, cleanups, doing, tries, result, reply, dropped>>
            /\ UNCHANGED <<zone, server, acct, zones, faults, env>>
        BY <1>13, <2>2 DEF GcloudGet, ReadRecords
      <3>2. [etag |-> etag[Name(r)], recs |-> records[Name(r)]] \in Read
        BY <1>13, TokenType DEF GcloudGet, ReadRecords, OrderInv, TypeOK, Read, Calling
      <3>3. seen' \in [Replicas -> Read \cup {None}]
        BY <3>1, <3>2 DEF OrderInv, TypeOK
      <3> QED BY <3>1, <3>3 DEF Goto, zone, acct, env, OrderInv, TypeOK, Steps
    <2> QED BY <2>1, <2>2
  <1>14. ASSUME NEW r \in Replicas, StartServer(r) PROVE TypeOK'
    <2>1. CASE server[r] = "stopping"
      <3>1. ReturnErr(r) /\ UNCHANGED server /\ UNCHANGED <<zone, acct, zones, faults, env>>
        BY <1>14, <2>1 DEF StartServer
      <3>2. TaskTypeOK'
        BY <1>14, <3>1, ReturnType DEF OrderInv, StartServer, Calling
      <3> QED BY <3>1, <3>2 DEF zone, acct, env, TaskTypeOK, OrderInv, TypeOK
    <2>2. CASE server[r] # "stopping"
      BY <1>14, <2>2 DEF StartServer, Goto, zone, acct, env, OrderInv, TypeOK, Steps
    <2> QED BY <2>1, <2>2
  <1>15. ASSUME NEW r \in Replicas, Edit(r) PROVE TypeOK'
    <2>1. WorldTypeOK'
      BY <1>15, WriteType DEF Edit
    <2>2. CASE Awaits(r)
      BY <1>15, <2>1, <2>2 DEF Edit, Goto, acct, env, WorldTypeOK, OrderInv, TypeOK, Steps
    <2>3. CASE ~Awaits(r)
      <3>1. ReturnOk(r) /\ UNCHANGED <<acct, zones, faults, env>>
        BY <1>15, <2>3 DEF Edit
      <3>2. TaskTypeOK'
        BY <1>15, <3>1, ReturnType DEF OrderInv, Edit, Calling
      <3> QED BY <2>1, <3>1, <3>2 DEF acct, env, TaskTypeOK, WorldTypeOK, OrderInv, TypeOK
    <2> QED BY <2>2, <2>3
  <1>16. ASSUME NEW r \in Replicas, Conflict(r) PROVE TypeOK'
    <2>1. CASE ReturnErr(r)
      <3>1. TaskTypeOK'
        BY <1>16, <2>1, ReturnType DEF OrderInv, Conflict, Calling
      <3> QED BY <1>16, <3>1 DEF Conflict, zone, acct, env, TaskTypeOK, OrderInv, TypeOK
    <2>2. CASE ~ReturnErr(r)
      <3>1. /\ tries[r] < CONFLICT_RETRIES
            /\ tries' = [tries EXCEPT ![r] = tries[r] + 1]
            /\ seen' = [seen EXCEPT ![r] = None]
            /\ Goto(r, "get")
            /\ UNCHANGED <<authz, order, todo, cleanups, doing, result, reply, dropped>>
            /\ UNCHANGED <<zone, server, acct, zones, faults, env>>
        BY <1>16, <2>2 DEF Conflict
      <3>2. tries[r] + 1 \in 0..CONFLICT_RETRIES
        BY <3>1, RetryAssumption DEF OrderInv, TypeOK
      <3> QED BY <3>1, <3>2 DEF Goto, zone, acct, env, OrderInv, TypeOK, Steps
    <2> QED BY <2>1, <2>2
  <1>17. ASSUME NEW r \in Replicas, WaitForPropagation(r) PROVE TypeOK'
    <2>1. TaskTypeOK'
      BY <1>17, ReturnType DEF OrderInv, Calling, WaitForPropagation
    <2> QED BY <1>17, <2>1 DEF WaitForPropagation, zone, acct, env, TaskTypeOK, OrderInv, TypeOK
  <1>18. ASSUME NEW r \in Replicas, OrderReady(r) PROVE TypeOK'
    BY <1>18 DEF OrderReady, PollReady, Polling, Goto, zone, acct, env, OrderInv,
       TypeOK, ShapeInv, Steps
  <1>19. ASSUME NEW r \in Replicas, OrderInvalid(r) PROVE TypeOK'
    BY <1>19 DEF OrderInvalid, PollReady, Polling, Goto, zone, acct, env, OrderInv,
       TypeOK, ShapeInv, Steps
  <1>20. ASSUME NEW r \in Replicas, RunCleanup(r) PROVE TypeOK'
    BY <1>20 DEF RunCleanup, Goto, FirstStep, zone, acct, env, OrderInv, TypeOK,
       ShapeInv, Steps
  <1>21. ASSUME NEW r \in Replicas, CleanupsDone(r) PROVE TypeOK'
    <2>1. CASE End(r)
      <3>1. TaskTypeOK'
        BY <1>21, <2>1, EndType DEF OrderInv, TypeOK, CleanupsDone
      <3> QED BY <1>21, <3>1 DEF CleanupsDone, zone, acct, env, TaskTypeOK, OrderInv, TypeOK
    <2>2. CASE ~End(r)
      BY <1>21, <2>2 DEF CleanupsDone, Goto, zone, acct, env, OrderInv, TypeOK, Steps
    <2> QED BY <2>1, <2>2
  <1>22. ASSUME NEW r \in Replicas, Finalize(r) PROVE TypeOK'
    <2>1. TaskTypeOK'
      BY <1>22, EndType DEF OrderInv, TypeOK, Finalize
    <2> QED BY <1>22, <2>1 DEF Finalize, zone, acct, env, TaskTypeOK, OrderInv, TypeOK
  <1>23. ASSUME NEW r \in Replicas, RejectAccount(r) PROVE TypeOK'
    BY <1>23 DEF RejectAccount, Fault, Goto, zone, env, OrderInv, TypeOK, ShapeInv,
       Steps
  <1>24. ASSUME NEW r \in Replicas, EditLost(r) PROVE TypeOK'
    <2>1. TaskTypeOK'
      BY <1>24, ReturnType DEF OrderInv, EditLost, Calling
    <2>2. WorldTypeOK'
      BY <1>24, WriteType DEF EditLost
    <2> QED BY <1>24, <2>1, <2>2, BoundAssumption DEF EditLost, Fault, acct, env, TaskTypeOK,
       WorldTypeOK, OrderInv, TypeOK
  <1>25. ASSUME NEW r \in Replicas, CallFails(r) PROVE TypeOK'
    <2>1. TaskTypeOK'
      BY <1>25, ReturnType DEF OrderInv, CallFails
    <2>2. server' \in [Replicas -> {"down", "up", "stopping"}]
      BY <1>25 DEF CallFails, ServerAfter, OrderInv, TypeOK
    <2>3. WorldTypeOK'
      BY <1>25, <2>2 DEF CallFails, zone, WorldTypeOK, OrderInv, TypeOK
    <2>4. UNCHANGED <<acct, zones, env>> /\ faults' = faults + 1 /\ faults < MaxFaults
      BY <1>25 DEF CallFails, Fault
    <2> QED BY <2>1, <2>3, <2>4, BoundAssumption DEF acct, env, TaskTypeOK, WorldTypeOK, OrderInv,
       TypeOK
  <1>26. ASSUME NEW r \in Replicas, RequestFails(r) PROVE TypeOK'
    <2>1. order[r] \in 1..MaxOrders
      BY <1>26, BoundAssumption DEF RequestFails, OrderInv, TypeOK, ShapeInv
    <2>2. TaskTypeOK'
      BY <1>26, <2>1, EndType DEF OrderInv, TypeOK, RequestFails, Abandon
    <2>3. faults' \in 0..MaxFaults /\ UNCHANGED <<zone, server, acct, zones, env>>
      BY <1>26 DEF RequestFails, Fault, OrderInv, TypeOK
    <2> QED BY <2>2, <2>3 DEF zone, acct, env, TaskTypeOK, OrderInv, TypeOK
  <1>27. ASSUME NEW r \in Replicas, Crash(r) PROVE TypeOK'
    <2>1. order[r] \in 0..MaxOrders
      BY DEF OrderInv, TypeOK
    <2>2. dropped' \subseteq 1..MaxOrders
      <3>1. {order[r]} \ {0} \subseteq 1..MaxOrders
        BY <2>1
      <3>2. dropped' = dropped \cup ({order[r]} \ {0})
        BY <1>27 DEF Crash
      <3> QED BY <3>1, <3>2 DEF OrderInv, TypeOK
    <2>3. reply' \in [Replicas -> {"none", "ok", "err"}]
      BY <1>27 DEF Crash, OrderInv, TypeOK
    <2>4. TaskTypeOK'
      BY <1>27, <2>2, <2>3, EndType DEF OrderInv, Crash
    <2>5. faults' \in 0..MaxFaults /\ UNCHANGED <<zone, secret, env>>
      BY <1>27 DEF Crash, Fault, OrderInv, TypeOK
    <2>6. /\ server' \in [Replicas -> {"down", "up", "stopping"}]
          /\ account' \in [Replicas -> 0..MaxOrders]
          /\ zones' \in [Replicas -> 0..1]
      BY <1>27 DEF Crash, OrderInv, TypeOK
    <2> QED BY <2>4, <2>5, <2>6 DEF zone, env, TaskTypeOK, OrderInv, TypeOK
  <1>28. ASSUME NEW r \in Replicas, ServerStops(r) PROVE TypeOK'
    BY <1>28 DEF ServerStops, zone, acct, task, env, OrderInv, TypeOK, ShapeInv, Steps
  <1>29. ASSUME NEW r \in Replicas, NEW d \in Names, Validate(r, d) PROVE TypeOK'
    BY <1>29 DEF Validate, zone, acct, task, env, OrderInv, TypeOK, ShapeInv, Steps
  <1>30. ASSUME NEW r \in Replicas, NEW d \in Names, Reject(r, d) PROVE TypeOK'
    BY <1>30 DEF Reject, Fault, zone, acct, task, env, OrderInv, TypeOK, ShapeInv, Steps
  <1>31. ASSUME NEW n \in Names, Propagate(n) PROVE TypeOK'
    BY <1>31 DEF Propagate, acct, task, env, OrderInv, TypeOK, ShapeInv, Steps
  <1>32. CASE UNCHANGED vars
    BY <1>32 DEF vars, zone, acct, task, env, OrderInv, TypeOK, ShapeInv, Steps
  <1> QED BY <1>1, <1>2, <1>3, <1>4, <1>5, <1>6, <1>7, <1>8, <1>9, <1>10, <1>11, <1>12,
     <1>13, <1>14, <1>15, <1>16, <1>17, <1>18, <1>19, <1>20, <1>21, <1>22, <1>23, <1>24,
     <1>25, <1>26, <1>27, <1>28, <1>29, <1>30, <1>31, <1>32 DEF Next, Progress, Failure

(* A step that only moves a request on.                                      *)
LEMMA MoveShape ==
    ASSUME TypeOK, ShapeInv, NEW r \in Replicas, NEW step, pc' = [pc EXCEPT ![r] = step],
           UNCHANGED <<order, todo, cleanups, doing, orders, deployment>>,
           pc[r] # "idle", step # "idle",
           step \in Calling \cup {"ready"} => todo[r] # <<>>,
           step = "finalize" => todo[r] = <<>>,
           step \in {"account", "create", "save", "newOrder", "authz", "ready"}
              => doing[r] = "create",
           step \in {"cleanup", "finalize"} => doing[r] = "delete",
           step = "bind" => provider = "http01"
    PROVE  ShapeInv'
  BY DEF TypeOK, ShapeInv, Calling, provider, Domains

LEMMA EndShape ==
    ASSUME TypeOK, ShapeInv, NEW r \in Replicas, End(r), UNCHANGED <<orders, deployment>>
    PROVE  ShapeInv'
  BY BoundAssumption DEF End, Goto, TypeOK, ShapeInv, Calling, provider, Domains

LEMMA ReturnShape ==
    ASSUME TypeOK, ShapeInv, NEW r \in Replicas, pc[r] \in Calling, ReturnOk(r) \/ ReturnErr(r),
           UNCHANGED <<orders, deployment>>
    PROVE  ShapeInv'
  <1>1. Tail(todo[r]) \in Seq(Names) /\ todo[r] # <<>> /\ order[r] # 0
    BY TokenType
  <1>2. CASE ReturnErr(r) /\ doing[r] = "create"
    BY <1>2, EndShape DEF ReturnErr, Abandon
  <1>3. CASE ReturnErr(r) /\ doing[r] # "create"
    <2>1. /\ pc' = [pc EXCEPT ![r] = "cleanup"]
          /\ todo' = [todo EXCEPT ![r] = Tail(@)]
          /\ UNCHANGED <<order, cleanups, doing>>
      BY <1>3 DEF ReturnErr, Goto
    <2> QED BY <1>1, <1>3, <2>1 DEF TypeOK, ShapeInv, Calling, provider, Domains
  <1>4. CASE ReturnOk(r)
    <2>1. CASE doing[r] = "create"
      <3>1. Goto(r, "ready") /\ UNCHANGED <<order, todo, cleanups, doing, orders, deployment>>
        BY <1>4, <2>1 DEF ReturnOk
      <3> QED BY <1>1, <2>1, <3>1, MoveShape DEF Goto, Calling
    <2>2. CASE doing[r] # "create"
      <3>1. /\ pc' = [pc EXCEPT ![r] = "cleanup"]
            /\ todo' = [todo EXCEPT ![r] = Tail(@)]
            /\ UNCHANGED <<order, cleanups, doing>>
        BY <1>4, <2>2 DEF ReturnOk, Goto
      <3> QED BY <1>1, <2>2, <3>1 DEF TypeOK, ShapeInv, Calling, provider, Domains
    <2> QED BY <2>1, <2>2
  <1> QED BY <1>2, <1>3, <1>4

LEMMA ShapeStep ==
    ASSUME OrderInv, [Next]_vars
    PROVE  ShapeInv'
  <1> USE BoundAssumption
  <1>1. ASSUME NEW r \in Replicas, Start(r) PROVE ShapeInv'
    <2>1. /\ pc[r] = "idle" /\ pc' = [pc EXCEPT ![r] = "account"]
          /\ orders' = orders + 1 /\ order' = [order EXCEPT ![r] = orders + 1]
          /\ UNCHANGED <<todo, cleanups, doing, deployment>>
      BY <1>1 DEF Start, Goto
    <2>2. /\ orders \in Nat /\ order'[r] = orders + 1
          /\ \A q \in Replicas \ {r} : order'[q] = order[q] /\ order[q] \in Nat /\ order[q] <= orders
      BY <2>1 DEF OrderInv, TypeOK, ShapeInv
    <2>3. /\ orders + 1 # 0
          /\ \A q \in Replicas \ {r} : order[q] # orders + 1
          /\ \A q \in Replicas : order'[q] <= orders + 1
      BY <2>2
    <2>4. /\ pc'[r] = "account" /\ \A q \in Replicas \ {r} : pc'[q] = pc[q]
          /\ doing[r] = "create"
      BY <2>1 DEF OrderInv, TypeOK, ShapeInv
    <2>5. \A q, p \in Replicas : order'[q] = order'[p] /\ order'[q] # 0 => q = p
      BY <2>2, <2>3 DEF OrderInv, ShapeInv
    <2>6. provider' = provider /\ Domains' = Domains
      BY <2>1 DEF provider, Domains
    <2> QED BY <2>1, <2>2, <2>3, <2>4, <2>5, <2>6 DEF OrderInv, ShapeInv, Calling
  <1>2. ASSUME NEW r \in Replicas, LoadAccount(r) PROVE ShapeInv'
    BY <1>2 DEF LoadAccount, Goto, zone, env, OrderInv, TypeOK, ShapeInv, Calling,
       provider, Domains
  <1>3. ASSUME NEW r \in Replicas, CreateAccount(r) PROVE ShapeInv'
    BY <1>3 DEF CreateAccount, Goto, NeedsAccount, zone, acct, env, OrderInv, TypeOK,
       ShapeInv, Calling, provider, Domains
  <1>4. ASSUME NEW r \in Replicas, SaveAccount(r) PROVE ShapeInv'
    BY <1>4 DEF SaveAccount, Goto, zone, env, OrderInv, TypeOK, ShapeInv, Calling,
       provider, Domains
  <1>5. ASSUME NEW r \in Replicas, NewOrder(r) PROVE ShapeInv'
    BY <1>5 DEF NewOrder, Goto, zone, acct, env, OrderInv, TypeOK, ShapeInv, Calling,
       provider, Domains
  <1>6. ASSUME NEW r \in Replicas, NextAuthorization(r) PROVE ShapeInv'
    <2>1. pc[r] = "authz" /\ todo[r] # <<>> /\ doing[r] = "create"
      BY <1>6 DEF NextAuthorization, OrderInv, ShapeInv
    <2>2. CASE authz[r][current(r)] = "valid"
      <3>1. /\ todo' = [todo EXCEPT ![r] = Tail(@)]
            /\ UNCHANGED <<pc, order, cleanups, doing, orders, deployment>>
        BY <1>6, <2>2 DEF NextAuthorization, env
      <3> QED BY <2>1, <3>1 DEF OrderInv, TypeOK, ShapeInv, Calling, provider, Domains
    <2>3. CASE authz[r][current(r)] # "valid"
      <3>1. /\ Goto(r, FirstStep("create"))
            /\ UNCHANGED <<order, todo, cleanups, doing, orders, deployment>>
        BY <1>6, <2>3 DEF NextAuthorization, env
      <3>2. FirstStep("create") \in {"zone", "bind", "edit"}
            /\ (FirstStep("create") = "bind" => provider = "http01")
        BY DEF FirstStep
      <3> QED BY <2>1, <3>1, <3>2, MoveShape DEF OrderInv, Goto, Calling
    <2> QED BY <2>2, <2>3
  <1>7. ASSUME NEW r \in Replicas, SetReady(r) PROVE ShapeInv'
    BY <1>7 DEF SetReady, Goto, zone, acct, env, OrderInv, TypeOK, ShapeInv, Calling,
       provider, Domains
  <1>8. ASSUME NEW r \in Replicas, Route53Zone(r) PROVE ShapeInv'
    BY <1>8 DEF Route53Zone, FindZone, Goto, zone, acct, env, OrderInv, TypeOK,
       ShapeInv, Calling, provider, Domains
  <1>9. ASSUME NEW r \in Replicas, CloudflareZone(r) PROVE ShapeInv'
    BY <1>9 DEF CloudflareZone, FindZone, Goto, zone, acct, env, OrderInv, TypeOK,
       ShapeInv, Calling, provider, Domains
  <1>10. ASSUME NEW r \in Replicas, AzureZone(r) PROVE ShapeInv'
    BY <1>10 DEF AzureZone, FindZone, Goto, zone, acct, env, OrderInv, TypeOK, ShapeInv,
       Calling, provider, Domains
  <1>11. ASSUME NEW r \in Replicas, GcloudZone(r) PROVE ShapeInv'
    BY <1>11 DEF GcloudZone, FindZone, Goto, zone, acct, env, OrderInv, TypeOK,
       ShapeInv, Calling, provider, Domains
  <1>12. ASSUME NEW r \in Replicas, AzureGet(r) PROVE ShapeInv'
    <2>1. CASE ReturnOk(r)
      BY <1>12, <2>1, ReturnShape DEF OrderInv, AzureGet, ReadRecords, Calling, env
    <2>2. CASE ~ReturnOk(r)
      <3>1. /\ Goto(r, "edit") /\ pc[r] \in Calling
            /\ UNCHANGED <<order, todo, cleanups, doing, orders, deployment>>
        BY <1>12, <2>2 DEF AzureGet, ReadRecords, env, Calling
      <3> QED BY <3>1, MoveShape DEF OrderInv, Goto, ShapeInv, Calling
    <2> QED BY <2>1, <2>2
  <1>13. ASSUME NEW r \in Replicas, GcloudGet(r) PROVE ShapeInv'
    <2>1. CASE ReturnOk(r)
      BY <1>13, <2>1, ReturnShape DEF OrderInv, GcloudGet, ReadRecords, Calling, env
    <2>2. CASE ~ReturnOk(r)
      <3>1. /\ Goto(r, "edit") /\ pc[r] \in Calling
            /\ UNCHANGED <<order, todo, cleanups, doing, orders, deployment>>
        BY <1>13, <2>2 DEF GcloudGet, ReadRecords, env, Calling
      <3> QED BY <3>1, MoveShape DEF OrderInv, Goto, ShapeInv, Calling
    <2> QED BY <2>1, <2>2
  <1>14. ASSUME NEW r \in Replicas, StartServer(r) PROVE ShapeInv'
    <2>1. CASE ReturnErr(r)
      BY <1>14, <2>1, ReturnShape DEF OrderInv, StartServer, Calling, env
    <2>2. CASE ~ReturnErr(r)
      <3>1. /\ Goto(r, "edit") /\ pc[r] \in Calling
            /\ UNCHANGED <<order, todo, cleanups, doing, orders, deployment>>
        BY <1>14, <2>2 DEF StartServer, env, Calling
      <3> QED BY <3>1, MoveShape DEF OrderInv, Goto, ShapeInv, Calling
    <2> QED BY <2>1, <2>2
  <1>15. ASSUME NEW r \in Replicas, Edit(r) PROVE ShapeInv'
    <2>1. CASE ReturnOk(r)
      BY <1>15, <2>1, ReturnShape DEF OrderInv, Edit, Calling, env
    <2>2. CASE ~ReturnOk(r)
      <3>1. /\ Goto(r, "wait") /\ pc[r] \in Calling
            /\ UNCHANGED <<order, todo, cleanups, doing, orders, deployment>>
        BY <1>15, <2>2 DEF Edit, env, Calling
      <3> QED BY <3>1, MoveShape DEF OrderInv, Goto, ShapeInv, Calling
    <2> QED BY <2>1, <2>2
  <1>16. ASSUME NEW r \in Replicas, Conflict(r) PROVE ShapeInv'
    <2>1. CASE ReturnErr(r)
      BY <1>16, <2>1, ReturnShape DEF OrderInv, Conflict, Calling, env
    <2>2. CASE ~ReturnErr(r)
      <3>1. /\ Goto(r, "get") /\ pc[r] \in Calling
            /\ UNCHANGED <<order, todo, cleanups, doing, orders, deployment>>
        BY <1>16, <2>2 DEF Conflict, env, Calling
      <3> QED BY <3>1, MoveShape DEF OrderInv, Goto, ShapeInv, Calling
    <2> QED BY <2>1, <2>2
  <1>17. ASSUME NEW r \in Replicas, WaitForPropagation(r) PROVE ShapeInv'
    BY <1>17, ReturnShape DEF OrderInv, WaitForPropagation, Calling, env
  <1>18. ASSUME NEW r \in Replicas, OrderReady(r) PROVE ShapeInv'
    <2>1. /\ pc[r] = "authz" /\ todo[r] = <<>>
          /\ todo' = [todo EXCEPT ![r] = cleanups[r]]
          /\ doing' = [doing EXCEPT ![r] = "delete"]
          /\ pc' = [pc EXCEPT ![r] = "cleanup"]
          /\ UNCHANGED <<order, cleanups, orders, deployment>>
      BY <1>18 DEF OrderReady, PollReady, Polling, Goto, env
    <2> QED BY <2>1 DEF OrderInv, TypeOK, ShapeInv, Calling, provider, Domains
  <1>19. ASSUME NEW r \in Replicas, OrderInvalid(r) PROVE ShapeInv'
    <2>1. /\ pc[r] = "authz" /\ todo[r] = <<>>
          /\ todo' = [todo EXCEPT ![r] = cleanups[r]]
          /\ doing' = [doing EXCEPT ![r] = "delete"]
          /\ pc' = [pc EXCEPT ![r] = "cleanup"]
          /\ UNCHANGED <<order, cleanups, orders, deployment>>
      BY <1>19 DEF OrderInvalid, PollReady, Polling, Goto, env
    <2> QED BY <2>1 DEF OrderInv, TypeOK, ShapeInv, Calling, provider, Domains
  <1>20. ASSUME NEW r \in Replicas, RunCleanup(r) PROVE ShapeInv'
    BY <1>20 DEF RunCleanup, Goto, FirstStep, zone, acct, env, OrderInv, TypeOK,
       ShapeInv, Calling, provider, Domains
  <1>21. ASSUME NEW r \in Replicas, CleanupsDone(r) PROVE ShapeInv'
    <2>1. CASE End(r)
      BY <1>21, <2>1, EndShape DEF OrderInv, CleanupsDone, env
    <2>2. CASE ~End(r)
      <3>1. /\ Goto(r, "finalize") /\ pc[r] = "cleanup" /\ todo[r] = <<>>
            /\ UNCHANGED <<order, todo, cleanups, doing, orders, deployment>>
        BY <1>21, <2>2 DEF CleanupsDone, env
      <3> QED BY <3>1, MoveShape DEF OrderInv, Goto, ShapeInv, Calling
    <2> QED BY <2>1, <2>2
  <1>22. ASSUME NEW r \in Replicas, Finalize(r) PROVE ShapeInv'
    BY <1>22, EndShape DEF OrderInv, Finalize, env
  <1>23. ASSUME NEW r \in Replicas, RejectAccount(r) PROVE ShapeInv'
    BY <1>23 DEF RejectAccount, Fault, Goto, zone, env, OrderInv, TypeOK, ShapeInv,
       Calling, provider, Domains
  <1>24. ASSUME NEW r \in Replicas, EditLost(r) PROVE ShapeInv'
    BY <1>24, ReturnShape DEF OrderInv, EditLost, Calling, env
  <1>25. ASSUME NEW r \in Replicas, CallFails(r) PROVE ShapeInv'
    BY <1>25, ReturnShape DEF OrderInv, CallFails, Calling, env
  <1>26. ASSUME NEW r \in Replicas, RequestFails(r) PROVE ShapeInv'
    BY <1>26, EndShape DEF OrderInv, RequestFails, Abandon, env
  <1>27. ASSUME NEW r \in Replicas, Crash(r) PROVE ShapeInv'
    BY <1>27, EndShape DEF OrderInv, Crash, env
  <1>28. ASSUME NEW r \in Replicas, ServerStops(r) PROVE ShapeInv'
    BY <1>28 DEF ServerStops, zone, acct, task, env, OrderInv, TypeOK, ShapeInv,
       Calling, provider, Domains
  <1>29. ASSUME NEW r \in Replicas, NEW d \in Names, Validate(r, d) PROVE ShapeInv'
    BY <1>29 DEF Validate, zone, acct, task, env, OrderInv, TypeOK, ShapeInv, Calling,
       provider, Domains
  <1>30. ASSUME NEW r \in Replicas, NEW d \in Names, Reject(r, d) PROVE ShapeInv'
    BY <1>30 DEF Reject, Fault, zone, acct, task, env, OrderInv, TypeOK, ShapeInv,
       Calling, provider, Domains
  <1>31. ASSUME NEW n \in Names, Propagate(n) PROVE ShapeInv'
    BY <1>31 DEF Propagate, acct, task, env, OrderInv, TypeOK, ShapeInv, Calling,
       provider, Domains
  <1>32. CASE UNCHANGED vars
    BY <1>32 DEF vars, zone, acct, task, env, OrderInv, TypeOK, ShapeInv, Calling,
       provider, Domains
  <1> QED BY <1>1, <1>2, <1>3, <1>4, <1>5, <1>6, <1>7, <1>8, <1>9, <1>10, <1>11, <1>12,
     <1>13, <1>14, <1>15, <1>16, <1>17, <1>18, <1>19, <1>20, <1>21, <1>22, <1>23, <1>24,
     <1>25, <1>26, <1>27, <1>28, <1>29, <1>30, <1>31, <1>32 DEF Next, Progress, Failure

----------------------------------------------------------------------------
(* Record sets between a read and the write it leads to.                    *)

(* The step is one of process r: no other request moves.                    *)
Alone(r) ==
    /\ deployment' = deployment
    /\ \A q \in Replicas \ {r} :
          /\ pc'[q] = pc[q] /\ order'[q] = order[q] /\ todo'[q] = todo[q]
          /\ cleanups'[q] = cleanups[q] /\ doing'[q] = doing[q]
          /\ seen'[q] = seen[q] /\ reply'[q] = reply[q]

LEMMA ReturnAlone ==
    ASSUME TypeOK, NEW r \in Replicas, ReturnOk(r) \/ ReturnErr(r), deployment' = deployment
    PROVE  Alone(r)
  <1>1. CASE ReturnOk(r)
    BY <1>1 DEF ReturnOk, Goto, Alone, TypeOK
  <1>2. CASE ReturnErr(r)
    BY <1>2 DEF ReturnErr, Abandon, End, Goto, Alone, TypeOK
  <1> QED BY <1>1, <1>2

LEMMA AloneStep ==
    ASSUME TypeOK, NEW r \in Replicas, Start(r) \/ Progress(r) \/ Failure(r)
    PROVE  Alone(r)
  <1>1. CASE Start(r)
    BY <1>1 DEF Start, Goto, zone, acct, Alone, TypeOK
  <1>2. CASE LoadAccount(r)
    BY <1>2 DEF LoadAccount, Goto, zone, env, Alone, TypeOK
  <1>3. CASE CreateAccount(r)
    BY <1>3 DEF CreateAccount, Goto, NeedsAccount, zone, acct, env, Alone, TypeOK
  <1>4. CASE SaveAccount(r)
    BY <1>4 DEF SaveAccount, Goto, zone, env, Alone, TypeOK
  <1>5. CASE NewOrder(r)
    BY <1>5 DEF NewOrder, Goto, zone, acct, env, Alone, TypeOK
  <1>6. CASE NextAuthorization(r)
    BY <1>6 DEF NextAuthorization, Goto, FirstStep, zone, acct, env, Alone, TypeOK
  <1>7. CASE SetReady(r)
    BY <1>7 DEF SetReady, Goto, zone, acct, env, Alone, TypeOK
  <1>8. CASE Route53Zone(r)
    BY <1>8 DEF Route53Zone, FindZone, Goto, zone, acct, env, Alone, TypeOK
  <1>9. CASE CloudflareZone(r)
    BY <1>9 DEF CloudflareZone, FindZone, Goto, zone, acct, env, Alone, TypeOK
  <1>10. CASE AzureZone(r)
    BY <1>10 DEF AzureZone, FindZone, Goto, zone, acct, env, Alone, TypeOK
  <1>11. CASE GcloudZone(r)
    BY <1>11 DEF GcloudZone, FindZone, Goto, zone, acct, env, Alone, TypeOK
  <1>12. CASE AzureGet(r)
    <2>1. CASE ReturnOk(r)
      BY <1>12, <2>1, ReturnAlone DEF AzureGet, ReadRecords, env
    <2>2. CASE ~ReturnOk(r)
      BY <1>12, <2>2 DEF AzureGet, ReadRecords, Goto, env, Alone, TypeOK
    <2> QED BY <2>1, <2>2
  <1>13. CASE GcloudGet(r)
    <2>1. CASE ReturnOk(r)
      BY <1>13, <2>1, ReturnAlone DEF GcloudGet, ReadRecords, env
    <2>2. CASE ~ReturnOk(r)
      BY <1>13, <2>2 DEF GcloudGet, ReadRecords, Goto, env, Alone, TypeOK
    <2> QED BY <2>1, <2>2
  <1>14. CASE StartServer(r)
    <2>1. CASE ReturnErr(r)
      BY <1>14, <2>1, ReturnAlone DEF StartServer, env
    <2>2. CASE ~ReturnErr(r)
      BY <1>14, <2>2 DEF StartServer, Goto, env, Alone, TypeOK
    <2> QED BY <2>1, <2>2
  <1>15. CASE Edit(r)
    <2>1. CASE ReturnOk(r)
      BY <1>15, <2>1, ReturnAlone DEF Edit, env
    <2>2. CASE ~ReturnOk(r)
      BY <1>15, <2>2 DEF Edit, Goto, env, Alone, TypeOK
    <2> QED BY <2>1, <2>2
  <1>16. CASE Conflict(r)
    <2>1. CASE ReturnErr(r)
      BY <1>16, <2>1, ReturnAlone DEF Conflict, env
    <2>2. CASE ~ReturnErr(r)
      BY <1>16, <2>2 DEF Conflict, Goto, env, Alone, TypeOK
    <2> QED BY <2>1, <2>2
  <1>17. CASE WaitForPropagation(r)
    BY <1>17, ReturnAlone DEF WaitForPropagation, env
  <1>18. CASE OrderReady(r)
    BY <1>18 DEF OrderReady, PollReady, Polling, Goto, zone, acct, env, Alone, TypeOK
  <1>19. CASE OrderInvalid(r)
    BY <1>19 DEF OrderInvalid, PollReady, Polling, Goto, zone, acct, env, Alone, TypeOK
  <1>20. CASE RunCleanup(r)
    BY <1>20 DEF RunCleanup, Goto, FirstStep, zone, acct, env, Alone, TypeOK
  <1>21. CASE CleanupsDone(r)
    BY <1>21 DEF CleanupsDone, Goto, zone, acct, env, End, Alone, TypeOK
  <1>22. CASE Finalize(r)
    BY <1>22 DEF Finalize, zone, acct, env, End, Goto, Alone, TypeOK
  <1>23. CASE RejectAccount(r)
    BY <1>23 DEF RejectAccount, Fault, Goto, zone, env, Alone, TypeOK
  <1>24. CASE EditLost(r)
    BY <1>24, ReturnAlone DEF EditLost, env
  <1>25. CASE CallFails(r)
    BY <1>25, ReturnAlone DEF CallFails, env
  <1>26. CASE RequestFails(r)
    BY <1>26 DEF RequestFails, Fault, Abandon, zone, acct, env, End, Goto, Alone, TypeOK
  <1>27. CASE Crash(r)
    BY <1>27 DEF Crash, Fault, zone, env, End, Goto, Alone, TypeOK
  <1> QED BY <1>1, <1>2, <1>3, <1>4, <1>5, <1>6, <1>7, <1>8, <1>9, <1>10, <1>11, <1>12,
     <1>13, <1>14, <1>15, <1>16, <1>17, <1>18, <1>19, <1>20, <1>21, <1>22, <1>23, <1>24,
     <1>25, <1>26, <1>27 DEF Progress, Failure

LEMMA SeenFrame ==
    ASSUME TypeOK, SeenInv, NEW r \in Replicas, Alone(r), UNCHANGED <<records, etag>>,
           pc'[r] # "edit" \/ provider \notin {"azure", "gcloud"}
    PROVE  SeenInv'
  <1>1. \A q \in Replicas \ {r} : Name(q)' = Name(q)
    BY DEF Alone, Name, current, credentials_for, provider, Domains
  <1>2. provider' = provider
    BY DEF Alone, provider
  <1> QED BY <1>1, <1>2 DEF Alone, SeenInv

(* A write that changes a record set changes its version.                   *)
LEMMA SeenWrite ==
    ASSUME OrderInv, NEW r \in Replicas, pc[r] = "edit", Write(r), Alone(r), pc'[r] # "edit"
    PROVE  SeenInv'
  <1>1. \A q \in Replicas \ {r} : Name(q)' = Name(q)
    BY DEF Alone, Name, current, credentials_for, provider, Domains
  <1>2. provider' = provider
    BY DEF Alone, provider
  <1>3. Name(r) \in Names
    BY TokenType DEF OrderInv, Calling
  <1>4. \A n \in Names : /\ etag[n] \in Nat
                         /\ \/ etag'[n] = etag[n] /\ records'[n] = records[n]
                            \/ etag'[n] = etag[n] + 1
    BY <1>3 DEF Write, OrderInv, TypeOK
  <1>5. ASSUME NEW q \in Replicas, pc'[q] = "edit", provider \in {"azure", "gcloud"}
        PROVE  /\ seen'[q] # None
               /\ seen'[q].etag <= etag'[Name(q)']
               /\ seen'[q].etag = etag'[Name(q)'] => seen'[q].recs = records'[Name(q)']
    <2>1. q # r
      BY <1>5
    <2>2. pc[q] = "edit" /\ seen'[q] = seen[q] /\ Name(q)' = Name(q)
      BY <1>1, <1>5, <2>1 DEF Alone
    <2>3. Name(q) \in Names
      BY <2>2, TokenType DEF OrderInv, Calling
    <2>4. /\ seen[q] # None /\ seen[q].etag <= etag[Name(q)]
          /\ seen[q].etag = etag[Name(q)] => seen[q].recs = records[Name(q)]
      BY <1>5, <2>2 DEF OrderInv, SeenInv
    <2>5. seen[q].etag \in Nat
      BY <2>4 DEF OrderInv, TypeOK, Read
    <2> QED BY <1>4, <2>2, <2>3, <2>4, <2>5
  <1> QED BY <1>2, <1>5 DEF SeenInv

LEMMA SeenStep ==
    ASSUME OrderInv, [Next]_vars
    PROVE  SeenInv'
  <1>1. ASSUME NEW r \in Replicas, Start(r) PROVE SeenInv'
    <2>1. Alone(r)
      BY <1>1, AloneStep DEF OrderInv, Progress, Failure
    <2>2. UNCHANGED <<records, etag>>
      BY <1>1 DEF Start, zone
    <2>3. pc'[r] # "edit" \/ provider \notin {"azure", "gcloud"}
      BY <1>1 DEF Start, Goto, zone, acct, OrderInv, TypeOK, ShapeInv, Zoned
    <2> QED BY <2>1, <2>2, <2>3, SeenFrame DEF OrderInv
  <1>2. ASSUME NEW r \in Replicas, LoadAccount(r) PROVE SeenInv'
    <2>1. Alone(r)
      BY <1>2, AloneStep DEF OrderInv, Progress, Failure
    <2>2. UNCHANGED <<records, etag>>
      BY <1>2 DEF LoadAccount, zone
    <2>3. pc'[r] # "edit" \/ provider \notin {"azure", "gcloud"}
      BY <1>2 DEF LoadAccount, Goto, zone, env, OrderInv, TypeOK, ShapeInv, Zoned
    <2> QED BY <2>1, <2>2, <2>3, SeenFrame DEF OrderInv
  <1>3. ASSUME NEW r \in Replicas, CreateAccount(r) PROVE SeenInv'
    <2>1. Alone(r)
      BY <1>3, AloneStep DEF OrderInv, Progress, Failure
    <2>2. UNCHANGED <<records, etag>>
      BY <1>3 DEF CreateAccount, zone
    <2>3. pc'[r] # "edit" \/ provider \notin {"azure", "gcloud"}
      BY <1>3 DEF CreateAccount, Goto, NeedsAccount, zone, acct, env, OrderInv, TypeOK,
         ShapeInv, Zoned
    <2> QED BY <2>1, <2>2, <2>3, SeenFrame DEF OrderInv
  <1>4. ASSUME NEW r \in Replicas, SaveAccount(r) PROVE SeenInv'
    <2>1. Alone(r)
      BY <1>4, AloneStep DEF OrderInv, Progress, Failure
    <2>2. UNCHANGED <<records, etag>>
      BY <1>4 DEF SaveAccount, zone
    <2>3. pc'[r] # "edit" \/ provider \notin {"azure", "gcloud"}
      BY <1>4 DEF SaveAccount, Goto, zone, env, OrderInv, TypeOK, ShapeInv, Zoned
    <2> QED BY <2>1, <2>2, <2>3, SeenFrame DEF OrderInv
  <1>5. ASSUME NEW r \in Replicas, NewOrder(r) PROVE SeenInv'
    <2>1. Alone(r)
      BY <1>5, AloneStep DEF OrderInv, Progress, Failure
    <2>2. UNCHANGED <<records, etag>>
      BY <1>5 DEF NewOrder, zone
    <2>3. pc'[r] # "edit" \/ provider \notin {"azure", "gcloud"}
      BY <1>5 DEF NewOrder, Goto, zone, acct, env, OrderInv, TypeOK, ShapeInv, Zoned
    <2> QED BY <2>1, <2>2, <2>3, SeenFrame DEF OrderInv
  <1>6. ASSUME NEW r \in Replicas, NextAuthorization(r) PROVE SeenInv'
    <2>1. Alone(r)
      BY <1>6, AloneStep DEF OrderInv, Progress, Failure
    <2>2. UNCHANGED <<records, etag>>
      BY <1>6 DEF NextAuthorization, zone
    <2>3. pc'[r] # "edit" \/ provider \notin {"azure", "gcloud"}
      BY <1>6 DEF NextAuthorization, Goto, FirstStep, zone, acct, env, OrderInv, TypeOK,
         ShapeInv, Zoned
    <2> QED BY <2>1, <2>2, <2>3, SeenFrame DEF OrderInv
  <1>7. ASSUME NEW r \in Replicas, SetReady(r) PROVE SeenInv'
    <2>1. Alone(r)
      BY <1>7, AloneStep DEF OrderInv, Progress, Failure
    <2>2. UNCHANGED <<records, etag>>
      BY <1>7 DEF SetReady, zone
    <2>3. pc'[r] # "edit" \/ provider \notin {"azure", "gcloud"}
      BY <1>7 DEF SetReady, Goto, zone, acct, env, OrderInv, TypeOK, ShapeInv, Zoned
    <2> QED BY <2>1, <2>2, <2>3, SeenFrame DEF OrderInv
  <1>8. ASSUME NEW r \in Replicas, Route53Zone(r) PROVE SeenInv'
    <2>1. Alone(r)
      BY <1>8, AloneStep DEF OrderInv, Progress, Failure
    <2>2. UNCHANGED <<records, etag>>
      BY <1>8 DEF Route53Zone, FindZone, zone
    <2>3. pc'[r] # "edit" \/ provider \notin {"azure", "gcloud"}
      BY <1>8 DEF Route53Zone, FindZone, Goto, zone, acct, env, OrderInv, TypeOK,
         ShapeInv, Zoned
    <2> QED BY <2>1, <2>2, <2>3, SeenFrame DEF OrderInv
  <1>9. ASSUME NEW r \in Replicas, CloudflareZone(r) PROVE SeenInv'
    <2>1. Alone(r)
      BY <1>9, AloneStep DEF OrderInv, Progress, Failure
    <2>2. UNCHANGED <<records, etag>>
      BY <1>9 DEF CloudflareZone, FindZone, zone
    <2>3. pc'[r] # "edit" \/ provider \notin {"azure", "gcloud"}
      BY <1>9 DEF CloudflareZone, FindZone, Goto, zone, acct, env, OrderInv, TypeOK,
         ShapeInv, Zoned
    <2> QED BY <2>1, <2>2, <2>3, SeenFrame DEF OrderInv
  <1>10. ASSUME NEW r \in Replicas, AzureZone(r) PROVE SeenInv'
    <2>1. Alone(r)
      BY <1>10, AloneStep DEF OrderInv, Progress, Failure
    <2>2. UNCHANGED <<records, etag>>
      BY <1>10 DEF AzureZone, FindZone, zone
    <2>3. pc'[r] # "edit" \/ provider \notin {"azure", "gcloud"}
      BY <1>10 DEF AzureZone, FindZone, Goto, zone, acct, env, OrderInv, TypeOK, ShapeInv,
         Zoned
    <2> QED BY <2>1, <2>2, <2>3, SeenFrame DEF OrderInv
  <1>11. ASSUME NEW r \in Replicas, GcloudZone(r) PROVE SeenInv'
    <2>1. Alone(r)
      BY <1>11, AloneStep DEF OrderInv, Progress, Failure
    <2>2. UNCHANGED <<records, etag>>
      BY <1>11 DEF GcloudZone, FindZone, zone
    <2>3. pc'[r] # "edit" \/ provider \notin {"azure", "gcloud"}
      BY <1>11 DEF GcloudZone, FindZone, Goto, zone, acct, env, OrderInv, TypeOK,
         ShapeInv, Zoned
    <2> QED BY <2>1, <2>2, <2>3, SeenFrame DEF OrderInv
  <1>12. ASSUME NEW r \in Replicas, AzureGet(r) PROVE SeenInv'
    <2>1. Alone(r) /\ provider' = provider
      BY <1>12, AloneStep DEF OrderInv, Progress, Alone, provider
    <2>2. UNCHANGED <<records, etag>>
      BY <1>12 DEF AzureGet, ReadRecords, zone
    <2>3. CASE ReturnOk(r)
      <3>1. pc'[r] # "edit"
        BY <2>3 DEF ReturnOk, Goto, OrderInv, TypeOK
      <3> QED BY <2>1, <2>2, <3>1, SeenFrame DEF OrderInv
    <2>4. CASE ~ReturnOk(r)
      <3>1. /\ seen' = [seen EXCEPT ![r] = [etag |-> etag[Name(r)], recs |-> records[Name(r)]]]
            /\ UNCHANGED <<todo, deployment>>
        BY <1>12, <2>4 DEF AzureGet, ReadRecords, env
      <3>2. seen'[r] = [etag |-> etag[Name(r)], recs |-> records[Name(r)]]
        BY <3>1 DEF OrderInv, TypeOK
      <3>3. \A q \in Replicas : Name(q)' = Name(q)
        BY <3>1 DEF Name, current, credentials_for, provider, Domains
      <3>4. /\ Name(r) \in Names /\ etag[Name(r)] \in Nat
            /\ [etag |-> etag[Name(r)], recs |-> records[Name(r)]] \in Read
        BY <1>12, TokenType DEF AzureGet, ReadRecords, OrderInv, TypeOK, Read, Calling
      <3>5. seen'[r] # None
        BY <3>2, <3>4, NoneAssumption
      <3>6. /\ seen'[r].etag <= etag'[Name(r)']
            /\ seen'[r].recs = records'[Name(r)']
        BY <2>2, <3>2, <3>3, <3>4
      <3> QED BY <2>1, <2>2, <3>3, <3>5, <3>6 DEF OrderInv, SeenInv, Alone
    <2> QED BY <2>3, <2>4
  <1>13. ASSUME NEW r \in Replicas, GcloudGet(r) PROVE SeenInv'
    <2>1. Alone(r) /\ provider' = provider
      BY <1>13, AloneStep DEF OrderInv, Progress, Alone, provider
    <2>2. UNCHANGED <<records, etag>>
      BY <1>13 DEF GcloudGet, ReadRecords, zone
    <2>3. CASE ReturnOk(r)
      <3>1. pc'[r] # "edit"
        BY <2>3 DEF ReturnOk, Goto, OrderInv, TypeOK
      <3> QED BY <2>1, <2>2, <3>1, SeenFrame DEF OrderInv
    <2>4. CASE ~ReturnOk(r)
      <3>1. /\ seen' = [seen EXCEPT ![r] = [etag |-> etag[Name(r)], recs |-> records[Name(r)]]]
            /\ UNCHANGED <<todo, deployment>>
        BY <1>13, <2>4 DEF GcloudGet, ReadRecords, env
      <3>2. seen'[r] = [etag |-> etag[Name(r)], recs |-> records[Name(r)]]
        BY <3>1 DEF OrderInv, TypeOK
      <3>3. \A q \in Replicas : Name(q)' = Name(q)
        BY <3>1 DEF Name, current, credentials_for, provider, Domains
      <3>4. /\ Name(r) \in Names /\ etag[Name(r)] \in Nat
            /\ [etag |-> etag[Name(r)], recs |-> records[Name(r)]] \in Read
        BY <1>13, TokenType DEF GcloudGet, ReadRecords, OrderInv, TypeOK, Read, Calling
      <3>5. seen'[r] # None
        BY <3>2, <3>4, NoneAssumption
      <3>6. /\ seen'[r].etag <= etag'[Name(r)']
            /\ seen'[r].recs = records'[Name(r)']
        BY <2>2, <3>2, <3>3, <3>4
      <3> QED BY <2>1, <2>2, <3>3, <3>5, <3>6 DEF OrderInv, SeenInv, Alone
    <2> QED BY <2>3, <2>4
  <1>14. ASSUME NEW r \in Replicas, StartServer(r) PROVE SeenInv'
    <2>1. Alone(r)
      BY <1>14, AloneStep DEF OrderInv, Progress, Failure
    <2>2. UNCHANGED <<records, etag>>
      BY <1>14 DEF StartServer, zone
    <2>3. pc'[r] # "edit" \/ provider \notin {"azure", "gcloud"}
      BY <1>14 DEF StartServer, Goto, zone, acct, env, OrderInv, TypeOK, ShapeInv, Zoned
    <2> QED BY <2>1, <2>2, <2>3, SeenFrame DEF OrderInv
  <1>15. ASSUME NEW r \in Replicas, Edit(r) PROVE SeenInv'
    <2>1. Alone(r)
      BY <1>15, AloneStep DEF OrderInv, Progress, Failure
    <2>2. pc'[r] # "edit"
      BY <1>15 DEF Edit, ReturnOk, Abandon, End, Goto, OrderInv, TypeOK
    <2> QED BY <1>15, <2>1, <2>2, SeenWrite DEF Edit
  <1>16. ASSUME NEW r \in Replicas, Conflict(r) PROVE SeenInv'
    <2>1. Alone(r)
      BY <1>16, AloneStep DEF OrderInv, Progress, Failure
    <2>2. UNCHANGED <<records, etag>>
      BY <1>16 DEF Conflict, zone
    <2>3. pc'[r] # "edit" \/ provider \notin {"azure", "gcloud"}
      BY <1>16 DEF Conflict, ReturnErr, Abandon, End, Goto, OrderInv, TypeOK
    <2> QED BY <2>1, <2>2, <2>3, SeenFrame DEF OrderInv
  <1>17. ASSUME NEW r \in Replicas, WaitForPropagation(r) PROVE SeenInv'
    <2>1. Alone(r)
      BY <1>17, AloneStep DEF OrderInv, Progress, Failure
    <2>2. UNCHANGED <<records, etag>>
      BY <1>17 DEF WaitForPropagation, zone
    <2>3. pc'[r] # "edit" \/ provider \notin {"azure", "gcloud"}
      BY <1>17 DEF WaitForPropagation, zone, acct, env, ReturnOk, ReturnErr, Abandon, End,
         Goto, OrderInv, TypeOK, ShapeInv, Zoned
    <2> QED BY <2>1, <2>2, <2>3, SeenFrame DEF OrderInv
  <1>18. ASSUME NEW r \in Replicas, OrderReady(r) PROVE SeenInv'
    <2>1. Alone(r)
      BY <1>18, AloneStep DEF OrderInv, Progress, Failure
    <2>2. UNCHANGED <<records, etag>>
      BY <1>18 DEF OrderReady, PollReady, zone
    <2>3. pc'[r] # "edit" \/ provider \notin {"azure", "gcloud"}
      BY <1>18 DEF OrderReady, PollReady, Polling, Goto, zone, acct, env, OrderInv,
         TypeOK, ShapeInv, Zoned
    <2> QED BY <2>1, <2>2, <2>3, SeenFrame DEF OrderInv
  <1>19. ASSUME NEW r \in Replicas, OrderInvalid(r) PROVE SeenInv'
    <2>1. Alone(r)
      BY <1>19, AloneStep DEF OrderInv, Progress, Failure
    <2>2. UNCHANGED <<records, etag>>
      BY <1>19 DEF OrderInvalid, PollReady, zone
    <2>3. pc'[r] # "edit" \/ provider \notin {"azure", "gcloud"}
      BY <1>19 DEF OrderInvalid, PollReady, Polling, Goto, zone, acct, env, OrderInv,
         TypeOK, ShapeInv, Zoned
    <2> QED BY <2>1, <2>2, <2>3, SeenFrame DEF OrderInv
  <1>20. ASSUME NEW r \in Replicas, RunCleanup(r) PROVE SeenInv'
    <2>1. Alone(r)
      BY <1>20, AloneStep DEF OrderInv, Progress, Failure
    <2>2. UNCHANGED <<records, etag>>
      BY <1>20 DEF RunCleanup, zone
    <2>3. pc'[r] # "edit" \/ provider \notin {"azure", "gcloud"}
      BY <1>20 DEF RunCleanup, Goto, FirstStep, zone, acct, env, OrderInv, TypeOK,
         ShapeInv, Zoned
    <2> QED BY <2>1, <2>2, <2>3, SeenFrame DEF OrderInv
  <1>21. ASSUME NEW r \in Replicas, CleanupsDone(r) PROVE SeenInv'
    <2>1. Alone(r)
      BY <1>21, AloneStep DEF OrderInv, Progress, Failure
    <2>2. UNCHANGED <<records, etag>>
      BY <1>21 DEF CleanupsDone, zone
    <2>3. pc'[r] # "edit" \/ provider \notin {"azure", "gcloud"}
      BY <1>21 DEF CleanupsDone, Goto, zone, acct, env, End, OrderInv, TypeOK, ShapeInv,
         Zoned
    <2> QED BY <2>1, <2>2, <2>3, SeenFrame DEF OrderInv
  <1>22. ASSUME NEW r \in Replicas, Finalize(r) PROVE SeenInv'
    <2>1. Alone(r)
      BY <1>22, AloneStep DEF OrderInv, Progress, Failure
    <2>2. UNCHANGED <<records, etag>>
      BY <1>22 DEF Finalize, zone
    <2>3. pc'[r] # "edit" \/ provider \notin {"azure", "gcloud"}
      BY <1>22 DEF Finalize, zone, acct, env, End, Goto, OrderInv, TypeOK, ShapeInv, Zoned
    <2> QED BY <2>1, <2>2, <2>3, SeenFrame DEF OrderInv
  <1>23. ASSUME NEW r \in Replicas, RejectAccount(r) PROVE SeenInv'
    <2>1. Alone(r)
      BY <1>23, AloneStep DEF OrderInv, Progress, Failure
    <2>2. UNCHANGED <<records, etag>>
      BY <1>23 DEF RejectAccount, zone
    <2>3. pc'[r] # "edit" \/ provider \notin {"azure", "gcloud"}
      BY <1>23 DEF RejectAccount, Fault, Goto, zone, env, OrderInv, TypeOK, ShapeInv,
         Zoned
    <2> QED BY <2>1, <2>2, <2>3, SeenFrame DEF OrderInv
  <1>24. ASSUME NEW r \in Replicas, EditLost(r) PROVE SeenInv'
    <2>1. Alone(r)
      BY <1>24, AloneStep DEF OrderInv, Progress, Failure
    <2>2. pc'[r] # "edit"
      BY <1>24 DEF EditLost, ReturnErr, Abandon, End, Goto, OrderInv, TypeOK
    <2> QED BY <1>24, <2>1, <2>2, SeenWrite DEF EditLost
  <1>25. ASSUME NEW r \in Replicas, CallFails(r) PROVE SeenInv'
    <2>1. Alone(r)
      BY <1>25, AloneStep DEF OrderInv, Progress, Failure
    <2>2. UNCHANGED <<records, etag>>
      BY <1>25 DEF CallFails, zone
    <2>3. pc'[r] # "edit" \/ provider \notin {"azure", "gcloud"}
      BY <1>25 DEF CallFails, Fault, zone, acct, env, ReturnOk, ReturnErr, Abandon, End,
         Goto, OrderInv, TypeOK, ShapeInv, Zoned
    <2> QED BY <2>1, <2>2, <2>3, SeenFrame DEF OrderInv
  <1>26. ASSUME NEW r \in Replicas, RequestFails(r) PROVE SeenInv'
    <2>1. Alone(r)
      BY <1>26, AloneStep DEF OrderInv, Progress, Failure
    <2>2. UNCHANGED <<records, etag>>
      BY <1>26 DEF RequestFails, zone
    <2>3. pc'[r] # "edit" \/ provider \notin {"azure", "gcloud"}
      BY <1>26 DEF RequestFails, Fault, Abandon, zone, acct, env, End, Goto, OrderInv,
         TypeOK, ShapeInv, Zoned
    <2> QED BY <2>1, <2>2, <2>3, SeenFrame DEF OrderInv
  <1>27. ASSUME NEW r \in Replicas, Crash(r) PROVE SeenInv'
    <2>1. Alone(r)
      BY <1>27, AloneStep DEF OrderInv, Progress, Failure
    <2>2. UNCHANGED <<records, etag>>
      BY <1>27 DEF Crash, zone
    <2>3. pc'[r] # "edit" \/ provider \notin {"azure", "gcloud"}
      BY <1>27 DEF Crash, Fault, zone, env, End, Goto, OrderInv, TypeOK, ShapeInv, Zoned
    <2> QED BY <2>1, <2>2, <2>3, SeenFrame DEF OrderInv
  <1>28. ASSUME NEW r \in Replicas, ServerStops(r) PROVE SeenInv'
    BY <1>28 DEF ServerStops, zone, acct, task, env, OrderInv, SeenInv, Name, current,
       credentials_for, provider, Domains
  <1>29. ASSUME NEW r \in Replicas, NEW d \in Names, Validate(r, d) PROVE SeenInv'
    BY <1>29 DEF Validate, zone, acct, task, env, OrderInv, SeenInv, Name, current,
       credentials_for, provider, Domains
  <1>30. ASSUME NEW r \in Replicas, NEW d \in Names, Reject(r, d) PROVE SeenInv'
    BY <1>30 DEF Reject, Fault, zone, acct, task, env, OrderInv, SeenInv, Name, current,
       credentials_for, provider, Domains
  <1>31. ASSUME NEW n \in Names, Propagate(n) PROVE SeenInv'
    BY <1>31 DEF Propagate, acct, task, env, OrderInv, SeenInv, Name, current,
       credentials_for, provider, Domains
  <1>32. CASE UNCHANGED vars
    BY <1>32 DEF vars, zone, acct, task, env, OrderInv, SeenInv, Name, current,
       credentials_for, provider, Domains
  <1> QED BY <1>1, <1>2, <1>3, <1>4, <1>5, <1>6, <1>7, <1>8, <1>9, <1>10, <1>11, <1>12,
     <1>13, <1>14, <1>15, <1>16, <1>17, <1>18, <1>19, <1>20, <1>21, <1>22, <1>23, <1>24,
     <1>25, <1>26, <1>27, <1>28, <1>29, <1>30, <1>31, <1>32 DEF Next, Progress, Failure

LEMMA InitInv == Init => OrderInv
  <1> SUFFICES ASSUME Init PROVE OrderInv
    OBVIOUS
  <1> USE BoundAssumption, RetryAssumption
  <1>1. /\ records \in [Names -> Seq(Value)] /\ served \in [Names -> Seq(Value)]
        /\ todo \in [Replicas -> Seq(Names)] /\ cleanups \in [Replicas -> Seq(Names)]
    BY DEF Init
  <1>2. TypeOK
    BY <1>1 DEF Init, TypeOK, Steps
  <1>3. ShapeInv /\ SeenInv
    BY DEF Init, ShapeInv, SeenInv, Calling
  <1> QED BY <1>2, <1>3 DEF OrderInv

LEMMA OrderInvHolds == Spec => []OrderInv
  <1>1. OrderInv /\ [Next]_vars => OrderInv'
    BY TypeStep, ShapeStep, SeenStep DEF OrderInv
  <1> QED BY <1>1, InitInv, PTL DEF Spec

(* Every variable keeps its type: no request touches a domain it does not   *)
(* have, drops an order that was not placed or retries more than allowed.   *)
THEOREM TypeCorrect == Spec => []TypeOK
  <1>1. OrderInv => TypeOK
    BY DEF OrderInv
  <1> QED BY <1>1, OrderInvHolds, PTL

----------------------------------------------------------------------------
(* No challenge value is left behind.                                       *)

LEMMA TailRange ==
    ASSUME NEW S, NEW s \in Seq(S), s # <<>>
    PROVE  Range(s) = Range(Tail(s)) \cup {Head(s)}
  <1>1. /\ Len(s) \in Nat /\ Len(s) >= 1 /\ Head(s) = s[1]
        /\ DOMAIN s = 1..Len(s) /\ DOMAIN Tail(s) = 1..(Len(s) - 1)
        /\ \A k \in 1..(Len(s) - 1) : Tail(s)[k] = s[k + 1]
    OBVIOUS
  <1>2. ASSUME NEW k \in 1..Len(s) PROVE s[k] \in Range(Tail(s)) \cup {Head(s)}
    <2>1. CASE k = 1
      BY <1>1, <2>1
    <2>2. CASE k # 1
      <3>1. k - 1 \in 1..(Len(s) - 1) /\ (k - 1) + 1 = k
        BY <1>1, <2>2
      <3>2. s[k] = Tail(s)[k - 1]
        BY <1>1, <3>1
      <3> QED BY <1>1, <3>1, <3>2 DEF Range
    <2> QED BY <2>1, <2>2
  <1>3. ASSUME NEW k \in 1..(Len(s) - 1) PROVE Tail(s)[k] \in Range(s)
    BY <1>1, <1>3 DEF Range
  <1>4. Head(s) \in Range(s)
    BY <1>1 DEF Range
  <1> QED BY <1>1, <1>2, <1>3, <1>4 DEF Range

(* A value of the record sets that was r's to remove still is, or its order *)
(* is given up; r adds nothing but the value of its call.                   *)
Accounted(r) ==
    \A n \in Names : \A v \in Range(records'[n]) :
        \/ /\ v \in Range(records[n])
           /\ Owed(r, v) => Owed(r, v)' \/ v.order \in dropped'
        \/ /\ pc[r] = "edit" /\ n = current(r) /\ v = Token(r)
           /\ Owed(r, v)' \/ v.order \in dropped'

LEMMA ResidueMove ==
    ASSUME OrderInv, ResidueInv, provider # "acmedns", NEW r \in Replicas, Alone(r),
           records' \in [Names -> Seq(Value)], dropped \subseteq dropped', Accounted(r),
           pc'[r] = "wait" /\ doing'[r] = "delete" => Token(r)' \notin Range(records'[Name(r)'])
    PROVE  ResidueInv'
  <1>1. \A q \in Replicas \ {r} :
           /\ Name(q)' = Name(q) /\ Token(q)' = Token(q)
           /\ \A v : Owed(q, v) => Owed(q, v)'
    BY DEF Alone, Name, Token, current, credentials_for, provider, Domains, Owed
  <1>2. ASSUME NEW n \in Names, NEW v \in Range(records'[n])
        PROVE  v.domain = n /\ (v.order \in dropped' \/ \E q \in Replicas : Owed(q, v)')
    <2>1. CASE /\ v \in Range(records[n])
               /\ Owed(r, v) => Owed(r, v)' \/ v.order \in dropped'
      <3>1. v.domain = n /\ (v.order \in dropped \/ \E q \in Replicas : Owed(q, v))
        BY <2>1 DEF ResidueInv
      <3>2. CASE v.order \in dropped
        BY <3>1, <3>2
      <3>3. ASSUME NEW q \in Replicas, Owed(q, v)
            PROVE  v.order \in dropped' \/ \E p \in Replicas : Owed(p, v)'
        BY <1>1, <2>1, <3>3
      <3> QED BY <3>1, <3>2, <3>3
    <2>2. CASE /\ pc[r] = "edit" /\ n = current(r) /\ v = Token(r)
               /\ Owed(r, v)' \/ v.order \in dropped'
      <3>1. v.domain = n
        BY <2>2 DEF Token
      <3> QED BY <2>2, <3>1
    <2> QED BY <1>2, <2>1, <2>2 DEF Accounted
  <1>3. ASSUME NEW q \in Replicas, pc'[q] = "wait", doing'[q] = "delete"
        PROVE  Token(q)' \notin Range(records'[Name(q)'])
    <2>1. CASE q = r
      BY <1>3, <2>1
    <2>2. CASE q # r
      <3>1. pc[q] = "wait" /\ doing[q] = "delete" /\ Name(q)' = Name(q) /\ Token(q)' = Token(q)
        BY <1>1, <1>3, <2>2 DEF Alone
      <3>2. Token(q) \notin Range(records[Name(q)])
        BY <3>1 DEF ResidueInv
      <3>3. Name(q) \in Names /\ order[q] # 0
        BY <3>1, TokenType DEF OrderInv, Calling
      <3>4. pc[r] = "edit" => Token(q) # Token(r)
        <4>1. order[q] # order[r]
          BY <2>2, <3>3 DEF OrderInv, ShapeInv
        <4> QED BY <4>1 DEF Token
      <3>5. Token(q) \notin Range(records'[Name(q)])
        BY <3>2, <3>3, <3>4 DEF Accounted
      <3> QED BY <3>1, <3>5
    <2> QED BY <2>1, <2>2
  <1>4. provider' = provider
    BY DEF Alone, provider
  <1> QED BY <1>2, <1>3 DEF ResidueInv

(* The steps that leave the zone alone.                                     *)
LEMMA ResidueKeep ==
    ASSUME OrderInv, ResidueInv, provider # "acmedns", NEW r \in Replicas, Alone(r),
           records' = records, dropped \subseteq dropped', pc'[r] # "wait",
           \A n \in Names : \A v \in Range(records[n]) :
              v \in Value /\ Owed(r, v) => Owed(r, v)' \/ v.order \in dropped'
    PROVE  ResidueInv'
  <1>1. \A n \in Names : \A v \in Range(records[n]) : v \in Value
    BY DEF OrderInv, TypeOK, Range
  <1>2. Accounted(r)
    BY <1>1 DEF Accounted
  <1>3. records' \in [Names -> Seq(Value)]
    BY DEF OrderInv, TypeOK
  <1> QED BY <1>2, <1>3, ResidueMove

(* A provider call returns: what is still to be removed stays so, what a    *)
(* failed call left is given up.                                            *)
LEMMA ReturnOwed ==
    ASSUME OrderInv, NEW r \in Replicas, pc[r] \in Calling, ReturnOk(r) \/ ReturnErr(r),
           NEW v \in Value, Owed(r, v),
           ReturnOk(r) /\ doing[r] = "delete" => v # Token(r)
    PROVE  Owed(r, v)' \/ v.order \in dropped'
  <1>1. todo[r] \in Seq(Names) /\ todo[r] # <<>> /\ doing[r] \in {"create", "delete"}
    BY DEF OrderInv, TypeOK, ShapeInv
  <1>2. CASE ReturnErr(r)
    BY <1>2 DEF ReturnErr, Abandon, Owed
  <1>3. CASE ReturnOk(r) /\ doing[r] = "create"
    <2>1. pc'[r] = "ready" /\ UNCHANGED <<todo, order, cleanups, doing>>
      BY <1>3 DEF ReturnOk, Goto, OrderInv, TypeOK
    <2> QED BY <1>3, <2>1 DEF Owed, current
  <1>4. CASE ReturnOk(r) /\ doing[r] = "delete"
    <2>1. todo'[r] = Tail(todo[r]) /\ UNCHANGED <<order, cleanups, doing>>
      BY <1>4 DEF ReturnOk, OrderInv, TypeOK
    <2>2. v.order = order[r] /\ v.domain \in Range(todo[r])
      BY <1>4 DEF Owed
    <2>3. v.domain # current(r)
      BY <1>4, <2>2 DEF Value, Token
    <2>4. v.domain \in Range(Tail(todo[r]))
      BY <1>1, <2>2, <2>3, TailRange DEF current
    <2> QED BY <1>4, <2>1, <2>2, <2>4 DEF Owed
  <1> QED BY <1>1, <1>2, <1>3, <1>4

LEMMA ReturnLeaves ==
    ASSUME NEW r \in Replicas, TypeOK, ReturnOk(r) \/ ReturnErr(r)
    PROVE  pc'[r] # "wait" /\ dropped \subseteq dropped'
  <1>1. CASE ReturnOk(r)
    <2>1. (Goto(r, "ready") \/ Goto(r, "cleanup")) /\ dropped' = dropped
      BY <1>1 DEF ReturnOk
    <2> QED BY <2>1 DEF Goto, TypeOK
  <1>2. CASE ReturnErr(r)
    <2>1. (Goto(r, "idle") \/ Goto(r, "cleanup")) /\ dropped \subseteq dropped'
      BY <1>2 DEF ReturnErr, Abandon, End
    <2> QED BY <2>1 DEF Goto, TypeOK
  <1> QED BY <1>1, <1>2

LEMMA DeploymentFixed == TypeOK /\ [Next]_vars => deployment' = deployment
  <1> SUFFICES ASSUME TypeOK, [Next]_vars PROVE deployment' = deployment
    OBVIOUS
  <1>1. ASSUME NEW r \in Replicas, Start(r) \/ Progress(r) \/ Failure(r)
        PROVE  deployment' = deployment
    BY <1>1, AloneStep DEF Alone
  <1>2. ASSUME NEW r \in Replicas, ServerStops(r) PROVE deployment' = deployment
    BY <1>2 DEF ServerStops, env
  <1>3. ASSUME NEW r \in Replicas, NEW d \in Names, Validate(r, d) \/ Reject(r, d)
        PROVE  deployment' = deployment
    BY <1>3 DEF Validate, Reject, env
  <1>4. ASSUME NEW n \in Names, Propagate(n) PROVE deployment' = deployment
    BY <1>4 DEF Propagate, env
  <1>5. CASE UNCHANGED vars
    BY <1>5 DEF vars, env
  <1> QED BY <1>1, <1>2, <1>3, <1>4, <1>5 DEF Next

(* What a write leaves in the zone.                                         *)
LEMMA WrittenIs ==
    ASSUME OrderInv, NEW r \in Replicas, pc[r] = "edit", Write(r), EditFacts(r),
           NEW n \in Names, NEW v, v \in Range(records'[n])
    PROVE  /\ v \in Value
           /\ v \in Range(records[n]) \/ (n = current(r) /\ v = Token(r))
           /\ doing[r] = "delete" => v # Token(r) \/ n # current(r)
  <1>1. v \in Value
    <2>1. records'[n] \in Seq(Value)
      BY WriteType DEF WorldTypeOK
    <2> QED BY <2>1 DEF Range
  <1>2. /\ Name(r) \in Names /\ Name(r) = current(r)
        /\ Range(ProviderEdit(r).recs) \subseteq Range(records[Name(r)]) \cup {Token(r)}
        /\ doing[r] = "delete" => Token(r) \notin Range(ProviderEdit(r).recs)
    BY TokenType DEF EditFacts, OrderInv, Calling
  <1>3. CASE n = Name(r)
    <2>1. records'[n] = ProviderEdit(r).recs
      BY <1>2, <1>3 DEF Write, OrderInv, TypeOK
    <2>2. v \in Range(ProviderEdit(r).recs)
      BY <2>1
    <2>3. v \in Range(records[n]) \/ (n = current(r) /\ v = Token(r))
      BY <1>2, <1>3, <2>2
    <2>4. doing[r] = "delete" => v # Token(r)
      BY <1>2, <2>2
    <2> QED BY <1>1, <2>3, <2>4
  <1>4. CASE n # Name(r)
    <2>1. records'[n] = records[n]
      BY <1>4 DEF Write, OrderInv, TypeOK
    <2>2. v \in Range(records[n])
      BY <2>1
    <2> QED BY <1>1, <1>2, <1>4, <2>2
  <1> QED BY <1>3, <1>4

LEMMA ResidueStep ==
    ASSUME OrderInv, ResidueInv, [Next]_vars
    PROVE  ResidueInv'
  <1> USE BoundAssumption
  <1>0. CASE provider = "acmedns"
    <2>1. provider' = provider
      BY DeploymentFixed DEF OrderInv, provider
    <2> QED BY <1>0, <2>1 DEF ResidueInv
  <1> SUFFICES ASSUME provider # "acmedns" PROVE ResidueInv'
    BY <1>0
  <1>1. ASSUME NEW r \in Replicas, Start(r) PROVE ResidueInv'
    <2>1. Alone(r)
      BY <1>1, AloneStep DEF OrderInv, Progress, Failure
    <2>2. records' = records /\ dropped \subseteq dropped'
      BY <1>1 DEF Start, zone
    <2>3. pc'[r] # "wait"
      BY <1>1 DEF Start, Goto, zone, acct, OrderInv, TypeOK
    <2>4. ASSUME NEW v \in Value, Owed(r, v) PROVE Owed(r, v)' \/ v.order \in dropped'
      BY <1>1, <2>4 DEF Start, Goto, zone, acct, OrderInv, TypeOK, ShapeInv, Owed,
         current, Calling, Value
    <2> QED BY <2>1, <2>2, <2>3, <2>4, ResidueKeep
  <1>2. ASSUME NEW r \in Replicas, LoadAccount(r) PROVE ResidueInv'
    <2>1. Alone(r)
      BY <1>2, AloneStep DEF OrderInv, Progress, Failure
    <2>2. records' = records /\ dropped \subseteq dropped'
      BY <1>2 DEF LoadAccount, zone
    <2>3. pc'[r] # "wait"
      BY <1>2 DEF LoadAccount, Goto, zone, env, OrderInv, TypeOK
    <2>4. ASSUME NEW v \in Value, Owed(r, v) PROVE Owed(r, v)' \/ v.order \in dropped'
      BY <1>2, <2>4 DEF LoadAccount, Goto, zone, env, OrderInv, TypeOK, ShapeInv, Owed,
         current, Calling, Value
    <2> QED BY <2>1, <2>2, <2>3, <2>4, ResidueKeep
  <1>3. ASSUME NEW r \in Replicas, CreateAccount(r) PROVE ResidueInv'
    <2>1. Alone(r)
      BY <1>3, AloneStep DEF OrderInv, Progress, Failure
    <2>2. records' = records /\ dropped \subseteq dropped'
      BY <1>3 DEF CreateAccount, zone
    <2>3. pc'[r] # "wait"
      BY <1>3 DEF CreateAccount, Goto, NeedsAccount, zone, acct, env, OrderInv, TypeOK
    <2>4. ASSUME NEW v \in Value, Owed(r, v) PROVE Owed(r, v)' \/ v.order \in dropped'
      BY <1>3, <2>4 DEF CreateAccount, Goto, NeedsAccount, zone, acct, env, OrderInv,
         TypeOK, ShapeInv, Owed, current, Calling, Value
    <2> QED BY <2>1, <2>2, <2>3, <2>4, ResidueKeep
  <1>4. ASSUME NEW r \in Replicas, SaveAccount(r) PROVE ResidueInv'
    <2>1. Alone(r)
      BY <1>4, AloneStep DEF OrderInv, Progress, Failure
    <2>2. records' = records /\ dropped \subseteq dropped'
      BY <1>4 DEF SaveAccount, zone
    <2>3. pc'[r] # "wait"
      BY <1>4 DEF SaveAccount, Goto, zone, env, OrderInv, TypeOK
    <2>4. ASSUME NEW v \in Value, Owed(r, v) PROVE Owed(r, v)' \/ v.order \in dropped'
      BY <1>4, <2>4 DEF SaveAccount, Goto, zone, env, OrderInv, TypeOK, ShapeInv, Owed,
         current, Calling, Value
    <2> QED BY <2>1, <2>2, <2>3, <2>4, ResidueKeep
  <1>5. ASSUME NEW r \in Replicas, NewOrder(r) PROVE ResidueInv'
    <2>1. Alone(r)
      BY <1>5, AloneStep DEF OrderInv, Progress, Failure
    <2>2. records' = records /\ dropped \subseteq dropped'
      BY <1>5 DEF NewOrder, zone
    <2>3. pc'[r] # "wait"
      BY <1>5 DEF NewOrder, Goto, zone, acct, env, OrderInv, TypeOK
    <2>4. ASSUME NEW v \in Value, Owed(r, v) PROVE Owed(r, v)' \/ v.order \in dropped'
      BY <1>5, <2>4 DEF NewOrder, Goto, zone, acct, env, OrderInv, TypeOK, ShapeInv,
         Owed, current, Calling, Value
    <2> QED BY <2>1, <2>2, <2>3, <2>4, ResidueKeep
  <1>6. ASSUME NEW r \in Replicas, NextAuthorization(r) PROVE ResidueInv'
    <2>1. Alone(r)
      BY <1>6, AloneStep DEF OrderInv, Progress, Failure
    <2>2. records' = records /\ dropped \subseteq dropped'
      BY <1>6 DEF NextAuthorization, zone
    <2>3. pc'[r] # "wait"
      BY <1>6 DEF NextAuthorization, Goto, FirstStep, zone, acct, env, OrderInv, TypeOK
    <2>4. ASSUME NEW v \in Value, Owed(r, v) PROVE Owed(r, v)' \/ v.order \in dropped'
      BY <1>6, <2>4 DEF NextAuthorization, Goto, FirstStep, zone, acct, env, OrderInv,
         TypeOK, ShapeInv, Owed, current, Calling, Value
    <2> QED BY <2>1, <2>2, <2>3, <2>4, ResidueKeep
  <1>7. ASSUME NEW r \in Replicas, SetReady(r) PROVE ResidueInv'
    <2>1. Alone(r)
      BY <1>7, AloneStep DEF OrderInv, Progress, Failure
    <2>2. /\ records' = records /\ dropped' = dropped /\ pc'[r] = "authz"
          /\ cleanups'[r] = Append(cleanups[r], current(r))
          /\ UNCHANGED <<order, doing>>
      BY <1>7 DEF SetReady, Goto, zone, OrderInv, TypeOK
    <2>3. doing[r] = "create" /\ current(r) \in Names /\ cleanups[r] \in Seq(Names)
      BY <1>7, TokenType DEF SetReady, OrderInv, TypeOK, ShapeInv
    <2>4. Range(cleanups'[r]) = Range(cleanups[r]) \cup {current(r)}
      BY <2>2, <2>3, AppendRange
    <2>5. ASSUME NEW v \in Value, Owed(r, v) PROVE Owed(r, v)'
      BY <2>2, <2>3, <2>4, <2>5 DEF Owed
    <2> QED BY <2>1, <2>2, <2>5, ResidueKeep
  <1>8. ASSUME NEW r \in Replicas, Route53Zone(r) PROVE ResidueInv'
    <2>1. Alone(r)
      BY <1>8, AloneStep DEF OrderInv, Progress, Failure
    <2>2. records' = records /\ dropped \subseteq dropped'
      BY <1>8 DEF Route53Zone, FindZone, zone
    <2>3. pc'[r] # "wait"
      BY <1>8 DEF Route53Zone, FindZone, Goto, zone, acct, env, OrderInv, TypeOK
    <2>4. ASSUME NEW v \in Value, Owed(r, v) PROVE Owed(r, v)' \/ v.order \in dropped'
      BY <1>8, <2>4 DEF Route53Zone, FindZone, Goto, zone, acct, env, OrderInv, TypeOK,
         ShapeInv, Owed, current, Calling, Value
    <2> QED BY <2>1, <2>2, <2>3, <2>4, ResidueKeep
  <1>9. ASSUME NEW r \in Replicas, CloudflareZone(r) PROVE ResidueInv'
    <2>1. Alone(r)
      BY <1>9, AloneStep DEF OrderInv, Progress, Failure
    <2>2. records' = records /\ dropped \subseteq dropped'
      BY <1>9 DEF CloudflareZone, FindZone, zone
    <2>3. pc'[r] # "wait"
      BY <1>9 DEF CloudflareZone, FindZone, Goto, zone, acct, env, OrderInv, TypeOK
    <2>4. ASSUME NEW v \in Value, Owed(r, v) PROVE Owed(r, v)' \/ v.order \in dropped'
      BY <1>9, <2>4 DEF CloudflareZone, FindZone, Goto, zone, acct, env, OrderInv,
         TypeOK, ShapeInv, Owed, current, Calling, Value
    <2> QED BY <2>1, <2>2, <2>3, <2>4, ResidueKeep
  <1>10. ASSUME NEW r \in Replicas, AzureZone(r) PROVE ResidueInv'
    <2>1. Alone(r)
      BY <1>10, AloneStep DEF OrderInv, Progress, Failure
    <2>2. records' = records /\ dropped \subseteq dropped'
      BY <1>10 DEF AzureZone, FindZone, zone
    <2>3. pc'[r] # "wait"
      BY <1>10 DEF AzureZone, FindZone, Goto, zone, acct, env, OrderInv, TypeOK
    <2>4. ASSUME NEW v \in Value, Owed(r, v) PROVE Owed(r, v)' \/ v.order \in dropped'
      BY <1>10, <2>4 DEF AzureZone, FindZone, Goto, zone, acct, env, OrderInv, TypeOK,
         ShapeInv, Owed, current, Calling, Value
    <2> QED BY <2>1, <2>2, <2>3, <2>4, ResidueKeep
  <1>11. ASSUME NEW r \in Replicas, GcloudZone(r) PROVE ResidueInv'
    <2>1. Alone(r)
      BY <1>11, AloneStep DEF OrderInv, Progress, Failure
    <2>2. records' = records /\ dropped \subseteq dropped'
      BY <1>11 DEF GcloudZone, FindZone, zone
    <2>3. pc'[r] # "wait"
      BY <1>11 DEF GcloudZone, FindZone, Goto, zone, acct, env, OrderInv, TypeOK
    <2>4. ASSUME NEW v \in Value, Owed(r, v) PROVE Owed(r, v)' \/ v.order \in dropped'
      BY <1>11, <2>4 DEF GcloudZone, FindZone, Goto, zone, acct, env, OrderInv, TypeOK,
         ShapeInv, Owed, current, Calling, Value
    <2> QED BY <2>1, <2>2, <2>3, <2>4, ResidueKeep
  <1>12. ASSUME NEW r \in Replicas, AzureGet(r) PROVE ResidueInv'
    <2>1. Alone(r)
      BY <1>12, AloneStep DEF OrderInv, Progress, Failure
    <2>2. records' = records /\ pc[r] = "get"
      BY <1>12 DEF AzureGet, ReadRecords, zone
    <2>3. CASE ReturnOk(r)
      <3>1. pc'[r] # "wait" /\ dropped \subseteq dropped'
        BY <2>3, ReturnLeaves DEF OrderInv
      <3>2. ASSUME NEW n \in Names, NEW v \in Range(records[n]), v \in Value, Owed(r, v)
            PROVE  Owed(r, v)' \/ v.order \in dropped'
        <4>1. ASSUME doing[r] = "delete" PROVE v # Token(r)
          <5>1. Token(r) \notin Range(records[current(r)])
            <6>1. seen'[r] = None
              BY <2>3 DEF ReturnOk, OrderInv, TypeOK
            <6>2. [etag |-> etag[Name(r)], recs |-> records[Name(r)]] \in Read
              BY <2>2, TokenType DEF OrderInv, TypeOK, Read, Calling
            <6>3. records[Name(r)] = <<>>
              BY <1>12, <6>1, <6>2, NoneAssumption DEF AzureGet, ReadRecords, OrderInv, TypeOK
            <6> QED BY <6>3 DEF Name, credentials_for, Range
          <5>2. v.domain = n
            BY <3>2 DEF ResidueInv
          <5> QED BY <3>2, <5>1, <5>2 DEF Token
        <4> QED BY <2>2, <2>3, <3>2, <4>1, ReturnOwed DEF Calling
      <3> QED BY <2>1, <2>2, <3>1, <3>2, ResidueKeep
    <2>4. CASE ~ReturnOk(r)
      <3>1. Goto(r, "edit") /\ UNCHANGED <<order, todo, cleanups, doing, dropped>>
        BY <1>12, <2>4 DEF AzureGet, ReadRecords
      <3>2. pc'[r] = "edit"
        BY <3>1 DEF Goto, OrderInv, TypeOK
      <3>3. ASSUME NEW v \in Value, Owed(r, v) PROVE Owed(r, v)'
        BY <2>2, <3>1, <3>2, <3>3 DEF Owed, current, Calling
      <3> QED BY <2>1, <2>2, <3>1, <3>2, <3>3, ResidueKeep
    <2> QED BY <2>3, <2>4
  <1>13. ASSUME NEW r \in Replicas, GcloudGet(r) PROVE ResidueInv'
    <2>1. Alone(r)
      BY <1>13, AloneStep DEF OrderInv, Progress, Failure
    <2>2. records' = records /\ pc[r] = "get"
      BY <1>13 DEF GcloudGet, ReadRecords, zone
    <2>3. CASE ReturnOk(r)
      <3>1. pc'[r] # "wait" /\ dropped \subseteq dropped'
        BY <2>3, ReturnLeaves DEF OrderInv
      <3>2. ASSUME NEW n \in Names, NEW v \in Range(records[n]), v \in Value, Owed(r, v)
            PROVE  Owed(r, v)' \/ v.order \in dropped'
        <4>1. ASSUME doing[r] = "delete" PROVE v # Token(r)
          <5>1. Token(r) \notin Range(records[current(r)])
            <6>1. seen'[r] = None
              BY <2>3 DEF ReturnOk, OrderInv, TypeOK
            <6>2. /\ [etag |-> etag[Name(r)], recs |-> records[Name(r)]] \in Read
                  /\ records[Name(r)] \in Seq(Value)
              BY <2>2, TokenType DEF OrderInv, TypeOK, Read, Calling
            <6>3. Edited(r, records[Name(r)]) = records[Name(r)]
              BY <1>13, <6>1, <6>2, NoneAssumption DEF GcloudGet, ReadRecords, OrderInv, TypeOK
            <6>4. Token(r) \notin Range(Edited(r, records[Name(r)]))
              BY <2>2, <4>1, <6>2, EditedIs DEF OrderInv, Calling
            <6> QED BY <6>3, <6>4 DEF Name, credentials_for
          <5>2. v.domain = n
            BY <3>2 DEF ResidueInv
          <5> QED BY <3>2, <5>1, <5>2 DEF Token
        <4> QED BY <2>2, <2>3, <3>2, <4>1, ReturnOwed DEF Calling
      <3> QED BY <2>1, <2>2, <3>1, <3>2, ResidueKeep
    <2>4. CASE ~ReturnOk(r)
      <3>1. Goto(r, "edit") /\ UNCHANGED <<order, todo, cleanups, doing, dropped>>
        BY <1>13, <2>4 DEF GcloudGet, ReadRecords
      <3>2. pc'[r] = "edit"
        BY <3>1 DEF Goto, OrderInv, TypeOK
      <3>3. ASSUME NEW v \in Value, Owed(r, v) PROVE Owed(r, v)'
        BY <2>2, <3>1, <3>2, <3>3 DEF Owed, current, Calling
      <3> QED BY <2>1, <2>2, <3>1, <3>2, <3>3, ResidueKeep
    <2> QED BY <2>3, <2>4
  <1>14. ASSUME NEW r \in Replicas, StartServer(r) PROVE ResidueInv'
    <2>1. Alone(r)
      BY <1>14, AloneStep DEF OrderInv, Progress, Failure
    <2>2. records' = records /\ pc[r] \in Calling
      BY <1>14 DEF StartServer, zone, Calling
    <2>3. CASE ReturnErr(r)
      <3>1. pc'[r] # "wait" /\ dropped \subseteq dropped'
        BY <2>3, ReturnLeaves DEF OrderInv
      <3>2. ASSUME NEW v \in Value, Owed(r, v) PROVE v.order \in dropped'
        BY <2>3, <3>2 DEF ReturnErr, Abandon, Owed
      <3> QED BY <2>1, <2>2, <3>1, <3>2, ResidueKeep
    <2>4. CASE ~ReturnErr(r)
      <3>1. Goto(r, "edit") /\ UNCHANGED <<order, todo, cleanups, doing, dropped>>
        BY <1>14, <2>4 DEF StartServer
      <3>2. pc'[r] = "edit"
        BY <3>1 DEF Goto, OrderInv, TypeOK
      <3>3. ASSUME NEW v \in Value, Owed(r, v) PROVE Owed(r, v)'
        BY <2>2, <3>1, <3>2, <3>3 DEF Owed, current, Calling
      <3> QED BY <2>1, <2>2, <3>1, <3>2, <3>3, ResidueKeep
    <2> QED BY <2>3, <2>4
  <1>15. ASSUME NEW r \in Replicas, Edit(r) PROVE ResidueInv'
    <2>1. Alone(r)
      BY <1>15, AloneStep DEF OrderInv, Progress, Failure
    <2>2. pc[r] = "edit" /\ Write(r) /\ EditFacts(r) /\ Name(r) \in Names
      BY <1>15, EditIs, TokenType DEF Edit, Write, OrderInv, Calling
    <2>3. records' \in [Names -> Seq(Value)]
      BY <2>2, WriteType DEF WorldTypeOK
    <2>4. ASSUME NEW n \in Names, NEW v \in Range(records'[n])
          PROVE  /\ v \in Value
                 /\ v \in Range(records[n]) \/ (n = current(r) /\ v = Token(r))
                 /\ doing[r] = "delete" => v # Token(r) \/ n # current(r)
      BY <2>2, <2>4, WrittenIs
    <2>5. ASSUME NEW n \in Names, NEW v \in Range(records[n]) PROVE v.domain = n
      BY <2>5 DEF ResidueInv
    <2>6. CASE ReturnOk(r)
      <3>1. pc'[r] # "wait" /\ dropped \subseteq dropped'
        BY <2>6, ReturnLeaves DEF OrderInv
      <3>2. ASSUME NEW n \in Names, NEW v \in Range(records'[n]), Owed(r, v)
            PROVE  Owed(r, v)' \/ v.order \in dropped'
        <4>1. v \in Value /\ (doing[r] = "delete" => v # Token(r))
          BY <2>4, <2>5, <3>2 DEF Token
        <4> QED BY <2>2, <2>6, <3>2, <4>1, ReturnOwed DEF Calling
      <3>3. Owed(r, Token(r)) \/ doing[r] = "delete"
        BY <2>2 DEF Owed, Token, Calling, OrderInv, TypeOK
      <3>4. Accounted(r)
        BY <2>2, <2>4, <3>2, <3>3 DEF Accounted
      <3> QED BY <2>1, <2>3, <3>1, <3>4, ResidueMove
    <2>7. CASE ~ReturnOk(r)
      <3>1. Goto(r, "wait") /\ UNCHANGED <<order, todo, cleanups, doing, dropped, deployment>>
        BY <1>15, <2>7 DEF Edit, env
      <3>2. pc'[r] = "wait"
        BY <3>1 DEF Goto, OrderInv, TypeOK
      <3>3. ASSUME NEW v, Owed(r, v) PROVE Owed(r, v)'
        BY <2>2, <3>1, <3>2, <3>3 DEF Owed, current, Calling
      <3>4. Owed(r, Token(r)) \/ doing[r] = "delete"
        BY <2>2 DEF Owed, Token, Calling, OrderInv, TypeOK
      <3>5. Accounted(r)
        BY <2>2, <2>4, <3>3, <3>4 DEF Accounted
      <3>6. Token(r)' = Token(r) /\ Name(r)' = Name(r)
        BY <3>1 DEF Token, Name, current, credentials_for, provider, Domains
      <3>7. Name(r) = current(r)
        BY <2>2 DEF EditFacts
      <3>8. doing[r] = "delete" => Token(r) \notin Range(records'[Name(r)])
        BY <2>2, <2>4, <3>7
      <3> QED BY <2>1, <2>3, <3>1, <3>5, <3>6, <3>8, ResidueMove
    <2> QED BY <2>6, <2>7
  <1>16. ASSUME NEW r \in Replicas, Conflict(r) PROVE ResidueInv'
    <2>1. Alone(r)
      BY <1>16, AloneStep DEF OrderInv, Progress, Failure
    <2>2. records' = records /\ pc[r] \in Calling
      BY <1>16 DEF Conflict, zone, Calling
    <2>3. CASE ReturnErr(r)
      <3>1. pc'[r] # "wait" /\ dropped \subseteq dropped'
        BY <2>3, ReturnLeaves DEF OrderInv
      <3>2. ASSUME NEW v \in Value, Owed(r, v) PROVE v.order \in dropped'
        BY <2>3, <3>2 DEF ReturnErr, Abandon, Owed
      <3> QED BY <2>1, <2>2, <3>1, <3>2, ResidueKeep
    <2>4. CASE ~ReturnErr(r)
      <3>1. Goto(r, "get") /\ UNCHANGED <<order, todo, cleanups, doing, dropped>>
        BY <1>16, <2>4 DEF Conflict
      <3>2. pc'[r] = "get"
        BY <3>1 DEF Goto, OrderInv, TypeOK
      <3>3. ASSUME NEW v \in Value, Owed(r, v) PROVE Owed(r, v)'
        BY <2>2, <3>1, <3>2, <3>3 DEF Owed, current, Calling
      <3> QED BY <2>1, <2>2, <3>1, <3>2, <3>3, ResidueKeep
    <2> QED BY <2>3, <2>4
  <1>17. ASSUME NEW r \in Replicas, WaitForPropagation(r) PROVE ResidueInv'
    <2>1. Alone(r)
      BY <1>17, AloneStep DEF OrderInv, Progress, Failure
    <2>2. records' = records /\ pc[r] \in Calling
      BY <1>17 DEF WaitForPropagation, zone, Calling
    <2>3. pc'[r] # "wait" /\ dropped \subseteq dropped'
      BY <1>17, ReturnLeaves DEF WaitForPropagation, OrderInv
    <2>4. ASSUME NEW n \in Names, NEW v \in Range(records[n]), v \in Value, Owed(r, v)
          PROVE  Owed(r, v)' \/ v.order \in dropped'
      <3>1. ASSUME doing[r] = "delete" PROVE v # Token(r)
        <4>1. Token(r) \notin Range(records[current(r)])
          BY <1>17, <3>1 DEF WaitForPropagation, ResidueInv, Name, credentials_for
        <4>2. v.domain = n
          BY <2>4 DEF ResidueInv
        <4> QED BY <2>4, <4>1, <4>2 DEF Token
      <3> QED BY <1>17, <2>2, <2>4, <3>1, ReturnOwed DEF WaitForPropagation
    <2> QED BY <2>1, <2>2, <2>3, <2>4, ResidueKeep
  <1>18. ASSUME NEW r \in Replicas, OrderReady(r) PROVE ResidueInv'
    <2>1. Alone(r)
      BY <1>18, AloneStep DEF OrderInv, Progress, Failure
    <2>2. /\ records' = records /\ dropped' = dropped /\ pc'[r] = "cleanup"
          /\ todo'[r] = cleanups[r] /\ doing'[r] = "delete" /\ order' = order
      BY <1>18 DEF OrderReady, PollReady, Goto, zone, OrderInv, TypeOK
    <2>3. pc[r] = "authz" /\ doing[r] = "create"
      BY <1>18 DEF OrderReady, PollReady, Polling, OrderInv, ShapeInv
    <2>4. ASSUME NEW v \in Value, Owed(r, v) PROVE Owed(r, v)'
      BY <2>2, <2>3, <2>4 DEF Owed, Calling
    <2> QED BY <2>1, <2>2, <2>4, ResidueKeep
  <1>19. ASSUME NEW r \in Replicas, OrderInvalid(r) PROVE ResidueInv'
    <2>1. Alone(r)
      BY <1>19, AloneStep DEF OrderInv, Progress, Failure
    <2>2. /\ records' = records /\ dropped' = dropped /\ pc'[r] = "cleanup"
          /\ todo'[r] = cleanups[r] /\ doing'[r] = "delete" /\ order' = order
      BY <1>19 DEF OrderInvalid, PollReady, Goto, zone, OrderInv, TypeOK
    <2>3. pc[r] = "authz" /\ doing[r] = "create"
      BY <1>19 DEF OrderInvalid, PollReady, Polling, OrderInv, ShapeInv
    <2>4. ASSUME NEW v \in Value, Owed(r, v) PROVE Owed(r, v)'
      BY <2>2, <2>3, <2>4 DEF Owed, Calling
    <2> QED BY <2>1, <2>2, <2>4, ResidueKeep
  <1>20. ASSUME NEW r \in Replicas, RunCleanup(r) PROVE ResidueInv'
    <2>1. Alone(r)
      BY <1>20, AloneStep DEF OrderInv, Progress, Failure
    <2>2. records' = records /\ dropped \subseteq dropped'
      BY <1>20 DEF RunCleanup, zone
    <2>3. pc'[r] # "wait"
      BY <1>20 DEF RunCleanup, Goto, FirstStep, zone, acct, env, OrderInv, TypeOK
    <2>4. ASSUME NEW v \in Value, Owed(r, v) PROVE Owed(r, v)' \/ v.order \in dropped'
      BY <1>20, <2>4 DEF RunCleanup, Goto, FirstStep, zone, acct, env, OrderInv, TypeOK,
         ShapeInv, Owed, current, Calling, Value
    <2> QED BY <2>1, <2>2, <2>3, <2>4, ResidueKeep
  <1>21. ASSUME NEW r \in Replicas, CleanupsDone(r) PROVE ResidueInv'
    <2>1. Alone(r)
      BY <1>21, AloneStep DEF OrderInv, Progress, Failure
    <2>2. records' = records /\ dropped' = dropped
      BY <1>21 DEF CleanupsDone, zone
    <2>3. pc'[r] # "wait"
      BY <1>21 DEF CleanupsDone, End, Goto, OrderInv, TypeOK
    <2>4. ASSUME NEW v \in Value, Owed(r, v) PROVE FALSE
      <3>1. doing[r] = "delete" /\ Range(todo[r]) = {}
        BY <1>21 DEF CleanupsDone, OrderInv, ShapeInv, Range
      <3> QED BY <2>4, <3>1 DEF Owed
    <2> QED BY <2>1, <2>2, <2>3, <2>4, ResidueKeep
  <1>22. ASSUME NEW r \in Replicas, Finalize(r) PROVE ResidueInv'
    <2>1. Alone(r)
      BY <1>22, AloneStep DEF OrderInv, Progress, Failure
    <2>2. records' = records /\ dropped' = dropped
      BY <1>22 DEF Finalize, zone
    <2>3. pc'[r] # "wait"
      BY <1>22 DEF Finalize, End, Goto, OrderInv, TypeOK
    <2>4. ASSUME NEW v \in Value, Owed(r, v) PROVE FALSE
      <3>1. doing[r] = "delete" /\ Range(todo[r]) = {}
        BY <1>22 DEF Finalize, OrderInv, ShapeInv, Range
      <3> QED BY <2>4, <3>1 DEF Owed
    <2> QED BY <2>1, <2>2, <2>3, <2>4, ResidueKeep
  <1>23. ASSUME NEW r \in Replicas, RejectAccount(r) PROVE ResidueInv'
    <2>1. Alone(r)
      BY <1>23, AloneStep DEF OrderInv, Progress, Failure
    <2>2. records' = records /\ dropped \subseteq dropped'
      BY <1>23 DEF RejectAccount, zone
    <2>3. pc'[r] # "wait"
      BY <1>23 DEF RejectAccount, Fault, Goto, zone, env, OrderInv, TypeOK
    <2>4. ASSUME NEW v \in Value, Owed(r, v) PROVE Owed(r, v)' \/ v.order \in dropped'
      BY <1>23, <2>4 DEF RejectAccount, Fault, Goto, zone, env, OrderInv, TypeOK,
         ShapeInv, Owed, current, Calling, Value
    <2> QED BY <2>1, <2>2, <2>3, <2>4, ResidueKeep
  <1>24. ASSUME NEW r \in Replicas, EditLost(r) PROVE ResidueInv'
    <2>1. Alone(r)
      BY <1>24, AloneStep DEF OrderInv, Progress, Failure
    <2>2. pc[r] = "edit" /\ Write(r) /\ EditFacts(r) /\ Name(r) \in Names
      BY <1>24, EditIs, TokenType DEF EditLost, Write, OrderInv, Calling
    <2>3. records' \in [Names -> Seq(Value)]
      BY <2>2, WriteType DEF WorldTypeOK
    <2>4. ASSUME NEW n \in Names, NEW v \in Range(records'[n])
          PROVE  /\ v \in Value
                 /\ v \in Range(records[n]) \/ (n = current(r) /\ v = Token(r))
                 /\ doing[r] = "delete" => v # Token(r) \/ n # current(r)
      BY <2>2, <2>4, WrittenIs
    <2>5. ASSUME NEW n \in Names, NEW v \in Range(records[n]) PROVE v.domain = n
      BY <2>5 DEF ResidueInv
    <2>6. order[r] \in dropped' /\ dropped \subseteq dropped' /\ pc'[r] # "wait"
      BY <1>24 DEF EditLost, ReturnErr, Abandon, End, Goto, OrderInv, TypeOK
    <2>7. Accounted(r)
      BY <2>2, <2>4, <2>6 DEF Accounted, Owed, Token
    <2> QED BY <2>1, <2>3, <2>6, <2>7, ResidueMove
  <1>25. ASSUME NEW r \in Replicas, CallFails(r) PROVE ResidueInv'
    <2>1. Alone(r)
      BY <1>25, AloneStep DEF OrderInv, Progress, Failure
    <2>2. records' = records /\ pc[r] \in Calling
      BY <1>25 DEF CallFails, zone, Calling
    <2>3. pc'[r] # "wait" /\ dropped \subseteq dropped'
      BY <1>25, ReturnLeaves DEF CallFails, OrderInv
    <2>4. ASSUME NEW v \in Value, Owed(r, v) PROVE v.order \in dropped'
      BY <1>25, <2>4 DEF CallFails, ReturnErr, Abandon, Owed
    <2> QED BY <2>1, <2>2, <2>3, <2>4, ResidueKeep
  <1>26. ASSUME NEW r \in Replicas, RequestFails(r) PROVE ResidueInv'
    <2>1. Alone(r)
      BY <1>26, AloneStep DEF OrderInv, Progress, Failure
    <2>2. records' = records /\ dropped \subseteq dropped'
      BY <1>26 DEF RequestFails, Abandon, zone
    <2>3. pc'[r] # "wait"
      BY <1>26 DEF RequestFails, End, Goto, Fault, Abandon, zone, acct, env, OrderInv,
         TypeOK
    <2>4. ASSUME NEW v \in Value, Owed(r, v) PROVE Owed(r, v)' \/ v.order \in dropped'
      BY <1>26, <2>4 DEF RequestFails, End, Goto, Fault, Abandon, zone, acct, env,
         OrderInv, TypeOK, ShapeInv, Owed, current, Calling, Value
    <2> QED BY <2>1, <2>2, <2>3, <2>4, ResidueKeep
  <1>27. ASSUME NEW r \in Replicas, Crash(r) PROVE ResidueInv'
    <2>1. Alone(r)
      BY <1>27, AloneStep DEF OrderInv, Progress, Failure
    <2>2. records' = records /\ dropped \subseteq dropped'
      BY <1>27 DEF Crash, zone
    <2>3. pc'[r] # "wait"
      BY <1>27 DEF Crash, End, Goto, Fault, zone, env, OrderInv, TypeOK
    <2>4. ASSUME NEW v \in Value, Owed(r, v) PROVE Owed(r, v)' \/ v.order \in dropped'
      BY <1>27, <2>4 DEF Crash, End, Goto, Fault, zone, env, OrderInv, TypeOK, ShapeInv,
         Owed, current, Calling, Value
    <2> QED BY <2>1, <2>2, <2>3, <2>4, ResidueKeep
  <1>28. ASSUME NEW r \in Replicas, ServerStops(r) PROVE ResidueInv'
    BY <1>28 DEF ServerStops, zone, acct, task, env, ResidueInv, Owed, Token, Name,
       current, credentials_for, provider, Domains
  <1>29. ASSUME NEW r \in Replicas, NEW d \in Names, Validate(r, d) PROVE ResidueInv'
    BY <1>29 DEF Validate, zone, acct, task, env, ResidueInv, Owed, Token, Name,
       current, credentials_for, provider, Domains
  <1>30. ASSUME NEW r \in Replicas, NEW d \in Names, Reject(r, d) PROVE ResidueInv'
    BY <1>30 DEF Reject, Fault, zone, acct, task, env, ResidueInv, Owed, Token, Name,
       current, credentials_for, provider, Domains
  <1>31. ASSUME NEW n \in Names, Propagate(n) PROVE ResidueInv'
    BY <1>31 DEF Propagate, acct, task, env, ResidueInv, Owed, Token, Name, current,
       credentials_for, provider, Domains
  <1>32. CASE UNCHANGED vars
    BY <1>32 DEF vars, zone, acct, task, env, ResidueInv, Owed, Token, Name, current,
       credentials_for, provider, Domains
  <1> QED BY <1>1, <1>2, <1>3, <1>4, <1>5, <1>6, <1>7, <1>8, <1>9, <1>10, <1>11, <1>12,
     <1>13, <1>14, <1>15, <1>16, <1>17, <1>18, <1>19, <1>20, <1>21, <1>22, <1>23, <1>24,
     <1>25, <1>26, <1>27, <1>28, <1>29, <1>30, <1>31, <1>32 DEF Next, Progress, Failure

(* With every provider but ACME-DNS, which has no way to remove a value, a  *)
(* challenge value is in the zone only while the request that presented it  *)
(* runs, unless that request or one of its clean-ups failed: for any number *)
(* of processes that merge into the same record sets.                       *)
THEOREM NoResidueHolds == Spec => []NoResidue
  <1>1. Init => ResidueInv
    BY DEF Init, ResidueInv, Range, Calling
  <1>2. OrderInv /\ ResidueInv /\ [Next]_vars => ResidueInv'
    BY ResidueStep
  <1>3. OrderInv /\ ResidueInv => NoResidue
    <2> SUFFICES ASSUME OrderInv, ResidueInv, provider # "acmedns",
                        NEW n \in Names, NEW v \in Range(records[n]), v.order \notin dropped
                 PROVE  \E r \in Replicas : order[r] = v.order /\ pc[r] # "finalize"
      BY DEF NoResidue
    <2>1. PICK r \in Replicas : Owed(r, v)
      BY DEF ResidueInv
    <2>2. pc[r] # "finalize"
      <3> SUFFICES ASSUME pc[r] = "finalize" PROVE FALSE
        OBVIOUS
      <3>1. doing[r] = "delete" /\ todo[r] = <<>>
        BY DEF OrderInv, ShapeInv
      <3>2. Range(todo[r]) = {}
        BY <3>1 DEF Range
      <3> QED BY <2>1, <3>1, <3>2 DEF Owed
    <2> QED BY <2>1, <2>2 DEF Owed
  <1> QED BY <1>1, <1>2, <1>3, OrderInvHolds, PTL DEF Spec

----------------------------------------------------------------------------
(* Providers that merge implement TxtRecords.                               *)

(* The refinement mapping.                                                  *)
TxtOf == [n \in Names |-> IF provider \in Merging THEN Range(records[n]) ELSE {}]

CallOf == [r \in Replicas |-> DnsCall(r)]

TakenOf == [r \in Replicas |-> IF provider \in Merging /\ pc[r] = "wait" THEN 1 ELSE 0]

ReplyOf == [r \in Replicas |-> IF provider \in Merging THEN reply[r] ELSE "none"]

TxtStep == Txt!TxtNext \/ UNCHANGED Txt!tvars

LEMMA TxtUnchanged ==
    ASSUME UNCHANGED <<TxtOf, CallOf, TakenOf, ReplyOf>>
    PROVE  TxtStep
  BY DEF TxtStep, TxtOf, CallOf, TakenOf, ReplyOf, Txt!tvars

(* A provider that does not merge is not looked at.                         *)
LEMMA TxtOther ==
    ASSUME provider \notin Merging, deployment' = deployment
    PROVE  TxtStep
  <1>1. provider' = provider
    BY DEF provider
  <1>2. UNCHANGED <<TxtOf, CallOf, TakenOf, ReplyOf>>
    BY <1>1 DEF TxtOf, CallOf, TakenOf, ReplyOf, DnsCall
  <1> QED BY <1>2, TxtUnchanged

(* A step of r changes nothing in the mapping but what belongs to r.        *)
LEMMA TxtAlone ==
    ASSUME NEW r \in Replicas, Alone(r), provider \in Merging
    PROVE  /\ provider' = provider
           /\ CallOf' = [CallOf EXCEPT ![r] = DnsCall(r)']
           /\ TakenOf' = [TakenOf EXCEPT ![r] = IF pc'[r] = "wait" THEN 1 ELSE 0]
           /\ ReplyOf' = [ReplyOf EXCEPT ![r] = reply'[r]]
           /\ records' = records => TxtOf' = TxtOf
  <1>1. provider' = provider
    BY DEF Alone, provider
  <1>2. \A q \in Replicas \ {r} : DnsCall(q)' = DnsCall(q)
    BY DEF Alone, DnsCall, Name, Token, current, credentials_for, provider, Domains
  <1>3. CallOf' = [CallOf EXCEPT ![r] = DnsCall(r)']
    BY <1>2 DEF CallOf
  <1>4. TakenOf' = [TakenOf EXCEPT ![r] = IF pc'[r] = "wait" THEN 1 ELSE 0]
    BY <1>1 DEF TakenOf, Alone
  <1>5. ReplyOf' = [ReplyOf EXCEPT ![r] = reply'[r]]
    BY <1>1 DEF ReplyOf, Alone
  <1>6. records' = records => TxtOf' = TxtOf
    BY <1>1 DEF TxtOf
  <1> QED BY <1>1, <1>3, <1>4, <1>5, <1>6

(* The call in progress.                                                    *)
LEMMA DnsCallIs ==
    ASSUME OrderInv, NEW r \in Replicas, provider \in Merging
    PROVE  /\ pc[r] \in Calling =>
                 /\ DnsCall(r) = [kind |-> doing[r], name |-> Name(r), value |-> Token(r)]
                 /\ DnsCall(r) \in DnsCalls
           /\ pc[r] \notin Calling => DnsCall(r) = None
           /\ CallOf[r] = DnsCall(r)
           /\ TakenOf[r] = IF pc[r] = "wait" THEN 1 ELSE 0
           /\ ReplyOf[r] = reply[r]
           /\ CallOf \in [Replicas -> DnsCalls \cup {None}]
  <1>1. ASSUME NEW q \in Replicas, pc[q] \in Calling
        PROVE  /\ DnsCall(q) = [kind |-> doing[q], name |-> Name(q), value |-> Token(q)]
               /\ DnsCall(q) \in DnsCalls
    <2>1. doing[q] \in {"create", "delete"} /\ Name(q) \in Names /\ Token(q) \in Value
      BY <1>1, TokenType DEF OrderInv, TypeOK
    <2> QED BY <1>1, <2>1 DEF DnsCall, DnsCalls
  <1>2. ASSUME NEW q \in Replicas, pc[q] \notin Calling PROVE DnsCall(q) = None
    BY <1>2 DEF DnsCall
  <1> QED BY <1>1, <1>2 DEF CallOf, TakenOf, ReplyOf

(* The request moves on and its call, if any, stays the same.               *)
LEMMA TxtQuiet ==
    ASSUME NEW r \in Replicas, Alone(r), provider \in Merging, OrderInv, records' = records,
           DnsCall(r)' = DnsCall(r), reply'[r] = reply[r], pc'[r] = "wait" <=> pc[r] = "wait"
    PROVE  TxtStep
  <1>1. CallOf' = CallOf
    BY TxtAlone DEF CallOf
  <1>2. TakenOf' = TakenOf
    BY TxtAlone DEF TakenOf
  <1>3. ReplyOf' = ReplyOf
    BY TxtAlone DEF ReplyOf
  <1> QED BY <1>1, <1>2, <1>3, TxtAlone, TxtUnchanged

(* A call begins.                                                           *)
LEMMA TxtBegin ==
    ASSUME NEW r \in Replicas, Alone(r), provider \in Merging, OrderInv, records' = records,
           pc[r] \notin Calling, pc'[r] \in Calling, pc'[r] # "wait", reply'[r] = reply[r],
           UNCHANGED <<order, todo, doing>>, todo[r] # <<>>, pc[r] # "idle"
    PROVE  TxtStep
  <1>1. /\ provider' = provider
        /\ DnsCall(r)' = [kind |-> doing[r], name |-> current(r), value |-> Token(r)]
    BY TxtAlone DEF DnsCall, Name, Token, current, credentials_for, Merging
  <1>2. CallOf[r] = None
    BY DnsCallIs
  <1>3. DnsCall(r)' \in DnsCalls
    <2>1. current(r) \in Names /\ doing[r] \in {"create", "delete"}
      BY DEF OrderInv, TypeOK, current
    <2>2. order[r] \in 1..MaxOrders
      BY BoundAssumption DEF OrderInv, TypeOK, ShapeInv
    <2> QED BY <1>1, <2>1, <2>2 DEF DnsCalls, Token, Value
  <1>4. CallOf' = [CallOf EXCEPT ![r] = DnsCall(r)'] /\ TxtOf' = TxtOf
    BY TxtAlone
  <1>5. TakenOf' = TakenOf
    BY TxtAlone DEF TakenOf, Calling
  <1>6. ReplyOf' = ReplyOf
    BY TxtAlone DEF ReplyOf
  <1>7. Txt!Begin(r)
    BY <1>2, <1>3, <1>4, <1>5, <1>6 DEF Txt!Begin, Txt!Requests, DnsCalls, CallOf, TxtOf,
       TakenOf, ReplyOf
  <1> QED BY <1>7 DEF TxtStep, Txt!TxtNext

(* What the abstract record sets are once the call of r has taken effect.   *)
AfterOf(r) ==
    [TxtOf EXCEPT ![Name(r)] = IF doing[r] = "create" THEN @ \cup {Token(r)} ELSE @ \ {Token(r)}]

LEMMA TxtWrite ==
    ASSUME NEW r \in Replicas, provider \in Merging, deployment' = deployment, OrderInv,
           pc[r] = "edit", Write(r)
    PROVE  TxtOf' = AfterOf(r)
  <1>1. /\ Range(ProviderEdit(r).recs) =
              IF doing[r] = "create" THEN Range(records[Name(r)]) \cup {Token(r)}
                                     ELSE Range(records[Name(r)]) \ {Token(r)}
        /\ Name(r) \in Names
    BY EditIs, TokenType DEF EditFacts, Write, OrderInv, Calling, Merging
  <1>2. provider' = provider
    BY DEF provider
  <1>3. records' = [records EXCEPT ![Name(r)] = ProviderEdit(r).recs]
    BY DEF Write
  <1>4. ASSUME NEW n \in Names PROVE TxtOf'[n] = AfterOf(r)[n]
    <2>1. CASE n = Name(r)
      BY <1>1, <1>2, <1>3, <2>1 DEF TxtOf, AfterOf, OrderInv, TypeOK
    <2>2. CASE n # Name(r)
      BY <1>1, <1>2, <1>3, <2>2 DEF TxtOf, AfterOf, OrderInv, TypeOK
    <2> QED BY <2>1, <2>2
  <1> QED BY <1>4 DEF TxtOf, AfterOf

(* The value is already there, or already gone: the call has its effect.    *)
LEMMA TxtSettled ==
    ASSUME NEW r \in Replicas, provider \in Merging, OrderInv, pc[r] \in Calling,
           doing[r] = "create" => Token(r) \in Range(records[Name(r)]),
           doing[r] = "delete" => Token(r) \notin Range(records[Name(r)])
    PROVE  TxtOf = AfterOf(r)
  <1>1. Name(r) \in Names /\ doing[r] \in {"create", "delete"}
    BY TokenType DEF OrderInv, TypeOK
  <1>2. ASSUME NEW n \in Names PROVE TxtOf[n] = AfterOf(r)[n]
    BY <1>1 DEF TxtOf, AfterOf
  <1> QED BY <1>2 DEF TxtOf, AfterOf

LEMMA AfterIs ==
    ASSUME NEW r \in Replicas, provider \in Merging, OrderInv, pc[r] \in Calling
    PROVE  Txt!After(CallOf[r]) = AfterOf(r)
  <1>1. CallOf[r] = [kind |-> doing[r], name |-> Name(r), value |-> Token(r)]
    BY DnsCallIs
  <1> QED BY <1>1 DEF Txt!After, AfterOf, TxtOf

(* The change is made and the call goes on waiting for it to be served.     *)
LEMMA TxtTake ==
    ASSUME NEW r \in Replicas, Alone(r), provider \in Merging, OrderInv, pc[r] = "edit", Write(r),
           pc'[r] = "wait", UNCHANGED <<order, todo, doing>>, reply'[r] = reply[r]
    PROVE  TxtStep
  <1>1. provider' = provider /\ DnsCall(r)' = DnsCall(r)
    BY TxtAlone DEF DnsCall, Name, Token, current, credentials_for, Calling, Alone, Domains
  <1>2. CallOf[r] # None /\ TakenOf[r] = 0
    BY DnsCallIs, NoneAssumption DEF Calling
  <1>3. CallOf' = CallOf
    BY <1>1, TxtAlone DEF CallOf
  <1>4. TakenOf' = [TakenOf EXCEPT ![r] = 1]
    BY TxtAlone
  <1>5. ReplyOf' = ReplyOf
    BY TxtAlone DEF ReplyOf
  <1>6. TxtOf' = Txt!After(CallOf[r])
    BY TxtWrite, AfterIs DEF Alone, Calling
  <1>7. Txt!Take(r)
    BY <1>2, <1>3, <1>4, <1>5, <1>6 DEF Txt!Take, CallOf, TxtOf, TakenOf, ReplyOf
  <1> QED BY <1>7 DEF TxtStep, Txt!TxtNext

(* A call returns: without an error only once it has taken effect.          *)
LEMMA TxtReturn ==
    ASSUME NEW r \in Replicas, Alone(r), provider \in Merging, OrderInv, pc[r] \in Calling,
           pc'[r] \notin Calling,
           \/ reply'[r] = "ok" /\ pc[r] # "wait" /\ TxtOf' = AfterOf(r)
           \/ reply'[r] = "ok" /\ pc[r] = "wait" /\ TxtOf' = TxtOf
           \/ reply'[r] = "err" /\ TxtOf' = TxtOf
           \/ reply'[r] = "err" /\ pc[r] # "wait" /\ TxtOf' = AfterOf(r)
    PROVE  TxtStep
  <1> DEFINE settled == IF TakenOf[r] = 1 THEN TxtOf ELSE Txt!After(CallOf[r])
  <1>1. provider' = provider /\ DnsCall(r)' = None
    BY TxtAlone DEF DnsCall
  <1>2. CallOf[r] # None /\ TakenOf[r] = IF pc[r] = "wait" THEN 1 ELSE 0
    BY DnsCallIs, NoneAssumption
  <1>3. CallOf' = [CallOf EXCEPT ![r] = None]
    BY <1>1, TxtAlone
  <1>4. TakenOf' = [TakenOf EXCEPT ![r] = 0]
    BY TxtAlone DEF Calling
  <1>5. ReplyOf' = [ReplyOf EXCEPT ![r] = reply'[r]]
    BY TxtAlone
  <1>6. settled = IF pc[r] = "wait" THEN TxtOf ELSE AfterOf(r)
    BY <1>2, AfterIs
  <1> HIDE DEF settled
  <1>7. \/ TxtOf' = settled /\ ReplyOf' = [ReplyOf EXCEPT ![r] = "ok"]
        \/ TxtOf' \in {TxtOf, settled} /\ ReplyOf' = [ReplyOf EXCEPT ![r] = "err"]
    BY <1>5, <1>6
  <1> USE DEF settled
  <1>8. Txt!Return(r)
    BY <1>2, <1>3, <1>4, <1>7 DEF Txt!Return, CallOf, TxtOf, TakenOf, ReplyOf
  <1> QED BY <1>8 DEF TxtStep, Txt!TxtNext

LEMMA ReturnsTo ==
    ASSUME OrderInv, NEW r \in Replicas
    PROVE  /\ ReturnOk(r) => reply'[r] = "ok" /\ pc'[r] \notin Calling
           /\ ReturnErr(r) => reply'[r] = "err" /\ pc'[r] \notin Calling
  <1>1. ASSUME ReturnOk(r) PROVE reply'[r] = "ok" /\ pc'[r] \notin Calling
    BY <1>1 DEF ReturnOk, Goto, OrderInv, TypeOK, Calling
  <1>2. ASSUME ReturnErr(r) PROVE reply'[r] = "err" /\ pc'[r] \notin Calling
    <2>1. Goto(r, "idle") \/ Goto(r, "cleanup")
      BY <1>2 DEF ReturnErr, Abandon, End
    <2>2. reply'[r] = "err"
      BY <1>2 DEF ReturnErr, OrderInv, TypeOK
    <2> QED BY <2>1, <2>2 DEF Goto, OrderInv, TypeOK, Calling
  <1> QED BY <1>1, <1>2

(* Every step is a step of TxtRecords or leaves it alone.                   *)
LEMMA TxtRefines ==
    ASSUME OrderInv, [Next]_vars
    PROVE  TxtStep
  <1>0. CASE provider \notin Merging
    BY <1>0, DeploymentFixed, TxtOther DEF OrderInv
  <1> SUFFICES ASSUME provider \in Merging PROVE TxtStep
    BY <1>0
  <1>1. ASSUME NEW r \in Replicas, Start(r) PROVE TxtStep
    <2>1. Alone(r)
      BY <1>1, AloneStep DEF OrderInv, Progress, Failure
    <2>2. records' = records /\ UNCHANGED reply /\ DnsCall(r)' = DnsCall(r)
      BY <1>1, <2>1, TxtAlone DEF Start, Goto, zone, acct, DnsCall, Name, Token, current,
         credentials_for, Domains, Calling, Alone, OrderInv, TypeOK, ShapeInv
    <2>3. pc'[r] = "wait" <=> pc[r] = "wait"
      BY <1>1 DEF Start, Goto, zone, acct, OrderInv, TypeOK
    <2> QED BY <2>1, <2>2, <2>3, TxtQuiet
  <1>2. ASSUME NEW r \in Replicas, LoadAccount(r) PROVE TxtStep
    <2>1. Alone(r)
      BY <1>2, AloneStep DEF OrderInv, Progress, Failure
    <2>2. records' = records /\ UNCHANGED reply /\ DnsCall(r)' = DnsCall(r)
      BY <1>2, <2>1, TxtAlone DEF LoadAccount, Goto, zone, env, DnsCall, Name, Token, current,
         credentials_for, Domains, Calling, Alone, OrderInv, TypeOK, ShapeInv
    <2>3. pc'[r] = "wait" <=> pc[r] = "wait"
      BY <1>2 DEF LoadAccount, Goto, zone, env, OrderInv, TypeOK
    <2> QED BY <2>1, <2>2, <2>3, TxtQuiet
  <1>3. ASSUME NEW r \in Replicas, CreateAccount(r) PROVE TxtStep
    <2>1. Alone(r)
      BY <1>3, AloneStep DEF OrderInv, Progress, Failure
    <2>2. records' = records /\ UNCHANGED reply /\ DnsCall(r)' = DnsCall(r)
      BY <1>3, <2>1, TxtAlone DEF CreateAccount, Goto, NeedsAccount, zone, acct, env, DnsCall,
         Name, Token, current, credentials_for, Domains, Calling, Alone, OrderInv, TypeOK,
         ShapeInv
    <2>3. pc'[r] = "wait" <=> pc[r] = "wait"
      BY <1>3 DEF CreateAccount, Goto, NeedsAccount, zone, acct, env, OrderInv, TypeOK
    <2> QED BY <2>1, <2>2, <2>3, TxtQuiet
  <1>4. ASSUME NEW r \in Replicas, SaveAccount(r) PROVE TxtStep
    <2>1. Alone(r)
      BY <1>4, AloneStep DEF OrderInv, Progress, Failure
    <2>2. records' = records /\ UNCHANGED reply /\ DnsCall(r)' = DnsCall(r)
      BY <1>4, <2>1, TxtAlone DEF SaveAccount, Goto, zone, env, DnsCall, Name, Token, current,
         credentials_for, Domains, Calling, Alone, OrderInv, TypeOK, ShapeInv
    <2>3. pc'[r] = "wait" <=> pc[r] = "wait"
      BY <1>4 DEF SaveAccount, Goto, zone, env, OrderInv, TypeOK
    <2> QED BY <2>1, <2>2, <2>3, TxtQuiet
  <1>5. ASSUME NEW r \in Replicas, NewOrder(r) PROVE TxtStep
    <2>1. Alone(r)
      BY <1>5, AloneStep DEF OrderInv, Progress, Failure
    <2>2. records' = records /\ UNCHANGED reply /\ DnsCall(r)' = DnsCall(r)
      BY <1>5, <2>1, TxtAlone DEF NewOrder, Goto, zone, acct, env, DnsCall, Name, Token, current,
         credentials_for, Domains, Calling, Alone, OrderInv, TypeOK, ShapeInv
    <2>3. pc'[r] = "wait" <=> pc[r] = "wait"
      BY <1>5 DEF NewOrder, Goto, zone, acct, env, OrderInv, TypeOK
    <2> QED BY <2>1, <2>2, <2>3, TxtQuiet
  <1>6. ASSUME NEW r \in Replicas, NextAuthorization(r) PROVE TxtStep
    <2>1. Alone(r)
      BY <1>6, AloneStep DEF OrderInv, Progress, Failure
    <2>2. CASE authz[r][current(r)] = "valid"
      <3>1. records' = records /\ UNCHANGED <<reply, pc>>
        BY <1>6, <2>2 DEF NextAuthorization, zone
      <3>2. pc[r] = "authz"
        BY <1>6 DEF NextAuthorization
      <3>3. DnsCall(r)' = DnsCall(r)
        BY <3>1, <3>2 DEF DnsCall, Calling
      <3> QED BY <2>1, <3>1, <3>3, TxtQuiet
    <2>3. CASE authz[r][current(r)] # "valid"
      <3>1. /\ pc[r] = "authz" /\ pc' = [pc EXCEPT ![r] = "zone"] /\ todo[r] # <<>>
            /\ UNCHANGED <<order, todo, doing, reply, records>>
        BY <1>6, <2>3 DEF NextAuthorization, Goto, FirstStep, zone, Merging, Zoned
      <3> QED BY <2>1, <3>1, TxtBegin DEF Calling, OrderInv, TypeOK
    <2> QED BY <2>2, <2>3
  <1>7. ASSUME NEW r \in Replicas, SetReady(r) PROVE TxtStep
    <2>1. Alone(r)
      BY <1>7, AloneStep DEF OrderInv, Progress, Failure
    <2>2. records' = records /\ UNCHANGED reply /\ DnsCall(r)' = DnsCall(r)
      BY <1>7, <2>1, TxtAlone DEF SetReady, Goto, zone, acct, env, DnsCall, Name, Token, current,
         credentials_for, Domains, Calling, Alone, OrderInv, TypeOK, ShapeInv
    <2>3. pc'[r] = "wait" <=> pc[r] = "wait"
      BY <1>7 DEF SetReady, Goto, zone, acct, env, OrderInv, TypeOK
    <2> QED BY <2>1, <2>2, <2>3, TxtQuiet
  <1>8. ASSUME NEW r \in Replicas, Route53Zone(r) PROVE TxtStep
    BY <1>8 DEF Route53Zone, Merging
  <1>9. ASSUME NEW r \in Replicas, CloudflareZone(r) PROVE TxtStep
    <2>1. Alone(r)
      BY <1>9, AloneStep DEF OrderInv, Progress, Failure
    <2>2. records' = records /\ UNCHANGED reply /\ DnsCall(r)' = DnsCall(r)
      BY <1>9, <2>1, TxtAlone DEF CloudflareZone, FindZone, Goto, zone, acct, env, DnsCall,
         Name, Token, current, credentials_for, Domains, Calling, Alone, OrderInv, TypeOK,
         ShapeInv
    <2>3. pc'[r] = "wait" <=> pc[r] = "wait"
      BY <1>9 DEF CloudflareZone, FindZone, Goto, zone, acct, env, OrderInv, TypeOK
    <2> QED BY <2>1, <2>2, <2>3, TxtQuiet
  <1>10. ASSUME NEW r \in Replicas, AzureZone(r) PROVE TxtStep
    <2>1. Alone(r)
      BY <1>10, AloneStep DEF OrderInv, Progress, Failure
    <2>2. records' = records /\ UNCHANGED reply /\ DnsCall(r)' = DnsCall(r)
      BY <1>10, <2>1, TxtAlone DEF AzureZone, FindZone, Goto, zone, acct, env, DnsCall, Name,
         Token, current, credentials_for, Domains, Calling, Alone, OrderInv, TypeOK, ShapeInv
    <2>3. pc'[r] = "wait" <=> pc[r] = "wait"
      BY <1>10 DEF AzureZone, FindZone, Goto, zone, acct, env, OrderInv, TypeOK
    <2> QED BY <2>1, <2>2, <2>3, TxtQuiet
  <1>11. ASSUME NEW r \in Replicas, GcloudZone(r) PROVE TxtStep
    <2>1. Alone(r)
      BY <1>11, AloneStep DEF OrderInv, Progress, Failure
    <2>2. records' = records /\ UNCHANGED reply /\ DnsCall(r)' = DnsCall(r)
      BY <1>11, <2>1, TxtAlone DEF GcloudZone, FindZone, Goto, zone, acct, env, DnsCall, Name,
         Token, current, credentials_for, Domains, Calling, Alone, OrderInv, TypeOK, ShapeInv
    <2>3. pc'[r] = "wait" <=> pc[r] = "wait"
      BY <1>11 DEF GcloudZone, FindZone, Goto, zone, acct, env, OrderInv, TypeOK
    <2> QED BY <2>1, <2>2, <2>3, TxtQuiet
  <1>12. ASSUME NEW r \in Replicas, AzureGet(r) PROVE TxtStep
    <2>1. Alone(r)
      BY <1>12, AloneStep DEF OrderInv, Progress, Failure
    <2>2. pc[r] = "get" /\ records' = records /\ deployment' = deployment
      BY <1>12 DEF AzureGet, ReadRecords, zone, env
    <2>3. CASE doing[r] = "delete" /\ records[Name(r)] = <<>>
      <3>1. ReturnOk(r)
        BY <1>12, <2>3 DEF AzureGet, ReadRecords
      <3>2. TxtOf = AfterOf(r)
        <4>1. Range(records[Name(r)]) = {}
          BY <2>3 DEF Range
        <4> QED BY <2>2, <2>3, <4>1, TxtSettled DEF Calling
      <3>3. TxtOf' = TxtOf
        BY <2>1, <2>2, TxtAlone
      <3> QED BY <2>1, <2>2, <3>1, <3>2, <3>3, ReturnsTo, TxtReturn DEF Calling
    <2>4. CASE ~(doing[r] = "delete" /\ records[Name(r)] = <<>>)
      <3>1. pc' = [pc EXCEPT ![r] = "edit"] /\ UNCHANGED <<order, todo, doing, reply>>
        BY <1>12, <2>4 DEF AzureGet, ReadRecords, Goto
      <3>2. DnsCall(r)' = DnsCall(r)
        BY <2>1, <2>2, <3>1, TxtAlone DEF DnsCall, Name, Token, current, credentials_for, Domains,
           Calling, OrderInv, TypeOK
      <3> QED BY <2>1, <2>2, <3>1, <3>2, TxtQuiet DEF OrderInv, TypeOK
    <2> QED BY <2>3, <2>4
  <1>13. ASSUME NEW r \in Replicas, GcloudGet(r) PROVE TxtStep
    <2>1. Alone(r)
      BY <1>13, AloneStep DEF OrderInv, Progress, Failure
    <2>2. pc[r] = "get" /\ records' = records /\ deployment' = deployment
      BY <1>13 DEF GcloudGet, ReadRecords, zone, env
    <2>3. CASE Edited(r, records[Name(r)]) = records[Name(r)]
      <3>1. ReturnOk(r)
        BY <1>13, <2>3 DEF GcloudGet, ReadRecords
      <3>2. TxtOf = AfterOf(r)
        <4>1. Name(r) \in Names
          BY <2>2, TokenType DEF OrderInv, Calling
        <4>2. records[Name(r)] \in Seq(Value)
          BY <4>1 DEF OrderInv, TypeOK
        <4>3. Range(records[Name(r)]) =
                IF doing[r] = "create" THEN Range(records[Name(r)]) \cup {Token(r)}
                                       ELSE Range(records[Name(r)]) \ {Token(r)}
          BY <2>2, <2>3, <4>2, EditedIs DEF OrderInv, Calling
        <4> QED BY <2>2, <4>3, TxtSettled DEF Calling
      <3>3. TxtOf' = TxtOf
        BY <2>1, <2>2, TxtAlone
      <3> QED BY <2>1, <2>2, <3>1, <3>2, <3>3, ReturnsTo, TxtReturn DEF Calling
    <2>4. CASE ~(Edited(r, records[Name(r)]) = records[Name(r)])
      <3>1. pc' = [pc EXCEPT ![r] = "edit"] /\ UNCHANGED <<order, todo, doing, reply>>
        BY <1>13, <2>4 DEF GcloudGet, ReadRecords, Goto
      <3>2. DnsCall(r)' = DnsCall(r)
        BY <2>1, <2>2, <3>1, TxtAlone DEF DnsCall, Name, Token, current, credentials_for, Domains,
           Calling, OrderInv, TypeOK
      <3> QED BY <2>1, <2>2, <3>1, <3>2, TxtQuiet DEF OrderInv, TypeOK
    <2> QED BY <2>3, <2>4
  <1>14. ASSUME NEW r \in Replicas, StartServer(r) PROVE TxtStep
    BY <1>14 DEF StartServer, OrderInv, ShapeInv, Merging
  <1>15. ASSUME NEW r \in Replicas, Edit(r) PROVE TxtStep
    <2>1. Alone(r)
      BY <1>15, AloneStep DEF OrderInv, Progress, Failure
    <2>2. pc[r] = "edit" /\ Write(r) /\ deployment' = deployment
      BY <1>15 DEF Edit, env
    <2>3. CASE Awaits(r)
      <3>1. pc' = [pc EXCEPT ![r] = "wait"] /\ UNCHANGED <<order, todo, doing, reply>>
        BY <1>15, <2>3 DEF Edit, Goto
      <3> QED BY <2>1, <2>2, <3>1, TxtTake DEF OrderInv, TypeOK
    <2>4. CASE ~Awaits(r)
      <3>1. ReturnOk(r)
        BY <1>15, <2>4 DEF Edit
      <3>2. TxtOf' = AfterOf(r)
        BY <2>2, TxtWrite
      <3> QED BY <2>1, <2>2, <3>1, <3>2, ReturnsTo, TxtReturn DEF Calling
    <2> QED BY <2>3, <2>4
  <1>16. ASSUME NEW r \in Replicas, Conflict(r) PROVE TxtStep
    <2>1. Alone(r)
      BY <1>16, AloneStep DEF OrderInv, Progress, Failure
    <2>2. pc[r] = "edit" /\ records' = records
      BY <1>16 DEF Conflict, zone
    <2>3. TxtOf' = TxtOf
      BY <2>1, <2>2, TxtAlone
    <2>4. CASE ReturnErr(r)
      BY <2>1, <2>2, <2>3, <2>4, ReturnsTo, TxtReturn DEF Calling
    <2>5. CASE ~ReturnErr(r)
      <3>1. pc' = [pc EXCEPT ![r] = "get"] /\ UNCHANGED <<order, todo, doing, reply>>
        BY <1>16, <2>5 DEF Conflict, Goto
      <3>2. DnsCall(r)' = DnsCall(r)
        BY <2>1, <2>2, <3>1, TxtAlone DEF DnsCall, Name, Token, current, credentials_for, Domains,
           Calling, Alone, OrderInv, TypeOK
      <3> QED BY <2>1, <2>2, <3>1, <3>2, TxtQuiet DEF OrderInv, TypeOK
    <2> QED BY <2>4, <2>5
  <1>17. ASSUME NEW r \in Replicas, WaitForPropagation(r) PROVE TxtStep
    <2>1. Alone(r)
      BY <1>17, AloneStep DEF OrderInv, Progress, Failure
    <2>2. pc[r] = "wait" /\ records' = records /\ ReturnOk(r)
      BY <1>17 DEF WaitForPropagation, zone
    <2> QED BY <2>1, <2>2, ReturnsTo, TxtAlone, TxtReturn DEF Calling
  <1>18. ASSUME NEW r \in Replicas, OrderReady(r) PROVE TxtStep
    <2>1. Alone(r)
      BY <1>18, AloneStep DEF OrderInv, Progress, Failure
    <2>2. records' = records /\ UNCHANGED reply /\ DnsCall(r)' = DnsCall(r)
      BY <1>18, <2>1, TxtAlone DEF OrderReady, PollReady, Polling, Goto, zone, acct, env,
         DnsCall, Name, Token, current, credentials_for, Domains, Calling, Alone, OrderInv,
         TypeOK, ShapeInv
    <2>3. pc'[r] = "wait" <=> pc[r] = "wait"
      BY <1>18 DEF OrderReady, PollReady, Polling, Goto, zone, acct, env, OrderInv, TypeOK
    <2> QED BY <2>1, <2>2, <2>3, TxtQuiet
  <1>19. ASSUME NEW r \in Replicas, OrderInvalid(r) PROVE TxtStep
    <2>1. Alone(r)
      BY <1>19, AloneStep DEF OrderInv, Progress, Failure
    <2>2. records' = records /\ UNCHANGED reply /\ DnsCall(r)' = DnsCall(r)
      BY <1>19, <2>1, TxtAlone DEF OrderInvalid, PollReady, Polling, Goto, zone, acct, env,
         DnsCall, Name, Token, current, credentials_for, Domains, Calling, Alone, OrderInv,
         TypeOK, ShapeInv
    <2>3. pc'[r] = "wait" <=> pc[r] = "wait"
      BY <1>19 DEF OrderInvalid, PollReady, Polling, Goto, zone, acct, env, OrderInv, TypeOK
    <2> QED BY <2>1, <2>2, <2>3, TxtQuiet
  <1>20. ASSUME NEW r \in Replicas, RunCleanup(r) PROVE TxtStep
    <2>1. Alone(r)
      BY <1>20, AloneStep DEF OrderInv, Progress, Failure
    <2>2. /\ pc[r] = "cleanup" /\ pc' = [pc EXCEPT ![r] = "zone"] /\ todo[r] # <<>>
          /\ UNCHANGED <<order, todo, doing, reply, records>>
      BY <1>20 DEF RunCleanup, Goto, FirstStep, zone, Merging, Zoned
    <2> QED BY <2>1, <2>2, TxtBegin DEF Calling, OrderInv, TypeOK
  <1>21. ASSUME NEW r \in Replicas, CleanupsDone(r) PROVE TxtStep
    <2>1. Alone(r)
      BY <1>21, AloneStep DEF OrderInv, Progress, Failure
    <2>2. records' = records /\ UNCHANGED reply /\ DnsCall(r)' = DnsCall(r)
      <3>1. /\ pc[r] = "cleanup" /\ UNCHANGED <<records, reply>>
            /\ Goto(r, "finalize") \/ Goto(r, "idle")
        BY <1>21 DEF CleanupsDone, End, zone
      <3>2. pc[r] \notin Calling /\ pc'[r] \notin Calling
        BY <3>1 DEF Goto, Calling, OrderInv, TypeOK
      <3> QED BY <3>1, <3>2 DEF DnsCall
    <2>3. pc'[r] = "wait" <=> pc[r] = "wait"
      BY <1>21 DEF CleanupsDone, Goto, zone, acct, env, End, OrderInv, TypeOK
    <2> QED BY <2>1, <2>2, <2>3, TxtQuiet
  <1>22. ASSUME NEW r \in Replicas, Finalize(r) PROVE TxtStep
    <2>1. Alone(r)
      BY <1>22, AloneStep DEF OrderInv, Progress, Failure
    <2>2. records' = records /\ UNCHANGED reply /\ DnsCall(r)' = DnsCall(r)
      BY <1>22, <2>1, TxtAlone DEF Finalize, zone, acct, env, End, Goto, DnsCall, Name, Token,
         current, credentials_for, Domains, Calling, Alone, OrderInv, TypeOK, ShapeInv
    <2>3. pc'[r] = "wait" <=> pc[r] = "wait"
      BY <1>22 DEF Finalize, zone, acct, env, End, Goto, OrderInv, TypeOK
    <2> QED BY <2>1, <2>2, <2>3, TxtQuiet
  <1>23. ASSUME NEW r \in Replicas, RejectAccount(r) PROVE TxtStep
    <2>1. Alone(r)
      BY <1>23, AloneStep DEF OrderInv, Progress, Failure
    <2>2. records' = records /\ UNCHANGED reply /\ DnsCall(r)' = DnsCall(r)
      BY <1>23, <2>1, TxtAlone DEF RejectAccount, Fault, Goto, zone, env, DnsCall, Name, Token,
         current, credentials_for, Domains, Calling, Alone, OrderInv, TypeOK, ShapeInv
    <2>3. pc'[r] = "wait" <=> pc[r] = "wait"
      BY <1>23 DEF RejectAccount, Fault, Goto, zone, env, OrderInv, TypeOK
    <2> QED BY <2>1, <2>2, <2>3, TxtQuiet
  <1>24. ASSUME NEW r \in Replicas, EditLost(r) PROVE TxtStep
    <2>1. Alone(r)
      BY <1>24, AloneStep DEF OrderInv, Progress, Failure
    <2>2. pc[r] = "edit" /\ Write(r) /\ ReturnErr(r) /\ deployment' = deployment
      BY <1>24 DEF EditLost, env
    <2>3. TxtOf' = AfterOf(r)
      BY <2>2, TxtWrite
    <2> QED BY <2>1, <2>2, <2>3, ReturnsTo, TxtReturn DEF Calling
  <1>25. ASSUME NEW r \in Replicas, CallFails(r) PROVE TxtStep
    <2>1. Alone(r)
      BY <1>25, AloneStep DEF OrderInv, Progress, Failure
    <2>2. pc[r] \in Calling /\ records' = records /\ ReturnErr(r)
      BY <1>25 DEF CallFails, zone
    <2> QED BY <2>1, <2>2, ReturnsTo, TxtAlone, TxtReturn
  <1>26. ASSUME NEW r \in Replicas, RequestFails(r) PROVE TxtStep
    <2>1. Alone(r)
      BY <1>26, AloneStep DEF OrderInv, Progress, Failure
    <2>2. records' = records /\ UNCHANGED reply /\ DnsCall(r)' = DnsCall(r)
      BY <1>26, <2>1, TxtAlone DEF RequestFails, Fault, Abandon, zone, acct, env, End, Goto,
         DnsCall, Name, Token, current, credentials_for, Domains, Calling, Alone, OrderInv,
         TypeOK, ShapeInv
    <2>3. pc'[r] = "wait" <=> pc[r] = "wait"
      BY <1>26 DEF RequestFails, Fault, Abandon, zone, acct, env, End, Goto, OrderInv, TypeOK
    <2> QED BY <2>1, <2>2, <2>3, TxtQuiet
  <1>27. ASSUME NEW r \in Replicas, Crash(r) PROVE TxtStep
    <2>1. Alone(r)
      BY <1>27, AloneStep DEF OrderInv, Progress, Failure
    <2>2. records' = records /\ pc'[r] = "idle"
      BY <1>27 DEF Crash, End, Goto, zone, OrderInv, TypeOK
    <2>3. TxtOf' = TxtOf
      BY <2>1, <2>2, TxtAlone
    <2>4. CASE pc[r] \in Calling
      <3>1. reply'[r] = "err"
        BY <1>27, <2>4 DEF Crash, OrderInv, TypeOK
      <3> QED BY <2>1, <2>2, <2>3, <2>4, <3>1, TxtReturn DEF Calling
    <2>5. CASE pc[r] \notin Calling
      <3>1. reply' = reply
        BY <1>27, <2>5 DEF Crash
      <3>2. DnsCall(r)' = DnsCall(r)
        BY <2>2, <2>5 DEF DnsCall, Calling
      <3> QED BY <2>1, <2>2, <2>5, <3>1, <3>2, TxtQuiet DEF Calling
    <2> QED BY <2>4, <2>5
  <1>28. ASSUME NEW r \in Replicas, ServerStops(r) PROVE TxtStep
    BY <1>28, TxtUnchanged DEF ServerStops, zone, acct, task, env, TxtOf, CallOf, TakenOf,
       ReplyOf, DnsCall, Name, Token, current, credentials_for, provider, Domains
  <1>29. ASSUME NEW r \in Replicas, NEW d \in Names, Validate(r, d) PROVE TxtStep
    BY <1>29, TxtUnchanged DEF Validate, zone, acct, task, env, TxtOf, CallOf, TakenOf, ReplyOf,
       DnsCall, Name, Token, current, credentials_for, provider, Domains
  <1>30. ASSUME NEW r \in Replicas, NEW d \in Names, Reject(r, d) PROVE TxtStep
    BY <1>30, TxtUnchanged DEF Reject, zone, acct, task, env, TxtOf, CallOf, TakenOf, ReplyOf,
       DnsCall, Name, Token, current, credentials_for, provider, Domains
  <1>31. ASSUME NEW n \in Names, Propagate(n) PROVE TxtStep
    BY <1>31, TxtUnchanged DEF Propagate, acct, task, env, TxtOf, CallOf, TakenOf, ReplyOf,
       DnsCall, Name, Token, current, credentials_for, provider, Domains
  <1>32. CASE UNCHANGED vars
    BY <1>32, TxtUnchanged DEF vars, zone, acct, task, env, TxtOf, CallOf, TakenOf, ReplyOf,
       DnsCall, Name, Token, current, credentials_for, provider, Domains
  <1> QED BY <1>1, <1>2, <1>3, <1>4, <1>5, <1>6, <1>7, <1>8, <1>9, <1>10, <1>11, <1>12,
     <1>13, <1>14, <1>15, <1>16, <1>17, <1>18, <1>19, <1>20, <1>21, <1>22, <1>23, <1>24,
     <1>25, <1>26, <1>27, <1>28, <1>29, <1>30, <1>31, <1>32 DEF Next, Progress, Failure

(* Cloudflare, Azure and Cloud DNS implement TxtRecords: for every number   *)
(* of processes and whatever reads, conflicts, retries, lost answers and    *)
(* restarts a create_txt_record or delete_txt_record goes through, it is    *)
(* one atomic change of its own value.                                      *)
THEOREM MergesEditsHolds == Spec => MergesEdits
  <1>1. Init => Txt!TxtInit
    BY DEF Init, Txt!TxtInit, DnsCall, Calling, Range
  <1>2. OrderInv /\ [Next]_vars => [Txt!TxtNext]_(Txt!tvars)
    BY TxtRefines DEF TxtStep
  <1> QED BY <1>1, <1>2, OrderInvHolds, PTL DEF Spec, MergesEdits, Txt!TxtSpec

----------------------------------------------------------------------------
(* A challenge the CA was told about is answered.                           *)

Distinct(s) == \A i, j \in DOMAIN s : s[i] = s[j] => i = j

(* The domains whose challenge the request has yet to present.              *)
Ahead(r) ==
    IF pc[r] \in {"account", "create", "save", "newOrder"} THEN Names
    ELSE IF pc[r] \in {"wait", "ready"} THEN Range(Tail(todo[r]))
    ELSE Range(todo[r])

(* How far a request is with its challenges.                                *)
Asks(r) ==
    /\ pc[r] # "idle" => r \in deployment.replicas
    /\ pc[r] = "wait" => provider \in Zoned
    /\ doing[r] = "create" <=> result[r] = "none"
    /\ doing[r] = "create" => Distinct(todo[r]) /\ Range(todo[r]) \subseteq Range(Domains)
    /\ \A d \in Names : doing[r] = "create" /\ authz[r][d] = "ready" =>
          /\ pc[r] \in Calling \cup {"authz", "ready"}
          /\ d \in Range(Domains) /\ d \notin Range(todo[r])
          /\ provider = "http01" => server[r] = "up"
    /\ provider = "http01" /\ doing[r] = "create" /\ pc[r] \in {"edit", "ready"} =>
          server[r] = "up"

AskInv == check_order_domains /\ \A r \in Replicas : Asks(r)

(* No value of this order is in the zone before it is created.              *)
FreshInv ==
    provider = "gcloud" =>
        /\ \A n \in Names : \A v \in Range(records[n]) : v.order <= orders
        /\ \A r \in Replicas : pc[r] # "idle" /\ doing[r] = "create" =>
              \A d \in Ahead(r) : TokenOf(r, d) \notin Range(records[d])

(* The CA was told, or is told next, to look for the value of domain d.     *)
Presented(r, d) ==
    /\ doing[r] = "create"
    /\ authz[r][d] = "ready" \/ (pc[r] = "ready" /\ d = current(r))

(* What answers a challenge.  An ACME-DNS account keeps two values: the one *)
(* of d is the later of them as long as another domain of the account is    *)
(* still to come.                                                           *)
InZone(r, d) ==
    /\ TokenOf(r, d) \in Range(records[credentials_for(d)])
    /\ provider = "acmedns" /\ (\E e \in Ahead(r) \ {d} : credentials_for(e) = credentials_for(d))
          => Last(records[credentials_for(d)]) = TokenOf(r, d)

(* What the CA is told to look for is there, and stays there.               *)
Shows(r) ==
    \A d \in Names : Presented(r, d) =>
        InZone(r, d) /\ (provider # "cloudflare" => ServedAt(credentials_for(d), TokenOf(r, d)))

(* A value whose change is awaited is in the zone.                          *)
Waits(r) == pc[r] = "wait" /\ doing[r] = "create" => Token(r) \in Range(records[Name(r)])

PresentInv ==
    /\ provider \notin Zoned => served = records
    /\ \A r \in Replicas : Shows(r) /\ Waits(r)

(* The step leaves the authorizations, the result and the challenge server  *)
(* of every other process alone.                                            *)
Apart(r) ==
    \A q \in Replicas \ {r} :
        authz'[q] = authz[q] /\ result'[q] = result[q] /\ server'[q] = server[q]

LEMMA ReturnApart ==
    ASSUME TypeOK, NEW r \in Replicas, ReturnOk(r) \/ ReturnErr(r)
    PROVE  \A q \in Replicas \ {r} : authz'[q] = authz[q] /\ result'[q] = result[q]
  <1>1. CASE ReturnOk(r)
    BY <1>1 DEF ReturnOk
  <1>2. CASE ReturnErr(r)
    BY <1>2 DEF ReturnErr, Abandon, End, TypeOK
  <1> QED BY <1>1, <1>2

LEMMA WriteApart ==
    ASSUME TypeOK, NEW r \in Replicas, server' = ServerAfter(r)
    PROVE  \A q \in Replicas \ {r} : server'[q] = server[q]
  BY DEF ServerAfter, TypeOK

LEMMA ApartStep ==
    ASSUME TypeOK, NEW r \in Replicas, Start(r) \/ Progress(r) \/ Failure(r) \/ ServerStops(r)
    PROVE  Apart(r)
  <1>1. CASE Start(r)
    BY <1>1 DEF Start, Goto, zone, acct, End, Apart, TypeOK
  <1>2. CASE LoadAccount(r)
    BY <1>2 DEF LoadAccount, Goto, zone, env, End, Apart, TypeOK
  <1>3. CASE CreateAccount(r)
    BY <1>3 DEF CreateAccount, Goto, NeedsAccount, zone, acct, env, End, Apart, TypeOK
  <1>4. CASE SaveAccount(r)
    BY <1>4 DEF SaveAccount, Goto, zone, env, End, Apart, TypeOK
  <1>5. CASE NewOrder(r)
    BY <1>5 DEF NewOrder, Goto, zone, acct, env, End, Apart, TypeOK
  <1>6. CASE NextAuthorization(r)
    BY <1>6 DEF NextAuthorization, Goto, FirstStep, zone, acct, env, End, Apart, TypeOK
  <1>7. CASE SetReady(r)
    BY <1>7 DEF SetReady, Goto, zone, acct, env, End, Apart, TypeOK
  <1>8. CASE Route53Zone(r)
    BY <1>8 DEF Route53Zone, FindZone, Goto, zone, acct, env, End, Apart, TypeOK
  <1>9. CASE CloudflareZone(r)
    BY <1>9 DEF CloudflareZone, FindZone, Goto, zone, acct, env, End, Apart, TypeOK
  <1>10. CASE AzureZone(r)
    BY <1>10 DEF AzureZone, FindZone, Goto, zone, acct, env, End, Apart, TypeOK
  <1>11. CASE GcloudZone(r)
    BY <1>11 DEF GcloudZone, FindZone, Goto, zone, acct, env, End, Apart, TypeOK
  <1>12. CASE AzureGet(r)
    <2>1. CASE ReturnOk(r)
      BY <1>12, <2>1, ReturnApart DEF AzureGet, ReadRecords, Apart
    <2>2. CASE ~ReturnOk(r)
      BY <1>12, <2>2 DEF AzureGet, ReadRecords, Apart
    <2> QED BY <2>1, <2>2
  <1>13. CASE GcloudGet(r)
    <2>1. CASE ReturnOk(r)
      BY <1>13, <2>1, ReturnApart DEF GcloudGet, ReadRecords, Apart
    <2>2. CASE ~ReturnOk(r)
      BY <1>13, <2>2 DEF GcloudGet, ReadRecords, Apart
    <2> QED BY <2>1, <2>2
  <1>14. CASE StartServer(r)
    <2>1. CASE ReturnErr(r)
      BY <1>14, <2>1, ReturnApart DEF StartServer, Apart, TypeOK
    <2>2. CASE ~ReturnErr(r)
      BY <1>14, <2>2 DEF StartServer, Apart, TypeOK
    <2> QED BY <2>1, <2>2
  <1>15. CASE Edit(r)
    <2>1. CASE ReturnOk(r)
      BY <1>15, <2>1, ReturnApart, WriteApart DEF Edit, Write, Apart
    <2>2. CASE ~ReturnOk(r)
      BY <1>15, <2>2, WriteApart DEF Edit, Write, Apart
    <2> QED BY <2>1, <2>2
  <1>16. CASE Conflict(r)
    <2>1. CASE ReturnErr(r)
      BY <1>16, <2>1, ReturnApart DEF Conflict, Apart
    <2>2. CASE ~ReturnErr(r)
      BY <1>16, <2>2 DEF Conflict, Apart
    <2> QED BY <2>1, <2>2
  <1>17. CASE WaitForPropagation(r)
    BY <1>17, ReturnApart DEF WaitForPropagation, Apart
  <1>18. CASE OrderReady(r)
    BY <1>18 DEF OrderReady, PollReady, Polling, Goto, zone, acct, env, End, Apart,
       TypeOK
  <1>19. CASE OrderInvalid(r)
    BY <1>19 DEF OrderInvalid, PollReady, Polling, Goto, zone, acct, env, End, Apart,
       TypeOK
  <1>20. CASE RunCleanup(r)
    BY <1>20 DEF RunCleanup, Goto, FirstStep, zone, acct, env, End, Apart, TypeOK
  <1>21. CASE CleanupsDone(r)
    BY <1>21 DEF CleanupsDone, Goto, zone, acct, env, End, Apart, TypeOK
  <1>22. CASE Finalize(r)
    BY <1>22 DEF Finalize, zone, acct, env, End, Apart, TypeOK
  <1>23. CASE RejectAccount(r)
    BY <1>23 DEF RejectAccount, Fault, Goto, zone, env, End, Apart, TypeOK
  <1>24. CASE EditLost(r)
    BY <1>24, ReturnApart, WriteApart DEF EditLost, Write, Apart
  <1>25. CASE CallFails(r)
    BY <1>25, ReturnApart, WriteApart DEF CallFails, Apart
  <1>26. CASE RequestFails(r)
    BY <1>26 DEF RequestFails, Fault, Abandon, zone, acct, env, End, Apart, TypeOK
  <1>27. CASE Crash(r)
    BY <1>27 DEF Crash, Fault, zone, env, End, Apart, TypeOK
  <1>28. CASE ServerStops(r)
    BY <1>28 DEF ServerStops, zone, acct, task, env, End, Apart, TypeOK
  <1> QED BY <1>1, <1>2, <1>3, <1>4, <1>5, <1>6, <1>7, <1>8, <1>9, <1>10, <1>11, <1>12,
     <1>13, <1>14, <1>15, <1>16, <1>17, <1>18, <1>19, <1>20, <1>21, <1>22, <1>23, <1>24,
     <1>25, <1>26, <1>27, <1>28 DEF Progress, Failure

LEMMA TailDistinct ==
    ASSUME NEW S, NEW s \in Seq(S), s # <<>>, Distinct(s)
    PROVE  /\ Distinct(Tail(s)) /\ Head(s) \notin Range(Tail(s))
           /\ Range(Tail(s)) \subseteq Range(s) /\ Head(s) \in Range(s)
  <1>1. /\ Len(s) \in Nat /\ Len(s) >= 1 /\ Head(s) = s[1]
        /\ DOMAIN s = 1..Len(s) /\ DOMAIN Tail(s) = 1..(Len(s) - 1)
        /\ \A k \in 1..(Len(s) - 1) : Tail(s)[k] = s[k + 1]
    OBVIOUS
  <1>2. \A k \in 1..(Len(s) - 1) : k + 1 \in 1..Len(s) /\ k + 1 # 1
    BY <1>1
  <1>3. 1 \in 1..Len(s)
    BY <1>1
  <1>4. Head(s) \notin Range(Tail(s))
    BY <1>1, <1>2, <1>3 DEF Distinct, Range
  <1>5. ASSUME NEW i \in 1..(Len(s) - 1), NEW j \in 1..(Len(s) - 1), Tail(s)[i] = Tail(s)[j]
        PROVE  i = j
    <2>1. s[i + 1] = s[j + 1]
      BY <1>1, <1>5
    <2>2. i + 1 = j + 1
      BY <1>1, <1>2, <2>1 DEF Distinct
    <2> QED BY <1>1, <2>2
  <1>6. Distinct(Tail(s))
    BY <1>1, <1>5 DEF Distinct
  <1> QED BY <1>4, <1>6, TailRange

LEMMA AsksFrame ==
    ASSUME NEW r \in Replicas, Alone(r), Apart(r), NEW q \in Replicas \ {r}, Asks(q)
    PROVE  Asks(q)'
  BY DEF Alone, Apart, Asks, provider, Domains

(* The request ends, or the step only moves it on.                          *)
LEMMA AsksEnd ==
    ASSUME TypeOK, NEW r \in Replicas, End(r), deployment' = deployment
    PROVE  Asks(r)'
  <1>1. /\ pc'[r] = "idle" /\ todo'[r] = <<>> /\ doing'[r] = "create" /\ result'[r] = "none"
        /\ \A d \in Names : authz'[r][d] # "ready"
    BY DEF End, Goto, TypeOK
  <1>2. Distinct(todo'[r]) /\ Range(todo'[r]) = {}
    BY <1>1 DEF Distinct, Range
  <1> QED BY <1>1, <1>2 DEF Asks

LEMMA AsksMove ==
    ASSUME TypeOK, NEW r \in Replicas, Asks(r), deployment' = deployment,
           pc[r] # "idle",
           UNCHANGED <<todo[r], doing[r], result[r], authz[r], server[r]>>,
           \/ pc'[r] \in Calling \cup {"authz", "ready"}
           \/ pc[r] \in {"account", "create", "save", "newOrder"}
           \/ doing[r] = "delete",
           pc'[r] = "wait" => provider \in Zoned,
           provider = "http01" /\ doing[r] = "create" /\ pc'[r] \in {"edit", "ready"} => server[r] = "up"
    PROVE  Asks(r)'
  BY DEF Asks, provider, Domains, Calling

LEMMA AsksReturn ==
    ASSUME TypeOK, ShapeInv, NEW r \in Replicas, Asks(r), deployment' = deployment,
           pc[r] \in Calling, ReturnOk(r) \/ ReturnErr(r),
           doing[r] = "create" => server'[r] = server[r],
           ReturnOk(r) /\ provider = "http01" /\ doing[r] = "create" => pc[r] = "edit"
    PROVE  Asks(r)'
  <1>1. CASE ReturnErr(r) /\ doing[r] = "create"
    BY <1>1, AsksEnd DEF ReturnErr, Abandon
  <1>2. CASE doing[r] # "create"
    <2>1. doing'[r] # "create" /\ result'[r] = result[r] /\ pc'[r] # "wait"
      BY <1>2 DEF ReturnErr, ReturnOk, Goto, TypeOK
    <2>2. r \in deployment.replicas /\ result[r] # "none"
      BY <1>2 DEF Asks, Calling
    <2> QED BY <2>1, <2>2 DEF Asks
  <1>3. CASE ReturnOk(r) /\ doing[r] = "create"
    <2>1. pc'[r] = "ready" /\ UNCHANGED <<todo[r], doing[r], result[r], authz[r], server[r]>>
      BY <1>3 DEF ReturnOk, Goto, TypeOK
    <2>2. pc[r] # "idle"
      BY DEF Calling
    <2>3. provider = "http01" => server[r] = "up"
      BY <1>3 DEF Asks
    <2> QED BY <2>1, <2>2, <2>3, AsksMove
  <1> QED BY <1>1, <1>2, <1>3

LEMMA AsksStep ==
    ASSUME OrderInv, Supported, NEW r \in Replicas, Asks(r), Start(r) \/ Progress(r) \/ Failure(r)
    PROVE  Asks(r)'
  <1>0. deployment' = deployment /\ TypeOK /\ ShapeInv
    BY AloneStep DEF OrderInv, Alone
  <1>1. CASE Start(r)
    BY <1>1, <1>0 DEF Start, Goto, zone, acct, Asks, TypeOK, ShapeInv, Calling,
       provider, Domains
  <1>2. CASE LoadAccount(r)
    BY <1>2, <1>0, AsksMove DEF LoadAccount, Goto, zone, env, TypeOK, ShapeInv, Calling
  <1>3. CASE CreateAccount(r)
    BY <1>3, <1>0, AsksMove DEF CreateAccount, Goto, NeedsAccount, zone, acct, env,
       TypeOK, ShapeInv, Calling
  <1>4. CASE SaveAccount(r)
    BY <1>4, <1>0, AsksMove DEF SaveAccount, Goto, zone, env, TypeOK, ShapeInv, Calling
  <1>5. CASE NewOrder(r)
    <2>1. /\ pc'[r] = "authz" /\ todo'[r] = Domains /\ UNCHANGED <<doing, result, server>>
          /\ pc[r] = "newOrder" /\ \A d \in Names : authz'[r][d] # "ready"
      BY <1>5, <1>0 DEF NewOrder, Goto, TypeOK
    <2>2. Distinct(Domains) /\ Domains' = Domains
      BY <1>0 DEF Supported, Distinct, Domains, TypeOK
    <2> QED BY <1>0, <2>1, <2>2 DEF Asks, Domains
  <1>6. CASE NextAuthorization(r)
    <2>1. CASE authz[r][current(r)] = "valid"
      <3>1. /\ pc'[r] = pc[r] /\ pc[r] = "authz" /\ todo[r] # <<>> /\ todo[r] \in Seq(Names)
            /\ todo'[r] = Tail(todo[r]) /\ UNCHANGED <<doing, result, server, authz>>
        BY <1>6, <1>0, <2>1 DEF NextAuthorization, TypeOK
      <3>2. Distinct(todo[r]) => Distinct(Tail(todo[r])) /\ Range(Tail(todo[r])) \subseteq Range(todo[r])
        BY <3>1, TailDistinct
      <3> QED BY <1>0, <3>1, <3>2 DEF Asks, Domains, provider
    <2>2. CASE authz[r][current(r)] # "valid"
      <3>1. /\ pc'[r] = FirstStep("create") /\ pc[r] = "authz"
            /\ UNCHANGED <<todo, doing, result, server, authz>>
        BY <1>6, <1>0, <2>2 DEF NextAuthorization, Goto, TypeOK
      <3>2. pc'[r] \in {"zone", "bind", "edit"} /\ (provider = "http01" => pc'[r] # "edit" \/ doing[r] # "create")
        BY <3>1 DEF FirstStep, Zoned
      <3> QED BY <1>0, <3>1, <3>2, AsksMove DEF Calling
    <2> QED BY <2>1, <2>2
  <1>7. CASE SetReady(r)
    <2>1. /\ pc'[r] = "authz" /\ pc[r] = "ready" /\ UNCHANGED <<doing, result, server>>
          /\ todo'[r] = Tail(todo[r]) /\ todo[r] # <<>> /\ todo[r] \in Seq(Names)
          /\ \A d \in Names : authz'[r][d] = IF d = current(r) THEN "ready" ELSE authz[r][d]
          /\ doing[r] = "create"
      BY <1>7, <1>0 DEF SetReady, Goto, TypeOK, ShapeInv
    <2>2. Distinct(todo[r]) /\ Range(todo[r]) \subseteq Range(Domains)
      BY <2>1 DEF Asks
    <2>3. /\ Distinct(Tail(todo[r])) /\ Range(Tail(todo[r])) \subseteq Range(todo[r])
          /\ current(r) \in Range(todo[r]) /\ current(r) \notin Range(Tail(todo[r]))
      BY <2>1, <2>2, TailDistinct DEF current
    <2>4. provider = "http01" => server[r] = "up"
      BY <2>1 DEF Asks
    <2>5. \A d \in Names : authz'[r][d] = "ready" =>
             d \in Range(Domains) /\ d \notin Range(Tail(todo[r]))
      BY <2>1, <2>2, <2>3 DEF Asks
    <2>6. result[r] = "none" /\ r \in deployment.replicas
      BY <2>1 DEF Asks
    <2> QED BY <1>0, <2>1, <2>2, <2>3, <2>4, <2>5, <2>6 DEF Asks, Domains, provider
  <1>8. CASE Route53Zone(r)
    BY <1>8, <1>0, AsksMove DEF Route53Zone, FindZone, Goto, zone, acct, env, TypeOK,
       ShapeInv, Calling
  <1>9. CASE CloudflareZone(r)
    BY <1>9, <1>0, AsksMove DEF CloudflareZone, FindZone, Goto, zone, acct, env, TypeOK,
       ShapeInv, Calling
  <1>10. CASE AzureZone(r)
    BY <1>10, <1>0, AsksMove DEF AzureZone, FindZone, Goto, zone, acct, env, TypeOK,
       ShapeInv, Calling
  <1>11. CASE GcloudZone(r)
    BY <1>11, <1>0, AsksMove DEF GcloudZone, FindZone, Goto, zone, acct, env, TypeOK,
       ShapeInv, Calling
  <1>12. CASE AzureGet(r)
    <2>1. CASE ReturnOk(r)
      BY <1>12, <1>0, <2>1, AsksReturn DEF AzureGet, ReadRecords, Calling
    <2>2. CASE ~ReturnOk(r)
      BY <1>12, <1>0, <2>2, AsksMove DEF AzureGet, ReadRecords, Goto, TypeOK, Calling
    <2> QED BY <2>1, <2>2
  <1>13. CASE GcloudGet(r)
    <2>1. CASE ReturnOk(r)
      BY <1>13, <1>0, <2>1, AsksReturn DEF GcloudGet, ReadRecords, Calling
    <2>2. CASE ~ReturnOk(r)
      BY <1>13, <1>0, <2>2, AsksMove DEF GcloudGet, ReadRecords, Goto, TypeOK, Calling
    <2> QED BY <2>1, <2>2
  <1>14. CASE StartServer(r)
    <2>1. CASE server[r] = "stopping"
      <3>1. ReturnErr(r) /\ server' = server /\ pc[r] \in Calling
        BY <1>14, <2>1 DEF StartServer, Calling
      <3>2. ~ReturnOk(r)
        BY <1>0, <3>1 DEF ReturnErr, ReturnOk, TypeOK
      <3> QED BY <1>0, <3>1, <3>2, AsksReturn
    <2>2. CASE server[r] # "stopping"
      <3>1. /\ pc[r] = "bind" /\ pc'[r] = "edit" /\ server'[r] = "up"
            /\ UNCHANGED <<todo[r], doing[r], result[r], authz[r]>>
        BY <1>14, <1>0, <2>2 DEF StartServer, Goto, TypeOK
      <3> QED BY <1>0, <3>1 DEF Asks, Calling, provider, Domains
    <2> QED BY <2>1, <2>2
  <1>15. CASE Edit(r)
    <2>1. doing[r] = "create" => server' = server
      BY <1>15 DEF Edit, Write, ServerAfter
    <2>2. CASE ReturnOk(r)
      BY <1>15, <1>0, <2>1, <2>2, AsksReturn DEF Edit, Calling
    <2>3. CASE ~ReturnOk(r)
      <3>1. /\ pc'[r] = "wait" /\ UNCHANGED <<todo[r], doing[r], result[r], authz[r]>>
            /\ provider \in Zoned /\ pc[r] = "edit"
        BY <1>15, <1>0, <2>3 DEF Edit, Goto, TypeOK, Awaits, Route53Awaits, AzureAwaits,
           GcloudAwaits, Zoned
      <3>2. server'[r] = server[r]
        BY <1>15, <3>1 DEF Edit, Write, ServerAfter, Zoned
      <3> QED BY <1>0, <3>1, <3>2, AsksMove DEF Calling
    <2> QED BY <2>2, <2>3
  <1>16. CASE Conflict(r)
    <2>1. CASE ReturnErr(r)
      BY <1>16, <1>0, <2>1, AsksReturn DEF Conflict, Calling
    <2>2. CASE ~ReturnErr(r)
      BY <1>16, <1>0, <2>2, AsksMove DEF Conflict, Goto, TypeOK, Calling
    <2> QED BY <2>1, <2>2
  <1>17. CASE WaitForPropagation(r)
    <2>1. server' = server /\ pc[r] \in Calling
      BY <1>17 DEF WaitForPropagation, Calling
    <2>2. provider # "http01"
      BY <1>17 DEF WaitForPropagation, Asks, Zoned
    <2> QED BY <1>17, <1>0, <2>1, <2>2, AsksReturn DEF WaitForPropagation
  <1>18. CASE OrderReady(r)
    BY <1>18, <1>0 DEF OrderReady, PollReady, Polling, Goto, zone, acct, env, Asks,
       TypeOK, ShapeInv, Calling, provider, Domains
  <1>19. CASE OrderInvalid(r)
    BY <1>19, <1>0 DEF OrderInvalid, PollReady, Polling, Goto, zone, acct, env, Asks,
       TypeOK, ShapeInv, Calling, provider, Domains
  <1>20. CASE RunCleanup(r)
    BY <1>20, <1>0, AsksMove DEF RunCleanup, Goto, FirstStep, zone, acct, env, TypeOK,
       ShapeInv, Calling
  <1>21. CASE CleanupsDone(r)
    <2>1. CASE result[r] = "ready"
      BY <1>21, <1>0, <2>1, AsksMove DEF CleanupsDone, Goto, TypeOK, ShapeInv, Calling
    <2>2. CASE result[r] # "ready"
      BY <1>21, <1>0, <2>2, AsksEnd DEF CleanupsDone
    <2> QED BY <2>1, <2>2
  <1>22. CASE Finalize(r)
    BY <1>22, <1>0, AsksEnd DEF Finalize, zone, acct, env
  <1>23. CASE RejectAccount(r)
    BY <1>23, <1>0, AsksMove DEF RejectAccount, Fault, Goto, zone, env, TypeOK, ShapeInv,
       Calling
  <1>24. CASE EditLost(r)
    <2>1. doing[r] = "create" => server' = server
      BY <1>24 DEF EditLost, Write, ServerAfter
    <2> QED BY <1>24, <1>0, <2>1, AsksReturn DEF EditLost, Calling
  <1>25. CASE CallFails(r)
    <2>1. doing[r] = "create" => server' = server
      BY <1>25 DEF CallFails, ServerAfter
    <2>2. ~ReturnOk(r)
      BY <1>25, <1>0 DEF CallFails, ReturnErr, ReturnOk, TypeOK
    <2> QED BY <1>25, <1>0, <2>1, <2>2, AsksReturn DEF CallFails
  <1>26. CASE RequestFails(r)
    BY <1>26, <1>0, AsksEnd DEF RequestFails, Fault, Abandon, zone, acct, env
  <1>27. CASE Crash(r)
    BY <1>27, <1>0, AsksEnd DEF Crash, Fault, zone, env
  <1> QED BY <1>1, <1>2, <1>3, <1>4, <1>5, <1>6, <1>7, <1>8, <1>9, <1>10, <1>11, <1>12,
     <1>13, <1>14, <1>15, <1>16, <1>17, <1>18, <1>19, <1>20, <1>21, <1>22, <1>23, <1>24,
     <1>25, <1>26, <1>27 DEF Progress, Failure

LEMMA AskInit == Init => AskInv
  <1> SUFFICES ASSUME Init, NEW r \in Replicas PROVE Asks(r)
    BY DEF Init, AskInv
  <1>1. todo[r] = <<>> /\ pc[r] = "idle" /\ doing[r] = "create" /\ result[r] = "none"
    BY DEF Init
  <1>2. \A d \in Names : authz[r][d] # "ready"
    BY DEF Init
  <1>3. Distinct(todo[r]) /\ Range(todo[r]) = {}
    BY <1>1 DEF Distinct, Range
  <1> QED BY <1>1, <1>2, <1>3 DEF Asks

LEMMA AskStep ==
    ASSUME OrderInv, Supported, AskInv, [Next]_vars
    PROVE  AskInv'
  <1>0. deployment' = deployment /\ TypeOK
    BY DeploymentFixed DEF OrderInv
  <1>1. check_order_domains'
    BY <1>0 DEF AskInv, check_order_domains, credentials_for, provider, Domains
  <1>2. ASSUME NEW r \in Replicas, Start(r) \/ Progress(r) \/ Failure(r)
        PROVE  \A q \in Replicas : Asks(q)'
    <2>1. Alone(r) /\ Apart(r)
      BY <1>0, <1>2, AloneStep, ApartStep
    <2>2. Asks(r)'
      BY <1>2, AsksStep DEF AskInv
    <2>3. ASSUME NEW q \in Replicas, q # r PROVE Asks(q)'
      BY <2>1, <2>3, AsksFrame DEF AskInv
    <2> QED BY <2>2, <2>3
  <1>3. ASSUME NEW r \in Replicas, ServerStops(r) PROVE \A q \in Replicas : Asks(q)'
    <2>1. /\ server[r] = "stopping" /\ UNCHANGED <<authz, pc, todo, doing, result>>
          /\ \A q \in Replicas \ {r} : server'[q] = server[q]
      BY <1>0, <1>3 DEF ServerStops, task, TypeOK
    <2> QED BY <1>0, <2>1 DEF AskInv, Asks, provider, Domains
  <1>4. ASSUME NEW r \in Replicas, NEW d \in Names, Validate(r, d) \/ Reject(r, d)
        PROVE  \A q \in Replicas : Asks(q)'
    <2>1. /\ UNCHANGED <<server, pc, todo, doing, result>>
          /\ \A q \in Replicas, e \in Names : authz'[q][e] = "ready" => authz[q][e] = "ready"
      <3>1. UNCHANGED <<server, pc, todo, doing, result>>
        BY <1>4 DEF Validate, Reject, task
      <3>2. authz' = [authz EXCEPT ![r][d] = "valid"] \/ authz' = [authz EXCEPT ![r][d] = "invalid"]
        BY <1>4 DEF Validate, Reject
      <3>3. ASSUME NEW q \in Replicas, NEW e \in Names, authz'[q][e] = "ready"
            PROVE  authz[q][e] = "ready"
        <4>1. authz \in [Replicas -> [Names -> {"none", "pending", "ready", "valid", "invalid"}]]
          BY <1>0 DEF TypeOK
        <4>2. CASE authz' = [authz EXCEPT ![r][d] = "valid"]
          BY <3>3, <4>1, <4>2
        <4>3. CASE authz' = [authz EXCEPT ![r][d] = "invalid"]
          BY <3>3, <4>1, <4>3
        <4> QED BY <3>2, <4>2, <4>3
      <3> QED BY <3>1, <3>3
    <2> QED BY <1>0, <2>1 DEF AskInv, Asks, provider, Domains
  <1>5. ASSUME NEW n \in Names, Propagate(n) PROVE \A q \in Replicas : Asks(q)'
    BY <1>0, <1>5 DEF Propagate, task, AskInv, Asks, provider, Domains
  <1>6. CASE UNCHANGED vars
    BY <1>0, <1>1, <1>6 DEF vars, task, AskInv, Asks, provider, Domains
  <1> QED BY <1>1, <1>2, <1>3, <1>4, <1>5, <1>6 DEF Next, AskInv

(* A request keeps its order and has no more challenges ahead of it.        *)
Onward(r) ==
    pc'[r] # "idle" /\ doing'[r] = "create" =>
        /\ pc[r] # "idle" /\ doing[r] = "create"
        /\ order'[r] = order[r]
        /\ Ahead(r)' \subseteq Ahead(r)

LEMMA ReturnOnward ==
    ASSUME OrderInv, NEW r \in Replicas, pc[r] \in Calling, ReturnOk(r) \/ ReturnErr(r)
    PROVE  Onward(r)
  <1>0. todo[r] \in Seq(Names) /\ todo[r] # <<>> /\ TypeOK
    BY DEF OrderInv, TypeOK, ShapeInv
  <1>1. CASE ReturnErr(r) /\ doing[r] = "create"
    BY <1>0, <1>1 DEF ReturnErr, Abandon, End, Goto, TypeOK, Onward
  <1>2. CASE doing[r] # "create"
    BY <1>2 DEF ReturnErr, ReturnOk, Onward
  <1>3. CASE ReturnOk(r) /\ doing[r] = "create"
    <2>1. pc'[r] = "ready" /\ UNCHANGED <<todo, doing, order>>
      BY <1>0, <1>3 DEF ReturnOk, Goto, TypeOK
    <2>2. Range(Tail(todo[r])) \subseteq Range(todo[r])
      BY <1>0, TailRange
    <2> QED BY <1>3, <2>1, <2>2 DEF Onward, Ahead, Calling
  <1> QED BY <1>1, <1>2, <1>3

LEMMA OnwardStep ==
    ASSUME OrderInv, NEW r \in Replicas, Progress(r) \/ Failure(r)
    PROVE  Onward(r)
  <1>0. /\ TypeOK /\ ShapeInv /\ todo[r] \in Seq(Names)
        /\ todo[r] # <<>> => Range(Tail(todo[r])) \subseteq Range(todo[r])
    BY TailRange DEF OrderInv, TypeOK
  <1>00. Domains \in Seq(Names) /\ Range(Domains) \subseteq Names
    BY <1>0, ProviderIsKnown DEF Range
  <1>1. CASE LoadAccount(r)
    BY <1>1, <1>0, <1>00 DEF LoadAccount, Goto, zone, env, TypeOK, ShapeInv, Onward,
       Ahead
  <1>2. CASE CreateAccount(r)
    BY <1>2, <1>0, <1>00 DEF CreateAccount, Goto, NeedsAccount, zone, acct, env, TypeOK,
       ShapeInv, Onward, Ahead
  <1>3. CASE SaveAccount(r)
    BY <1>3, <1>0, <1>00 DEF SaveAccount, Goto, zone, env, TypeOK, ShapeInv, Onward,
       Ahead
  <1>4. CASE NewOrder(r)
    BY <1>4, <1>0, <1>00 DEF NewOrder, Goto, zone, acct, env, TypeOK, ShapeInv, Onward,
       Ahead
  <1>5. CASE NextAuthorization(r)
    BY <1>5, <1>0, <1>00 DEF NextAuthorization, Goto, FirstStep, zone, acct, env,
       TypeOK, ShapeInv, Onward, Ahead
  <1>6. CASE SetReady(r)
    BY <1>6, <1>0, <1>00 DEF SetReady, Goto, zone, acct, env, TypeOK, ShapeInv, Onward,
       Ahead
  <1>7. CASE Route53Zone(r)
    BY <1>7, <1>0, <1>00 DEF Route53Zone, FindZone, Goto, zone, acct, env, TypeOK,
       ShapeInv, Onward, Ahead
  <1>8. CASE CloudflareZone(r)
    BY <1>8, <1>0, <1>00 DEF CloudflareZone, FindZone, Goto, zone, acct, env, TypeOK,
       ShapeInv, Onward, Ahead
  <1>9. CASE AzureZone(r)
    BY <1>9, <1>0, <1>00 DEF AzureZone, FindZone, Goto, zone, acct, env, TypeOK,
       ShapeInv, Onward, Ahead
  <1>10. CASE GcloudZone(r)
    BY <1>10, <1>0, <1>00 DEF GcloudZone, FindZone, Goto, zone, acct, env, TypeOK,
       ShapeInv, Onward, Ahead
  <1>11. CASE AzureGet(r)
    <2>1. CASE ReturnOk(r)
      BY <1>11, <2>1, ReturnOnward DEF AzureGet, ReadRecords, Calling
    <2>2. CASE ~ReturnOk(r)
      BY <1>11, <1>0, <2>2 DEF AzureGet, ReadRecords, Goto, TypeOK, ShapeInv, Onward, Ahead,
         Calling
    <2> QED BY <2>1, <2>2
  <1>12. CASE GcloudGet(r)
    <2>1. CASE ReturnOk(r)
      BY <1>12, <2>1, ReturnOnward DEF GcloudGet, ReadRecords, Calling
    <2>2. CASE ~ReturnOk(r)
      BY <1>12, <1>0, <2>2 DEF GcloudGet, ReadRecords, Goto, TypeOK, ShapeInv, Onward, Ahead,
         Calling
    <2> QED BY <2>1, <2>2
  <1>13. CASE StartServer(r)
    <2>1. CASE ReturnErr(r)
      BY <1>13, <2>1, ReturnOnward DEF StartServer, Calling
    <2>2. CASE ~ReturnErr(r)
      BY <1>13, <1>0, <2>2 DEF StartServer, Goto, TypeOK, Onward, Ahead
    <2> QED BY <2>1, <2>2
  <1>14. CASE Edit(r)
    <2>1. CASE ReturnOk(r)
      BY <1>14, <2>1, ReturnOnward DEF Edit, Calling
    <2>2. CASE ~ReturnOk(r)
      BY <1>14, <1>0, <2>2 DEF Edit, Goto, TypeOK, ShapeInv, Onward, Ahead, Calling
    <2> QED BY <2>1, <2>2
  <1>15. CASE Conflict(r)
    <2>1. CASE ReturnErr(r)
      BY <1>15, <2>1, ReturnOnward DEF Conflict, Calling
    <2>2. CASE ~ReturnErr(r)
      BY <1>15, <1>0, <2>2 DEF Conflict, Goto, TypeOK, Onward, Ahead
    <2> QED BY <2>1, <2>2
  <1>16. CASE WaitForPropagation(r)
    BY <1>16, ReturnOnward DEF WaitForPropagation, Calling
  <1>17. CASE OrderReady(r)
    BY <1>17, <1>0, <1>00 DEF OrderReady, PollReady, Polling, Goto, zone, acct, env,
       TypeOK, ShapeInv, Onward, Ahead
  <1>18. CASE OrderInvalid(r)
    BY <1>18, <1>0, <1>00 DEF OrderInvalid, PollReady, Polling, Goto, zone, acct, env,
       TypeOK, ShapeInv, Onward, Ahead
  <1>19. CASE RunCleanup(r)
    BY <1>19, <1>0, <1>00 DEF RunCleanup, Goto, FirstStep, zone, acct, env, TypeOK,
       ShapeInv, Onward, Ahead
  <1>20. CASE CleanupsDone(r)
    BY <1>20, <1>0 DEF CleanupsDone, End, Goto, TypeOK, ShapeInv, Onward
  <1>21. CASE Finalize(r)
    BY <1>21, <1>0 DEF Finalize, zone, acct, env, End, Goto, TypeOK, Onward
  <1>22. CASE RejectAccount(r)
    BY <1>22, <1>0, <1>00 DEF RejectAccount, Fault, Goto, zone, env, TypeOK, ShapeInv,
       Onward, Ahead
  <1>23. CASE EditLost(r)
    BY <1>23, ReturnOnward DEF EditLost, Calling
  <1>24. CASE CallFails(r)
    BY <1>24, ReturnOnward DEF CallFails, Calling
  <1>25. CASE RequestFails(r)
    BY <1>25, <1>0 DEF RequestFails, Fault, Abandon, zone, acct, env, End, Goto, TypeOK,
       Onward
  <1>26. CASE Crash(r)
    BY <1>26, <1>0 DEF Crash, Fault, zone, env, End, Goto, TypeOK, Onward
  <1> QED BY <1>1, <1>2, <1>3, <1>4, <1>5, <1>6, <1>7, <1>8, <1>9, <1>10, <1>11, <1>12,
     <1>13, <1>14, <1>15, <1>16, <1>17, <1>18, <1>19, <1>20, <1>21, <1>22, <1>23, <1>24,
     <1>25, <1>26 DEF Progress, Failure

(* The steps that write no record set.                                      *)
LEMMA FreshKeep ==
    ASSUME FreshInv, NEW r \in Replicas, Alone(r), Onward(r), records' = records, orders' = orders
    PROVE  FreshInv'
  <1>1. \A q \in Replicas \ {r} : Ahead(q)' = Ahead(q) /\ \A d : TokenOf(q, d)' = TokenOf(q, d)
    BY DEF Alone, Ahead, TokenOf
  <1>2. provider' = provider
    BY DEF Alone, provider
  <1>3. ASSUME provider = "gcloud", NEW q \in Replicas, pc'[q] # "idle", doing'[q] = "create",
               NEW d \in Ahead(q)'
        PROVE  TokenOf(q, d)' \notin Range(records'[d])
    <2>1. CASE q = r
      <3>1. /\ pc[r] # "idle" /\ doing[r] = "create" /\ order'[r] = order[r] /\ d \in Ahead(r)
        BY <1>3, <2>1 DEF Onward
      <3>2. TokenOf(r, d)' = TokenOf(r, d)
        BY <3>1 DEF TokenOf
      <3> QED BY <1>3, <2>1, <3>1, <3>2 DEF FreshInv
    <2>2. CASE q # r
      BY <1>1, <1>3, <2>2 DEF FreshInv, Alone
    <2> QED BY <2>1, <2>2
  <1> QED BY <1>2, <1>3 DEF FreshInv

LEMMA FreshWrite ==
    ASSUME OrderInv, AskInv, FreshInv, NEW r \in Replicas, Alone(r), Onward(r), orders' = orders,
           pc[r] = "edit", Write(r),
           pc'[r] \notin {"wait", "ready"} => ~(pc'[r] # "idle" /\ doing'[r] = "create"),
           todo'[r] = todo[r] \/ pc'[r] \notin {"wait", "ready"}
    PROVE  FreshInv'
  <1>0. provider' = provider
    BY DEF Alone, provider
  <1> SUFFICES ASSUME provider = "gcloud" PROVE FreshInv'
    BY <1>0 DEF FreshInv
  <1>1. EditFacts(r)
    BY EditIs DEF Write
  <1>2. \A n \in Names : \A v \in Range(records'[n]) :
           v \in Range(records[n]) \/ (n = current(r) /\ v = Token(r))
    BY <1>1, WrittenIs
  <1>3. order[r] # 0 /\ order[r] <= orders /\ Token(r).order = order[r] /\ Token(r).domain = current(r)
        /\ todo[r] \in Seq(Names) /\ todo[r] # <<>>
    BY DEF OrderInv, ShapeInv, TypeOK, Token, Calling
  <1>4. \A n \in Names : \A v \in Range(records'[n]) : v.order <= orders'
    BY <1>2, <1>3 DEF FreshInv
  <1>5. ASSUME NEW q \in Replicas, pc'[q] # "idle", doing'[q] = "create", NEW d \in Ahead(q)'
        PROVE  TokenOf(q, d)' \notin Range(records'[d])
    <2>1. CASE q = r
      <3>1. /\ pc[r] # "idle" /\ doing[r] = "create" /\ order'[r] = order[r] /\ d \in Ahead(r)
        BY <1>5, <2>1 DEF Onward
      <3>2. TokenOf(r, d)' = TokenOf(r, d) /\ TokenOf(r, d).domain = d
        BY <3>1 DEF TokenOf
      <3>3. TokenOf(r, d) \notin Range(records[d])
        BY <3>1 DEF FreshInv
      <3>4. Ahead(r)' = Range(Tail(todo[r]))
        BY <1>5, <2>1 DEF Ahead
      <3>5. d # current(r)
        <4>1. Distinct(todo[r])
          BY <3>1 DEF AskInv, Asks
        <4> QED BY <1>3, <1>5, <2>1, <3>4, <4>1, TailDistinct DEF current
      <3>6. d \in Names
        <4>1. Tail(todo[r]) \in Seq(Names)
          BY <1>3
        <4> QED BY <1>5, <2>1, <3>4, <4>1 DEF Range
      <3> QED BY <1>2, <1>3, <2>1, <3>2, <3>3, <3>5, <3>6
    <2>2. CASE q # r
      <3>1. /\ pc[q] # "idle" /\ doing[q] = "create" /\ d \in Ahead(q)
            /\ TokenOf(q, d)' = TokenOf(q, d) /\ TokenOf(q, d).order = order[q]
        BY <1>5, <2>2 DEF Alone, Ahead, TokenOf
      <3>2. order[q] # order[r]
        BY <1>3, <2>2 DEF OrderInv, ShapeInv
      <3>3. TokenOf(q, d) # Token(r) /\ TokenOf(q, d) \notin Range(records[d])
        BY <1>3, <3>1, <3>2 DEF FreshInv
      <3>4. d \in Names
        <4>1. todo[q] \in Seq(Names) /\ (pc[q] \in {"wait", "ready"} => Tail(todo[q]) \in Seq(Names))
          BY DEF OrderInv, TypeOK, ShapeInv, Calling
        <4> QED BY <3>1, <4>1 DEF Ahead, Range
      <3> QED BY <1>2, <3>1, <3>3, <3>4
    <2> QED BY <2>1, <2>2
  <1> QED BY <1>0, <1>4, <1>5 DEF FreshInv

LEMMA FreshStep ==
    ASSUME OrderInv, AskInv, FreshInv, [Next]_vars
    PROVE  FreshInv'
  <1>0. TypeOK /\ ShapeInv
    BY DEF OrderInv
  <1>1. ASSUME NEW r \in Replicas, Start(r) PROVE FreshInv'
    <2>1. Alone(r)
      BY <1>0, <1>1, AloneStep
    <2>2. /\ records' = records /\ orders' = orders + 1 /\ order'[r] = orders + 1 /\ pc'[r] = "account"
          /\ orders \in Nat
      BY <1>0, <1>1 DEF Start, Goto, zone, TypeOK
    <2>3. \A n \in Names : \A v \in Range(records[n]) : v.order \in Nat
      <3>1. \A n \in Names : \A v \in Range(records[n]) : v \in Value
        BY <1>0 DEF TypeOK, Range
      <3> QED BY <3>1, BoundAssumption DEF Value
    <2>4. provider' = provider
      BY <2>1 DEF Alone, provider
    <2>5. \A q \in Replicas \ {r} : Ahead(q)' = Ahead(q) /\ \A d : TokenOf(q, d)' = TokenOf(q, d)
      BY <2>1 DEF Alone, Ahead, TokenOf
    <2>6. ASSUME provider = "gcloud" PROVE \A d \in Ahead(r)' : TokenOf(r, d)' \notin Range(records'[d])
      <3>1. Ahead(r)' = Names /\ \A d : TokenOf(r, d)'.order = orders + 1
        BY <2>2 DEF Ahead, TokenOf
      <3> QED BY <2>2, <2>3, <2>6, <3>1 DEF FreshInv
    <2>7. ASSUME provider = "gcloud", NEW n \in Names, NEW v \in Range(records'[n]) PROVE v.order <= orders'
      BY <2>2, <2>3, <2>7 DEF FreshInv
    <2>8. ASSUME provider = "gcloud", NEW q \in Replicas \ {r}, pc'[q] # "idle", doing'[q] = "create"
          PROVE  \A d \in Ahead(q)' : TokenOf(q, d)' \notin Range(records'[d])
      BY <2>1, <2>2, <2>5, <2>8 DEF FreshInv, Alone
    <2> QED BY <2>4, <2>6, <2>7, <2>8 DEF FreshInv
  <1>2. ASSUME NEW r \in Replicas, LoadAccount(r) PROVE FreshInv'
    <2>1. Alone(r) /\ Onward(r)
      BY <1>0, <1>2, AloneStep, OnwardStep DEF Progress, Failure
    <2>2. records' = records /\ orders' = orders
      BY <1>2 DEF LoadAccount, zone, env
    <2> QED BY <2>1, <2>2, FreshKeep
  <1>3. ASSUME NEW r \in Replicas, CreateAccount(r) PROVE FreshInv'
    <2>1. Alone(r) /\ Onward(r)
      BY <1>0, <1>3, AloneStep, OnwardStep DEF Progress, Failure
    <2>2. records' = records /\ orders' = orders
      BY <1>3 DEF CreateAccount, zone, env
    <2> QED BY <2>1, <2>2, FreshKeep
  <1>4. ASSUME NEW r \in Replicas, SaveAccount(r) PROVE FreshInv'
    <2>1. Alone(r) /\ Onward(r)
      BY <1>0, <1>4, AloneStep, OnwardStep DEF Progress, Failure
    <2>2. records' = records /\ orders' = orders
      BY <1>4 DEF SaveAccount, zone, env
    <2> QED BY <2>1, <2>2, FreshKeep
  <1>5. ASSUME NEW r \in Replicas, NewOrder(r) PROVE FreshInv'
    <2>1. Alone(r) /\ Onward(r)
      BY <1>0, <1>5, AloneStep, OnwardStep DEF Progress, Failure
    <2>2. records' = records /\ orders' = orders
      BY <1>5 DEF NewOrder, zone, env
    <2> QED BY <2>1, <2>2, FreshKeep
  <1>6. ASSUME NEW r \in Replicas, NextAuthorization(r) PROVE FreshInv'
    <2>1. Alone(r) /\ Onward(r)
      BY <1>0, <1>6, AloneStep, OnwardStep DEF Progress, Failure
    <2>2. records' = records /\ orders' = orders
      BY <1>6 DEF NextAuthorization, zone, env
    <2> QED BY <2>1, <2>2, FreshKeep
  <1>7. ASSUME NEW r \in Replicas, SetReady(r) PROVE FreshInv'
    <2>1. Alone(r) /\ Onward(r)
      BY <1>0, <1>7, AloneStep, OnwardStep DEF Progress, Failure
    <2>2. records' = records /\ orders' = orders
      BY <1>7 DEF SetReady, zone, env
    <2> QED BY <2>1, <2>2, FreshKeep
  <1>8. ASSUME NEW r \in Replicas, Route53Zone(r) PROVE FreshInv'
    <2>1. Alone(r) /\ Onward(r)
      BY <1>0, <1>8, AloneStep, OnwardStep DEF Progress, Failure
    <2>2. records' = records /\ orders' = orders
      BY <1>8 DEF Route53Zone, FindZone, zone, env
    <2> QED BY <2>1, <2>2, FreshKeep
  <1>9. ASSUME NEW r \in Replicas, CloudflareZone(r) PROVE FreshInv'
    <2>1. Alone(r) /\ Onward(r)
      BY <1>0, <1>9, AloneStep, OnwardStep DEF Progress, Failure
    <2>2. records' = records /\ orders' = orders
      BY <1>9 DEF CloudflareZone, FindZone, zone, env
    <2> QED BY <2>1, <2>2, FreshKeep
  <1>10. ASSUME NEW r \in Replicas, AzureZone(r) PROVE FreshInv'
    <2>1. Alone(r) /\ Onward(r)
      BY <1>0, <1>10, AloneStep, OnwardStep DEF Progress, Failure
    <2>2. records' = records /\ orders' = orders
      BY <1>10 DEF AzureZone, FindZone, zone, env
    <2> QED BY <2>1, <2>2, FreshKeep
  <1>11. ASSUME NEW r \in Replicas, GcloudZone(r) PROVE FreshInv'
    <2>1. Alone(r) /\ Onward(r)
      BY <1>0, <1>11, AloneStep, OnwardStep DEF Progress, Failure
    <2>2. records' = records /\ orders' = orders
      BY <1>11 DEF GcloudZone, FindZone, zone, env
    <2> QED BY <2>1, <2>2, FreshKeep
  <1>12. ASSUME NEW r \in Replicas, AzureGet(r) PROVE FreshInv'
    <2>1. Alone(r) /\ Onward(r)
      BY <1>0, <1>12, AloneStep, OnwardStep DEF Progress, Failure
    <2>2. records' = records /\ orders' = orders
      BY <1>12 DEF AzureGet, ReadRecords, zone, env
    <2> QED BY <2>1, <2>2, FreshKeep
  <1>13. ASSUME NEW r \in Replicas, GcloudGet(r) PROVE FreshInv'
    <2>1. Alone(r) /\ Onward(r)
      BY <1>0, <1>13, AloneStep, OnwardStep DEF Progress, Failure
    <2>2. records' = records /\ orders' = orders
      BY <1>13 DEF GcloudGet, ReadRecords, zone, env
    <2> QED BY <2>1, <2>2, FreshKeep
  <1>14. ASSUME NEW r \in Replicas, StartServer(r) PROVE FreshInv'
    <2>1. Alone(r) /\ Onward(r)
      BY <1>0, <1>14, AloneStep, OnwardStep DEF Progress, Failure
    <2>2. records' = records /\ orders' = orders
      BY <1>14 DEF StartServer, zone, env
    <2> QED BY <2>1, <2>2, FreshKeep
  <1>15. ASSUME NEW r \in Replicas, Edit(r) PROVE FreshInv'
    <2>1. Alone(r) /\ Onward(r)
      BY <1>0, <1>15, AloneStep, OnwardStep DEF Progress
    <2>2. /\ pc[r] = "edit" /\ Write(r) /\ orders' = orders
          /\ \/ pc'[r] \in {"wait", "ready"} /\ todo'[r] = todo[r]
             \/ pc'[r] = "cleanup" /\ doing'[r] # "create"
      <3>1. CASE ReturnOk(r)
        BY <1>0, <1>15, <3>1 DEF Edit, ReturnOk, Goto, env, TypeOK
      <3>2. CASE ~ReturnOk(r)
        BY <1>0, <1>15, <3>2 DEF Edit, Goto, env, TypeOK
      <3> QED BY <3>1, <3>2
    <2> QED BY <2>1, <2>2, FreshWrite
  <1>16. ASSUME NEW r \in Replicas, Conflict(r) PROVE FreshInv'
    <2>1. Alone(r) /\ Onward(r)
      BY <1>0, <1>16, AloneStep, OnwardStep DEF Progress, Failure
    <2>2. records' = records /\ orders' = orders
      BY <1>16 DEF Conflict, zone, env
    <2> QED BY <2>1, <2>2, FreshKeep
  <1>17. ASSUME NEW r \in Replicas, WaitForPropagation(r) PROVE FreshInv'
    <2>1. Alone(r) /\ Onward(r)
      BY <1>0, <1>17, AloneStep, OnwardStep DEF Progress, Failure
    <2>2. records' = records /\ orders' = orders
      BY <1>17 DEF WaitForPropagation, zone, env
    <2> QED BY <2>1, <2>2, FreshKeep
  <1>18. ASSUME NEW r \in Replicas, OrderReady(r) PROVE FreshInv'
    <2>1. Alone(r) /\ Onward(r)
      BY <1>0, <1>18, AloneStep, OnwardStep DEF Progress, Failure
    <2>2. records' = records /\ orders' = orders
      BY <1>18 DEF OrderReady, PollReady, zone, env
    <2> QED BY <2>1, <2>2, FreshKeep
  <1>19. ASSUME NEW r \in Replicas, OrderInvalid(r) PROVE FreshInv'
    <2>1. Alone(r) /\ Onward(r)
      BY <1>0, <1>19, AloneStep, OnwardStep DEF Progress, Failure
    <2>2. records' = records /\ orders' = orders
      BY <1>19 DEF OrderInvalid, PollReady, zone, env
    <2> QED BY <2>1, <2>2, FreshKeep
  <1>20. ASSUME NEW r \in Replicas, RunCleanup(r) PROVE FreshInv'
    <2>1. Alone(r) /\ Onward(r)
      BY <1>0, <1>20, AloneStep, OnwardStep DEF Progress, Failure
    <2>2. records' = records /\ orders' = orders
      BY <1>20 DEF RunCleanup, zone, env
    <2> QED BY <2>1, <2>2, FreshKeep
  <1>21. ASSUME NEW r \in Replicas, CleanupsDone(r) PROVE FreshInv'
    <2>1. Alone(r) /\ Onward(r)
      BY <1>0, <1>21, AloneStep, OnwardStep DEF Progress, Failure
    <2>2. records' = records /\ orders' = orders
      BY <1>21 DEF CleanupsDone, zone, env
    <2> QED BY <2>1, <2>2, FreshKeep
  <1>22. ASSUME NEW r \in Replicas, Finalize(r) PROVE FreshInv'
    <2>1. Alone(r) /\ Onward(r)
      BY <1>0, <1>22, AloneStep, OnwardStep DEF Progress, Failure
    <2>2. records' = records /\ orders' = orders
      BY <1>22 DEF Finalize, zone, env
    <2> QED BY <2>1, <2>2, FreshKeep
  <1>23. ASSUME NEW r \in Replicas, RejectAccount(r) PROVE FreshInv'
    <2>1. Alone(r) /\ Onward(r)
      BY <1>0, <1>23, AloneStep, OnwardStep DEF Progress, Failure
    <2>2. records' = records /\ orders' = orders
      BY <1>23 DEF RejectAccount, zone, env
    <2> QED BY <2>1, <2>2, FreshKeep
  <1>24. ASSUME NEW r \in Replicas, EditLost(r) PROVE FreshInv'
    <2>1. Alone(r) /\ Onward(r)
      BY <1>0, <1>24, AloneStep, OnwardStep DEF Failure
    <2>2. pc[r] = "edit" /\ Write(r) /\ orders' = orders
      BY <1>24 DEF EditLost, env
    <2>3. pc'[r] = "idle" \/ (pc'[r] = "cleanup" /\ doing'[r] # "create")
      BY <1>0, <1>24 DEF EditLost, ReturnErr, Abandon, End, Goto, TypeOK
    <2> QED BY <2>1, <2>2, <2>3, FreshWrite
  <1>25. ASSUME NEW r \in Replicas, CallFails(r) PROVE FreshInv'
    <2>1. Alone(r) /\ Onward(r)
      BY <1>0, <1>25, AloneStep, OnwardStep DEF Progress, Failure
    <2>2. records' = records /\ orders' = orders
      BY <1>25 DEF CallFails, zone, env
    <2> QED BY <2>1, <2>2, FreshKeep
  <1>26. ASSUME NEW r \in Replicas, RequestFails(r) PROVE FreshInv'
    <2>1. Alone(r) /\ Onward(r)
      BY <1>0, <1>26, AloneStep, OnwardStep DEF Progress, Failure
    <2>2. records' = records /\ orders' = orders
      BY <1>26 DEF RequestFails, zone, env
    <2> QED BY <2>1, <2>2, FreshKeep
  <1>27. ASSUME NEW r \in Replicas, Crash(r) PROVE FreshInv'
    <2>1. Alone(r) /\ Onward(r)
      BY <1>0, <1>27, AloneStep, OnwardStep DEF Progress, Failure
    <2>2. records' = records /\ orders' = orders
      BY <1>27 DEF Crash, zone, env
    <2> QED BY <2>1, <2>2, FreshKeep
  <1>28. ASSUME NEW r \in Replicas, ServerStops(r) PROVE FreshInv'
    BY <1>28 DEF ServerStops, zone, task, env, FreshInv, Ahead, TokenOf, provider
  <1>29. ASSUME NEW r \in Replicas, NEW d \in Names, Validate(r, d) PROVE FreshInv'
    BY <1>29 DEF Validate, zone, task, env, FreshInv, Ahead, TokenOf, provider
  <1>30. ASSUME NEW r \in Replicas, NEW d \in Names, Reject(r, d) PROVE FreshInv'
    BY <1>30 DEF Reject, zone, task, env, FreshInv, Ahead, TokenOf, provider
  <1>31. ASSUME NEW n \in Names, Propagate(n) PROVE FreshInv'
    BY <1>31 DEF Propagate, zone, task, env, FreshInv, Ahead, TokenOf, provider
  <1>32. CASE UNCHANGED vars
    BY <1>32 DEF vars, zone, task, env, FreshInv, Ahead, TokenOf, provider
  <1> QED BY <1>1, <1>2, <1>3, <1>4, <1>5, <1>6, <1>7, <1>8, <1>9, <1>10, <1>11, <1>12,
     <1>13, <1>14, <1>15, <1>16, <1>17, <1>18, <1>19, <1>20, <1>21, <1>22, <1>23, <1>24,
     <1>25, <1>26, <1>27, <1>28, <1>29, <1>30, <1>31, <1>32 DEF Next, Progress, Failure

LEMMA FreshInit == Init => FreshInv
  <1> SUFFICES ASSUME Init PROVE FreshInv
    OBVIOUS
  <1>1. \A n \in Names : Range(records[n]) = {}
    BY DEF Init, Range
  <1>2. \A r \in Replicas : pc[r] = "idle"
    BY DEF Init
  <1> QED BY <1>1, <1>2 DEF FreshInv

LEMMA PresentInit == Init => PresentInv
  <1> SUFFICES ASSUME Init PROVE PresentInv
    OBVIOUS
  <1>1. /\ served = records /\ \A r \in Replicas : pc[r] = "idle"
        /\ \A r \in Replicas, d \in Names : authz[r][d] = "none"
    BY DEF Init
  <1> QED BY <1>1 DEF PresentInv, Shows, Waits, Presented

(* The steps that leave the zone alone.                                     *)
LEMMA PresentFrame ==
    ASSUME NEW r \in Replicas, Alone(r), Apart(r), records' = records, served' = served,
           NEW q \in Replicas \ {r}, Shows(q), Waits(q)
    PROVE  Shows(q)' /\ Waits(q)'
  <1>1. \A d \in Names : /\ TokenOf(q, d)' = TokenOf(q, d) /\ credentials_for(d)' = credentials_for(d)
                         /\ Presented(q, d)' <=> Presented(q, d)
    BY DEF Alone, Apart, TokenOf, credentials_for, provider, Domains, Presented, current
  <1>2. Ahead(q)' = Ahead(q) /\ provider' = provider /\ \A e : credentials_for(e)' = credentials_for(e)
    BY DEF Alone, Ahead, provider, credentials_for, Domains
  <1>3. Shows(q)'
    BY <1>1, <1>2 DEF Shows, InZone, ServedAt
  <1>4. Waits(q)'
    BY <1>2 DEF Waits, Alone, Token, Name, current
  <1> QED BY <1>3, <1>4

(* Nothing new is presented, and no more is ahead.                          *)
Carried(r) ==
    /\ pc'[r] # "wait"
    /\ \A d \in Names : Presented(r, d)' =>
          Presented(r, d) /\ order'[r] = order[r] /\ Ahead(r)' \subseteq Ahead(r)

LEMMA PresentKeep ==
    ASSUME PresentInv, NEW r \in Replicas, Alone(r), Apart(r), records' = records, served' = served,
           Carried(r)
    PROVE  PresentInv'
  <1>1. \A q \in Replicas \ {r} : Shows(q)' /\ Waits(q)'
    BY PresentFrame DEF PresentInv
  <1>2. provider' = provider /\ \A e : credentials_for(e)' = credentials_for(e)
    BY DEF Alone, provider, credentials_for, Domains
  <1>3. ASSUME NEW d \in Names, Presented(r, d)'
        PROVE  /\ InZone(r, d)'
               /\ (provider # "cloudflare" => ServedAt(credentials_for(d), TokenOf(r, d)))'
    <2>1. TokenOf(r, d)' = TokenOf(r, d) /\ Ahead(r)' \subseteq Ahead(r) /\ Presented(r, d)
      BY <1>3 DEF Carried, TokenOf
    <2>2. InZone(r, d) /\ (provider # "cloudflare" => ServedAt(credentials_for(d), TokenOf(r, d)))
      BY <2>1 DEF PresentInv, Shows
    <2>3. InZone(r, d)'
      BY <1>2, <2>1, <2>2 DEF InZone
    <2> QED BY <1>2, <2>1, <2>2, <2>3 DEF ServedAt
  <1>4. Shows(r)' /\ Waits(r)'
    BY <1>3 DEF Shows, Waits, Carried
  <1> QED BY <1>1, <1>2, <1>4 DEF PresentInv

LEMMA ReturnCarried ==
    ASSUME OrderInv, AskInv, NEW r \in Replicas, pc[r] \in Calling,
           ReturnErr(r) \/ (ReturnOk(r) /\ doing[r] # "create")
    PROVE  Carried(r)
  <1>0. TypeOK
    BY DEF OrderInv
  <1>1. CASE doing[r] = "create"
    <2>1. End(r)
      BY <1>1 DEF ReturnErr, Abandon
    <2>2. pc'[r] = "idle" /\ \A d \in Names : authz'[r][d] # "ready"
      BY <1>0, <2>1 DEF End, Goto, TypeOK
    <2> QED BY <2>2 DEF Carried, Presented
  <1>2. CASE doing[r] # "create"
    <2>1. pc'[r] = "cleanup" /\ doing'[r] # "create"
      BY <1>0, <1>2 DEF ReturnErr, ReturnOk, Goto, TypeOK
    <2> QED BY <2>1 DEF Carried, Presented
  <1> QED BY <1>1, <1>2

LEMMA EndCarried ==
    ASSUME TypeOK, NEW r \in Replicas, End(r)
    PROVE  Carried(r)
  <1>1. pc'[r] = "idle" /\ \A d \in Names : authz'[r][d] # "ready"
    BY DEF End, Goto, TypeOK
  <1> QED BY <1>1 DEF Carried, Presented

(* The request moves on and neither presents nor awaits anything.           *)
LEMMA MoveCarried ==
    ASSUME NEW r \in Replicas, Onward(r), Asks(r)', pc'[r] \notin {"wait", "ready"},
           \A d \in Names : doing'[r] = "create" /\ authz'[r][d] = "ready" => Presented(r, d)
    PROVE  Carried(r)
  <1> SUFFICES ASSUME NEW d \in Names, Presented(r, d)'
               PROVE  Presented(r, d) /\ order'[r] = order[r] /\ Ahead(r)' \subseteq Ahead(r)
    BY DEF Carried
  <1>1. doing'[r] = "create" /\ authz'[r][d] = "ready"
    BY DEF Presented
  <1>2. pc'[r] # "idle"
    BY <1>1 DEF Asks, Calling
  <1> QED BY <1>1, <1>2 DEF Onward

LEMMA CarriedStep ==
    ASSUME OrderInv, AskInv, AskInv', NEW r \in Replicas, Start(r) \/ Progress(r) \/ Failure(r),
           ~Edit(r), ~EditLost(r), doing[r] = "create" => ~WaitForPropagation(r),
           doing[r] = "create" /\ GcloudGet(r) => ~ReturnOk(r)
    PROVE  Carried(r)
  <1>0. TypeOK /\ ShapeInv /\ Asks(r) /\ Asks(r)'
    BY DEF OrderInv, AskInv
  <1>1. CASE Start(r)
    <2>1. pc'[r] = "account" /\ pc[r] = "idle" /\ UNCHANGED <<authz, doing>>
      BY <1>0, <1>1 DEF Start, Goto, TypeOK
    <2> QED BY <1>0, <2>1 DEF Carried, Presented, Asks, Calling
  <1>2. CASE LoadAccount(r)
    <2>0. Onward(r)
      BY <1>2, OnwardStep DEF Progress, Failure
    <2>1. pc'[r] \notin {"wait", "ready"} /\ UNCHANGED <<authz, doing>>
      BY <1>0, <1>2 DEF LoadAccount, Goto, TypeOK
    <2> QED BY <1>0, <2>0, <2>1, MoveCarried DEF Presented
  <1>3. CASE CreateAccount(r)
    <2>0. Onward(r)
      BY <1>3, OnwardStep DEF Progress, Failure
    <2>1. pc'[r] \notin {"wait", "ready"} /\ UNCHANGED <<authz, doing>>
      BY <1>0, <1>3 DEF CreateAccount, Goto, TypeOK
    <2> QED BY <1>0, <2>0, <2>1, MoveCarried DEF Presented
  <1>4. CASE SaveAccount(r)
    <2>0. Onward(r)
      BY <1>4, OnwardStep DEF Progress, Failure
    <2>1. pc'[r] \notin {"wait", "ready"} /\ UNCHANGED <<authz, doing>>
      BY <1>0, <1>4 DEF SaveAccount, Goto, TypeOK
    <2> QED BY <1>0, <2>0, <2>1, MoveCarried DEF Presented
  <1>5. CASE NewOrder(r)
    <2>0. Onward(r)
      BY <1>5, OnwardStep DEF Progress, Failure
    <2>1. pc'[r] = "authz" /\ \A d \in Names : authz'[r][d] # "ready"
      BY <1>0, <1>5 DEF NewOrder, Goto, TypeOK
    <2> QED BY <2>1 DEF Carried, Presented
  <1>6. CASE NextAuthorization(r)
    <2>0. Onward(r)
      BY <1>6, OnwardStep DEF Progress, Failure
    <2>1. pc'[r] \notin {"wait", "ready"} /\ UNCHANGED <<authz, doing>>
      BY <1>0, <1>6 DEF NextAuthorization, FirstStep, Goto, TypeOK
    <2> QED BY <1>0, <2>0, <2>1, MoveCarried DEF Presented
  <1>7. CASE SetReady(r)
    <2>0. Onward(r)
      BY <1>7, OnwardStep DEF Progress, Failure
    <2>1. pc[r] = "ready" /\ pc'[r] = "authz" /\ UNCHANGED doing /\ doing[r] = "create"
      BY <1>0, <1>7 DEF SetReady, Goto, TypeOK, ShapeInv
    <2>2. \A d \in Names : authz'[r][d] = IF d = current(r) THEN "ready" ELSE authz[r][d]
      BY <1>0, <1>7 DEF SetReady, TypeOK
    <2> QED BY <1>0, <2>0, <2>1, <2>2, MoveCarried DEF Presented
  <1>8. CASE Route53Zone(r)
    <2>0. Onward(r)
      BY <1>8, OnwardStep DEF Progress, Failure
    <2>1. pc'[r] \notin {"wait", "ready"} /\ UNCHANGED <<authz, doing>>
      BY <1>0, <1>8 DEF Route53Zone, FindZone, Goto, TypeOK
    <2> QED BY <1>0, <2>0, <2>1, MoveCarried DEF Presented
  <1>9. CASE CloudflareZone(r)
    <2>0. Onward(r)
      BY <1>9, OnwardStep DEF Progress, Failure
    <2>1. pc'[r] \notin {"wait", "ready"} /\ UNCHANGED <<authz, doing>>
      BY <1>0, <1>9 DEF CloudflareZone, FindZone, Goto, TypeOK
    <2> QED BY <1>0, <2>0, <2>1, MoveCarried DEF Presented
  <1>10. CASE AzureZone(r)
    <2>0. Onward(r)
      BY <1>10, OnwardStep DEF Progress, Failure
    <2>1. pc'[r] \notin {"wait", "ready"} /\ UNCHANGED <<authz, doing>>
      BY <1>0, <1>10 DEF AzureZone, FindZone, Goto, TypeOK
    <2> QED BY <1>0, <2>0, <2>1, MoveCarried DEF Presented
  <1>11. CASE GcloudZone(r)
    <2>0. Onward(r)
      BY <1>11, OnwardStep DEF Progress, Failure
    <2>1. pc'[r] \notin {"wait", "ready"} /\ UNCHANGED <<authz, doing>>
      BY <1>0, <1>11 DEF GcloudZone, FindZone, Goto, TypeOK
    <2> QED BY <1>0, <2>0, <2>1, MoveCarried DEF Presented
  <1>12. CASE AzureGet(r)
    <2>0. Onward(r)
      BY <1>12, OnwardStep DEF Progress, Failure
    <2>1. CASE ReturnOk(r)
      <3>1. doing[r] # "create"
        BY <1>0, <1>12, <2>1 DEF AzureGet, ReadRecords, ReturnOk, Goto, TypeOK
      <3> QED BY <1>12, <2>1, <3>1, ReturnCarried DEF AzureGet, ReadRecords, Calling
    <2>2. CASE ~ReturnOk(r)
      <3>1. pc'[r] = "edit" /\ UNCHANGED <<authz, doing>>
        BY <1>0, <1>12, <2>2 DEF AzureGet, ReadRecords, Goto, TypeOK
      <3> QED BY <1>0, <2>0, <3>1, MoveCarried DEF Presented
    <2> QED BY <2>1, <2>2
  <1>13. CASE GcloudGet(r)
    <2>0. Onward(r)
      BY <1>13, OnwardStep DEF Progress, Failure
    <2>1. CASE ReturnOk(r)
      <3>1. doing[r] # "create"
        BY <1>0, <1>13, <2>1 DEF GcloudGet, ReadRecords, ReturnOk, Goto, TypeOK
      <3> QED BY <1>13, <2>1, <3>1, ReturnCarried DEF GcloudGet, ReadRecords, Calling
    <2>2. CASE ~ReturnOk(r)
      <3>1. pc'[r] = "edit" /\ UNCHANGED <<authz, doing>>
        BY <1>0, <1>13, <2>2 DEF GcloudGet, ReadRecords, Goto, TypeOK
      <3> QED BY <1>0, <2>0, <3>1, MoveCarried DEF Presented
    <2> QED BY <2>1, <2>2
  <1>14. CASE StartServer(r)
    <2>0. Onward(r)
      BY <1>14, OnwardStep DEF Progress, Failure
    <2>1. CASE ReturnErr(r)
      BY <1>14, <2>1, ReturnCarried DEF StartServer, Calling
    <2>2. CASE ~ReturnErr(r)
      <3>1. pc'[r] \in {"edit", "get"} /\ UNCHANGED <<authz, doing>>
        BY <1>0, <1>14, <2>2 DEF StartServer, Goto, TypeOK
      <3> QED BY <1>0, <2>0, <3>1, MoveCarried DEF Presented
    <2> QED BY <2>1, <2>2
  <1>15. CASE Conflict(r)
    <2>0. Onward(r)
      BY <1>15, OnwardStep DEF Progress, Failure
    <2>1. CASE ReturnErr(r)
      BY <1>15, <2>1, ReturnCarried DEF Conflict, Calling
    <2>2. CASE ~ReturnErr(r)
      <3>1. pc'[r] \in {"edit", "get"} /\ UNCHANGED <<authz, doing>>
        BY <1>0, <1>15, <2>2 DEF Conflict, Goto, TypeOK
      <3> QED BY <1>0, <2>0, <3>1, MoveCarried DEF Presented
    <2> QED BY <2>1, <2>2
  <1>16. CASE WaitForPropagation(r)
    BY <1>16, ReturnCarried DEF WaitForPropagation, Calling
  <1>17. CASE OrderReady(r)
    <2>1. pc'[r] = "cleanup" /\ doing'[r] = "delete"
      BY <1>0, <1>17 DEF OrderReady, PollReady, Goto, TypeOK
    <2> QED BY <2>1 DEF Carried, Presented
  <1>18. CASE OrderInvalid(r)
    <2>1. pc'[r] = "cleanup" /\ doing'[r] = "delete"
      BY <1>0, <1>18 DEF OrderInvalid, PollReady, Goto, TypeOK
    <2> QED BY <2>1 DEF Carried, Presented
  <1>19. CASE RunCleanup(r)
    <2>0. Onward(r)
      BY <1>19, OnwardStep DEF Progress, Failure
    <2>1. pc'[r] \notin {"wait", "ready"} /\ UNCHANGED <<authz, doing>>
      BY <1>0, <1>19 DEF RunCleanup, FirstStep, Goto, TypeOK
    <2> QED BY <1>0, <2>0, <2>1, MoveCarried DEF Presented
  <1>20. CASE CleanupsDone(r)
    <2>1. CASE End(r)
      BY <1>0, <2>1, EndCarried
    <2>2. CASE ~End(r)
      <3>1. pc'[r] = "finalize" /\ UNCHANGED <<authz, doing>> /\ pc[r] = "cleanup"
        BY <1>0, <1>20, <2>2 DEF CleanupsDone, Goto, TypeOK
      <3> QED BY <1>0, <3>1 DEF Carried, Presented, ShapeInv
    <2> QED BY <2>1, <2>2
  <1>21. CASE Finalize(r)
    BY <1>0, <1>21, EndCarried DEF Finalize, Abandon
  <1>22. CASE RejectAccount(r)
    <2>0. Onward(r)
      BY <1>22, OnwardStep DEF Progress, Failure
    <2>1. pc'[r] \notin {"wait", "ready"} /\ UNCHANGED <<authz, doing>>
      BY <1>0, <1>22 DEF RejectAccount, Goto, TypeOK
    <2> QED BY <1>0, <2>0, <2>1, MoveCarried DEF Presented
  <1>23. CASE CallFails(r)
    BY <1>23, ReturnCarried DEF CallFails, Calling
  <1>24. CASE RequestFails(r)
    BY <1>0, <1>24, EndCarried DEF RequestFails, Abandon
  <1>25. CASE Crash(r)
    BY <1>0, <1>25, EndCarried DEF Crash, Abandon
  <1> QED BY <1>1, <1>2, <1>3, <1>4, <1>5, <1>6, <1>7, <1>8, <1>9, <1>10, <1>11, <1>12,
     <1>13, <1>14, <1>15, <1>16, <1>17, <1>18, <1>19, <1>20, <1>21, <1>22, <1>23, <1>24,
     <1>25 DEF Progress, Failure

(* The window of an ACME-DNS account ends in the new value and still has    *)
(* the one before it.                                                       *)
Kept(s, t) ==
    LET all == Append(s, t)
    IN  SubSeq(all, IF Len(all) > 2 THEN Len(all) - 1 ELSE 1, Len(all))

LEMMA Window ==
    ASSUME NEW S, NEW s \in Seq(S), NEW t \in S
    PROVE  /\ Last(Kept(s, t)) = t /\ t \in Range(Kept(s, t))
           /\ s # <<>> => Last(s) \in Range(Kept(s, t))
  <1> DEFINE all == Append(s, t)
             w == SubSeq(all, IF Len(all) > 2 THEN Len(all) - 1 ELSE 1, Len(all))
  <1>1. /\ Len(s) \in Nat /\ Len(all) \in Nat /\ Len(all) = Len(s) + 1 /\ all[Len(s) + 1] = t
        /\ \A k \in 1..Len(s) : all[k] = s[k]
        /\ s # <<>> => Len(s) >= 1
    OBVIOUS
  <1>2. all \in Seq(S)
    OBVIOUS
  <1> DEFINE n == Len(all)
             m == IF n > 2 THEN n - 1 ELSE 1
  <1>3. n \in Nat /\ n >= 1 /\ m \in Int /\ w = SubSeq(all, m, n)
    BY ONLY <1>1
  <1>4. m = IF n > 2 THEN n - 1 ELSE 1
    OBVIOUS
  <1>5. all \in Seq(S) /\ n = Len(all)
    BY <1>2
  <1>10. Kept(s, t) = w
    BY DEF Kept
  <1> HIDE DEF m, n, w, all
  <1>6. /\ Last(w) = all[n] /\ all[n] \in Range(w)
        /\ n >= 2 => all[n - 1] \in Range(w)
    <2>1. 1 <= m /\ m <= n /\ n \in Int /\ \A i \in m..n : i \in 1..n
      BY ONLY <1>3, <1>4
    <2>2. \A i \in m..n : all[i] \in S
      BY ONLY <1>5, <2>1
    <2>3. /\ SubSeq(all, m, n) \in Seq(S)
          /\ Len(SubSeq(all, m, n)) = IF m <= n THEN n - m + 1 ELSE 0
          /\ \A i \in 1..n - m + 1 : SubSeq(all, m, n)[i] = all[m + i - 1]
      BY ONLY <1>3, <2>1, <2>2, SubSeqProperties
    <2> DEFINE k == (n - m) + 1
    <2>4. w \in Seq(S) /\ Len(w) = k /\ \A i \in 1..k : w[i] = all[(m + i) - 1]
      <3>1. n - m + 1 = k /\ \A i \in Int : m + i - 1 = (m + i) - 1
        BY ONLY <1>3, <2>1
      <3> QED BY ONLY <1>3, <2>1, <2>3, <3>1
    <2>5. k \in 1..k /\ (m + k) - 1 = n /\ (n >= 2 => k - 1 \in 1..k /\ (m + (k - 1)) - 1 = n - 1)
      BY ONLY <1>3, <1>4, <2>1
    <2> HIDE DEF k
    <2>6. DOMAIN w = 1..k
      BY ONLY <2>4
    <2>7. w[k] = all[n] /\ (n >= 2 => w[k - 1] = all[n - 1])
      BY ONLY <2>4, <2>5
    <2> QED BY ONLY <2>4, <2>5, <2>6, <2>7 DEF Last, Range
  <1>7. n = Len(s) + 1
    BY ONLY <1>1 DEF n
  <1>8. n - 1 = Len(s)
    BY ONLY <1>1, <1>7
  <1>9. s # <<>> => n >= 2 /\ all[n - 1] = Last(s)
    BY ONLY <1>1, <1>7, <1>8 DEF Last
  <1> QED BY ONLY <1>1, <1>6, <1>7, <1>9, <1>10

LEMMA ThreeElements ==
    ASSUME NEW x, NEW y, NEW z, x # y, y # z, x # z
    PROVE  Cardinality({x, y, z}) = 3
  <1>1. IsFiniteSet({x}) /\ Cardinality({x}) = 1
    BY FS_Singleton
  <1>2. {x} \cup {y} = {x, y} /\ y \notin {x} /\ {x, y} \cup {z} = {x, y, z} /\ z \notin {x, y}
    OBVIOUS
  <1>3. IsFiniteSet({x} \cup {y}) /\ Cardinality({x} \cup {y}) = 1 + 1
    BY ONLY <1>1, <1>2, FS_AddElement
  <1>4. IsFiniteSet({x, y}) /\ Cardinality({x, y}) = 2
    BY ONLY <1>2, <1>3
  <1>5. Cardinality({x, y} \cup {z}) = 2 + 1
    BY ONLY <1>2, <1>4, FS_AddElement
  <1> QED BY ONLY <1>2, <1>5

(* An account serves two domains of an order at most.                       *)
LEMMA TwoPerAccount ==
    ASSUME AskInv, TypeOK, NEW a \in Names,
           NEW x \in Range(Domains), NEW y \in Range(Domains), NEW z \in Range(Domains),
           credentials_for(x) = a, credentials_for(y) = a, credentials_for(z) = a,
           x # y, y # z, x # z
    PROVE  FALSE
  <1> DEFINE S == {d \in Range(Domains) : credentials_for(d) = a}
             R == Range(Domains)
             T == {x, y, z}
  <1>1. Domains \in Seq(Names)
    BY ProviderIsKnown
  <1>2. IsFiniteSet(R)
    <2>1. Len(Domains) \in Nat /\ R = {Domains[i] : i \in 1..Len(Domains)}
      BY <1>1 DEF Range
    <2>2. IsFiniteSet(1..Len(Domains))
      BY <2>1, FS_Interval
    <2>3. IsFiniteSet({Domains[i] : i \in 1..Len(Domains)})
      <3> DEFINE f == [i \in 1..Len(Domains) |-> Domains[i]]
                 I == 1..Len(Domains)
                 Im == {f[i] : i \in I}
      <3>1. f \in Surjection(I, Im)
        <4>1. f \in [I -> Im]
          OBVIOUS
        <4> QED BY <4>1 DEF Surjection
      <3>2. IsFiniteSet(Im)
        <4> HIDE DEF f, I, Im
        <4>1. IsFiniteSet(I)
          BY <2>2 DEF I
        <4> QED BY <3>1, <4>1, FS_Surjection
      <3>3. Im = {Domains[i] : i \in 1..Len(Domains)}
        OBVIOUS
      <3> QED BY <3>2, <3>3
    <2> QED BY <2>1, <2>3
  <1>3. IsFiniteSet(S) /\ T \subseteq S
    <2>1. S \subseteq R /\ T \subseteq S
      OBVIOUS
    <2> HIDE DEF S, R
    <2> QED BY <1>2, <2>1, FS_Subset
  <1>4. Cardinality(S) <= 2
    BY DEF AskInv, check_order_domains
  <1>5. Cardinality(T) = 3
    BY ThreeElements
  <1>6. Cardinality(T) <= Cardinality(S) /\ Cardinality(S) \in Nat
    <2> HIDE DEF S, T
    <2> QED BY <1>3, FS_Subset, FS_CardinalityType
  <1> HIDE DEF S, T
  <1> QED BY <1>4, <1>5, <1>6

(* Whatever the provider, a create that is taken leaves its value in the    *)
(* record set.                                                              *)
LEMMA WriteAdds ==
    ASSUME OrderInv, NEW r \in Replicas, pc[r] = "edit", doing[r] = "create", Write(r)
    PROVE  /\ Name(r) \in Names /\ records'[Name(r)] = ProviderEdit(r).recs
           /\ \A n \in Names \ {Name(r)} : records'[n] = records[n]
           /\ Token(r) \in Range(records'[Name(r)])
           /\ provider = "acmedns" =>
                 /\ Last(records'[Name(r)]) = Token(r)
                 /\ records[Name(r)] # <<>> => Last(records[Name(r)]) \in Range(records'[Name(r)])
  <1> DEFINE n == Name(r)
             t == Token(r)
  <1>1. /\ n \in Names /\ t \in Value /\ provider \in Providers /\ TypeOK /\ ShapeInv
        /\ records \in [Names -> Seq(Value)]
    BY TokenType, ProviderIsKnown DEF OrderInv, TypeOK, Calling
  <1>2. records' = [records EXCEPT ![n] = ProviderEdit(r).recs]
    BY DEF Write
  <1>3. records'[n] = ProviderEdit(r).recs /\ \A m \in Names \ {n} : records'[m] = records[m]
    BY <1>1, <1>2
  <1>4. \A s \in Seq(Value) : t \in Range(Edited(r, s))
    BY <1>1, EditedIs DEF Calling
  <1>5. CASE provider = "route53"
    <2>1. ProviderEdit(r).recs = <<t>>
      BY <1>5 DEF ProviderEdit, Route53Edit
    <2>2. t \in Range(<<t>>)
      BY DEF Range
    <2> QED BY <1>1, <1>3, <1>5, <2>1, <2>2
  <1>6. CASE provider \in {"cloudflare", "http01", "pebble"}
    <2>1. ProviderEdit(r).recs = Edited(r, records[n])
      BY <1>6 DEF ProviderEdit, CloudflareEdit, Http01Edit, PebbleEdit
    <2> QED BY <1>1, <1>3, <1>4, <1>6, <2>1
  <1>7. CASE provider \in {"azure", "gcloud"}
    <2>1. ProviderEdit(r).recs = Edited(r, seen[r].recs)
      BY <1>7 DEF ProviderEdit, AzureEdit, GcloudEdit
    <2>2. seen[r].recs \in Seq(Value)
      BY <1>7 DEF OrderInv, TypeOK, SeenInv, Read
    <2> QED BY <1>1, <1>3, <1>4, <1>7, <2>1, <2>2
  <1>8. CASE provider = "acmedns"
    <2>1. ProviderEdit(r).recs = Kept(records[n], t)
      BY <1>8 DEF ProviderEdit, AcmeDnsEdit, Kept
    <2>2. records[n] \in Seq(Value)
      BY <1>1
    <2> QED BY <1>1, <1>3, <2>1, <2>2, Window
  <1> QED BY <1>1, <1>5, <1>6, <1>7, <1>8 DEF Providers

(* A value another process presents or awaits outlives the write: it is of  *)
(* another order, and a zone several processes write to has a provider that *)
(* merges.                                                                  *)
LEMMA PresentOther ==
    ASSUME OrderInv, Supported, AskInv, NEW r \in Replicas, pc[r] = "edit", Write(r),
           Alone(r), Apart(r), NEW q \in Replicas \ {r}, Shows(q), Waits(q)
    PROVE  Shows(q)' /\ Waits(q)'
  <1>0. TypeOK /\ ShapeInv
    BY DEF OrderInv
  <1>1. \A d \in Names : /\ TokenOf(q, d)' = TokenOf(q, d) /\ credentials_for(d)' = credentials_for(d)
                         /\ Presented(q, d)' <=> Presented(q, d)
    BY DEF Alone, Apart, TokenOf, credentials_for, provider, Domains, Presented, current
  <1>2. /\ provider' = provider /\ Token(q)' = Token(q) /\ Name(q)' = Name(q)
        /\ pc'[q] = pc[q] /\ doing'[q] = doing[q]
    BY DEF Alone, provider, Token, Name, credentials_for, Domains, current
  <1>3. ASSUME pc[q] # "idle"
        PROVE  /\ provider \in Merging /\ served' = served
               /\ \A n \in Names : \A v \in Range(records[n]) :
                     v.order = order[q] => v \in Range(records'[n])
    <2>1. q \in deployment.replicas /\ r \in deployment.replicas /\ deployment \in Deployments
      BY <1>0, <1>3 DEF AskInv, Asks, TypeOK
    <2>2. provider \in Merging
      BY <2>1 DEF Supported, provider
    <2>3. served' = served
      BY <2>2 DEF Write, Merging, Zoned
    <2>4. EditFacts(r) /\ Name(r) \in Names /\ records' = [records EXCEPT ![Name(r)] = ProviderEdit(r).recs]
      BY <1>0, <2>2, EditIs, TokenType DEF Write, Merging, Calling
    <2>5. order[q] # order[r] /\ Token(r).order = order[r]
      BY <1>0, <1>3 DEF ShapeInv, Token
    <2>6. ASSUME NEW n \in Names, NEW v, v \in Range(records[n]), v.order = order[q]
          PROVE  v \in Range(records'[n])
      <3>1. v # Token(r)
        BY <2>5, <2>6
      <3>2. CASE n = Name(r)
        <4>1. records'[n] = ProviderEdit(r).recs
          BY <1>0, <2>4, <3>2 DEF TypeOK
        <4>2. v \in Range(ProviderEdit(r).recs)
          BY <2>2, <2>4, <2>6, <3>1, <3>2 DEF EditFacts
        <4> QED BY <4>1, <4>2
      <3>3. CASE n # Name(r)
        <4>1. records'[n] = records[n]
          BY <1>0, <2>4, <3>3 DEF TypeOK
        <4> QED BY <2>6, <4>1
      <3> QED BY <3>2, <3>3
    <2> QED BY <2>2, <2>3, <2>6
  <1>4. ASSUME NEW d \in Names, Presented(q, d)'
        PROVE  /\ InZone(q, d)'
               /\ (provider # "cloudflare" => ServedAt(credentials_for(d), TokenOf(q, d)))'
    <2>1. Presented(q, d)
      BY <1>1, <1>4
    <2>2. pc[q] # "idle"
      BY <2>1 DEF Presented, AskInv, Asks, Calling
    <2>3. InZone(q, d) /\ (provider # "cloudflare" => ServedAt(credentials_for(d), TokenOf(q, d)))
      BY <2>1 DEF Shows
    <2>4. provider # "acmedns" /\ credentials_for(d) = d
      BY <1>3, <2>2 DEF Merging, credentials_for
    <2>5. TokenOf(q, d).order = order[q]
      BY DEF TokenOf
    <2>6. TokenOf(q, d) \in Range(records'[credentials_for(d)])
      BY <1>3, <2>2, <2>3, <2>4, <2>5 DEF InZone
    <2>7. InZone(q, d)'
      BY <1>1, <1>2, <2>4, <2>6 DEF InZone
    <2> QED BY <1>1, <1>2, <1>3, <2>2, <2>3, <2>7 DEF ServedAt
  <1>5. Waits(q)'
    <2> SUFFICES ASSUME pc[q] = "wait", doing[q] = "create" PROVE Token(q) \in Range(records'[Name(q)])
      BY <1>2 DEF Waits
    <2>1. Token(q) \in Range(records[Name(q)]) /\ Token(q).order = order[q]
      BY DEF Waits, Token
    <2>2. Name(q) \in Names
      BY <1>0, TokenType DEF Calling
    <2> QED BY <1>3, <2>1, <2>2
  <1> QED BY <1>4, <1>5 DEF Shows

(* The value the request writes joins those it presented before.            *)
LEMMA PresentOwn ==
    ASSUME OrderInv, AskInv, PresentInv, NEW r \in Replicas, pc[r] = "edit", doing[r] = "create",
           Write(r), deployment' = deployment,
           UNCHANGED <<todo[r], order[r], doing[r], authz[r]>>, pc'[r] \in {"wait", "ready"},
           pc'[r] = "ready" => provider = "cloudflare" \/ provider \notin Zoned
    PROVE  Shows(r)' /\ Waits(r)'
  <1>0. /\ TypeOK /\ Asks(r) /\ Shows(r) /\ (provider \notin Zoned => served = records)
        /\ todo[r] \in Seq(Names) /\ todo[r] # <<>>
    BY DEF OrderInv, AskInv, PresentInv, TypeOK, ShapeInv, Calling
  <1>1. /\ provider' = provider /\ Token(r)' = Token(r) /\ Name(r)' = Name(r) /\ current(r)' = current(r)
        /\ \A e : credentials_for(e)' = credentials_for(e) /\ TokenOf(r, e)' = TokenOf(r, e)
    BY DEF provider, Token, TokenOf, Name, current, credentials_for, Domains
  <1>2. /\ Name(r) \in Names /\ Token(r) \in Range(records'[Name(r)])
        /\ \A n \in Names \ {Name(r)} : records'[n] = records[n]
        /\ provider = "acmedns" =>
              /\ Last(records'[Name(r)]) = Token(r)
              /\ records[Name(r)] # <<>> => Last(records[Name(r)]) \in Range(records'[Name(r)])
    BY WriteAdds
  <1>3. /\ served' = IF provider \in Zoned THEN served ELSE records'
        /\ "acmedns" \notin Zoned
    BY DEF Write, Zoned
  <1>4. /\ Distinct(todo[r]) /\ Range(todo[r]) \subseteq Range(Domains)
        /\ current(r) \in Range(todo[r]) /\ current(r) \notin Range(Tail(todo[r]))
        /\ Range(Tail(todo[r])) \subseteq Range(todo[r])
        /\ Ahead(r) = Range(todo[r]) /\ Ahead(r)' = Range(Tail(todo[r]))
    <2>1. Distinct(todo[r]) /\ Range(todo[r]) \subseteq Range(Domains)
      BY <1>0 DEF Asks
    <2> QED BY <1>0, <2>1, TailDistinct DEF current, Ahead
  <1>5. Waits(r)'
    BY <1>1, <1>2 DEF Waits
  <1>6. ASSUME NEW d \in Names, authz[r][d] # "ready", Presented(r, d)'
        PROVE  /\ InZone(r, d)'
               /\ (provider # "cloudflare" => ServedAt(credentials_for(d), TokenOf(r, d)))'
    <2>1. d = current(r) /\ pc'[r] = "ready"
      BY <1>1, <1>6 DEF Presented
    <2>2. TokenOf(r, d) = Token(r) /\ credentials_for(d) = Name(r)
      BY <2>1 DEF TokenOf, Token, Name
    <2>3. InZone(r, d)'
      BY <1>1, <1>2, <2>2 DEF InZone
    <2>4. provider # "cloudflare" => served' = records'
      BY <1>3, <2>1
    <2> QED BY <1>1, <1>2, <2>2, <2>3, <2>4 DEF ServedAt
  <1>7. ASSUME NEW d \in Names, authz[r][d] = "ready"
        PROVE  /\ InZone(r, d)'
               /\ (provider # "cloudflare" => ServedAt(credentials_for(d), TokenOf(r, d)))'
    <2> DEFINE a == credentials_for(d)
    <2>1. /\ Presented(r, d) /\ InZone(r, d)
          /\ provider # "cloudflare" => ServedAt(a, TokenOf(r, d))
      BY <1>0, <1>7 DEF Presented, Shows
    <2>2. d \in Range(Domains) /\ d \notin Range(todo[r]) /\ d # current(r)
      BY <1>0, <1>4, <1>7 DEF Asks
    <2>3. a \in Names
      <3>1. Domains \in Seq(Names) /\ Domains # <<>>
        BY <1>0, <2>2, ProviderIsKnown DEF Range
      <3>2. Domains[1] \in Names
        BY <3>1
      <3> QED BY <3>2 DEF credentials_for
    <2>4. CASE a # Name(r)
      <3>1. records'[a] = records[a] /\ (served'[a] = served[a])
        BY <1>0, <1>2, <1>3, <2>3, <2>4
      <3> HIDE DEF a
      <3>2. InZone(r, d)'
        BY <1>1, <1>4, <2>1, <3>1 DEF InZone, a
      <3> QED BY <1>1, <2>1, <3>1, <3>2 DEF ServedAt, a
    <2>5. CASE a = Name(r)
      <3>1. provider = "acmedns"
        BY <2>2, <2>5 DEF Name, credentials_for
      <3>2. Last(records[a]) = TokenOf(r, d) /\ TokenOf(r, d) \in Range(records[a])
        <4>1. current(r) \in Ahead(r) \ {d} /\ credentials_for(current(r)) = credentials_for(d)
          BY <1>4, <2>2, <2>5 DEF Name
        <4> QED BY <2>1, <3>1, <4>1 DEF InZone
      <3>3. records[a] # <<>>
        BY <3>2 DEF Range
      <3>4. TokenOf(r, d) \in Range(records'[a])
        BY <1>2, <2>5, <3>1, <3>2, <3>3
      <3>5. ASSUME NEW e \in Ahead(r)' \ {d}, credentials_for(e) = a PROVE FALSE
        <4>1. /\ e \in Range(Domains) /\ current(r) \in Range(Domains) /\ e # current(r) /\ e # d
              /\ credentials_for(current(r)) = a
          BY <1>4, <2>5, <3>5 DEF Name
        <4> HIDE DEF a
        <4>2. credentials_for(d) = a
          BY DEF a
        <4> QED BY <1>0, <2>2, <2>3, <3>5, <4>1, <4>2, TwoPerAccount
      <3>6. InZone(r, d)'
        BY <1>1, <3>4, <3>5 DEF InZone
      <3>7. served' = records'
        BY <1>3, <3>1
      <3> QED BY <1>1, <3>4, <3>6, <3>7 DEF ServedAt
    <2> QED BY <2>4, <2>5
  <1> QED BY <1>5, <1>6, <1>7 DEF Shows

(* A change that is awaited is presented once it is served.                 *)
LEMMA PresentAwaited ==
    ASSUME OrderInv, AskInv, PresentInv, NEW r \in Replicas, WaitForPropagation(r), doing[r] = "create"
    PROVE  PresentInv'
  <1>0. TypeOK /\ Asks(r) /\ Shows(r) /\ Waits(r)
    BY DEF OrderInv, AskInv, PresentInv
  <1>1. /\ pc[r] = "wait" /\ pc'[r] = "ready" /\ ServedAt(Name(r), Token(r))
        /\ UNCHANGED <<records, served, todo, order, doing, authz>>
    BY <1>0 DEF WaitForPropagation, ReturnOk, Goto, zone, TypeOK
  <1>2. Alone(r) /\ Apart(r)
    BY <1>0, AloneStep, ApartStep DEF Progress
  <1>3. \A q \in Replicas \ {r} : Shows(q)' /\ Waits(q)'
    BY <1>1, <1>2, PresentFrame DEF PresentInv
  <1>4. /\ provider' = provider /\ provider \in Zoned /\ provider # "acmedns" /\ current(r)' = current(r)
        /\ \A e : credentials_for(e)' = credentials_for(e) /\ TokenOf(r, e)' = TokenOf(r, e)
        /\ Token(r) \in Range(records[Name(r)])
    BY <1>0, <1>1, <1>2 DEF Alone, provider, credentials_for, Domains, TokenOf, current, Waits,
       Asks, Zoned
  <1>5. ASSUME NEW d \in Names, Presented(r, d)'
        PROVE  /\ InZone(r, d)'
               /\ (provider # "cloudflare" => ServedAt(credentials_for(d), TokenOf(r, d)))'
    <2>1. CASE authz[r][d] = "ready"
      <3>1. InZone(r, d) /\ (provider # "cloudflare" => ServedAt(credentials_for(d), TokenOf(r, d)))
        BY <1>0, <2>1 DEF Shows, Presented
      <3>2. InZone(r, d)'
        BY <1>1, <1>4, <3>1 DEF InZone
      <3> QED BY <1>1, <1>4, <3>1, <3>2 DEF ServedAt
    <2>2. CASE authz[r][d] # "ready"
      <3>1. d = current(r)
        BY <1>1, <1>4, <1>5, <2>2 DEF Presented
      <3>2. TokenOf(r, d) = Token(r) /\ credentials_for(d) = Name(r)
        BY <3>1 DEF TokenOf, Token, Name
      <3>3. InZone(r, d)'
        BY <1>1, <1>4, <3>2 DEF InZone
      <3> QED BY <1>1, <1>4, <3>2, <3>3 DEF ServedAt
    <2> QED BY <2>1, <2>2
  <1>6. Shows(r)' /\ Waits(r)'
    BY <1>1, <1>5 DEF Shows, Waits
  <1> QED BY <1>1, <1>3, <1>4, <1>6 DEF PresentInv

LEMMA PresentWrite ==
    ASSUME OrderInv, Supported, AskInv, PresentInv, NEW r \in Replicas, Edit(r) \/ EditLost(r)
    PROVE  PresentInv'
  <1>0. TypeOK /\ pc[r] = "edit" /\ Write(r)
    BY DEF OrderInv, Edit, EditLost
  <1>1. Alone(r) /\ Apart(r)
    BY <1>0, AloneStep, ApartStep DEF Progress, Failure
  <1>2. \A q \in Replicas \ {r} : Shows(q)' /\ Waits(q)'
    BY <1>0, <1>1, PresentOther DEF PresentInv
  <1>3. Shows(r)' /\ Waits(r)'
    <2>1. CASE Edit(r) /\ doing[r] = "create"
      <3>1. /\ UNCHANGED <<todo, order, doing, authz>>
            /\ pc'[r] = IF Awaits(r) THEN "wait" ELSE "ready"
        <4>1. CASE Awaits(r)
          BY <1>0, <2>1, <4>1 DEF Edit, Goto, TypeOK
        <4>2. CASE ~Awaits(r)
          BY <1>0, <2>1, <4>2 DEF Edit, ReturnOk, Goto, TypeOK
        <4> QED BY <4>1, <4>2
      <3>2. ~Awaits(r) => provider = "cloudflare" \/ provider \notin Zoned
        BY <2>1 DEF Awaits, Route53Awaits, AzureAwaits, GcloudAwaits, Zoned
      <3>3. deployment' = deployment
        BY <1>1 DEF Alone
      <3> QED BY <1>0, <2>1, <3>1, <3>2, <3>3, PresentOwn
    <2>2. CASE Edit(r) /\ doing[r] # "create"
      <3>1. doing'[r] # "create"
        BY <2>2 DEF Edit, ReturnOk
      <3> QED BY <3>1 DEF Shows, Waits, Presented
    <2>3. CASE EditLost(r)
      <3>1. Carried(r) /\ (doing'[r] # "create" \/ \A d \in Names : ~Presented(r, d)')
        <4>1. CASE doing[r] = "create"
          <5>1. End(r)
            BY <2>3, <4>1 DEF EditLost, ReturnErr, Abandon
          <5>2. pc'[r] = "idle" /\ \A d \in Names : authz'[r][d] # "ready"
            BY <1>0, <5>1 DEF End, Goto, TypeOK
          <5> QED BY <5>2 DEF Carried, Presented
        <4>2. CASE doing[r] # "create"
          <5>1. doing'[r] # "create" /\ pc'[r] = "cleanup"
            BY <1>0, <2>3, <4>2 DEF EditLost, ReturnErr, Goto, TypeOK
          <5> QED BY <5>1 DEF Carried, Presented
        <4> QED BY <4>1, <4>2
      <3> QED BY <3>1 DEF Shows, Waits, Presented, Carried
    <2> QED BY <2>1, <2>2, <2>3
  <1>4. provider' = provider /\ (provider \notin Zoned => served' = records')
    BY <1>0, <1>1 DEF Alone, provider, Write
  <1> QED BY <1>2, <1>3, <1>4 DEF PresentInv

LEMMA PresentStep ==
    ASSUME OrderInv, Supported, AskInv, AskInv', FreshInv, PresentInv, [Next]_vars
    PROVE  PresentInv'
  <1>0. TypeOK /\ ShapeInv /\ deployment' = deployment
    BY DeploymentFixed DEF OrderInv
  <1>00. provider' = provider /\ \A e : credentials_for(e)' = credentials_for(e)
    BY <1>0 DEF provider, credentials_for, Domains
  <1>1. ASSUME NEW r \in Replicas, Start(r) \/ Progress(r) \/ Failure(r) PROVE PresentInv'
    <2>1. CASE Edit(r) \/ EditLost(r)
      BY <2>1, PresentWrite
    <2>2. CASE WaitForPropagation(r) /\ doing[r] = "create"
      BY <2>2, PresentAwaited
    <2>3. CASE /\ ~Edit(r) /\ ~EditLost(r)
               /\ ~(WaitForPropagation(r) /\ doing[r] = "create")
      <3>1. records' = records /\ served' = served
        BY <1>1, <2>3 DEF Progress, Failure, Start, LoadAccount, CreateAccount, SaveAccount,
           NewOrder, NextAuthorization, SetReady, Route53Zone, CloudflareZone, AzureZone,
           GcloudZone, FindZone, AzureGet, GcloudGet, ReadRecords, StartServer, Conflict,
           WaitForPropagation, OrderReady, OrderInvalid, PollReady, RunCleanup, CleanupsDone,
           Finalize, RejectAccount, CallFails, RequestFails, Crash, zone
      <3>2. Alone(r) /\ Apart(r)
        BY <1>0, <1>1, AloneStep, ApartStep
      <3>3. ASSUME GcloudGet(r), ReturnOk(r), doing[r] = "create" PROVE FALSE
        <4>1. provider = "gcloud" /\ pc[r] = "get"
          BY <3>3 DEF GcloudGet, ReadRecords
        <4>2. Edited(r, records[Name(r)]) = records[Name(r)]
          <5>1. pc'[r] = "ready"
            BY <1>0, <3>3 DEF ReturnOk, Goto, TypeOK
          <5> QED BY <1>0, <3>3, <5>1 DEF GcloudGet, ReadRecords, Goto, TypeOK
        <4>3. Name(r) \in Names /\ Name(r) = current(r) /\ todo[r] \in Seq(Names) /\ todo[r] # <<>>
          BY <1>0, <4>1, TokenType DEF Name, credentials_for, Calling, TypeOK, ShapeInv
        <4>4. records[Name(r)] \in Seq(Value)
          BY <1>0, <4>3 DEF TypeOK
        <4>5. Token(r) \in Range(records[Name(r)])
          BY <1>0, <3>3, <4>1, <4>2, <4>4, EditedIs DEF Calling
        <4>6. current(r) \in Ahead(r) /\ TokenOf(r, current(r)) = Token(r)
          BY <4>1, <4>3, TailRange DEF Ahead, current, TokenOf, Token
        <4> QED BY <3>3, <4>1, <4>3, <4>5, <4>6 DEF FreshInv
      <3>4. Carried(r)
        BY <1>1, <2>3, <3>3, CarriedStep
      <3> QED BY <3>1, <3>2, <3>4, PresentKeep
    <2> QED BY <2>1, <2>2, <2>3
  <1>2. ASSUME NEW r \in Replicas, ServerStops(r) PROVE PresentInv'
    BY <1>00, <1>2 DEF ServerStops, zone, task, PresentInv, Shows, Waits, Presented, InZone,
       ServedAt, TokenOf, Token, Name, current, Ahead
  <1>3. ASSUME NEW r \in Replicas, NEW d \in Names, Validate(r, d) \/ Reject(r, d) PROVE PresentInv'
    <2>1. UNCHANGED <<records, served, pc, todo, doing, order>>
      BY <1>3 DEF Validate, Reject, zone, task
    <2>2. authz' = [authz EXCEPT ![r][d] = "valid"] \/ authz' = [authz EXCEPT ![r][d] = "invalid"]
      BY <1>3 DEF Validate, Reject
    <2>3. ASSUME NEW q \in Replicas, NEW e \in Names, authz'[q][e] = "ready"
          PROVE  authz[q][e] = "ready"
      <3>1. authz \in [Replicas -> [Names -> {"none", "pending", "ready", "valid", "invalid"}]]
        BY <1>0 DEF TypeOK
      <3>2. CASE authz' = [authz EXCEPT ![r][d] = "valid"]
        BY <2>3, <3>1, <3>2
      <3>3. CASE authz' = [authz EXCEPT ![r][d] = "invalid"]
        BY <2>3, <3>1, <3>3
      <3> QED BY <2>2, <3>2, <3>3
    <2>4. /\ \A q \in Replicas, e \in Names : Presented(q, e)' => Presented(q, e)
          /\ \A q \in Replicas : Ahead(q)' = Ahead(q) /\ Token(q)' = Token(q) /\ Name(q)' = Name(q)
          /\ \A q \in Replicas, e \in Names : TokenOf(q, e)' = TokenOf(q, e)
      BY <1>00, <2>1, <2>3 DEF Presented, Ahead, current, Token, Name, TokenOf
    <2>5. \A q \in Replicas : Shows(q)'
      BY <1>00, <2>1, <2>4 DEF PresentInv, Shows, InZone, ServedAt
    <2>6. \A q \in Replicas : Waits(q)'
      BY <2>1, <2>4 DEF PresentInv, Waits
    <2> QED BY <1>00, <2>1, <2>5, <2>6 DEF PresentInv
  <1>4. ASSUME NEW n \in Names, Propagate(n) PROVE PresentInv'
    <2>1. /\ served[n] # records[n] /\ UNCHANGED <<records, pc, todo, doing, order, authz>>
          /\ \A m \in Names : served'[m] = IF m = n THEN records[n] ELSE served[m]
      BY <1>0, <1>4 DEF Propagate, task, TypeOK
    <2>2. provider \in Zoned
      BY <2>1 DEF PresentInv
    <2>3. /\ \A q \in Replicas, e \in Names : Presented(q, e)' <=> Presented(q, e)
          /\ \A q \in Replicas : Ahead(q)' = Ahead(q) /\ Token(q)' = Token(q) /\ Name(q)' = Name(q)
          /\ \A q \in Replicas, e \in Names : TokenOf(q, e)' = TokenOf(q, e)
      BY <1>00, <2>1 DEF Presented, Ahead, current, Token, Name, TokenOf
    <2>4. \A e \in Names : credentials_for(e) = e
      BY <2>2 DEF credentials_for, Zoned
    <2>5. \A q \in Replicas : Shows(q)'
      BY <1>00, <2>1, <2>3, <2>4 DEF PresentInv, Shows, InZone, ServedAt
    <2>6. \A q \in Replicas : Waits(q)'
      BY <2>1, <2>3 DEF PresentInv, Waits
    <2> QED BY <1>00, <2>2, <2>5, <2>6 DEF PresentInv
  <1>5. CASE UNCHANGED vars
    BY <1>00, <1>5 DEF vars, zone, task, PresentInv, Shows, Waits, Presented, InZone, ServedAt,
       TokenOf, Token, Name, current, Ahead
  <1> QED BY <1>1, <1>2, <1>3, <1>4, <1>5 DEF Next

(* When the CA is told that a challenge is ready, and until the order is    *)
(* decided, the challenge is answered, in every supported deployment: with  *)
(* any handler, any number of domains and, where the provider merges, any   *)
(* number of processes, whatever fails.  For ACME-DNS the start-up check of *)
(* two domains per account is what keeps the window wide enough.            *)
THEOREM ReadyIsAnsweredHolds ==
    ASSUME Supported
    PROVE  Spec => []ReadyIsAnswered
  <1>1. Init => AskInv /\ FreshInv /\ PresentInv
    BY AskInit, FreshInit, PresentInit
  <1>2. OrderInv /\ AskInv /\ FreshInv /\ PresentInv /\ [Next]_vars => AskInv' /\ FreshInv' /\ PresentInv'
    BY AskStep, FreshStep, PresentStep
  <1>3. AskInv /\ PresentInv => ReadyIsAnswered
    <2> SUFFICES ASSUME AskInv, PresentInv, NEW r \in Replicas, NEW d \in Names,
                        authz[r][d] = "ready", result[r] = "none"
                 PROVE  IF provider = "cloudflare"
                        THEN TokenOf(r, d) \in Range(records[credentials_for(d)])
                        ELSE Answered(r, d)
      BY DEF ReadyIsAnswered
    <2>1. Asks(r) /\ Shows(r)
      BY DEF AskInv, PresentInv
    <2>2. doing[r] = "create"
      BY <2>1 DEF Asks
    <2>3. /\ InZone(r, d) /\ (provider # "cloudflare" => ServedAt(credentials_for(d), TokenOf(r, d)))
          /\ provider = "http01" => server[r] = "up"
      BY <2>1, <2>2 DEF Shows, Presented, Asks
    <2> QED BY <2>3 DEF InZone, Answered
  <1> QED BY <1>1, <1>2, <1>3, OrderInvHolds, PTL DEF Spec

=============================================================================
