----------------------- MODULE StatusListReads_proofs -----------------------
(***************************************************************************)
(* Proofs about StatusListReads, for any number of replicas, writers and   *)
(* clients, any TTL and any latency bound.                                 *)
(***************************************************************************)
EXTENDS StatusListReads, SequenceTheorems, TLAPS

(* Every update advances the stamp, whatever the wall clock reads.          *)
LEMMA NextStampAdvances ==
    ASSUME NEW previous \in Nat, NEW t \in Nat
    PROVE  next_updated_at(previous, t) \in Nat /\ next_updated_at(previous, t) > previous
  BY DEF next_updated_at

(* What the two actions that commit a version do to the version history.    *)
Grows(w) ==
    /\ versions' \in Seq(Version)
    /\ Row' = Row + 1
    /\ \A n \in 1..Row : versions'[n] = versions[n] /\ ackAge'[n] = ackAge[n]
    /\ Row > 0 => versions'[Row + 1].stamp > versions[Row].stamp
    /\ ackAge' \in [1..Row' -> Ages \cup {None}]
    /\ ackAge'[Row + 1] \in {0, None}

(* A committed version is appended with a later stamp, and nothing before   *)
(* it changes.                                                              *)
LEMMA CommitGrows ==
    ASSUME TypeOK, RefInv, NEW w \in Writers, Publish(w) \/ WriteRow(w)
    PROVE  Grows(w)
  <1> USE TTLAssumption, LatencyAssumption, ClockAssumption
  <1>1. Row \in Nat /\ AgeLimit \in Nat
    BY DEF TypeOK, Row, AgeLimit, MaxStaleness
  <1>2. ASSUME NEW v \in Version, versions' = Append(versions, v)
        PROVE  /\ versions' \in Seq(Version)
               /\ Row' = Row + 1
               /\ \A n \in 1..Row : versions'[n] = versions[n]
               /\ versions'[Row + 1] = v
    BY <1>2, AppendProperties DEF TypeOK, Row
  <1>3. ASSUME NEW age \in {0, None}, Row' = Row + 1, ackAge' = Extend(age)
        PROVE  /\ ackAge' \in [1..Row' -> Ages \cup {None}]
               /\ \A n \in 1..Row : ackAge'[n] = ackAge[n]
               /\ ackAge'[Row + 1] = age
    <2>1. Row' = Row + 1 /\ Row \in Nat /\ 0 \in Ages
      BY <1>1, <1>3 DEF Ages
    <2>2. ackAge \in [1..Row -> Ages \cup {None}]
      BY DEF TypeOK, Row
    <2> HIDE DEF Row
    <2> QED BY <1>3, <2>1, <2>2 DEF Extend
  <1>4. CASE Publish(w)
    <2>1. PICK c \in Contents, t \in ClockValues :
             versions' = Append(versions, [content |-> c, stamp |-> t])
      BY <1>4 DEF Publish
    <2>2. [content |-> c, stamp |-> t] \in Version
      BY DEF Version
    <2>3. PICK age \in {0, None} : ackAge' = Extend(age)
      BY <1>4 DEF Publish
    <2>4. Row = 0
      BY <1>4 DEF Publish
    <2> QED BY <1>2, <1>3, <2>1, <2>2, <2>3, <2>4 DEF Grows
  <1>5. CASE WriteRow(w)
    <2>1. PICK c \in Contents, t \in ClockValues :
             versions' = Append(versions,
                                [content |-> c,
                                 stamp |-> next_updated_at(versions[Row].stamp, t)])
      BY <1>5 DEF WriteRow
    <2> DEFINE v == [content |-> c, stamp |-> next_updated_at(versions[Row].stamp, t)]
    <2>2. ackAge' = Extend(None)
      BY <1>5 DEF WriteRow
    <2>3. Row > 0
      BY <1>1, <1>5 DEF WriteRow, RefInv
    <2>4. versions[Row] \in Version
      BY <1>1, <2>3 DEF TypeOK, Row
    <2>5. /\ next_updated_at(versions[Row].stamp, t) \in Nat
          /\ next_updated_at(versions[Row].stamp, t) > versions[Row].stamp
      BY <2>4, NextStampAdvances DEF Version
    <2>6. v \in Version /\ v.stamp > versions[Row].stamp
      BY <2>5 DEF Version
    <2> QED BY <1>2, <1>3, <2>1, <2>2, <2>6 DEF Grows
  <1> QED BY <1>4, <1>5

----------------------------------------------------------------------------
(* Type correctness, and that every reference names a committed version.    *)

LEMMA TypeStep ==
    ASSUME TypeOK, RefInv, [Next]_vars
    PROVE  TypeOK' /\ RefInv'
  <1> USE TTLAssumption, LatencyAssumption, ReadsNoneAssumption
  <1>0. Row \in Nat /\ AgeLimit \in Nat
    BY DEF TypeOK, Row, AgeLimit, MaxStaleness
  <1>1. ASSUME NEW w \in Writers, Publish(w) \/ WriteRow(w)
        PROVE  TypeOK' /\ RefInv'
    <2>1. Grows(w)
      BY <1>1, CommitGrows
    <2>2. /\ UNCHANGED <<cache, base, reading>>
          /\ wpc' = [wpc EXCEPT ![w] = wpc'[w]]
          /\ wpc'[w] \in {"ok", "lost", "invalidate"}
          /\ wpc'[w] = "invalidate" => base[w] = Row /\ base[w] \in 1..Row
      BY <1>1 DEF Publish, WriteRow, TypeOK, RefInv
    <2>3. TypeOK'
      <3>1. versions' \in Seq(Version) /\ ackAge' \in [1..Len(versions') -> Ages \cup {None}]
        BY <2>1 DEF Grows, Row
      <3>2. wpc' \in [Writers -> {"start", "write", "invalidate", "ok", "rejected", "conflict", "lost"}]
        BY <2>2 DEF TypeOK
      <3> QED BY <2>2, <3>1, <3>2 DEF TypeOK, reading
    <2>4. /\ \A c \in Clients :
                /\ cpc'[c] \in {"put", "answer"} => rec'[c] \in 1..Row'
                /\ cpc'[c] # "idle" => chome'[c] \in Replicas
                /\ held'[c] # None => held'[c] \in 1..Row'
          /\ \A p \in Replicas : cache'[p] # None => cache'[p].version \in 1..Row'
      <3>1. \A n \in 1..Row : n \in 1..Row'
        BY <1>0, <2>1 DEF Grows
      <3> QED BY <2>2, <3>1 DEF reading, RefInv
    <2>5. /\ \A q \in Writers : wpc'[q] = "write" => base'[q] \in 1..Row'
          /\ \A q \in Writers : wpc'[q] = "invalidate" => base'[q] \in 1..(Row' - 1)
      <3>1. Row' = Row + 1 /\ UNCHANGED base
        BY <2>1, <2>2 DEF Grows
      <3>2. \A q \in Writers \ {w} : wpc'[q] = wpc[q]
        BY <2>2 DEF TypeOK
      <3>3. ASSUME NEW q \in Writers
            PROVE  /\ wpc'[q] = "write" => base[q] \in 1..(Row + 1)
                   /\ wpc'[q] = "invalidate" => base[q] \in 1..Row
        BY <1>0, <2>2, <3>2 DEF RefInv, TypeOK
      <3>4. Row' - 1 = Row
        BY <1>0, <3>1
      <3> QED BY <3>1, <3>3, <3>4
    <2> QED BY <2>3, <2>4, <2>5 DEF RefInv
  <1>2. ASSUME NEW w \in Writers,
               ReadRow(w) \/ WriteConflict(w) \/ WriteRejected(w) \/ AbandonWrite(w)
        PROVE  TypeOK' /\ RefInv'
    <2>1. TypeOK'
      BY <1>0, <1>2 DEF ReadRow, WriteConflict, WriteRejected, AbandonWrite, TypeOK, reading
    <2>2. CASE ReadRow(w)
      BY <1>0, <2>1, <2>2 DEF ReadRow, TypeOK, reading, RefInv, Row
    <2>3. CASE WriteConflict(w) \/ WriteRejected(w)
      BY <1>0, <2>1, <2>3 DEF WriteConflict, WriteRejected, TypeOK, reading, RefInv, Row
    <2>4. CASE AbandonWrite(w)
      BY <1>0, <2>1, <2>4 DEF AbandonWrite, TypeOK, reading, RefInv, Row
    <2> QED BY <1>2, <2>2, <2>3, <2>4
  <1>3. ASSUME NEW w \in Writers, Invalidate(w)
        PROVE  TypeOK' /\ RefInv'
    <2>1. 0 \in Ages
      BY <1>0 DEF Ages
    <2>2. TypeOK'
      BY <1>3, <2>1 DEF Invalidate, TypeOK, reading
    <2>3. RefInv'
      BY <1>3 DEF Invalidate, TypeOK, reading, RefInv, Row
    <2> QED BY <2>2, <2>3
  <1>4. ASSUME NEW p \in Replicas, Evict(p)
        PROVE  TypeOK' /\ RefInv'
    BY <1>4 DEF Evict, TypeOK, writing, reading, RefInv, Row
  <1>5. ASSUME NEW c \in Clients, Ask(c)
        PROVE  TypeOK' /\ RefInv'
    <2>2. TypeOK'
      BY <1>5 DEF Ask, TypeOK, writing
    <2>3. RefInv'
      BY <1>5 DEF Ask, TypeOK, writing, RefInv, Row
    <2> QED BY <2>2, <2>3
  <1>6. ASSUME NEW c \in Clients, CacheHit(c) \/ CacheMiss(c) \/ Find(c)
        PROVE  TypeOK' /\ RefInv'
    <2>1. TypeOK'
      <3>1. /\ UNCHANGED <<writing, cache, chome, latency, held>>
            /\ cpc' \in [Clients -> {"idle", "get", "find", "put", "answer"}]
        BY <1>6 DEF CacheHit, CacheMiss, Find, TypeOK
      <3>2. rec' \in [Clients -> Nat]
        <4>1. CASE CacheHit(c)
          <5>1. chome[c] \in Replicas /\ cache[chome[c]] # None
            BY <4>1 DEF CacheHit, Live, RefInv
          <5>2. cache[chome[c]].version \in Nat
            BY <1>0, <5>1 DEF RefInv
          <5> QED BY <4>1, <5>2 DEF CacheHit, TypeOK
        <4>2. CASE CacheMiss(c) \/ Find(c)
          BY <1>0, <4>2 DEF CacheMiss, Find, TypeOK
        <4> QED BY <1>6, <4>1, <4>2
      <3> QED BY <3>1, <3>2 DEF TypeOK, writing
    <2>2. RefInv'
      BY <1>0, <1>6 DEF CacheHit, CacheMiss, Find, Live, TypeOK, writing, RefInv, Row
    <2> QED BY <2>1, <2>2
  <1>7. ASSUME NEW c \in Clients, Put(c)
        PROVE  TypeOK' /\ RefInv'
    <2>1. chome[c] \in Replicas /\ rec[c] \in 1..Row
      BY <1>7 DEF Put, RefInv
    <2>2. [version |-> rec[c], age |-> 0] \in Entry
      BY <1>0, <2>1 DEF Entry
    <2>3. TypeOK'
      BY <1>7, <2>2 DEF Put, TypeOK, writing
    <2>4. RefInv'
      BY <1>7, <2>1 DEF Put, TypeOK, writing, RefInv, Row
    <2> QED BY <2>3, <2>4
  <1>8. ASSUME NEW c \in Clients,
               AnswerNotModified(c) \/ AnswerToken(c) \/ AnswerNothing(c)
        PROVE  TypeOK' /\ RefInv'
    <2>1. /\ Return(c)
          /\ UNCHANGED <<writing, cache>>
          /\ held' = held \/ (held' = [held EXCEPT ![c] = rec[c]] /\ cpc[c] = "answer")
      BY <1>8 DEF AnswerNotModified, AnswerToken, AnswerNothing
    <2>2. cpc[c] = "answer" => rec[c] \in 1..Row /\ rec[c] \in Nat \ {0}
      BY <1>0 DEF RefInv
    <2>3. TypeOK'
      <3>1. held' \in [Clients -> (Nat \ {0}) \cup {None}]
        BY <2>1, <2>2 DEF TypeOK
      <3>2. /\ cpc' \in [Clients -> {"idle", "get", "find", "put", "answer"}]
            /\ chome' \in [Clients -> Replicas \cup {None}]
            /\ latency' \in [Clients -> 0..MaxLatency]
            /\ rec' \in [Clients -> Nat]
        BY <2>1 DEF Return, TypeOK
      <3> QED BY <2>1, <3>1, <3>2 DEF TypeOK, writing
    <2>4. RefInv'
      BY <2>1, <2>2 DEF Return, TypeOK, writing, RefInv, Row
    <2> QED BY <2>3, <2>4
  <1>9. ASSUME Tick
        PROVE  TypeOK' /\ RefInv'
    <2>1. \A age \in Ages : Older(age) \in Ages
      BY <1>0 DEF Older, Ages
    <2>2. ackAge' \in [1..Row -> Ages \cup {None}]
      BY <1>9, <2>1 DEF Tick, TypeOK, Row
    <2>3. latency' \in [Clients -> 0..MaxLatency]
      BY <1>9 DEF Tick, TypeOK
    <2>4. /\ cache' \in [Replicas -> Entry \cup {None}]
          /\ \A p \in Replicas : cache[p] = None => cache'[p] = None
          /\ \A p \in Replicas : cache[p] # None => cache'[p].version = cache[p].version
      <3>1. ASSUME NEW e \in Entry
            PROVE  /\ [e EXCEPT !.age = IF @ < TTL THEN @ + 1 ELSE @] \in Entry
                   /\ [e EXCEPT !.age = IF @ < TTL THEN @ + 1 ELSE @].version = e.version
        BY DEF Entry
      <3> QED BY <1>9, <3>1 DEF Tick, TypeOK
    <2>5. TypeOK'
      BY <1>9, <2>2, <2>3, <2>4 DEF Tick, TypeOK, Row
    <2>6. RefInv'
      BY <1>9, <2>4 DEF Tick, RefInv, Row
    <2> QED BY <2>5, <2>6
  <1>10. CASE UNCHANGED vars
    BY <1>10 DEF vars, writing, reading, TypeOK, RefInv, Row
  <1> QED
    BY <1>1, <1>2, <1>3, <1>4, <1>5, <1>6, <1>7, <1>8, <1>9, <1>10 DEF Next, Write, Read

(* Spec keeps every state well typed and every cached, held or read version *)
(* a committed one, so that no handler answers from a row that never was.   *)
THEOREM TypeCorrect == Spec => [](TypeOK /\ RefInv)
  <1>1. Init => TypeOK /\ RefInv
    <2> USE TTLAssumption, LatencyAssumption
    <2> SUFFICES ASSUME Init PROVE TypeOK /\ RefInv
      OBVIOUS
    <2>1. versions \in Seq(Version)
      <3>1. CASE versions = << >>
        BY <3>1
      <3>2. ASSUME NEW v \in [content: Contents, stamp: ClockValues], versions = <<v>>
            PROVE  versions \in Seq(Version)
        <4>1. v \in Version
          BY ClockAssumption DEF Version
        <4> QED BY <3>2, <4>1
      <3> QED BY <3>1, <3>2 DEF Init
    <2>2. ackAge \in [1..Len(versions) -> Ages \cup {None}]
      <3>1. AgeLimit \in Ages
        BY DEF Ages, AgeLimit, MaxStaleness
      <3> QED BY <3>1 DEF Init
    <2>3. TypeOK
      BY <2>1, <2>2 DEF Init, TypeOK
    <2>4. RefInv
      BY DEF Init, RefInv
    <2> QED BY <2>3, <2>4
  <1> QED BY <1>1, TypeStep, PTL DEF Spec

----------------------------------------------------------------------------

(* Every version in a history has a stamp that is a number.                 *)
LEMMA StampIsNat ==
    ASSUME NEW s \in Seq(Version), NEW n \in 1..Len(s)
    PROVE  s[n].stamp \in Nat
  <1>1. s[n] \in Version
    BY ElementOfSeq
  <1> QED BY <1>1 DEF Version

(* Stamps strictly increase along the version history.                      *)
LEMMA StampStep ==
    ASSUME TypeOK, RefInv, StampInv, [Next]_vars
    PROVE  StampInv'
  <1>0. Row \in Nat
    BY DEF TypeOK, Row
  <1>1. ASSUME NEW w \in Writers, Publish(w) \/ WriteRow(w)
        PROVE  StampInv'
    <2>1. Grows(w)
      BY <1>1, CommitGrows
    <2>2. \A n \in 1..Row : versions[n].stamp \in Nat
      BY StampIsNat DEF TypeOK, Row
    <2>3. \A n \in 1..Row' : versions'[n].stamp \in Nat
      BY <2>1, StampIsNat DEF Grows, Row
    <2> SUFFICES ASSUME NEW m \in 1..Row', NEW n \in 1..Row', m < n
                 PROVE  versions'[m].stamp < versions'[n].stamp
      BY DEF StampInv
    <2>4. m \in 1..Row /\ versions'[m] = versions[m]
      BY <1>0, <2>1 DEF Grows
    <2>5. CASE n \in 1..Row
      BY <2>1, <2>4, <2>5 DEF Grows, StampInv
    <2>6. CASE n = Row + 1
      <3>1. Row \in 1..Row /\ versions'[n].stamp > versions[Row].stamp
        BY <1>0, <2>1, <2>4, <2>6 DEF Grows
      <3>2. versions[m].stamp <= versions[Row].stamp
        BY <1>0, <2>2, <2>4, <3>1 DEF StampInv
      <3> QED BY <2>2, <2>3, <2>4, <3>1, <3>2
    <2> QED BY <1>0, <2>1, <2>5, <2>6 DEF Grows
  <1>2. CASE UNCHANGED versions
    BY <1>2 DEF StampInv, Row
  <1>3. ASSUME NEW w \in Writers, Write(w), ~(Publish(w) \/ WriteRow(w))
        PROVE  UNCHANGED versions
    BY <1>3 DEF Write, ReadRow, WriteConflict, WriteRejected, Invalidate, AbandonWrite
  <1>4. ASSUME NEW c \in Clients, Read(c)
        PROVE  UNCHANGED versions
    BY <1>4 DEF Read, Ask, CacheHit, CacheMiss, Find, Put, AnswerNotModified,
                AnswerToken, AnswerNothing, writing
  <1>5. ASSUME NEW p \in Replicas, Evict(p)
        PROVE  UNCHANGED versions
    BY <1>5 DEF Evict, writing
  <1>6. ASSUME Tick \/ UNCHANGED vars
        PROVE  UNCHANGED versions
    BY <1>6 DEF Tick, vars, writing
  <1> QED BY <1>1, <1>2, <1>3, <1>4, <1>5, <1>6 DEF Next

(* A 304 is never a lie about the record it is computed from, because       *)
(* next_updated_at advances the stamp of every version.                     *)
THEOREM NotModifiedIsTrueHolds == Spec => []NotModifiedIsTrue
  <1>1. Init => StampInv
    <2> SUFFICES ASSUME Init PROVE StampInv
      OBVIOUS
    <2>1. Len(versions) = 0 \/ Len(versions) = 1
      BY DEF Init
    <2> QED BY <2>1 DEF StampInv, Row
  <1>2. TypeOK /\ RefInv /\ StampInv => NotModifiedIsTrue
    <2> SUFFICES ASSUME TypeOK, RefInv, StampInv, NEW c \in Clients,
                        cpc[c] = "answer", held[c] # None,
                        NEW v \in {"etag", "date"}, NEW t \in ClockValues,
                        NotModified(c, v, t)
                 PROVE  \/ versions[held[c]].content = versions[rec[c]].content
                        \/ held[c] > rec[c]
      BY DEF NotModifiedIsTrue
    <2>1. rec[c] \in 1..Row /\ held[c] \in 1..Row
      BY DEF RefInv
    <2>2. CASE v = "etag"
      BY <2>2 DEF NotModified, evaluate_if_none_match
    <2>3. CASE v = "date"
      <3>1. versions[rec[c]].stamp <= versions[held[c]].stamp
        BY <2>3 DEF NotModified, evaluate_if_modified_since
      <3>2. versions[rec[c]].stamp \in Nat /\ versions[held[c]].stamp \in Nat
        BY <2>1, StampIsNat DEF TypeOK, Row
      <3>3. ~(held[c] < rec[c])
        BY <2>1, <3>1, <3>2 DEF StampInv
      <3>4. held[c] = rec[c] \/ held[c] > rec[c]
        BY <2>1, <3>3
      <3> QED BY <3>4
    <2> QED BY <2>2, <2>3
  <1> QED BY <1>1, <1>2, TypeCorrect, StampStep, PTL DEF Spec

----------------------------------------------------------------------------

(* The age of an acknowledgement is a number.                               *)
LEMMA AckAgeIsNat ==
    ASSUME TypeOK, NEW n \in 1..Row, ackAge[n] # None
    PROVE  ackAge[n] \in Nat
  <1>1. ackAge[n] \in Ages
    BY DEF TypeOK, Row
  <1> QED BY <1>1 DEF Ages

(* If nothing about the acknowledged versions, the cache and a client gets  *)
(* worse, what the client's answer misses stays recent.                     *)
LEMMA StaleStep ==
    ASSUME TypeOK, RefInv, StaleInv, [Next]_vars
    PROVE  StaleInv'
  <1> USE TTLAssumption, LatencyAssumption, ReadsNoneAssumption
  <1>0. /\ Row \in Nat /\ AgeLimit \in Nat
        /\ \A n \in 1..Row : ackAge[n] # None => ackAge[n] \in Nat
    BY AckAgeIsNat DEF TypeOK, Row, AgeLimit, MaxStaleness
  <1>1. ASSUME NEW w \in Writers, Publish(w) \/ WriteRow(w) \/ Invalidate(w)
        PROVE  StaleInv'
    <2>1. /\ UNCHANGED reading
          /\ \A p \in Replicas : cache'[p] = cache[p] \/ cache'[p] = None
          /\ Row' \in Nat
          /\ \A n \in 1..Row' : \/ n \in 1..Row /\ ackAge'[n] = ackAge[n]
                                \/ ackAge'[n] \in {0, None}
      <3>1. CASE Publish(w) \/ WriteRow(w)
        <4>1. Grows(w) /\ UNCHANGED <<cache, reading>>
          BY <3>1, CommitGrows DEF Publish, WriteRow
        <4>2. \A n \in 1..Row' : n \in 1..Row \/ n = Row + 1
          BY <1>0, <4>1 DEF Grows
        <4> QED BY <1>0, <4>1, <4>2 DEF Grows
      <3>2. CASE Invalidate(w)
        BY <1>0, <3>2 DEF Invalidate, TypeOK, Row
      <3> QED BY <1>1, <3>1, <3>2
    <2>2. ASSUME NEW m \in Nat, NEW limit \in Nat,
                 \A n \in (m + 1)..Row : Recent(n, limit)
          PROVE  \A n \in (m + 1)..Row' : Recent(n, limit)'
      BY <1>0, <2>1, <2>2 DEF Recent
    <2>3. \A c \in Clients : rec[c] \in Nat /\ latency[c] \in Nat
      BY DEF TypeOK
    <2>4. ASSUME NEW c \in Clients, cpc'[c] = "put", NEW n \in (rec'[c] + 1)..Row'
          PROVE  Recent(n, latency[c])'
      BY <2>1, <2>2, <2>3, <2>4 DEF StaleInv, reading
    <2>5. ASSUME NEW p \in Replicas, cache'[p] # None, cache'[p].age < TTL,
                 NEW n \in (cache'[p].version + 1)..Row'
          PROVE  Recent(n, cache[p].age + MaxLatency)'
      <3>1. cache'[p] = cache[p] /\ cache[p].version \in Nat /\ cache[p].age + MaxLatency \in Nat
        BY <2>1, <2>5 DEF TypeOK, Entry
      <3> QED BY <2>2, <2>5, <3>1 DEF StaleInv
    <2>6. ASSUME NEW c \in Clients, cpc'[c] = "answer", NEW n \in (rec'[c] + 1)..Row'
          PROVE  \/ ackAge'[n] = None \/ ackAge'[n] <= latency'[c]
                 \/ TTL > 0 /\ (ackAge'[n] = None
                                  \/ ackAge'[n] <= TTL - 1 + MaxLatency + latency'[c])
      <3>1. /\ rec[c] \in Nat /\ latency[c] \in Nat
            /\ rec' = rec /\ latency' = latency /\ cpc' = cpc
        BY <2>1, <2>3 DEF reading
      <3>2. n \in 1..Row' /\ n > rec[c]
        BY <2>1, <2>6, <3>1
      <3>3. CASE n \in 1..Row /\ ackAge'[n] = ackAge[n]
        <4>1. n \in (rec[c] + 1)..Row
          BY <1>0, <3>1, <3>2, <3>3
        <4> QED BY <2>6, <3>1, <3>3, <4>1 DEF StaleInv, Recent
      <3>4. CASE ackAge'[n] \in {0, None}
        BY <3>1, <3>4
      <3> QED BY <2>1, <3>2, <3>3, <3>4
    <2> QED BY <2>4, <2>5, <2>6 DEF StaleInv, Recent
  <1>2. ASSUME NEW w \in Writers,
               ReadRow(w) \/ WriteConflict(w) \/ WriteRejected(w) \/ AbandonWrite(w)
        PROVE  StaleInv'
    <2>1. UNCHANGED <<versions, ackAge, cache, reading>>
      BY <1>2 DEF ReadRow, WriteConflict, WriteRejected, AbandonWrite
    <2> QED BY <2>1 DEF StaleInv, Recent, Row, reading
  <1>3. ASSUME NEW p \in Replicas, Evict(p)
        PROVE  StaleInv'
    <2>1. /\ UNCHANGED <<versions, ackAge, reading>>
          /\ \A q \in Replicas : cache'[q] = None \/ cache'[q] = cache[q]
      BY <1>3 DEF Evict, writing, TypeOK
    <2> QED BY <2>1 DEF StaleInv, Recent, Row, reading
  <1>4. ASSUME NEW c \in Clients,
               UNCHANGED <<versions, ackAge>>,
               \A q \in Clients \ {c} : /\ cpc'[q] = cpc[q]
                                        /\ rec'[q] = rec[q]
                                        /\ latency'[q] = latency[q],
               cpc'[c] = "put" =>
                   \A n \in (rec'[c] + 1)..Row : Recent(n, latency'[c]),
               cpc'[c] = "answer" =>
                   \A n \in (rec'[c] + 1)..Row :
                       \/ Recent(n, latency'[c])
                       \/ TTL > 0 /\ Recent(n, TTL - 1 + MaxLatency + latency'[c]),
               \A p \in Replicas :
                   \/ cache'[p] = cache[p]
                   \/ \A n \in (cache'[p].version + 1)..Row :
                          Recent(n, cache'[p].age + MaxLatency)
        PROVE  StaleInv'
    <2>1. Row' = Row /\ \A n, limit : Recent(n, limit) <=> (ackAge'[n] = None \/ ackAge'[n] <= limit)
      BY <1>4 DEF Row, Recent
    <2>2. ASSUME NEW q \in Clients, cpc'[q] = "put", NEW n \in (rec'[q] + 1)..Row'
          PROVE  ackAge'[n] = None \/ ackAge'[n] <= latency'[q]
      BY <1>4, <2>1, <2>2 DEF StaleInv
    <2>3. ASSUME NEW p \in Replicas, cache'[p] # None, cache'[p].age < TTL,
                 NEW n \in (cache'[p].version + 1)..Row'
          PROVE  ackAge'[n] = None \/ ackAge'[n] <= cache'[p].age + MaxLatency
      BY <1>4, <2>1, <2>3 DEF StaleInv
    <2>4. ASSUME NEW q \in Clients, cpc'[q] = "answer", NEW n \in (rec'[q] + 1)..Row'
          PROVE  \/ ackAge'[n] = None \/ ackAge'[n] <= latency'[q]
                 \/ TTL > 0 /\ (ackAge'[n] = None
                                  \/ ackAge'[n] <= TTL - 1 + MaxLatency + latency'[q])
      BY <1>4, <2>1, <2>4 DEF StaleInv
    <2> QED BY <2>2, <2>3, <2>4 DEF StaleInv, Recent
  <1>5. ASSUME NEW c \in Clients,
               Ask(c) \/ CacheMiss(c) \/ AnswerNotModified(c) \/ AnswerToken(c) \/ AnswerNothing(c)
        PROVE  StaleInv'
    <2>1. /\ UNCHANGED <<versions, ackAge, cache>>
          /\ cpc'[c] \in {"get", "find", "idle"}
          /\ \A q \in Clients \ {c} : /\ cpc'[q] = cpc[q]
                                       /\ rec'[q] = rec[q]
                                       /\ latency'[q] = latency[q]
      BY <1>5 DEF Ask, CacheMiss, AnswerNotModified, AnswerToken, AnswerNothing, Return,
                  writing, TypeOK
    <2> QED BY <1>4, <2>1
  <1>6. ASSUME NEW c \in Clients, CacheHit(c)
        PROVE  StaleInv'
    <2> DEFINE e == cache[chome[c]]
    <2>1. /\ UNCHANGED <<versions, ackAge, cache, latency>>
          /\ cpc'[c] = "answer" /\ rec'[c] = e.version
          /\ \A q \in Clients \ {c} : cpc'[q] = cpc[q] /\ rec'[q] = rec[q]
      BY <1>6 DEF CacheHit, writing, TypeOK
    <2>2. /\ chome[c] \in Replicas /\ e # None /\ e.age < TTL
          /\ e.age \in Nat /\ e.version \in Nat /\ latency[c] \in Nat
      <3>1. chome[c] \in Replicas /\ e # None /\ e.age < TTL
        BY <1>6 DEF CacheHit, Live, RefInv
      <3>2. e \in Entry
        BY <3>1 DEF TypeOK
      <3> QED BY <3>1, <3>2 DEF Entry, TypeOK
    <2>3. ASSUME NEW n \in (e.version + 1)..Row
          PROVE  TTL > 0 /\ Recent(n, TTL - 1 + MaxLatency + latency[c])
      <3>1. Recent(n, e.age + MaxLatency) /\ n \in 1..Row
        BY <1>0, <2>2, <2>3 DEF StaleInv
      <3>2. e.age + MaxLatency <= TTL - 1 + MaxLatency + latency[c] /\ TTL > 0
        BY <2>2
      <3> HIDE DEF e
      <3> QED BY <1>0, <2>2, <3>1, <3>2 DEF Recent
    <2> HIDE DEF e
    <2> QED BY <1>4, <2>1, <2>3
  <1>7. ASSUME NEW c \in Clients, Find(c)
        PROVE  StaleInv'
    <2>1. /\ UNCHANGED <<versions, ackAge, cache, latency>>
          /\ cpc'[c] = "put" /\ rec'[c] = Row
          /\ \A q \in Clients \ {c} : cpc'[q] = cpc[q] /\ rec'[q] = rec[q]
      BY <1>7 DEF Find, writing, TypeOK
    <2>2. (Row + 1)..Row = {}
      BY <1>0
    <2> QED BY <1>4, <2>1, <2>2
  <1>8. ASSUME NEW c \in Clients, Put(c)
        PROVE  StaleInv'
    <2>1. /\ UNCHANGED <<versions, ackAge, latency, rec>>
          /\ cpc[c] = "put" /\ cpc'[c] = "answer"
          /\ \A q \in Clients \ {c} : cpc'[q] = cpc[q]
          /\ cache' = [cache EXCEPT ![chome[c]] = [version |-> rec[c], age |-> 0]]
      BY <1>8 DEF Put, writing, TypeOK
    <2>2. \A n \in (rec[c] + 1)..Row : Recent(n, latency[c])
      BY <2>1 DEF StaleInv
    <2>3. \A n \in (rec[c] + 1)..Row : Recent(n, 0 + MaxLatency)
      <3>1. latency[c] \in Nat /\ latency[c] <= MaxLatency /\ rec[c] \in Nat
        BY DEF TypeOK
      <3> QED BY <1>0, <2>2, <3>1 DEF Recent
    <2>4. ASSUME NEW p \in Replicas
          PROVE  \/ cache'[p] = cache[p]
                 \/ \A n \in (cache'[p].version + 1)..Row : Recent(n, cache'[p].age + MaxLatency)
      BY <2>1, <2>3 DEF TypeOK
    <2> QED BY <1>4, <2>1, <2>2, <2>4
  <1>9. ASSUME Tick
        PROVE  StaleInv'
    <2>1. /\ UNCHANGED <<versions, cpc, rec>>
          /\ Row' = Row
          /\ \A c \in Clients : cpc[c] # "idle" => latency'[c] = latency[c] + 1
      BY <1>9 DEF Tick, Row
    <2>2. ASSUME NEW n \in 1..Row, NEW limit \in Nat, Recent(n, limit)
          PROVE  ackAge'[n] = None \/ ackAge'[n] <= limit + 1
      BY <1>0, <1>9, <2>2 DEF Tick, Recent, Older
    <2>3. ASSUME NEW c \in Clients, cpc'[c] = "put", NEW n \in (rec'[c] + 1)..Row'
          PROVE  ackAge'[n] = None \/ ackAge'[n] <= latency'[c]
      <3>1. n \in 1..Row /\ latency[c] \in Nat
        BY <1>0, <2>1, <2>3 DEF TypeOK
      <3>2. Recent(n, latency[c])
        BY <2>1, <2>3 DEF StaleInv
      <3> QED BY <2>1, <2>2, <2>3, <3>1, <3>2
    <2>4. ASSUME NEW p \in Replicas, cache'[p] # None, cache'[p].age < TTL,
                 NEW n \in (cache'[p].version + 1)..Row'
          PROVE  ackAge'[n] = None \/ ackAge'[n] <= cache'[p].age + MaxLatency
      <3>1. cache[p] # None /\ cache[p] \in Entry
        BY <1>9, <2>4 DEF Tick, TypeOK
      <3>2. cache'[p] = [cache[p] EXCEPT !.age = IF @ < TTL THEN @ + 1 ELSE @]
        BY <1>9, <3>1 DEF Tick
      <3>3. /\ cache[p].age \in Nat /\ cache[p].age < TTL
            /\ cache'[p].age = cache[p].age + 1
            /\ cache'[p].version = cache[p].version /\ cache[p].version \in Nat
        BY <2>4, <3>1, <3>2 DEF Entry
      <3>4. n \in 1..Row /\ Recent(n, cache[p].age + MaxLatency)
        BY <1>0, <2>1, <2>4, <3>1, <3>3 DEF StaleInv
      <3>5. cache[p].age + MaxLatency \in Nat
        BY <3>3
      <3>6. ackAge'[n] = None \/ ackAge'[n] <= (cache[p].age + MaxLatency) + 1
        BY <2>2, <3>4, <3>5
      <3>7. (cache[p].age + MaxLatency) + 1 = cache'[p].age + MaxLatency
        BY <3>3
      <3> QED BY <3>6, <3>7
    <2>5. ASSUME NEW c \in Clients, cpc'[c] = "answer", NEW n \in (rec'[c] + 1)..Row'
          PROVE  \/ ackAge'[n] = None \/ ackAge'[n] <= latency'[c]
                 \/ TTL > 0 /\ (ackAge'[n] = None
                                  \/ ackAge'[n] <= TTL - 1 + MaxLatency + latency'[c])
      <3>1. n \in 1..Row /\ latency[c] \in Nat /\ latency'[c] = latency[c] + 1
        BY <1>0, <2>1, <2>5 DEF TypeOK
      <3>2. CASE Recent(n, latency[c])
        BY <2>2, <3>1, <3>2
      <3>3. CASE TTL > 0 /\ Recent(n, TTL - 1 + MaxLatency + latency[c])
        <4>1. TTL - 1 + MaxLatency + latency[c] \in Nat
          BY <3>1, <3>3
        <4>2. ackAge'[n] = None \/ ackAge'[n] <= (TTL - 1 + MaxLatency + latency[c]) + 1
          BY <2>2, <3>1, <3>3, <4>1
        <4>3. (TTL - 1 + MaxLatency + latency[c]) + 1 = TTL - 1 + MaxLatency + latency'[c]
          BY <3>1
        <4> QED BY <3>3, <4>2, <4>3
      <3> QED BY <2>1, <2>5, <3>2, <3>3 DEF StaleInv
    <2> QED BY <2>3, <2>4, <2>5 DEF StaleInv, Recent
  <1>10. CASE UNCHANGED vars
    BY <1>10 DEF vars, writing, reading, StaleInv, Recent, Row
  <1> QED
    BY <1>1, <1>2, <1>3, <1>5, <1>6, <1>7, <1>8, <1>9, <1>10 DEF Next, Write, Read

(* However fetches, puts, invalidations and evictions interleave, a GET     *)
(* never misses a version acknowledged more than MaxStaleness ticks ago.    *)
THEOREM BoundedStalenessHolds == Spec => []BoundedStaleness
  <1> USE TTLAssumption, LatencyAssumption, ReadsNoneAssumption
  <1>1. Init => StaleInv
    BY DEF Init, StaleInv
  <1>2. TypeOK /\ StaleInv => BoundedStaleness
    <2> SUFFICES ASSUME TypeOK, StaleInv, NEW c \in Clients, cpc[c] = "answer",
                        NEW n \in (rec[c] + 1)..Row
                 PROVE  ackAge[n] = None \/ ackAge[n] <= MaxStaleness
      BY DEF BoundedStaleness
    <2>1. /\ latency[c] \in Nat /\ latency[c] <= MaxLatency
          /\ ackAge[n] = None \/ ackAge[n] \in Nat
      <3>1. Row \in Nat /\ rec[c] \in Nat /\ latency[c] \in 0..MaxLatency
        BY DEF TypeOK, Row
      <3>2. n \in 1..Row
        BY <3>1
      <3> QED BY <3>1, <3>2, AckAgeIsNat
    <2>2. \/ Recent(n, latency[c])
          \/ TTL > 0 /\ Recent(n, TTL - 1 + MaxLatency + latency[c])
      BY DEF StaleInv
    <2> QED BY <2>1, <2>2 DEF Recent, MaxStaleness
  <1> QED BY <1>1, <1>2, TypeCorrect, StaleStep, PTL DEF Spec

=============================================================================
