---------------------- MODULE StatusListService_proofs ----------------------
(***************************************************************************)
(* Proofs about StatusListService for any sets of requests, lists and      *)
(* issuers, any retention, batch size, clock bound and clock skew.         *)
(***************************************************************************)
EXTENDS StatusListService, TLAPS

(* The helpers are typed: a replica's clock reads a natural number, and the *)
(* stamp an update takes is a natural number beyond the one it read.        *)
LEMMA ClockIsNat ==
    ASSUME now \in Nat, NEW t \in current_unix_timestamp
    PROVE  t \in Nat
  BY RetentionAssumption DEF current_unix_timestamp

LEMMA NextStampAdvances ==
    ASSUME NEW p \in Nat, NEW t \in Nat
    PROVE  next_updated_at(p, t) \in Nat /\ next_updated_at(p, t) > p
  BY DEF next_updated_at

(* The snapshot of a well-typed pending write is well typed.                *)
LEMMA SnapshotTyped ==
    ASSUME TypeOK, NEW r \in Requests, work[r] \in Record
    PROVE  /\ build_snapshot(r) \in Snapshot
           /\ build_snapshot(r).list = req[r].list
           /\ build_snapshot(r).iat = work[r].stamp
           /\ build_snapshot(r).applied = work[r].applied
           /\ build_snapshot(r).exp = work[r].stamp + lifetime[r]
  <1>1. req[r].list \in Lists /\ lifetime[r] \in Nat
    BY TokenExpsAssumption DEF TypeOK
  <1>2. work[r].stamp \in Nat /\ work[r].applied \in SUBSET Requests
    BY DEF Record
  <1>3. work[r].stamp + lifetime[r] \in Nat
    BY <1>1, <1>2
  <1> QED BY <1>1, <1>2, <1>3 DEF build_snapshot, Snapshot

(* Types and pending writes: the first layer of the invariant.              *)
LEMMA TypeStep == TypeOK /\ WorkInv /\ [Next]_vars => TypeOK' /\ WorkInv'
  <1> SUFFICES ASSUME TypeOK, WorkInv, [Next]_vars
               PROVE  TypeOK' /\ WorkInv'
    OBVIOUS
  <1> USE NoneAssumption DEF Holding, Positions, Outcomes, Rejections, Operations
  <1>1. ASSUME NEW r \in Requests, Refuse(r) PROVE TypeOK' /\ WorkInv'
    <2>1. TypeOK'
      BY <1>1 DEF Refuse, Respond, TypeOK, store
    <2>2. WorkInv'
      BY <1>1 DEF Refuse, Respond, TypeOK, WorkInv, store
    <2> QED BY <2>1, <2>2
  <1>2. ASSUME NEW r \in Requests, PreparePublish(r) PROVE TypeOK' /\ WorkInv'
    <2>1. PICK t \in current_unix_timestamp :
             work' = [work EXCEPT ![r] = [issuer |-> req[r].issuer, stamp |-> t, applied |-> {r}]]
      BY <1>2 DEF PreparePublish
    <2>2. t \in Nat
      BY ClockIsNat DEF TypeOK
    <2>3. [issuer |-> req[r].issuer, stamp |-> t, applied |-> {r}] \in Record
      BY <2>2 DEF TypeOK, Record
    <2>4. TypeOK'
      BY <1>2, <2>1, <2>3 DEF PreparePublish, TypeOK, store
    <2>5. WorkInv'
      BY <1>2, <2>1, <2>3 DEF PreparePublish, TypeOK, WorkInv, store
    <2> QED BY <2>4, <2>5
  <1>3. ASSUME NEW r \in Requests, PrepareUpdate(r) PROVE TypeOK' /\ WorkInv'
    <2> DEFINE existing == row[req[r].list]
    <2>1. PICK t \in current_unix_timestamp :
             work' = [work EXCEPT ![r] = [issuer |-> existing.issuer,
                                          stamp |-> next_updated_at(existing.stamp, t),
                                          applied |-> existing.applied \cup {r}]]
      BY <1>3 DEF PrepareUpdate
    <2>2. existing \in Record /\ existing.issuer = req[r].issuer
      BY <1>3 DEF PrepareUpdate, TypeOK
    <2>3. next_updated_at(existing.stamp, t) \in Nat
      BY <2>2, ClockIsNat, NextStampAdvances DEF TypeOK, Record
    <2>4. [issuer |-> existing.issuer,
           stamp |-> next_updated_at(existing.stamp, t),
           applied |-> existing.applied \cup {r}] \in Record
      BY <2>2, <2>3 DEF Record
    <2>5. TypeOK'
      BY <1>3, <2>1, <2>2, <2>4 DEF PrepareUpdate, TypeOK, store
    <2>6. WorkInv'
      <3>1. /\ pc'[r] = "update" /\ req[r].op = "update"
            /\ read'[r] = existing
            /\ work'[r].issuer = existing.issuer
            /\ work'[r].applied = existing.applied \cup {r}
            /\ work'[r] \in Record
            /\ UNCHANGED req
        BY <1>3, <2>1, <2>4 DEF PrepareUpdate, TypeOK
      <3>2. \A q \in Requests \ {r} : /\ pc'[q] = pc[q]
                                       /\ read'[q] = read[q]
                                       /\ work'[q] = work[q]
        BY <1>3, <2>1 DEF PrepareUpdate, TypeOK
      <3>3. "update" \notin Holding
        BY DEF Holding
      <3> QED BY <2>2, <3>1, <3>2, <3>3 DEF WorkInv
    <2> QED BY <2>5, <2>6
  <1>4. ASSUME NEW r \in Requests, UpdateMissingList(r) \/ UpdateForeignList(r)
        PROVE  TypeOK' /\ WorkInv'
    <2>1. TypeOK'
      BY <1>4 DEF UpdateMissingList, UpdateForeignList, Respond, TypeOK, store
    <2>2. WorkInv'
      BY <1>4 DEF UpdateMissingList, UpdateForeignList, Respond, TypeOK, WorkInv, store
    <2> QED BY <2>1, <2>2
  <1>5. ASSUME NEW r \in Requests, InsertRow(r) PROVE TypeOK' /\ WorkInv'
    <2>1. TypeOK'
      BY <1>5 DEF InsertRow, TakeRow, AfterRowStatement, TypeOK
    <2>2. WorkInv'
      BY <1>5 DEF InsertRow, TakeRow, AfterRowStatement, TypeOK, WorkInv
    <2> QED BY <2>1, <2>2
  <1>6. ASSUME NEW r \in Requests, InsertDuplicate(r) PROVE TypeOK' /\ WorkInv'
    <2>1. TypeOK'
      BY <1>6 DEF InsertDuplicate, Respond, TypeOK, store
    <2>2. WorkInv'
      BY <1>6 DEF InsertDuplicate, Respond, TypeOK, WorkInv, store
    <2> QED BY <2>1, <2>2
  <1>7. ASSUME NEW r \in Requests, UpdateRow(r) PROVE TypeOK' /\ WorkInv'
    <2>1. TypeOK'
      BY <1>7 DEF UpdateRow, TakeRow, AfterRowStatement, TypeOK
    <2>2. WorkInv'
      BY <1>7 DEF UpdateRow, TakeRow, AfterRowStatement, TypeOK, WorkInv
    <2> QED BY <2>1, <2>2
  <1>8. ASSUME NEW r \in Requests, UpdateConflict(r) \/ StatementFails(r)
        PROVE  TypeOK' /\ WorkInv'
    <2>1. TypeOK'
      BY <1>8 DEF UpdateConflict, StatementFails, Respond, TypeOK, store
    <2>2. WorkInv'
      BY <1>8 DEF UpdateConflict, StatementFails, Respond, TypeOK, WorkInv, store
    <2> QED BY <2>1, <2>2
  <1>9. ASSUME NEW r \in Requests, InsertHistory(r) PROVE TypeOK' /\ WorkInv'
    <2>1. TypeOK'
      BY <1>9 DEF InsertHistory, TypeOK, store
    <2>2. WorkInv'
      BY <1>9 DEF InsertHistory, TypeOK, WorkInv, store
    <2> QED BY <2>1, <2>2
  <1>10. ASSUME NEW r \in Requests, RollBack(r) \/ RollBackFails(r)
         PROVE  TypeOK' /\ WorkInv'
    <2>1. TypeOK'
      BY <1>10 DEF RollBack, RollBackFails, Release, Respond, TypeOK, store
    <2>2. WorkInv'
      BY <1>10 DEF RollBack, RollBackFails, Release, Respond, TypeOK, WorkInv, store
    <2> QED BY <2>1, <2>2
  <1>11. ASSUME NEW r \in Requests,
                Commit(r) \/ CommitAckLost(r) \/ AbandonCommitted(r)
         PROVE  TypeOK' /\ WorkInv'
    <2>1. work[r] \in Record /\ pc[r] = "commit" /\ Land(r)
      BY <1>11 DEF Commit, CommitAckLost, AbandonCommitted, WorkInv
    <2>2. build_snapshot(r) \in Snapshot
      BY <2>1, SnapshotTyped
    <2>3. /\ row' \in [Lists -> Record \cup {None}]
          /\ history' \subseteq Snapshot
          /\ versions' \subseteq Snapshot
          /\ lock' \in [Lists -> Requests \cup {None}]
      BY <2>1, <2>2 DEF Land, Release, TypeOK
    <2>4. /\ pc' \in [Requests -> Positions]
          /\ resp' \in [Requests -> Outcomes]
          /\ \A q \in Requests : pc'[q] = IF q = r THEN pc'[r] ELSE pc[q]
          /\ pc'[r] \in {"invalidate", "done"}
          /\ UNCHANGED <<req, read, work, lifetime, sweep, now, horizon>>
      BY <1>11 DEF Commit, CommitAckLost, AbandonCommitted, Respond, TypeOK
    <2>5. TypeOK'
      BY <2>3, <2>4 DEF TypeOK
    <2>6. WorkInv'
      BY <2>4 DEF WorkInv
    <2> QED BY <2>5, <2>6
  <1>12. ASSUME NEW r \in Requests, Finish(r) \/ Abandon(r) PROVE TypeOK' /\ WorkInv'
    <2>1. CASE Finish(r)
      BY <2>1 DEF Finish, Respond, TypeOK, WorkInv, store
    <2>2. CASE Abandon(r)
      <3>1. TypeOK'
        BY <2>2 DEF Abandon, TypeOK, store
      <3>2. WorkInv'
        BY <2>2 DEF Abandon, TypeOK, WorkInv, store
      <3> QED BY <3>1, <3>2
    <2> QED BY <1>12, <2>1, <2>2
  <1>13. ASSUME NEW r \in Requests, ReapOrphan(r) PROVE TypeOK' /\ WorkInv'
    <2>1. TypeOK'
      BY <1>13 DEF ReapOrphan, Release, TypeOK
    <2>2. WorkInv'
      BY <1>13 DEF ReapOrphan, Release, TypeOK, WorkInv
    <2> QED BY <2>1, <2>2
  <1>14. ASSUME StartSweep PROVE TypeOK' /\ WorkInv'
    <2>1. sweep' \in Int
      BY <1>14, ClockIsNat, RetentionAssumption DEF StartSweep, TypeOK
    <2> QED BY <1>14, <2>1 DEF StartSweep, TypeOK, WorkInv, store, handler
  <1>15. ASSUME SweepFullBatch \/ SweepLastBatch PROVE TypeOK' /\ WorkInv'
    BY <1>15 DEF SweepFullBatch, SweepLastBatch, TypeOK, WorkInv, handler
  <1>16. ASSUME SweepFails \/ Tick \/ UNCHANGED vars PROVE TypeOK' /\ WorkInv'
    BY <1>16 DEF SweepFails, Tick, vars, TypeOK, WorkInv, store, handler
  <1> QED
    BY <1>1, <1>2, <1>3, <1>4, <1>5, <1>6, <1>7, <1>8, <1>9, <1>10, <1>11,
       <1>12, <1>13, <1>14, <1>15, <1>16 DEF Next, Handle

(* The type invariant holds in every reachable state: the rows, snapshots,  *)
(* locks and handler positions are always well formed, and a handler's      *)
(* pending write is always a row computed from what it read.                *)
THEOREM TypeCorrect == Spec => [](TypeOK /\ WorkInv)
  <1>1. Init => TypeOK /\ WorkInv
    BY NoneAssumption DEF Init, TypeOK, WorkInv, Holding, Positions, Outcomes, Rejections
  <1> QED BY <1>1, TypeStep, PTL DEF Spec

(* Versions are well typed.                                                 *)
LEMMA VersionTyped ==
    ASSUME TypeOK, NEW v \in versions
    PROVE  /\ v \in Snapshot
           /\ v.list \in Lists
           /\ v.iat \in Nat
           /\ v.exp \in Nat
           /\ v.applied \subseteq Requests
  BY DEF TypeOK, Snapshot

(* A step of a request that has not landed, and that commits nothing, keeps *)
(* every version's requests settled.                                        *)
LEMMA AppliedFrame ==
    ASSUME TypeOK, AppliedInv, UNCHANGED <<versions, row, req>>,
           NEW r \in Requests, pc[r] \notin {"invalidate", "done"},
           \A q \in Requests \ {r} : pc'[q] = pc[q] /\ resp'[q] = resp[q]
    PROVE  AppliedInv'
  <1> SUFFICES ASSUME NEW v \in versions, NEW q \in v.applied
               PROVE  /\ pc'[q] \in {"invalidate", "done"}
                      /\ resp'[q] \notin Rejections
                      /\ req[q].list = v.list
                      /\ req[q].issuer = row[v.list].issuer
    BY DEF AppliedInv
  <1>1. q \in Requests
    BY VersionTyped
  <1>2. q # r
    BY DEF AppliedInv
  <1> QED BY <1>1, <1>2 DEF AppliedInv

(* The second layer: locks, versions, answers and snapshots.                *)
LEMMA IInvStep == TypeOK /\ WorkInv /\ IInv /\ [Next]_vars => IInv'
  <1> SUFFICES ASSUME TypeOK, WorkInv, IInv, [Next]_vars
               PROVE  IInv'
    OBVIOUS
  <1> USE NoneAssumption DEF Holding, Positions, Outcomes, Rejections, Operations
  <1>1. ASSUME NEW r \in Requests,
                Refuse(r) \/ UpdateMissingList(r) \/ UpdateForeignList(r)
                  \/ InsertDuplicate(r) \/ StatementFails(r)
        PROVE  IInv'
    <2>a. /\ UNCHANGED <<row, versions, req>>
          /\ pc[r] \notin {"invalidate", "done"}
          /\ \A q \in Requests \ {r} : pc'[q] = pc[q] /\ resp'[q] = resp[q]
      BY <1>1 DEF Refuse, UpdateMissingList, UpdateForeignList, InsertDuplicate, StatementFails,
         Respond, store, TypeOK
    <2>1. LockInv'
      BY <1>1 DEF Refuse, UpdateMissingList, UpdateForeignList, InsertDuplicate, StatementFails,
         Respond, store, TypeOK, IInv, LockInv
    <2>2. HeldInv'
      BY <1>1 DEF Refuse, UpdateMissingList, UpdateForeignList, InsertDuplicate, StatementFails,
         Respond, store, TypeOK, IInv, LockInv, HeldInv
    <2>3. ReadInv'
      <3>1. UNCHANGED read
        BY <1>1 DEF Refuse, UpdateMissingList, UpdateForeignList, InsertDuplicate, StatementFails
      <3> QED BY <2>a, <3>1 DEF IInv, ReadInv
    <2>4. ChainInv'
      BY <2>a DEF IInv, ChainInv
    <2>5. AppliedInv'
      BY <2>a, AppliedFrame DEF IInv
    <2>6. AnswerInv'
      BY <1>1 DEF Refuse, UpdateMissingList, UpdateForeignList, InsertDuplicate, StatementFails,
         Respond, store, TypeOK, IInv, AnswerInv
    <2>7. HistoryInv'
      BY <1>1 DEF Refuse, UpdateMissingList, UpdateForeignList, InsertDuplicate, StatementFails,
         Respond, store, TypeOK, IInv, HistoryInv
    <2> QED BY <2>1, <2>2, <2>3, <2>4, <2>5, <2>6, <2>7 DEF IInv
  <1>2. ASSUME NEW r \in Requests, UpdateConflict(r)
        PROVE  IInv'
    <2>a. /\ UNCHANGED <<row, versions, req>>
          /\ pc[r] \notin {"invalidate", "done"}
          /\ \A q \in Requests \ {r} : pc'[q] = pc[q] /\ resp'[q] = resp[q]
      BY <1>2 DEF UpdateConflict, GuardMatches, Respond, store, TypeOK
    <2>1. LockInv'
      BY <1>2 DEF UpdateConflict, GuardMatches, Respond, store, TypeOK, IInv, LockInv
    <2>2. HeldInv'
      BY <1>2 DEF UpdateConflict, GuardMatches, Respond, store, TypeOK, IInv, LockInv, HeldInv
    <2>3. ReadInv'
      BY <1>2 DEF UpdateConflict, GuardMatches, Respond, store, TypeOK, IInv, ReadInv
    <2>4. ChainInv'
      BY <1>2 DEF UpdateConflict, GuardMatches, Respond, store, TypeOK, IInv, ChainInv
    <2>5. AppliedInv'
      BY <2>a, AppliedFrame DEF IInv
    <2>6. AnswerInv'
      <3>1. read[r] \in Record /\ read[r] # None
        BY <1>2 DEF UpdateConflict, WorkInv
      <3>2. PICK v \in versions : v.list = req[r].list /\ v.iat = read[r].stamp
        BY <3>1 DEF IInv, ReadInv
      <3>3. row[req[r].list] # None /\ read[r].stamp <= row[req[r].list].stamp
        BY <3>2 DEF IInv, ChainInv
      <3>4. row[req[r].list].stamp \in Nat /\ read[r].stamp \in Nat
        BY <3>1, <3>3 DEF TypeOK, Record
      <3>5. row[req[r].list].stamp > read[r].stamp
        BY <1>2, <3>3, <3>4 DEF UpdateConflict, GuardMatches
      <3> QED
        BY <1>2, <3>1, <3>3, <3>5 DEF UpdateConflict, Respond, store, TypeOK, IInv, AnswerInv
    <2>7. HistoryInv'
      BY <1>2 DEF UpdateConflict, GuardMatches, Respond, store, TypeOK, IInv, HistoryInv
    <2> QED BY <2>1, <2>2, <2>3, <2>4, <2>5, <2>6, <2>7 DEF IInv
  <1>3. ASSUME NEW r \in Requests, PreparePublish(r)
        PROVE  IInv'
    <2>1. LockInv'
      BY <1>3 DEF PreparePublish, store, TypeOK, IInv, LockInv
    <2>2. HeldInv'
      BY <1>3 DEF PreparePublish, store, TypeOK, IInv, LockInv, HeldInv
    <2>3. ReadInv'
      BY <1>3 DEF PreparePublish, store, TypeOK, IInv, ReadInv
    <2>4. ChainInv'
      BY <1>3 DEF PreparePublish, store, TypeOK, IInv, ChainInv
    <2>5. AppliedInv'
      BY <1>3 DEF PreparePublish, store, TypeOK, IInv, AppliedInv
    <2>6. AnswerInv'
      BY <1>3 DEF PreparePublish, store, TypeOK, IInv, AnswerInv
    <2>7. HistoryInv'
      BY <1>3 DEF PreparePublish, store, TypeOK, IInv, HistoryInv
    <2> QED BY <2>1, <2>2, <2>3, <2>4, <2>5, <2>6, <2>7 DEF IInv
  <1>4. ASSUME NEW r \in Requests, PrepareUpdate(r)
        PROVE  IInv'
    <2>1. LockInv'
      BY <1>4 DEF PrepareUpdate, store, TypeOK, IInv, LockInv
    <2>2. HeldInv'
      BY <1>4 DEF PrepareUpdate, store, TypeOK, IInv, LockInv, HeldInv
    <2>3. ReadInv'
      <3>1. /\ row[req[r].list] # None
            /\ row[req[r].list] \in Record
            /\ read' = [read EXCEPT ![r] = row[req[r].list]]
            /\ UNCHANGED <<row, versions, req>>
        BY <1>4 DEF PrepareUpdate, TypeOK, store
      <3>2. \E v \in versions : /\ v.list = req[r].list
                                 /\ v.iat = row[req[r].list].stamp
                                 /\ v.applied = row[req[r].list].applied
        BY <3>1 DEF TypeOK, IInv, ChainInv
      <3> SUFFICES ASSUME NEW q \in Requests, read'[q] # None
                   PROVE  /\ read'[q] \in Record
                          /\ row[req[q].list] # None
                          /\ row[req[q].list].issuer = read'[q].issuer
                          /\ \E v \in versions : /\ v.list = req[q].list
                                                 /\ v.iat = read'[q].stamp
                                                 /\ v.applied = read'[q].applied
        BY <3>1 DEF ReadInv
      <3>3. CASE q = r
        <4>1. read'[q] = row[req[q].list]
          BY <3>1, <3>3 DEF TypeOK
        <4> QED BY <3>1, <3>2, <3>3, <4>1
      <3>4. CASE q # r
        <4>1. read'[q] = read[q]
          BY <3>1, <3>4 DEF TypeOK
        <4> QED BY <4>1 DEF IInv, ReadInv
      <3> QED BY <3>3, <3>4
    <2>4. ChainInv'
      BY <1>4 DEF PrepareUpdate, store, TypeOK, IInv, ChainInv
    <2>5. AppliedInv'
      BY <1>4 DEF PrepareUpdate, store, TypeOK, IInv, AppliedInv
    <2>6. AnswerInv'
      BY <1>4 DEF PrepareUpdate, store, TypeOK, IInv, AnswerInv
    <2>7. HistoryInv'
      BY <1>4 DEF PrepareUpdate, store, TypeOK, IInv, HistoryInv
    <2> QED BY <2>1, <2>2, <2>3, <2>4, <2>5, <2>6, <2>7 DEF IInv
  <1>5. ASSUME NEW r \in Requests, InsertRow(r) \/ UpdateRow(r)
        PROVE  IInv'
    <2>b. /\ lock[req[r].list] = None
          /\ pc[r] \notin Holding
          /\ pc' = [pc EXCEPT ![r] = pc'[r]]
          /\ pc'[r] \in Holding
          /\ lock' = [lock EXCEPT ![req[r].list] = r]
      BY <1>5 DEF InsertRow, UpdateRow, TakeRow, AfterRowStatement, TypeOK
    <2>a. /\ UNCHANGED <<row, versions, req, read>>
          /\ pc[r] \notin {"invalidate", "done"}
          /\ \A q \in Requests \ {r} : pc'[q] = pc[q] /\ resp'[q] = resp[q]
      BY <1>5 DEF InsertRow, UpdateRow, TakeRow, AfterRowStatement, GuardMatches, TypeOK
    <2>1. LockInv'
      <3>1. ASSUME NEW q \in Requests, pc'[q] \in Holding
            PROVE  lock'[req[q].list] = q
        <4>1. CASE q = r
          BY <2>b, <4>1 DEF TypeOK
        <4>2. CASE q # r
          <5>1. pc[q] \in Holding /\ lock[req[q].list] = q
            BY <2>a, <3>1, <4>2 DEF IInv, LockInv
          <5>2. req[q].list # req[r].list
            BY <2>b, <5>1, NoneAssumption
          <5> QED BY <2>b, <5>1, <5>2 DEF TypeOK
        <4> QED BY <4>1, <4>2
      <3>2. ASSUME NEW l \in Lists, lock'[l] # None
            PROVE  pc'[lock'[l]] \in Holding /\ req[lock'[l]].list = l
        <4>1. CASE l = req[r].list
          BY <2>b, <4>1 DEF TypeOK
        <4>2. CASE l # req[r].list
          <5>1. lock'[l] = lock[l] /\ lock[l] \in Requests
            BY <2>b, <3>2, <4>2 DEF TypeOK
          <5>2. pc[lock[l]] \in Holding /\ req[lock[l]].list = l
            BY <3>2, <5>1 DEF IInv, LockInv
          <5>3. lock[l] # r
            BY <2>b, <5>2
          <5> QED BY <2>a, <5>1, <5>2, <5>3
        <4> QED BY <4>1, <4>2
      <3> QED BY <2>a, <3>1, <3>2 DEF LockInv
    <2>2. HeldInv'
      <3>1. CASE InsertRow(r)
        BY <2>a, <3>1 DEF InsertRow, WorkInv, IInv, HeldInv
      <3>2. CASE UpdateRow(r)
        BY <2>a, <3>2 DEF UpdateRow, GuardMatches, WorkInv, IInv, HeldInv
      <3> QED BY <1>5, <3>1, <3>2
    <2>3. ReadInv'
      BY <1>5 DEF InsertRow, UpdateRow, TakeRow, AfterRowStatement, GuardMatches, TypeOK, IInv,
         ReadInv
    <2>4. ChainInv'
      BY <1>5 DEF InsertRow, UpdateRow, TakeRow, AfterRowStatement, GuardMatches, TypeOK, IInv,
         ChainInv
    <2>5. AppliedInv'
      BY <2>a, AppliedFrame DEF IInv
    <2>6. AnswerInv'
      BY <1>5 DEF InsertRow, UpdateRow, TakeRow, AfterRowStatement, GuardMatches, TypeOK, IInv,
         AnswerInv
    <2>7. HistoryInv'
      BY <1>5 DEF InsertRow, UpdateRow, TakeRow, AfterRowStatement, GuardMatches, TypeOK, IInv,
         HistoryInv
    <2> QED BY <2>1, <2>2, <2>3, <2>4, <2>5, <2>6, <2>7 DEF IInv
  <1>6. ASSUME NEW r \in Requests, InsertHistory(r) \/ RollBackFails(r)
        PROVE  IInv'
    <2>a. /\ UNCHANGED <<row, versions, req>>
          /\ pc[r] \notin {"invalidate", "done"}
          /\ \A q \in Requests \ {r} : pc'[q] = pc[q] /\ resp'[q] = resp[q]
      BY <1>6 DEF InsertHistory, RollBackFails, store, TypeOK
    <2>1. LockInv'
      BY <1>6 DEF InsertHistory, RollBackFails, store, TypeOK, IInv, LockInv
    <2>2. HeldInv'
      BY <1>6 DEF InsertHistory, RollBackFails, store, TypeOK, IInv, LockInv, HeldInv
    <2>3. ReadInv'
      BY <1>6 DEF InsertHistory, RollBackFails, store, TypeOK, IInv, ReadInv
    <2>4. ChainInv'
      BY <1>6 DEF InsertHistory, RollBackFails, store, TypeOK, IInv, ChainInv
    <2>5. AppliedInv'
      BY <2>a, AppliedFrame DEF IInv
    <2>6. AnswerInv'
      BY <1>6 DEF InsertHistory, RollBackFails, store, TypeOK, IInv, AnswerInv
    <2>7. HistoryInv'
      BY <1>6 DEF InsertHistory, RollBackFails, store, TypeOK, IInv, HistoryInv
    <2> QED BY <2>1, <2>2, <2>3, <2>4, <2>5, <2>6, <2>7 DEF IInv
  <1>7. ASSUME NEW r \in Requests, RollBack(r) \/ ReapOrphan(r)
        PROVE  IInv'
    <2>a. /\ UNCHANGED <<row, versions, req>>
          /\ pc[r] \in Holding
          /\ pc' = [pc EXCEPT ![r] = "done"]
          /\ lock' = [lock EXCEPT ![req[r].list] = None]
          /\ \A q \in Requests \ {r} : pc'[q] = pc[q] /\ resp'[q] = resp[q]
      BY <1>7 DEF RollBack, ReapOrphan, Release, Respond, TypeOK
    <2>1. LockInv'
      BY <2>a DEF TypeOK, IInv, LockInv
    <2>2. HeldInv'
      BY <1>7 DEF RollBack, ReapOrphan, Release, Respond, TypeOK, IInv, LockInv, HeldInv
    <2>3. ReadInv'
      BY <1>7 DEF RollBack, ReapOrphan, Release, Respond, TypeOK, IInv, ReadInv
    <2>4. ChainInv'
      BY <2>a DEF IInv, ChainInv
    <2>5. AppliedInv'
      BY <2>a, AppliedFrame DEF IInv
    <2>6. AnswerInv'
      BY <1>7 DEF RollBack, ReapOrphan, Release, Respond, TypeOK, IInv, AnswerInv
    <2>7. HistoryInv'
      BY <1>7 DEF RollBack, ReapOrphan, Release, Respond, TypeOK, IInv, HistoryInv
    <2> QED BY <2>1, <2>2, <2>3, <2>4, <2>5, <2>6, <2>7 DEF IInv
  <1>8. ASSUME NEW r \in Requests,
               Commit(r) \/ CommitAckLost(r) \/ AbandonCommitted(r)
        PROVE  IInv'
    <2> DEFINE l == req[r].list
               s == build_snapshot(r)
    <2>a. /\ pc[r] = "commit"
          /\ l \in Lists
          /\ work[r] \in Record
          /\ row' = [row EXCEPT ![l] = work[r]]
          /\ history' = IF SnapshotsEnabled THEN history \cup {s} ELSE history
          /\ versions' = versions \cup {s}
          /\ lock' = [lock EXCEPT ![l] = None]
          /\ UNCHANGED <<req, read, work, lifetime, sweep, now, horizon>>
      BY <1>8 DEF Commit, CommitAckLost, AbandonCommitted, Land, Release, TypeOK, WorkInv
    <2>b. /\ s \in Snapshot
          /\ s.list = l
          /\ s.iat = work[r].stamp
          /\ s.applied = work[r].applied
          /\ s.exp = work[r].stamp + lifetime[r]
      BY <2>a, SnapshotTyped
    <2>c. /\ pc'[r] \in {"invalidate", "done"}
          /\ resp'[r] \in {"none", "ok", "internal"}
          /\ resp'[r] = "ok" => pc'[r] = "done"
          /\ \A q \in Requests \ {r} : pc'[q] = pc[q] /\ resp'[q] = resp[q]
      <3>1. resp[r] \in {"none", "internal"}
        BY <2>a DEF TypeOK, IInv, AnswerInv
      <3> QED BY <1>8, <3>1 DEF Commit, CommitAckLost, AbandonCommitted, Respond, TypeOK
    <2>d. /\ row[l] = None \/ /\ row[l] \in Record
                              /\ row[l].stamp < work[r].stamp
                              /\ row[l].applied \subseteq work[r].applied
                              /\ row[l].issuer = work[r].issuer
          /\ r \in work[r].applied
          /\ \A q \in work[r].applied \ {r} :
                row[l] # None /\ q \in row[l].applied
      <3>1. CASE req[r].op = "publish"
        BY <2>a, <3>1 DEF IInv, HeldInv, WorkInv
      <3>2. CASE req[r].op = "update"
        <4>1. /\ row[l] # None /\ row[l].stamp = read[r].stamp
              /\ row[l] \in Record /\ read[r] \in Record
              /\ work[r].stamp > read[r].stamp
              /\ work[r].applied = read[r].applied \cup {r}
              /\ work[r].issuer = req[r].issuer
              /\ read[r].issuer = req[r].issuer
          BY <2>a, <3>2 DEF IInv, HeldInv, WorkInv, TypeOK
        <4>2. PICK v \in versions : v.list = l /\ v.iat = read[r].stamp /\ v.applied = read[r].applied
          BY <4>1 DEF IInv, ReadInv
        <4>3. PICK w \in versions : w.list = l /\ w.iat = row[l].stamp /\ w.applied = row[l].applied
          BY <2>a, <4>1 DEF IInv, ChainInv
        <4>4. v.iat \in Nat /\ w.iat \in Nat
          BY VersionTyped
        <4>5. read[r].applied = row[l].applied
          <5>1. v.iat <= w.iat /\ w.iat <= v.iat /\ v.list = w.list
            BY <4>1, <4>2, <4>3, <4>4
          <5>2. v.applied \subseteq w.applied /\ w.applied \subseteq v.applied
            BY <5>1 DEF IInv, ChainInv
          <5>3. v.applied = w.applied
            BY <5>2
          <5> QED BY <4>2, <4>3, <5>3
        <4>6. row[l].issuer = req[r].issuer
          BY <4>1 DEF IInv, ReadInv
        <4> QED BY <4>1, <4>5, <4>6 DEF Record
      <3> QED BY <3>1, <3>2 DEF TypeOK
    <2> HIDE DEF l, s
    <2>1. LockInv'
      BY <2>a, <2>c DEF TypeOK, IInv, LockInv, l
    <2>2. HeldInv'
      <3> SUFFICES ASSUME NEW q \in Requests, pc'[q] \in Holding
                   PROVE  IF req[q].op = "publish"
                          THEN row'[req[q].list] = None
                          ELSE row'[req[q].list] # None /\ row'[req[q].list].stamp = read[q].stamp
        BY <2>a DEF HeldInv
      <3>1. q # r /\ pc[q] \in Holding
        BY <2>c
      <3>2. req[q].list # l
        BY <2>a, <3>1 DEF IInv, LockInv, l
      <3>3. row'[req[q].list] = row[req[q].list]
        BY <2>a, <3>2 DEF TypeOK
      <3> QED BY <3>1, <3>3 DEF IInv, HeldInv
    <2>3. ReadInv'
      <3> SUFFICES ASSUME NEW q \in Requests, read[q] # None
                   PROVE  /\ read[q] \in Record
                          /\ row'[req[q].list] # None
                          /\ row'[req[q].list].issuer = read[q].issuer
                          /\ \E v \in versions' : /\ v.list = req[q].list
                                                  /\ v.iat = read[q].stamp
                                                  /\ v.applied = read[q].applied
        BY <2>a DEF ReadInv
      <3>1. req[q].list \in Lists
        BY DEF TypeOK
      <3>2. /\ row'[req[q].list] # None
            /\ row'[req[q].list].issuer = read[q].issuer
        BY <2>a, <2>d, <3>1 DEF TypeOK, IInv, ReadInv
      <3> QED BY <2>a, <3>2 DEF IInv, ReadInv
    <2>4. ChainInv'
      <3>1. \A v \in versions : v.list = l => v.iat < work[r].stamp /\ v.applied \subseteq work[r].applied
        <4> SUFFICES ASSUME NEW v \in versions, v.list = l
                     PROVE  v.iat < work[r].stamp /\ v.applied \subseteq work[r].applied
          OBVIOUS
        <4>1. row[l] # None /\ v.iat <= row[l].stamp /\ v.applied \subseteq row[l].applied
          BY DEF IInv, ChainInv
        <4>2. v.iat \in Nat /\ row[l].stamp \in Nat /\ work[r].stamp \in Nat
          BY <2>a, <2>d, <4>1, VersionTyped DEF Record
        <4> QED BY <2>d, <4>1, <4>2
      <3>2. work[r].stamp \in Nat
        BY <2>a DEF Record
      <3>3. \A m \in Lists : row'[m] # None =>
               \E v \in versions' : v.list = m /\ v.iat = row'[m].stamp /\ v.applied = row'[m].applied
        BY <2>a, <2>b DEF TypeOK, IInv, ChainInv
      <3>4. \A v \in versions' : /\ row'[v.list] # None
                                 /\ v.iat <= row'[v.list].stamp
                                 /\ v.applied \subseteq row'[v.list].applied
        <4> SUFFICES ASSUME NEW v \in versions'
                     PROVE  /\ row'[v.list] # None
                            /\ v.iat <= row'[v.list].stamp
                            /\ v.applied \subseteq row'[v.list].applied
          OBVIOUS
        <4>1. CASE v.list = l
          <5>1. row'[l] = work[r]
            BY <2>a DEF TypeOK
          <5>2. v = s \/ v \in versions
            BY <2>a
          <5>3. v.iat \in Nat
            BY <2>b, <3>2, <5>2, VersionTyped
          <5> QED BY <2>a, <2>b, <3>1, <3>2, <4>1, <5>1, <5>2, <5>3
        <4>2. CASE v.list # l
          <5>1. v \in versions /\ v.list \in Lists
            BY <2>a, <2>b, <4>2, VersionTyped
          <5> QED BY <2>a, <4>2, <5>1 DEF TypeOK, IInv, ChainInv
        <4> QED BY <4>1, <4>2
      <3>5. \A v, w \in versions' :
               v.list = w.list /\ v.iat <= w.iat => v.applied \subseteq w.applied
        <4> SUFFICES ASSUME NEW v \in versions', NEW w \in versions',
                            v.list = w.list, v.iat <= w.iat
                     PROVE  v.applied \subseteq w.applied
          OBVIOUS
        <4>1. CASE v \in versions /\ w \in versions
          BY <4>1 DEF IInv, ChainInv
        <4>2. CASE w = s
          BY <2>a, <2>b, <3>1, <4>2
        <4>3. CASE v = s /\ w \in versions
          <5>1. w.iat < work[r].stamp /\ w.iat \in Nat
            BY <2>b, <3>1, <4>3, VersionTyped
          <5> QED BY <2>b, <3>2, <4>3, <5>1
        <4> QED BY <2>a, <4>1, <4>2, <4>3
      <3>6. \A v \in versions' : \E e \in TokenExps : v.exp = v.iat + e
        BY <2>a, <2>b DEF TypeOK, IInv, ChainInv
      <3> QED BY <3>3, <3>4, <3>5, <3>6 DEF ChainInv
    <2>5. AppliedInv'
      <3> SUFFICES ASSUME NEW v \in versions', NEW q \in v.applied
                   PROVE  /\ pc'[q] \in {"invalidate", "done"}
                          /\ resp'[q] \notin Rejections
                          /\ req[q].list = v.list
                          /\ req[q].issuer = row'[v.list].issuer
        BY <2>a DEF AppliedInv
      <3>1. CASE q = r
        <4>1. v = s
          BY <2>a, <3>1 DEF IInv, AppliedInv
        <4> QED BY <2>a, <2>b, <2>c, <3>1, <4>1 DEF TypeOK, WorkInv, l
      <3>2. CASE q # r
        <4>1. PICK w \in versions : q \in w.applied /\ w.list = v.list
          <5>1. CASE v \in versions
            BY <5>1
          <5>2. CASE v = s
            <6>1. row[l] # None /\ q \in row[l].applied
              BY <2>b, <2>d, <3>2, <5>2
            <6> QED BY <2>a, <2>b, <5>2, <6>1 DEF IInv, ChainInv
          <5> QED BY <2>a, <5>1, <5>2
        <4>2. /\ pc[q] \in {"invalidate", "done"}
              /\ resp[q] \notin Rejections
              /\ req[q].list = w.list
              /\ req[q].issuer = row[w.list].issuer
          BY <4>1 DEF IInv, AppliedInv
        <4>3. q \in Requests /\ w.list \in Lists /\ row[w.list] # None
          BY <4>1, VersionTyped DEF IInv, ChainInv
        <4>4. row'[w.list].issuer = row[w.list].issuer
          BY <2>a, <2>d, <4>3 DEF TypeOK
        <4> QED BY <2>c, <3>2, <4>1, <4>2, <4>3, <4>4
      <3> QED BY <3>1, <3>2
    <2>6. AnswerInv'
      <3> SUFFICES ASSUME NEW q \in Requests
                   PROVE  /\ resp'[q] \in Rejections \cup {"ok"} => pc'[q] = "done"
                          /\ resp'[q] = "ok" \/ pc'[q] = "invalidate" =>
                                row'[req[q].list] # None /\ q \in row'[req[q].list].applied
                          /\ resp'[q] = "conflict" =>
                                /\ read[q] # None
                                /\ row'[req[q].list] # None
                                /\ row'[req[q].list].stamp > read[q].stamp
        BY <2>a DEF AnswerInv
      <3>1. CASE q = r
        BY <2>a, <2>c, <2>d, <3>1 DEF TypeOK, l
      <3>2. CASE q # r
        <4>1. pc'[q] = pc[q] /\ resp'[q] = resp[q] /\ req[q].list \in Lists
          BY <2>c, <3>2 DEF TypeOK
        <4>2. CASE req[q].list # l
          BY <2>a, <4>1, <4>2 DEF TypeOK, IInv, AnswerInv
        <4>3. CASE req[q].list = l
          <5>1. row'[l] = work[r] /\ work[r] # None
            BY <2>a DEF TypeOK
          <5>2. resp[q] \in Rejections \cup {"ok"} => pc'[q] = "done"
            BY <4>1 DEF IInv, AnswerInv
          <5>3. resp[q] = "ok" \/ pc[q] = "invalidate" => q \in work[r].applied
            BY <2>d, <4>3 DEF IInv, AnswerInv
          <5>4. resp[q] = "conflict" => read[q] # None /\ work[r].stamp > read[q].stamp
            <6> SUFFICES ASSUME resp[q] = "conflict"
                         PROVE  read[q] # None /\ work[r].stamp > read[q].stamp
              OBVIOUS
            <6>1. read[q] # None /\ row[l] # None /\ row[l].stamp > read[q].stamp
              BY <4>3 DEF IInv, AnswerInv
            <6>2. read[q].stamp \in Nat /\ row[l].stamp \in Nat /\ work[r].stamp \in Nat
              BY <2>a, <2>d, <6>1 DEF TypeOK, Record
            <6> QED BY <2>d, <6>1, <6>2
          <5> QED BY <4>1, <4>3, <5>1, <5>2, <5>3, <5>4
        <4> QED BY <4>2, <4>3
      <3> QED BY <3>1, <3>2
    <2>7. HistoryInv'
      BY <2>a DEF IInv, HistoryInv
    <2> QED BY <2>1, <2>2, <2>3, <2>4, <2>5, <2>6, <2>7 DEF IInv
  <1>9. ASSUME NEW r \in Requests, Finish(r)
        PROVE  IInv'
    <2>1. LockInv'
      BY <1>9 DEF Finish, Respond, store, TypeOK, IInv, LockInv
    <2>2. HeldInv'
      BY <1>9 DEF Finish, Respond, store, TypeOK, IInv, LockInv, HeldInv
    <2>3. ReadInv'
      BY <1>9 DEF Finish, Respond, store, TypeOK, IInv, ReadInv
    <2>4. ChainInv'
      BY <1>9 DEF Finish, Respond, store, TypeOK, IInv, ChainInv
    <2>5. AppliedInv'
      BY <1>9, VersionTyped DEF Finish, Respond, store, TypeOK, IInv, AppliedInv
    <2>6. AnswerInv'
      BY <1>9 DEF Finish, Respond, store, TypeOK, IInv, AnswerInv
    <2>7. HistoryInv'
      BY <1>9 DEF Finish, Respond, store, TypeOK, IInv, HistoryInv
    <2> QED BY <2>1, <2>2, <2>3, <2>4, <2>5, <2>6, <2>7 DEF IInv
  <1>10. ASSUME NEW r \in Requests, Abandon(r)
        PROVE  IInv'
    <2>1. LockInv'
      BY <1>10 DEF Abandon, store, TypeOK, IInv, LockInv
    <2>2. HeldInv'
      BY <1>10 DEF Abandon, store, TypeOK, IInv, LockInv, HeldInv
    <2>3. ReadInv'
      BY <1>10 DEF Abandon, store, TypeOK, IInv, ReadInv
    <2>4. ChainInv'
      BY <1>10 DEF Abandon, store, TypeOK, IInv, ChainInv
    <2>5. AppliedInv'
      BY <1>10 DEF Abandon, store, TypeOK, IInv, AppliedInv
    <2>6. AnswerInv'
      BY <1>10 DEF Abandon, store, TypeOK, IInv, AnswerInv
    <2>7. HistoryInv'
      BY <1>10 DEF Abandon, store, TypeOK, IInv, HistoryInv
    <2> QED BY <2>1, <2>2, <2>3, <2>4, <2>5, <2>6, <2>7 DEF IInv
  <1>11. ASSUME StartSweep
        PROVE  IInv'
    <2>1. LockInv'
      BY <1>11 DEF StartSweep, store, handler, TypeOK, IInv, LockInv
    <2>2. HeldInv'
      BY <1>11 DEF StartSweep, store, handler, TypeOK, IInv, LockInv, HeldInv
    <2>3. ReadInv'
      BY <1>11 DEF StartSweep, store, handler, TypeOK, IInv, ReadInv
    <2>4. ChainInv'
      BY <1>11 DEF StartSweep, store, handler, TypeOK, IInv, ChainInv
    <2>5. AppliedInv'
      BY <1>11 DEF StartSweep, store, handler, TypeOK, IInv, AppliedInv
    <2>6. AnswerInv'
      BY <1>11 DEF StartSweep, store, handler, TypeOK, IInv, AnswerInv
    <2>7. HistoryInv'
      BY <1>11 DEF StartSweep, store, handler, TypeOK, IInv, HistoryInv
    <2> QED BY <2>1, <2>2, <2>3, <2>4, <2>5, <2>6, <2>7 DEF IInv
  <1>12. ASSUME SweepFullBatch \/ SweepLastBatch
        PROVE  IInv'
    <2>1. LockInv'
      BY <1>12 DEF SweepFullBatch, SweepLastBatch, Expired, handler, TypeOK, IInv, LockInv
    <2>2. HeldInv'
      BY <1>12 DEF SweepFullBatch, SweepLastBatch, Expired, handler, TypeOK, IInv, LockInv,
         HeldInv
    <2>3. ReadInv'
      BY <1>12 DEF SweepFullBatch, SweepLastBatch, Expired, handler, TypeOK, IInv, ReadInv
    <2>4. ChainInv'
      BY <1>12 DEF SweepFullBatch, SweepLastBatch, Expired, handler, TypeOK, IInv, ChainInv
    <2>5. AppliedInv'
      BY <1>12 DEF SweepFullBatch, SweepLastBatch, Expired, handler, TypeOK, IInv, AppliedInv
    <2>6. AnswerInv'
      BY <1>12 DEF SweepFullBatch, SweepLastBatch, Expired, handler, TypeOK, IInv, AnswerInv
    <2>7. HistoryInv'
      <3>1. /\ history' \subseteq history
            /\ \A s \in history \ history' : s.exp < sweep
            /\ sweep # None
            /\ sweep' \in {sweep, None}
            /\ UNCHANGED <<versions, horizon>>
        BY <1>12 DEF SweepFullBatch, SweepLastBatch, Expired
      <3>2. sweep \in Int /\ horizon \in Int /\ sweep <= horizon
        BY <3>1 DEF TypeOK, IInv, HistoryInv
      <3>3. \A s \in history \ history' : s.exp < horizon
        BY <3>1, <3>2, VersionTyped DEF IInv, HistoryInv
      <3> QED BY <3>1, <3>2, <3>3 DEF IInv, HistoryInv
    <2> QED BY <2>1, <2>2, <2>3, <2>4, <2>5, <2>6, <2>7 DEF IInv
  <1>13. ASSUME SweepFails \/ Tick \/ UNCHANGED vars
        PROVE  IInv'
    <2>1. LockInv'
      BY <1>13 DEF SweepFails, Tick, vars, store, handler, TypeOK, IInv, LockInv
    <2>2. HeldInv'
      BY <1>13 DEF SweepFails, Tick, vars, store, handler, TypeOK, IInv, LockInv, HeldInv
    <2>3. ReadInv'
      BY <1>13 DEF SweepFails, Tick, vars, store, handler, TypeOK, IInv, ReadInv
    <2>4. ChainInv'
      BY <1>13 DEF SweepFails, Tick, vars, store, handler, TypeOK, IInv, ChainInv
    <2>5. AppliedInv'
      BY <1>13 DEF SweepFails, Tick, vars, store, handler, TypeOK, IInv, AppliedInv
    <2>6. AnswerInv'
      BY <1>13 DEF SweepFails, Tick, vars, store, handler, TypeOK, IInv, AnswerInv
    <2>7. HistoryInv'
      BY <1>13 DEF SweepFails, Tick, vars, store, handler, TypeOK, IInv, HistoryInv
    <2> QED BY <2>1, <2>2, <2>3, <2>4, <2>5, <2>6, <2>7 DEF IInv
  <1> QED
    BY <1>1, <1>2, <1>3, <1>4, <1>5, <1>6, <1>7, <1>8, <1>9, <1>10, <1>11,
       <1>12, <1>13 DEF Next, Handle

(* The whole invariant, inductive together with the first layer.            *)
LEMMA IInvAlways == Spec => [](TypeOK /\ WorkInv /\ IInv)
  <1>1. Init => TypeOK /\ WorkInv
    BY NoneAssumption DEF Init, TypeOK, WorkInv, Holding, Positions, Outcomes, Rejections
  <1>2. Init => IInv
    BY NoneAssumption DEF Init, IInv, LockInv, HeldInv, ReadInv, ChainInv, AppliedInv,
       AnswerInv, HistoryInv, Holding, Rejections
  <1>3. TypeOK /\ WorkInv /\ IInv /\ [Next]_vars => (TypeOK /\ WorkInv /\ IInv)'
    BY TypeStep, IInvStep
  <1> QED BY <1>1, <1>2, <1>3, PTL DEF Spec

(* No acknowledged write is ever lost: update_statuses answers Ok only for  *)
(* entries that are in the list and stay in it, however many replicas race  *)
(* on the row, crash or lose acknowledgements.                              *)
THEOREM NoLostUpdateHolds == Spec => []NoLostUpdate
  <1>1. TypeOK /\ WorkInv /\ IInv => NoLostUpdate
    BY DEF IInv, AnswerInv, NoLostUpdate
  <1> QED BY <1>1, IInvAlways, PTL

(* A rejected write leaves no trace: every 4xx outcome of the two write     *)
(* handlers, 409 write_contention included, is final and wrote nothing.     *)
THEOREM RejectedLeavesNoTraceHolds == Spec => []RejectedLeavesNoTrace
  <1>1. TypeOK /\ WorkInv /\ IInv => RejectedLeavesNoTrace
    BY DEF IInv, AnswerInv, AppliedInv, RejectedLeavesNoTrace
  <1> QED BY <1>1, IInvAlways, PTL

(* update_conflict is answered only when another update really landed       *)
(* between the read and the guarded UPDATE of the rejected request.         *)
THEOREM ConflictHasWinnerHolds == Spec => []ConflictHasWinner
  <1>1. TypeOK /\ WorkInv /\ IInv => ConflictHasWinner
    BY DEF IInv, AnswerInv, ConflictHasWinner
  <1> QED BY <1>1, IInvAlways, PTL

(* Only the publisher's own requests ever change a list.                    *)
THEOREM OwnerOnlyHolds == Spec => []OwnerOnly
  <1>1. TypeOK /\ WorkInv /\ IInv => OwnerOnly
    <2> SUFFICES ASSUME TypeOK, IInv, NEW l \in Lists, row[l] # None,
                        NEW r \in row[l].applied
                 PROVE  req[r].issuer = row[l].issuer /\ req[r].list = l
      BY DEF OwnerOnly
    <2>1. PICK v \in versions : v.list = l /\ v.applied = row[l].applied
      BY DEF IInv, ChainInv
    <2> QED BY <2>1 DEF IInv, AppliedInv
  <1> QED BY <1>1, IInvAlways, PTL

(* Row and snapshot are written atomically, and retention removes only what *)
(* lies behind its horizon.                                                 *)
THEOREM SnapshotPerVersionHolds == Spec => []SnapshotPerVersion
  <1>1. TypeOK /\ WorkInv /\ IInv => SnapshotPerVersion
    BY DEF IInv, ChainInv, HistoryInv, SnapshotPerVersion
  <1> QED BY <1>1, IInvAlways, PTL

(* Historical resolution never answers with a superseded version for an     *)
(* instant within retention, provided all replicas use one token lifetime.  *)
THEOREM HistoricalAnswerHolds ==
    ASSUME \A e, f \in TokenExps : e = f
    PROVE  Spec => []HistoricalAnswerIsCurrent
  <1>1. TypeOK /\ WorkInv /\ IInv => HistoricalAnswerIsCurrent
    <2> SUFFICES ASSUME TypeOK, IInv, NEW l \in Lists, NEW t \in QueryTimes, t >= horizon,
                        NEW s \in find_valid_at(l, t)
                 PROVE  s \in VersionAt(l, t)
      BY DEF HistoricalAnswerIsCurrent
    <2>1. t \in Int /\ horizon \in Int
      BY RetentionAssumption DEF QueryTimes, TypeOK
    <2>2. s \in history /\ s.list = l /\ s.iat <= t /\ t < s.exp /\ s \in versions
      BY DEF find_valid_at, ValidAt, IInv, HistoryInv
    <2>3. ASSUME NEW w \in versions, w.list = l, w.iat <= t
          PROVE  w.iat <= s.iat
      <3>1. /\ s.iat \in Nat /\ s.exp \in Nat
            /\ w.iat \in Nat /\ w.exp \in Nat
        BY <2>2, VersionTyped
      <3>2. PICK e \in TokenExps : s.exp = s.iat + e /\ w.exp = w.iat + e
        BY <2>2 DEF IInv, ChainInv
      <3>3. e \in Nat
        BY TokenExpsAssumption
      <3>4. SUFFICES ASSUME s.iat < w.iat PROVE FALSE
        BY <3>1
      <3>5. w.exp > t /\ ~(w.exp < horizon)
        BY <2>1, <2>2, <3>1, <3>2, <3>3, <3>4
      <3>6. w \in history
        BY <2>2, <3>5 DEF IInv, HistoryInv
      <3>7. w \in ValidAt(l, t)
        BY <2>3, <3>5, <3>6 DEF ValidAt
      <3> QED BY <3>1, <3>4, <3>7 DEF find_valid_at
    <2> QED BY <2>2, <2>3 DEF VersionAt
  <1> QED BY <1>1, IInvAlways, PTL

(* A write whose stamp is chosen in this step is stamped after every        *)
(* instant that the replicas' clocks have all left behind.                  *)
LEMMA StampIsRecent ==
    ASSUME TypeOK, NEW p \in Nat, NEW c \in current_unix_timestamp,
           NEW t \in Int, t < now - MaxSkew
    PROVE  c > t /\ next_updated_at(p, c) > t
  <1>1. c \in Nat /\ now \in Nat /\ MaxSkew \in Nat /\ now - MaxSkew <= c
    BY ClockIsNat, RetentionAssumption DEF TypeOK, current_unix_timestamp
  <1> QED BY <1>1 DEF next_updated_at

(* An instant that is settled stays settled: the clock only advances, and a *)
(* write that gets under way takes a later stamp.                           *)
LEMMA SettledStays ==
    ASSUME TypeOK, WorkInv, IInv, Next, TypeOK',
           NEW l \in Lists, NEW t \in Int, Settled(l, t)
    PROVE  Settled(l, t)'
  <1> DEFINE Pending == {"insert", "update"} \cup Holding
  <1>1. now' \in Nat /\ now \in Nat /\ MaxSkew \in Nat /\ t < now - MaxSkew
    BY RetentionAssumption DEF TypeOK, Settled
  <1>2. now' >= now
    BY <1>1 DEF Next, Handle, Refuse, PreparePublish, PrepareUpdate, UpdateMissingList,
       UpdateForeignList, InsertRow, InsertDuplicate, UpdateRow, UpdateConflict,
       StatementFails, InsertHistory, RollBack, RollBackFails, Commit, CommitAckLost, Finish,
       Abandon, AbandonCommitted, ReapOrphan, TakeRow, StartSweep, SweepFullBatch,
       SweepLastBatch, SweepFails, Tick
  <1>3. t < now' - MaxSkew
    <2> DEFINE m == now'
               n == now
    <2>1. m \in Nat /\ n \in Nat /\ m >= n /\ t < n - MaxSkew
      BY <1>1, <1>2
    <2> HIDE DEF m, n
    <2>2. t < m - MaxSkew
      BY <1>1, <2>1
    <2> QED BY <2>2 DEF m
  <1>4. req' = req
    BY DEF Next, Handle, Refuse, PreparePublish, PrepareUpdate, UpdateMissingList,
       UpdateForeignList, InsertRow, InsertDuplicate, UpdateRow, UpdateConflict,
       StatementFails, InsertHistory, RollBack, RollBackFails, Commit, CommitAckLost, Finish,
       Abandon, AbandonCommitted, ReapOrphan, TakeRow, StartSweep, SweepFullBatch,
       SweepLastBatch, SweepFails, Tick, handler
  <1>5. ASSUME NEW q \in Requests, PreparePublish(q),
               NEW r \in Requests, req[r].list = l, pc'[r] \in Pending
        PROVE  work'[r].stamp > t
    <2>1. PICK c \in current_unix_timestamp :
             work' = [work EXCEPT ![q] = [issuer |-> req[q].issuer, stamp |-> c, applied |-> {q}]]
      BY <1>5 DEF PreparePublish
    <2>2. c > t
      BY <1>1, <2>1, StampIsRecent, 0 \in Nat
    <2>3. CASE r = q
      BY <2>1, <2>2, <2>3 DEF TypeOK
    <2>4. CASE r # q
      <3>1. pc[r] \in Pending /\ work'[r] = work[r]
        BY <1>5, <2>1, <2>4 DEF PreparePublish, TypeOK
      <3> QED BY <1>5, <3>1 DEF Settled
    <2> QED BY <2>3, <2>4
  <1>6. ASSUME NEW q \in Requests, PrepareUpdate(q),
               NEW r \in Requests, req[r].list = l, pc'[r] \in Pending
        PROVE  work'[r].stamp > t
    <2> DEFINE existing == row[req[q].list]
    <2>1. PICK c \in current_unix_timestamp :
             work' = [work EXCEPT ![q] = [issuer |-> existing.issuer,
                                          stamp |-> next_updated_at(existing.stamp, c),
                                          applied |-> existing.applied \cup {q}]]
      BY <1>6 DEF PrepareUpdate
    <2>2. existing.stamp \in Nat
      <3>1. existing \in Record
        BY <1>6 DEF PrepareUpdate, TypeOK
      <3> QED BY <3>1 DEF Record
    <2>3. next_updated_at(existing.stamp, c) > t
      BY <1>1, <2>1, <2>2, StampIsRecent
    <2>4. CASE r = q
      BY <2>1, <2>3, <2>4 DEF TypeOK
    <2>5. CASE r # q
      <3>1. pc[r] \in Pending /\ work'[r] = work[r]
        BY <1>6, <2>1, <2>5 DEF PrepareUpdate, TypeOK
      <3> QED BY <1>6, <3>1 DEF Settled
    <2> QED BY <2>4, <2>5
  <1>7. ASSUME ~ \E q \in Requests : PreparePublish(q) \/ PrepareUpdate(q),
               NEW r \in Requests, req[r].list = l, pc'[r] \in Pending
        PROVE  work'[r].stamp > t
    <2>1. work' = work
      BY <1>7 DEF Next, Handle, Refuse, UpdateMissingList,
         UpdateForeignList, InsertRow, InsertDuplicate, UpdateRow, UpdateConflict,
         StatementFails, InsertHistory, RollBack, RollBackFails, Commit, CommitAckLost, Finish,
         Abandon, AbandonCommitted, ReapOrphan, TakeRow, StartSweep, SweepFullBatch,
         SweepLastBatch, SweepFails, Tick, handler
    <2>2. pc[r] \in Pending
      BY <1>7 DEF Next, Handle, Refuse, UpdateMissingList, Respond, AfterRowStatement, Holding,
         UpdateForeignList, InsertRow, InsertDuplicate, UpdateRow, UpdateConflict,
         StatementFails, InsertHistory, RollBack, RollBackFails, Commit, CommitAckLost, Finish,
         Abandon, AbandonCommitted, ReapOrphan, TakeRow, StartSweep, SweepFullBatch,
         SweepLastBatch, SweepFails, Tick, handler, TypeOK
    <2> QED BY <1>7, <2>1, <2>2 DEF Settled
  <1> QED BY <1>3, <1>4, <1>5, <1>6, <1>7 DEF Settled

(* No step changes which snapshots are valid at a settled instant: a new    *)
(* version starts later, and a sweep removes only what ended before its     *)
(* horizon.                                                                 *)
LEMMA ValidAtStays ==
    ASSUME TypeOK, WorkInv, IInv, Next,
           NEW l \in Lists, NEW t \in Int, Settled(l, t), t >= horizon', horizon' \in Int
    PROVE  ValidAt(l, t)' = ValidAt(l, t)
  <1>1. ASSUME NEW r \in Requests,
               Commit(r) \/ CommitAckLost(r) \/ AbandonCommitted(r)
        PROVE  ValidAt(l, t)' = ValidAt(l, t)
    <2> DEFINE s == build_snapshot(r)
    <2>1. /\ pc[r] = "commit" /\ work[r] \in Record
          /\ history' = history \cup {s} \/ history' = history
      BY <1>1 DEF Commit, CommitAckLost, AbandonCommitted, Land, WorkInv, Holding
    <2>2. s.list = l => ~(s.iat <= t)
      <3>1. s.list = req[r].list /\ s.iat = work[r].stamp /\ s.iat \in Nat
        BY <2>1, SnapshotTyped DEF Snapshot
      <3>2. req[r].list = l => work[r].stamp > t
        BY <2>1 DEF Settled, Holding
      <3> QED BY <3>1, <3>2
    <2> HIDE DEF s
    <2> QED BY <2>1, <2>2 DEF ValidAt
  <1>2. ASSUME SweepFullBatch \/ SweepLastBatch
        PROVE  ValidAt(l, t)' = ValidAt(l, t)
    <2>1. /\ history' \subseteq history
          /\ \A s \in history \ history' : s.exp < sweep
          /\ sweep # None /\ horizon' = horizon
      BY <1>2 DEF SweepFullBatch, SweepLastBatch, Expired
    <2>2. sweep \in Int /\ sweep <= horizon
      BY <2>1 DEF TypeOK, IInv, HistoryInv
    <2>3. ASSUME NEW s \in history \ history' PROVE ~(t < s.exp)
      <3>1. s.exp \in Int
        BY <2>3, VersionTyped DEF IInv, HistoryInv
      <3> QED BY <2>1, <2>2, <2>3, <3>1
    <2> QED BY <2>1, <2>3 DEF ValidAt
  <1>3. ASSUME history' = history
        PROVE  ValidAt(l, t)' = ValidAt(l, t)
    BY <1>3 DEF ValidAt
  <1>4. ASSUME ~ \E r \in Requests : Commit(r) \/ CommitAckLost(r) \/ AbandonCommitted(r),
               ~(SweepFullBatch \/ SweepLastBatch)
        PROVE  history' = history
    BY <1>4 DEF Next, Handle, Refuse, PreparePublish, PrepareUpdate, UpdateMissingList,
       UpdateForeignList, InsertRow, InsertDuplicate, UpdateRow, UpdateConflict,
       StatementFails, InsertHistory, RollBack, RollBackFails, Finish,
       Abandon, ReapOrphan, TakeRow, StartSweep, SweepFails, Tick, store
  <1> QED BY <1>1, <1>2, <1>3, <1>4

(* What a historical query answers for a settled instant never changes,     *)
(* whatever writes, crashes and sweeps follow, until retention reaches it:  *)
(* the immutable marking of the answer is justified.                        *)
THEOREM HistorySettlesHolds == Spec => HistorySettles
  <1>1. TypeOK /\ WorkInv /\ IInv /\ [Next]_vars => [Settles]_vars
    <2> SUFFICES ASSUME TypeOK, WorkInv, IInv, Next,
                        NEW l \in Lists, NEW t \in QueryTimes, Settled(l, t)
                 PROVE  /\ Settled(l, t)'
                        /\ t >= horizon' => find_valid_at(l, t)' = find_valid_at(l, t)
      BY DEF Settles
    <2>1. TypeOK'
      BY TypeStep
    <2>2. t \in Int /\ horizon' \in Int
      BY <2>1, RetentionAssumption DEF QueryTimes, TypeOK
    <2>3. Settled(l, t)'
      BY <2>1, <2>2, SettledStays
    <2>4. ASSUME t >= horizon' PROVE find_valid_at(l, t)' = find_valid_at(l, t)
      <3>1. ValidAt(l, t)' = ValidAt(l, t)
        BY <2>2, <2>4, ValidAtStays
      <3> QED BY <3>1 DEF find_valid_at
    <2> QED BY <2>3, <2>4
  <1> QED BY <1>1, IInvAlways, PTL DEF Spec, HistorySettles

(* One step of the service is one step, or none, of the atomic register.    *)
LEMMA RegisterStep ==
    TypeOK /\ WorkInv /\ IInv /\ [Next]_vars => [Register!Next]_(Register!register)
  <1> SUFFICES ASSUME TypeOK, WorkInv, IInv, [Next]_vars
               PROVE  Register!Next \/ UNCHANGED <<row, history, horizon>>
    BY DEF Register!register
  <1> USE NoneAssumption DEF Holding
  <1>1. ASSUME NEW r \in Requests,
               Commit(r) \/ CommitAckLost(r) \/ AbandonCommitted(r)
        PROVE  Register!Next
    <2> DEFINE l == req[r].list
               s == build_snapshot(r)
    <2>1. /\ pc[r] = "commit"
          /\ l \in Lists
          /\ work[r] \in Record
          /\ row' = [row EXCEPT ![l] = work[r]]
          /\ history' = IF SnapshotsEnabled THEN history \cup {s} ELSE history
          /\ UNCHANGED horizon
      BY <1>1 DEF Commit, CommitAckLost, AbandonCommitted, Land, TypeOK, WorkInv
    <2>2. /\ s \in Snapshot
          /\ s.list = l
          /\ s.iat = work[r].stamp
          /\ s.applied = work[r].applied
      BY <2>1, SnapshotTyped
    <2> HIDE DEF l, s
    <2>3. row'[l] = work[r] /\ row' = [row EXCEPT ![l] = row'[l]]
      BY <2>1 DEF TypeOK
    <2>4. Register!Write(l)
      BY <2>1, <2>3 DEF Register!Write, Register!Record, Record
    <2>5. Register!Remember(l)
      BY <2>1, <2>2, <2>3 DEF Register!Remember, Register!Snapshot, Snapshot
    <2>6. CASE req[r].op = "publish"
      <3>1. row[l] = None /\ work[r].applied = {r}
        BY <2>1, <2>6 DEF IInv, HeldInv, WorkInv, l
      <3>2. Register!Publish(l, r)
        BY <2>1, <2>3, <2>4, <2>5, <3>1 DEF Register!Publish
      <3> QED BY <2>1, <3>2 DEF Register!Next
    <2>7. CASE req[r].op = "update"
      <3>1. /\ row[l] # None /\ row[l].stamp = read[r].stamp
            /\ work[r].stamp > read[r].stamp
            /\ work[r].applied = read[r].applied \cup {r}
            /\ work[r].issuer = read[r].issuer
            /\ read[r] \in Record /\ read[r] # None
            /\ row[l].issuer = read[r].issuer
        BY <2>1, <2>7 DEF IInv, HeldInv, ReadInv, WorkInv, l
      <3>2. PICK v \in versions : v.list = l /\ v.iat = read[r].stamp /\ v.applied = read[r].applied
        BY <3>1 DEF IInv, ReadInv, l
      <3>3. PICK w \in versions : w.list = l /\ w.iat = row[l].stamp /\ w.applied = row[l].applied
        BY <2>1, <3>1 DEF IInv, ChainInv
      <3>4. v.applied \subseteq w.applied /\ w.applied \subseteq v.applied
        <4>1. v.iat \in Nat /\ w.iat \in Nat
          BY VersionTyped
        <4>2. v.iat <= w.iat /\ w.iat <= v.iat /\ v.list = w.list
          BY <3>1, <3>2, <3>3, <4>1
        <4> QED BY <4>2 DEF IInv, ChainInv
      <3>5. read[r].applied = row[l].applied
        <4>1. v.applied = w.applied
          BY <3>4
        <4> QED BY <3>2, <3>3, <4>1
      <3>6. r \notin row[l].applied
        BY <2>1, <3>3 DEF IInv, AppliedInv
      <3>7. Register!Update(l, r)
        BY <2>1, <2>3, <2>4, <2>5, <3>1, <3>5, <3>6 DEF Register!Update
      <3> QED BY <2>1, <3>7 DEF Register!Next
    <2> QED BY <2>6, <2>7 DEF TypeOK, Operations
  <1>2. ASSUME StartSweep PROVE Register!Next
    <2>1. sweep' \in Int
      BY <1>2, ClockIsNat, RetentionAssumption DEF StartSweep, TypeOK
    <2> QED BY <1>2, <2>1 DEF StartSweep, TypeOK, store, Register!Next, Register!Purge
  <1>3. ASSUME SweepFullBatch \/ SweepLastBatch PROVE Register!Next
    <2>1. /\ history' \subseteq history
          /\ \A s \in history \ history' : s.exp < sweep
          /\ sweep # None
          /\ UNCHANGED <<row, horizon>>
      BY <1>3 DEF SweepFullBatch, SweepLastBatch, Expired
    <2>2. sweep \in Int /\ horizon \in Int /\ sweep <= horizon
      BY <2>1 DEF TypeOK, IInv, HistoryInv
    <2>3. \A s \in history \ history' : s.exp < horizon
      <3> SUFFICES ASSUME NEW s \in history \ history' PROVE s.exp < horizon
        OBVIOUS
      <3>1. s \in versions /\ s.exp < sweep
        BY <2>1 DEF IInv, HistoryInv
      <3>2. s.exp \in Int
        BY <3>1, VersionTyped
      <3> QED BY <2>2, <3>1, <3>2
    <2> QED BY <2>1, <2>2, <2>3 DEF Register!Next, Register!Purge
  <1>4. ASSUME NEW r \in Requests,
               \/ Refuse(r) \/ PreparePublish(r) \/ PrepareUpdate(r)
               \/ UpdateMissingList(r) \/ UpdateForeignList(r)
               \/ InsertRow(r) \/ InsertDuplicate(r) \/ UpdateRow(r) \/ UpdateConflict(r)
               \/ StatementFails(r) \/ InsertHistory(r) \/ RollBack(r) \/ RollBackFails(r)
               \/ Finish(r) \/ Abandon(r) \/ ReapOrphan(r)
        PROVE  UNCHANGED <<row, history, horizon>>
    BY <1>4 DEF Refuse, PreparePublish, PrepareUpdate, UpdateMissingList, UpdateForeignList,
       InsertRow, InsertDuplicate, UpdateRow, UpdateConflict, StatementFails, InsertHistory,
       RollBack, RollBackFails, Finish, Abandon, ReapOrphan, TakeRow, store
  <1>5. ASSUME SweepFails \/ Tick \/ UNCHANGED vars
        PROVE  UNCHANGED <<row, history, horizon>>
    BY <1>5 DEF SweepFails, Tick, vars, store
  <1> QED BY <1>1, <1>2, <1>3, <1>4, <1>5 DEF Next, Handle

(* The service with its transactions, races, crashes and sweeps implements  *)
(* the atomic register.                                                     *)
THEOREM ServiceImplementsRegister == Spec => ImplementsRegister
  <1>1. Init => Register!Init
    BY DEF Init, Register!Init
  <1> QED BY <1>1, RegisterStep, IInvAlways, PTL DEF Spec, ImplementsRegister, Register!Spec

=============================================================================
