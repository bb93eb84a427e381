------------------------ MODULE FileRotation_proofs ------------------------
(* Proofs about FileRotation, for any number of requests, files contents    *)
(* and changes.                                                             *)
EXTENDS FileRotation, SequenceTheorems, TLAPS

(* Start-up and the debouncer never leave their steps, never read more      *)
(* files than they watch, and only pools that were opened are open.         *)
THEOREM TypeCorrect == Spec => []TypeOK
  <1> USE TargetsAssumption, WritesAssumption, BadAssumption
  <1>1. Init => TypeOK
    <2> SUFFICES ASSUME Init PROVE TypeOK
      OBVIOUS
    <2>1. Width \in {1, 2} /\ <<>> \in Seq(Content)
      BY DEF Width
    <2>2. file \in [1..Width -> Content]
      BY <2>1 DEF Init, Content
    <2> QED BY <2>1, <2>2 DEF Init, TypeOK, Starting
  <1>2. TypeOK /\ [Next]_vars => TypeOK'
    <2> SUFFICES ASSUME TypeOK, [Next]_vars
                 PROVE  TypeOK'
      OBVIOUS
    <2> USE DEF TypeOK
    <2>1. Width \in {1, 2}
      BY DEF Width
    <2>2. target' = target => Width' = Width
      BY DEF Width
    <2>3. file \in Seq(Content)
      BY <2>1, SeqDef
    <2>4. CASE Write
      <3>1. file' \in [1..Width -> Content]
        BY <2>1, <2>4 DEF Write
      <3>2. excused' \in {"none", "unwatched", "reverted", "failed"}
        BY <2>4 DEF Write, Excuse
      <3>3. unseen' \in 0..1
        BY <2>4 DEF Write
      <3> QED BY <2>2, <2>4, <3>1, <3>2, <3>3 DEF Write, debouncer, pools
    <2>5. CASE Touch
      BY <2>2, <2>5 DEF Touch, debouncer, pools
    <2>6. CASE Notify
      BY <2>2, <2>6 DEF Notify, files, debouncer, pools
    <2>7. CASE Poll
      <3>1. event' \in 0..1
        BY <2>7 DEF Poll
      <3> QED BY <2>2, <2>3, <2>7, <3>1 DEF Poll, files, debouncer, pools
    <2>8. CASE Read
      <3>1. Len(got) \in Nat /\ Len(got) + 1 \in 1..Width
        BY <2>1, <2>8 DEF Read
      <3>2. file[Len(got) + 1] \in Content
        BY <3>1
      <3>3. got' \in Seq(Content) /\ Len(got') = Len(got) + 1
        BY <2>8, <3>2 DEF Read
      <3> QED BY <2>1, <2>2, <2>8, <3>1, <3>3 DEF Read, files, watcher, pools
    <2>9. <<>> \in Seq(Content) /\ Len(<<>>) <= Width
      BY <2>1
    <2>10. CASE StartUp
      BY <2>2, <2>9, <2>10 DEF StartUp, Goto, Starting, files, watcher
    <2>11. CASE StartUpFails
      BY <2>2, <2>9, <2>11 DEF StartUpFails, Goto, Starting, files, watcher, pools
    <2>12. CASE Baseline
      BY <2>2, <2>9, <2>12 DEF Baseline, Goto, Starting, files, watcher, pools
    <2>13. CASE Receive
      BY <2>2, <2>9, <2>13 DEF Receive, Goto, Starting, files, watcher, pools
    <2>14. CASE Quiet
      BY <2>2, <2>9, <2>14 DEF Quiet, Goto, Starting, files, watcher, pools
    <2>15. CASE Compare
      BY <2>2, <2>9, <2>15 DEF Compare, Goto, Starting, files, watcher, pools
    <2>16. CASE Swap
      <3>1. pool' \in Nat /\ open' \subseteq 0..pool'
        <4>1. CASE target = "database"
          <5>1. pool' = pool + 1 /\ open' = open \cup {pool + 1}
            BY <2>16, <4>1 DEF Swap, SwapPool
          <5>2. pool \in Nat /\ \A p \in open : p \in 0..pool
            OBVIOUS
          <5> HIDE DEF TypeOK
          <5> QED BY <5>1, <5>2
        <4>2. CASE target # "database"
          BY <2>16, <4>2 DEF Swap, SwapPool
        <4> QED BY <4>1, <4>2
      <3> QED BY <2>2, <2>9, <2>16, <3>1 DEF Swap, Goto, Starting, files, watcher
    <2>17. CASE ReloadFails
      BY <2>2, <2>9, <2>17 DEF ReloadFails, Goto, Starting, files, watcher, pools
    <2>18. ASSUME NEW q \in Requests, Acquire(q) \/ ReleasePool(q)
           PROVE  TypeOK'
      <3>1. holder' \in [Requests -> Nat]
        BY <2>18 DEF Acquire, ReleasePool
      <3>2. UNCHANGED <<target, mode, files, watcher, event, debouncer, active, pool, open, faults, excused>>
        BY <2>18 DEF Acquire, ReleasePool
      <3> QED BY <2>2, <3>1, <3>2 DEF files, watcher, debouncer
    <2>19. CASE Drain
      BY <2>2, <2>19 DEF Drain, files, watcher, debouncer
    <2>20. CASE UNCHANGED vars
      BY <2>2, <2>20 DEF vars, files, watcher, debouncer, pools
    <2> QED
      BY <2>4, <2>5, <2>6, <2>7, <2>8, <2>10, <2>11, <2>12, <2>13, <2>14, <2>15, <2>16,
         <2>17, <2>18, <2>19, <2>20 DEF Next, Debouncer
  <1> QED BY <1>1, <1>2, PTL DEF Spec

(* ReloadingCertificateProvider never serves a certificate with a key of    *)
(* another pair, however the reads and the changes of the files interleave. *)
THEOREM ActiveMatchesHolds == Spec => []ActiveMatches
  <1>1. Init => ActiveMatches
    BY DEF Init, ActiveMatches, Validates
  <1>2. ActiveMatches /\ [Next]_vars => ActiveMatches'
    <2> SUFFICES ASSUME ActiveMatches, [Next]_vars
                 PROVE  ActiveMatches'
      OBVIOUS
    <2>1. CASE StartUp \/ Swap
      <3>1. Validates(got) /\ active' = got
        BY <2>1 DEF StartUp, Swap
      <3> QED BY <3>1 DEF ActiveMatches, Validates
    <2>2. CASE UNCHANGED active
      BY <2>2 DEF ActiveMatches, Validates
    <2>3. StartUp \/ Swap \/ UNCHANGED active
      BY DEF Next, vars, Debouncer, Write, Touch, Notify, Poll, Read, StartUpFails, Baseline,
             Receive, Quiet, Compare, ReloadFails, Acquire, ReleasePool, Drain
    <2> QED BY <2>1, <2>2, <2>3
  <1> QED BY <1>1, <1>2, PTL DEF Spec

(* drain_and_close_database never closes a pool that a request still uses,  *)
(* whatever rotations and requests interleave.                              *)
THEOREM NoUseAfterCloseHolds == Spec => []NoUseAfterClose
  <1>1. Init => PoolInv
    BY DEF Init, PoolInv, NoUseAfterClose
  <1>2. TypeOK /\ PoolInv /\ [Next]_vars => PoolInv'
    <2> SUFFICES ASSUME TypeOK, PoolInv, [Next]_vars
                 PROVE  PoolInv'
      OBVIOUS
    <2> USE DEF PoolInv, NoUseAfterClose
    <2>1. CASE StartUp
      BY <2>1 DEF StartUp, Goto
    <2>2. CASE Swap
      BY <2>2 DEF Swap, SwapPool, Goto
    <2>3. CASE Drain
      BY <2>3 DEF Drain, debouncer
    <2>4. ASSUME NEW q \in Requests, Acquire(q) \/ ReleasePool(q)
          PROVE  PoolInv'
      <3>1. /\ UNCHANGED <<pc, pool, open>>
            /\ holder' = [holder EXCEPT ![q] = holder'[q]]
            /\ holder'[q] = 0 \/ (pc # "load" /\ holder'[q] = pool)
        BY <2>4 DEF Acquire, ReleasePool, debouncer, TypeOK
      <3> QED BY <3>1 DEF TypeOK
    <2>5. CASE /\ UNCHANGED pools
               /\ pc' = "load" <=> pc = "load"
      BY <2>5 DEF pools
    <2>6. \/ StartUp \/ Swap \/ Drain
          \/ \E q \in Requests : Acquire(q) \/ ReleasePool(q)
          \/ (UNCHANGED pools /\ (pc' = "load" <=> pc = "load"))
      BY DEF Next, vars, Debouncer, Write, Touch, Notify, Poll, Read, StartUpFails, Baseline,
             Receive, Quiet, Compare, ReloadFails, Goto, debouncer
    <2> QED BY <2>1, <2>2, <2>3, <2>4, <2>5, <2>6
  <1>3. PoolInv => NoUseAfterClose
    BY DEF PoolInv
  <1> QED BY <1>1, <1>2, <1>3, TypeCorrect, PTL DEF Spec

=============================================================================
