----------------------------- MODULE MemoryStore -----------------------------
(***************************************************************************)
(* The status lists of a replica that keeps them in memory                 *)
(* (outbound/memory.rs): two maps, each behind a lock of its own, written  *)
(* by the same Service calls as the SQL store.  A write holds the lock of  *)
(* the rows while it waits for that of the snapshots.                      *)
(***************************************************************************)
EXTENDS Integers, FiniteSets

CONSTANTS
    Writers,          \* publish and update requests, each sent once
    MemoryLists,
    MemoryIssuers,
    MemoryLifetime,   \* token_exp_secs
    MemoryRetention,  \* snapshot_retention_secs; 0 keeps no snapshots
    NoRow

ASSUME MemoryAssumption == MemoryLifetime \in Nat /\ MemoryRetention \in Nat

VARIABLES
    values,     \* MemoryStatusLists: the row of each list
    snapshots,  \* MemoryStatusListSnapshotRepo
    writer,     \* what each writer is at, read and wants to write
    horizon     \* the furthest cutoff of a sweep

memoryVars == <<values, snapshots, writer, horizon>>

Rows == [issuer : MemoryIssuers, stamp : Nat, applied : SUBSET Writers]

ASSUME NoRowAssumption == NoRow \notin Rows

NoRows == [l \in MemoryLists |-> NoRow]

NewWriter == [pc |-> "idle", op |-> "publish", list |-> NoRow, read |-> NoRow, work |-> NoRow]

MemoryTypeOK ==
    /\ values \in [MemoryLists -> Rows \cup {NoRow}]
    /\ \A s \in snapshots : s.list \in MemoryLists /\ s.applied \subseteq Writers
    /\ \A w \in Writers :
        /\ writer[w].pc \in {"idle", "lock", "snapshot", "row", "done"}
        /\ writer[w].op \in {"publish", "update"}
        /\ writer[w].read \in Rows \cup {NoRow} /\ writer[w].work \in Rows \cup {NoRow}
    /\ horizon \in Nat

MemoryInit ==
    /\ values = NoRows
    /\ snapshots = {}
    /\ writer = [w \in Writers |-> NewWriter]
    /\ horizon = 0

Locked == \E w \in Writers : writer[w].pc \in {"snapshot", "row"}

WriterAt(w, pc) == writer' = [writer EXCEPT ![w].pc = pc]

(* publish_status_list up to its insert. *)
MemoryPublish(w, l, i, now) ==
    /\ writer[w].pc = "idle"
    /\ writer' = [writer EXCEPT ![w] =
            [pc |-> "lock", op |-> "publish", list |-> l, read |-> NoRow,
             work |-> [issuer |-> i, stamp |-> now, applied |-> {w}]]]
    /\ UNCHANGED <<values, snapshots, horizon>>

Owned(l, i) == values[l] # NoRow /\ values[l].issuer = i

(* update_statuses up to its update: find takes the lock for reading. *)
MemoryUpdate(w, l, i, now) ==
    /\ writer[w].pc = "idle" /\ ~Locked
    /\ \/ ~Owned(l, i) /\ WriterAt(w, "done")
       \/ /\ Owned(l, i)
          /\ writer' = [writer EXCEPT ![w] =
                [pc |-> "lock", op |-> "update", list |-> l, read |-> values[l],
                 work |-> [issuer |-> i,
                           stamp |-> IF now > values[l].stamp THEN now ELSE values[l].stamp + 1,
                           applied |-> values[l].applied \cup {w}]]]
    /\ UNCHANGED <<values, snapshots, horizon>>

Vacant(w) == values[writer[w].list] = NoRow

(* Mutant: the row only has to be there. *)
Unchanged_present(w) == values[writer[w].list] # NoRow

Unchanged(w) ==
    /\ values[writer[w].list] # NoRow
    /\ values[writer[w].list].stamp = writer[w].read.stamp

(* insert, update and their variants with a snapshot: the lock is taken    *)
(* and the row looked up.  Otherwise AlreadyExists, or Ok(false), which    *)
(* becomes Conflict.                                                       *)
MemoryLock(w) ==
    /\ writer[w].pc = "lock" /\ ~Locked
    /\ IF (writer[w].op = "publish" /\ Vacant(w)) \/ (writer[w].op = "update" /\ Unchanged(w))
       THEN WriterAt(w, IF MemoryRetention > 0 THEN "snapshot" ELSE "row")
       ELSE WriterAt(w, "done")
    /\ UNCHANGED <<values, snapshots, horizon>>

SnapshotOf(w) ==
    [list |-> writer[w].list, iat |-> writer[w].work.stamp,
     exp |-> writer[w].work.stamp + MemoryLifetime, applied |-> writer[w].work.applied]

MemorySnapshot(w) ==
    /\ writer[w].pc = "snapshot"
    /\ snapshots' = snapshots \cup {SnapshotOf(w)}
    /\ WriterAt(w, "row")
    /\ UNCHANGED <<values, horizon>>

MemoryRow(w) ==
    /\ writer[w].pc = "row"
    /\ values' = [values EXCEPT ![writer[w].list] = writer[w].work]
    /\ WriterAt(w, "done")
    /\ UNCHANGED <<snapshots, horizon>>

MemoryWrites(w) == MemoryLock(w) \/ MemorySnapshot(w) \/ MemoryRow(w)

(* The client is gone.  The future is dropped where it waits for a lock,   *)
(* and the lock of the rows with it; between the insert of the snapshot    *)
(* and that of the row it does not wait.                                   *)
MemoryDropped(w) ==
    /\ writer[w].pc \in {"lock", "snapshot"}
    /\ WriterAt(w, "done")
    /\ UNCHANGED <<values, snapshots, horizon>>

(* delete_older_than, which holds the lock of the snapshots throughout. *)
MemorySweep(now) ==
    /\ MemoryRetention > 0 /\ now > MemoryRetention
    /\ LET cutoff == now - MemoryRetention IN
       /\ \E s \in snapshots : s.exp < cutoff
       /\ snapshots' = {s \in snapshots : ~(s.exp < cutoff)}
       /\ horizon' = IF cutoff > horizon THEN cutoff ELSE horizon
    /\ UNCHANGED <<values, writer>>

(* The process ends. *)
MemoryReset ==
    /\ values' = NoRows
    /\ snapshots' = {}
    /\ writer' = [w \in Writers |-> IF writer[w].pc = "idle" THEN writer[w]
                                    ELSE [writer[w] EXCEPT !.pc = "done"]]
    /\ UNCHANGED horizon

-----------------------------------------------------------------------------
(* The snapshots of rows that have been written. *)
Shown == snapshots \ {SnapshotOf(w) : w \in {v \in Writers : writer[v].pc = "row"}}

Atomic == INSTANCE StatusListRegister
            WITH Requests <- Writers, Lists <- MemoryLists, Issuers <- MemoryIssuers,
                 SnapshotsEnabled <- MemoryRetention > 0, None <- NoRow,
                 row <- values, history <- Shown

Forgotten == values' = NoRows /\ Shown' = {}

(* While a process lives, its maps are the register that the SQL store     *)
(* implements with transactions: a write takes effect once, with its       *)
(* snapshot, on top of the row it read, also when futures are dropped      *)
(* where they wait (update_with_snapshot, insert_with_snapshot).           *)
MemoryIsAtomic == [][Atomic!Next \/ Forgotten]_<<values, Shown, horizon>>

=============================================================================
