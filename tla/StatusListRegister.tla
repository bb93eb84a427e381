------------------------- MODULE StatusListRegister -------------------------
(***************************************************************************)
(* What the write side of the status-list server promises, with requests,  *)
(* transactions, locks and failures left out: every list is a register     *)
(* that is created once and from then on only moves forward, each move     *)
(* made by one accepted request of the list's owner on top of everything   *)
(* accepted before it; each move records its snapshot in the same instant; *)
(* and snapshots disappear only once they lie behind the retention horizon.*)
(* StatusListService implements this specification.                        *)
(***************************************************************************)
EXTENDS Integers

CONSTANTS
    Requests,          \* client requests; a request stands for its status entries
    Lists,             \* list identifiers
    Issuers,           \* authenticated issuers
    SnapshotsEnabled,  \* history retention is configured
    None               \* absence of a row

VARIABLES
    row,      \* the status_lists table
    history,  \* the status_list_history table
    horizon   \* the furthest retention cutoff any sweep has used

register == <<row, history, horizon>>

Record == [issuer: Issuers, stamp: Nat, applied: SUBSET Requests]

Snapshot == [list: Lists, iat: Nat, exp: Nat, applied: SUBSET Requests]

Init ==
    /\ row = [l \in Lists |-> None]
    /\ history = {}
    /\ horizon = 0

(* List l takes the value it has in the next state, and no other list moves. *)
Write(l) ==
    /\ row'[l] \in Record
    /\ row' = [row EXCEPT ![l] = row'[l]]

(* The new value of list l is recorded by exactly one new snapshot.         *)
Remember(l) ==
    IF SnapshotsEnabled
    THEN \E s \in history' :
            /\ s \in Snapshot
            /\ s.list = l
            /\ s.iat = row'[l].stamp
            /\ s.applied = row'[l].applied
            /\ history' = history \cup {s}
    ELSE UNCHANGED history

(* A list comes into being with exactly one request's entries.              *)
Publish(l, r) ==
    /\ row[l] = None
    /\ Write(l)
    /\ row'[l].applied = {r}
    /\ Remember(l)
    /\ UNCHANGED horizon

(* A list moves forward by exactly one request, under an advancing stamp.   *)
Update(l, r) ==
    /\ row[l] # None
    /\ r \notin row[l].applied
    /\ Write(l)
    /\ row'[l].issuer = row[l].issuer
    /\ row'[l].stamp > row[l].stamp
    /\ row'[l].applied = row[l].applied \cup {r}
    /\ Remember(l)
    /\ UNCHANGED horizon

(* Retention moves its horizon forward and forgets what lies behind it.     *)
Purge ==
    /\ horizon' >= horizon
    /\ history' \subseteq history
    /\ \A s \in history \ history' : s.exp < horizon'
    /\ UNCHANGED row

Next ==
    \/ \E l \in Lists, r \in Requests : Publish(l, r) \/ Update(l, r)
    \/ Purge

Spec == Init /\ [][Next]_register

=============================================================================
