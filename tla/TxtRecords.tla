----------------------------- MODULE TxtRecords -----------------------------
(* What a DNS provider promises the processes that answer DNS-01            *)
(* challenges: a call that creates or deletes a TXT value takes effect at   *)
(* most once, at one instant of the call, as one change of the record set   *)
(* that leaves every other value alone.  A call that returns without an     *)
(* error has taken effect; one that fails may have taken effect or not.     *)
CONSTANTS Owners, Names, Values, Nothing

Requests == [kind: {"create", "delete"}, name: Names, value: Values]

VARIABLES
    txt,    \* the values of each name
    call,   \* per owner: the call in progress
    taken,  \* per owner: 1 when that call has taken effect
    reply   \* per owner: what its last call returned

tvars == <<txt, call, taken, reply>>

TxtInit ==
    /\ txt = [n \in Names |-> {}]
    /\ call = [o \in Owners |-> Nothing]
    /\ taken = [o \in Owners |-> 0]
    /\ reply = [o \in Owners |-> "none"]

Begin(o) ==
    /\ call[o] = Nothing
    /\ \E q \in Requests : call' = [call EXCEPT ![o] = q]
    /\ UNCHANGED <<txt, taken, reply>>

After(q) ==
    [txt EXCEPT ![q.name] = IF q.kind = "create" THEN @ \cup {q.value} ELSE @ \ {q.value}]

Take(o) ==
    /\ call[o] # Nothing
    /\ taken[o] = 0
    /\ txt' = After(call[o])
    /\ taken' = [taken EXCEPT ![o] = 1]
    /\ UNCHANGED <<call, reply>>

(* The call returns; its effect may fall into the same instant.             *)
Return(o) ==
    LET settled == IF taken[o] = 1 THEN txt ELSE After(call[o])
    IN  /\ call[o] # Nothing
        /\ \/ txt' = settled /\ reply' = [reply EXCEPT ![o] = "ok"]
           \/ txt' \in {txt, settled} /\ reply' = [reply EXCEPT ![o] = "err"]
        /\ call' = [call EXCEPT ![o] = Nothing]
        /\ taken' = [taken EXCEPT ![o] = 0]

TxtNext == \E o \in Owners : Begin(o) \/ Take(o) \/ Return(o)

TxtSpec == TxtInit /\ [][TxtNext]_tvars
=============================================================================
