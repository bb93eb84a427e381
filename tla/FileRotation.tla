---------------------------- MODULE FileRotation ----------------------------
(***************************************************************************)
(* Rotation of secrets that are mounted as files: FileWatcher (a native or *)
(* a polling watcher that feeds a debouncer through a channel) and what    *)
(* its callback does for its two users, the certificate and signing key of *)
(* ReloadingCertificateProvider and the password of the database pool.     *)
(* Files are read one after the other and an operator changes them at any  *)
(* time.  The debouncer remembers fingerprints, not what was loaded; a     *)
(* SHA-256 fingerprint stands for the content it was taken of.             *)
(***************************************************************************)
EXTENDS Integers, Sequences

CONSTANTS
    Targets,    \* rotation.target of the watchers considered
    Requests,   \* requests that use the database
    Bodies,     \* what a secret file can hold
    MaxWrites,  \* bound: changes and other events of the files
    MaxFaults,  \* bound: reloads that fail although the files are valid
    Bad         \* a body that does not parse or is not accepted

ASSUME TargetsAssumption == Targets \subseteq {"token_signing_key", "database"}
ASSUME WritesAssumption == MaxWrites \in Nat /\ MaxFaults \in Nat
ASSUME BadAssumption == Bad \notin Bodies

VARIABLES
    target,      \* which of the two users this watcher serves
    mode,        \* whether the native watcher started or files are polled
    file,        \* what the watched files hold
    writes,      \* changes and other events so far
    unseen,      \* 1 when the native watcher has a change to report
    polled,      \* fingerprints of the polling task, empty before its first
    event,       \* 1 when the channel to the debouncer is not empty
    pc,          \* where start-up and then the debouncer stand
    got,         \* the files read so far in this pass
    last,        \* last_fingerprints
    active,      \* the files the active material or pool was loaded from
    pool,        \* the number of the active pool
    open,        \* the pools that are not closed
    holder,      \* per request: the pool it holds a reference to, or 0
    faults,
    excused      \* history variable: why the process may stay behind the file

files == <<file, writes>>
watcher == <<unseen, polled>>
debouncer == <<pc, got, last>>
pools == <<pool, open, holder>>
vars == <<target, mode, files, watcher, event, debouncer, active, pools, faults, excused>>

Content == Bodies \cup {Bad}

(* One password file, or a certificate and a key file.                      *)
Width == IF target = "database" THEN 1 ELSE 2

(* load_and_validate_signing_material: both files parse and the certificate *)
(* is for the key (bodies of one pair are equal); connect and ping: the     *)
(* database accepts the password.                                           *)
Validates(contents) ==
    /\ \A i \in DOMAIN contents : contents[i] # Bad
    /\ \A i, j \in DOMAIN contents : contents[i] = contents[j]

Starting == {"load", "baseline"}

TypeOK ==
    /\ target \in Targets
    /\ mode \in {"native", "poll"}
    /\ file \in [1..Width -> Content]
    /\ writes \in Nat
    /\ unseen \in 0..1
    /\ polled \in Seq(Content)
    /\ event \in 0..1
    /\ pc \in Starting \cup {"wait", "debounce", "fingerprint", "reload"}
    /\ got \in Seq(Content) /\ Len(got) <= Width
    /\ last \in Seq(Content)
    /\ active \in Seq(Content)
    /\ pool \in Nat
    /\ open \subseteq 0..pool
    /\ holder \in [Requests -> Nat]
    /\ faults \in Nat
    /\ excused \in {"none", "unwatched", "reverted", "failed"}

Init ==
    /\ target \in Targets
    /\ mode \in {"native", "poll"}
    /\ \E b \in Bodies : file = [i \in 1..Width |-> b]
    /\ writes = 0
    /\ unseen = 0
    /\ polled = <<>>
    /\ event = 0
    /\ pc = "load"
    /\ got = <<>>
    /\ last = <<>>
    /\ active = <<>>
    /\ pool = 0
    /\ open = {}
    /\ holder = [q \in Requests |-> 0]
    /\ faults = 0
    /\ excused = "none"

----------------------------------------------------------------------------
(* The operator.                                                            *)

(* Whether a change to the contents f can go unnoticed: nobody has taken    *)
(* fingerprints to compare with, or f is what somebody saw last.            *)
Excuse(f) ==
    CASE pc \in Starting \/ (mode = "poll" /\ polled = <<>>) -> "unwatched"
      [] f \in {last} \cup (IF mode = "poll" THEN {polled} ELSE {}) -> "reverted"
      [] OTHER -> "none"

(* One file is replaced, or (a mounted Secret's ..data link) all are.       *)
Write ==
    /\ writes < MaxWrites
    /\ \E b \in Content, S \in {{1}, {Width}, 1..Width} :
          /\ \E i \in S : file[i] # b
          /\ file' = [i \in 1..Width |-> IF i \in S THEN b ELSE file[i]]
          /\ excused' = Excuse(file')
    /\ writes' = writes + 1
    /\ unseen' = IF mode = "native" /\ pc # "load" THEN 1 ELSE 0
    /\ UNCHANGED <<target, mode, polled, event, debouncer, active, pools, faults>>

(* An event that changes no content: is_content_change lets it pass.        *)
Touch ==
    /\ mode = "native" /\ pc # "load"
    /\ writes < MaxWrites
    /\ writes' = writes + 1
    /\ unseen' = 1
    /\ UNCHANGED <<target, mode, file, polled, event, debouncer, active, pools, faults, excused>>

----------------------------------------------------------------------------
(* The watchers.                                                            *)

(* tx_events.blocking_send: queued events are told apart from none only,    *)
(* because the debouncer takes all of them before it looks at the files.    *)
Notify ==
    /\ unseen = 1
    /\ unseen' = 0
    /\ event' = 1
    /\ UNCHANGED <<target, mode, files, polled, debouncer, active, pools, faults, excused>>

(* A poll reads all files at once here: a reading torn by a write differs   *)
(* from the next one, which sends an event again.                           *)
Poll ==
    /\ mode = "poll" /\ pc # "load"
    /\ polled # file
    /\ polled' = file
    /\ event' = IF polled = <<>> THEN event ELSE 1
    /\ UNCHANGED <<target, mode, files, unseen, debouncer, active, pools, faults, excused>>

----------------------------------------------------------------------------
(* Start-up and the debouncer.                                              *)

Goto(step) == pc' = step /\ got' = <<>>

(* fingerprint_all and the loaders read the files in order, with an await   *)
(* before each.                                                             *)
Read ==
    /\ pc \in {"load", "baseline", "fingerprint", "reload"}
    /\ Len(got) < Width
    /\ got' = Append(got, file[Len(got) + 1])
    /\ UNCHANGED <<target, mode, files, watcher, event, pc, last, active, pools, faults, excused>>

(* build_state: the first load must validate, otherwise the process exits   *)
(* and is started again.  FileWatcher::spawn returns when the native        *)
(* watcher is installed.                                                    *)
StartUp ==
    /\ pc = "load" /\ Len(got) = Width
    /\ Validates(got)
    /\ active' = got
    /\ pool' = 1 /\ open' = {1}
    /\ Goto("baseline")
    /\ UNCHANGED <<target, mode, files, watcher, event, last, holder, faults, excused>>

StartUpFails ==
    /\ pc = "load" /\ Len(got) = Width
    /\ ~Validates(got)
    /\ Goto("load")
    /\ UNCHANGED <<target, mode, files, watcher, event, last, active, pools, faults, excused>>

(* spawn_debouncer takes its first fingerprints.                            *)
Baseline ==
    /\ pc = "baseline" /\ Len(got) = Width
    /\ last' = got
    /\ Goto("wait")
    /\ UNCHANGED <<target, mode, files, watcher, event, active, pools, faults, excused>>

(* rx.recv, and further events within DEBOUNCE of the one before.           *)
Receive ==
    /\ pc \in {"wait", "debounce"}
    /\ event = 1
    /\ event' = 0
    /\ Goto("debounce")
    /\ UNCHANGED <<target, mode, files, watcher, last, active, pools, faults, excused>>

Quiet ==
    /\ pc = "debounce" /\ event = 0
    /\ Goto("fingerprint")
    /\ UNCHANGED <<target, mode, files, watcher, event, last, active, pools, faults, excused>>

(* The fingerprints are recorded before the callback runs.                  *)
Compare ==
    /\ pc = "fingerprint" /\ Len(got) = Width
    /\ last' = got
    /\ Goto(IF got = last THEN "wait" ELSE "reload")
    /\ UNCHANGED <<target, mode, files, watcher, event, active, pools, faults, excused>>

----------------------------------------------------------------------------
(* The callbacks, which the debouncer awaits.                               *)

(* SwappableDatabaseConnection::swap; the signing material has no pool.     *)
SwapPool ==
    IF target = "database"
    THEN pool' = pool + 1 /\ open' = open \cup {pool + 1}
    ELSE UNCHANGED <<pool, open>>

(* Mutant: the callback swaps without validating.                           *)
Swap_unvalidated ==
    /\ pc = "reload" /\ Len(got) = Width
    /\ active' = got
    /\ SwapPool
    /\ Goto("wait")
    /\ UNCHANGED <<target, mode, files, watcher, event, last, holder, faults, excused>>

(* Mutant: events that arrived during the callback are thrown away.         *)
Swap_dropsEvents ==
    /\ pc = "reload" /\ Len(got) = Width
    /\ Validates(got)
    /\ active' = got
    /\ SwapPool
    /\ event' = 0
    /\ Goto("wait")
    /\ UNCHANGED <<target, mode, files, watcher, last, holder, faults, excused>>

(* reload_from_files, or connect, ping and swap.                            *)
Swap ==
    /\ pc = "reload" /\ Len(got) = Width
    /\ Validates(got)
    /\ active' = got
    /\ SwapPool
    /\ Goto("wait")
    /\ UNCHANGED <<target, mode, files, watcher, event, last, holder, faults, excused>>

(* A failed reload is logged and leaves what is active alone.               *)
ReloadFails ==
    /\ pc = "reload" /\ Len(got) = Width
    /\ IF Validates(got)
       THEN faults < MaxFaults /\ faults' = faults + 1 /\ excused' = "failed"
       ELSE UNCHANGED <<faults, excused>>
    /\ Goto("wait")
    /\ UNCHANGED <<target, mode, files, watcher, event, last, active, pools>>

----------------------------------------------------------------------------
(* The users of the database pool.                                          *)

(* SwappableDatabaseConnection::current.                                    *)
Acquire(q) ==
    /\ target = "database" /\ pc # "load"
    /\ holder[q] = 0
    /\ holder' = [holder EXCEPT ![q] = pool]
    /\ UNCHANGED <<target, mode, files, watcher, event, debouncer, active, pool, open, faults, excused>>

ReleasePool(q) ==
    /\ holder[q] # 0
    /\ holder' = [holder EXCEPT ![q] = 0]
    /\ UNCHANGED <<target, mode, files, watcher, event, debouncer, active, pool, open, faults, excused>>

(* Mutant: the old pool is closed at once.                                  *)
Drain_atOnce ==
    /\ \E p \in open \ {pool} : open' = open \ {p}
    /\ UNCHANGED <<target, mode, files, watcher, event, debouncer, active, pool, holder, faults, excused>>

(* Mutant: the drain waits until no request uses the database at all.       *)
Drain_whenIdle ==
    /\ \A q \in Requests : holder[q] = 0
    /\ \E p \in open \ {pool} : open' = open \ {p}
    /\ UNCHANGED <<target, mode, files, watcher, event, debouncer, active, pool, holder, faults, excused>>

(* drain_and_close_database: try_unwrap succeeds when the drain task holds  *)
(* the only reference left.                                                 *)
Drain ==
    /\ \E p \in open \ {pool} :
          /\ \A q \in Requests : holder[q] # p
          /\ open' = open \ {p}
    /\ UNCHANGED <<target, mode, files, watcher, event, debouncer, active, pool, holder, faults, excused>>

Debouncer ==
    \/ Read \/ StartUp \/ StartUpFails \/ Baseline
    \/ Receive \/ Quiet \/ Compare \/ Swap \/ ReloadFails

Next ==
    \/ Write \/ Touch \/ Notify \/ Poll
    \/ Debouncer
    \/ \E q \in Requests : Acquire(q) \/ ReleasePool(q)
    \/ Drain

Spec == Init /\ [][Next]_vars

(* The watcher thread, the two tasks and the drain tasks keep running, and  *)
(* every request ends.                                                      *)
Fairness ==
    /\ WF_vars(Debouncer) /\ WF_vars(Notify) /\ WF_vars(Poll) /\ WF_vars(Drain)
    /\ \A q \in Requests : WF_vars(ReleasePool(q))

FairSpec == Spec /\ Fairness

----------------------------------------------------------------------------
(* Properties.                                                              *)

(* What is active was validated as a whole: a certificate is never served   *)
(* with the key of another pair, although the files are read one by one     *)
(* while they change.                                                       *)
ActiveMatches == Validates(active)

(* No request holds a pool that was closed under it.                        *)
NoUseAfterClose == \A q \in Requests : holder[q] # 0 => holder[q] \in open

(* Every pool but the active one is closed in the end: a rotation does not  *)
(* leave connections behind, although requests keep coming.                 *)
OldPoolsClose == <>[](open \subseteq {pool})

CaughtUp == Validates(file) => active = file

(* Files that are valid in the end are what the process uses in the end,    *)
(* whatever was being read when they changed, unless their last change fell *)
(* into start-up, brought back what was seen last, or its reload failed.    *)
Follows == <>[](excused = "none" => CaughtUp)

----------------------------------------------------------------------------
(* The inductive invariant behind NoUseAfterClose: the active pool is open, *)
(* and nobody has a reference before there is a pool.                       *)
PoolInv ==
    /\ pc = "load" => \A q \in Requests : holder[q] = 0
    /\ pc # "load" => pool \in open
    /\ NoUseAfterClose
=============================================================================
