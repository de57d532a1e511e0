---------------------------- MODULE FetchContract ----------------------------
(***************************************************************************)
(* What Service.GetTransactionsByHashes owes the handler that calls it,    *)
(* with no pool, channel or context in sight.  A request starts with some  *)
(* number of hashes the database does not hold; it stores them one by one, *)
(* in the order of the request, and succeeds only when none is left.  It   *)
(* may fail at any time, keeping what it stored, and the storing it fails  *)
(* at may have been done.  It may crash (a panic net/http recovers) only   *)
(* after the client left or the application was told to stop.  FetchPool   *)
(* implements this specification.                                          *)
(***************************************************************************)
EXTENDS Naturals

CONSTANTS Request,     \* the requests being served
          MaxHashes    \* MaxHashes[r]: the most hashes request r may name

VARIABLES outcome,     \* outcome[r]: how far request r got
          missing,     \* missing[r]: how many of its hashes the store lacked
          stored,      \* the pairs <<r, i>> that request r stored
          canceled     \* requests whose client left, or all once the app stops

vars == <<outcome, missing, stored, canceled>>

Ended == {"ok", "error", "panic"}

Init == /\ outcome  = [r \in Request |-> "new"]
        /\ missing  = [r \in Request |-> 0]
        /\ stored   = {}
        /\ canceled = {}

Start(r) == /\ outcome[r] = "new"
            /\ outcome' = [outcome EXCEPT ![r] = "running"]
            /\ \E n \in 0..MaxHashes[r] : missing' = [missing EXCEPT ![r] = n]
            /\ UNCHANGED <<stored, canceled>>

\* The first of the missing hashes that is not stored is stored now.
Advance(r) == \E i \in 1..missing[r] :
                 /\ <<r, i>> \notin stored
                 /\ \A j \in 1..(i-1) : <<r, j>> \in stored
                 /\ stored' = stored \cup {<<r, i>>}

StoreNext(r) == /\ outcome[r] = "running"
                /\ Advance(r)
                /\ UNCHANGED <<outcome, missing, canceled>>

Succeed(r) == /\ outcome[r] = "running"
              /\ \A i \in 1..missing[r] : <<r, i>> \in stored
              /\ outcome' = [outcome EXCEPT ![r] = "ok"]
              /\ UNCHANGED <<missing, stored, canceled>>

Fail(r) == /\ outcome[r] \in {"new", "running"}
           /\ outcome' = [outcome EXCEPT ![r] = "error"]
           /\ UNCHANGED stored \/ (outcome[r] = "running" /\ Advance(r))
           /\ UNCHANGED <<missing, canceled>>

Crash(r) == /\ outcome[r] = "running"
            /\ r \in canceled
            /\ outcome' = [outcome EXCEPT ![r] = "panic"]
            /\ UNCHANGED <<missing, stored, canceled>>

Cancel(R) == /\ canceled' = canceled \cup R
             /\ UNCHANGED <<outcome, missing, stored>>

Next == \/ \E r \in Request : \/ Start(r) \/ StoreNext(r) \/ Succeed(r)
                              \/ Fail(r)  \/ Crash(r)
        \/ \E R \in SUBSET Request : Cancel(R)

Spec == Init /\ [][Next]_vars
=============================================================================
