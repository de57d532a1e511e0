---------------------------- MODULE StoreContract ----------------------------
(***************************************************************************)
(* What the writes of the store promise to those who call them, with no    *)
(* counter, connection or lock in sight.  InsertTransactions adds the row  *)
(* of a transaction and its link to the user who asked in one step, unless *)
(* that link is there already, or it fails.  One that failed added nothing *)
(* or is in doubt: then the row and the link are added in one step later,  *)
(* or never.  Once two calls overlapped, one may also succeed and add      *)
(* nothing.  InsertTransactionsUser links a row that is there.  Nothing is *)
(* ever removed.  Store implements this specification.                     *)
(***************************************************************************)
CONSTANTS Caller,                \* who calls, each one call at a time
          Hash,                  \* transaction hashes
          User,                  \* authenticated users
          NonAuthenticatedUser

VARIABLES
    transactions,      \* rows of the table transactions
    userTransactions,  \* rows of the table user_transactions
    status,            \* status[c]: whether c waits for InsertTransactions
    arg,               \* arg[c]: the hash and the user it asked to store
    overlapped         \* two calls of InsertTransactions overlapped

vars == <<transactions, userTransactions, status, arg, overlapped>>

NoArg == [hash |-> "none", user |-> NonAuthenticatedUser]

Init == /\ transactions = {} /\ userTransactions = {}
        /\ status = [c \in Caller |-> "free"]
        /\ arg    = [c \in Caller |-> NoArg]
        /\ overlapped = FALSE

CallInsert(c) ==
    /\ status[c] = "free"
    /\ status' = [status EXCEPT ![c] = "inserting"]
    /\ \E h \in Hash, u \in User \cup {NonAuthenticatedUser} :
          arg' = [arg EXCEPT ![c] = [hash |-> h, user |-> u]]
    /\ overlapped' = (overlapped \/ \E d \in Caller : status[d] = "inserting")
    /\ UNCHANGED <<transactions, userTransactions>>

Finish(c, from, to) ==
    /\ status[c] = from
    /\ status' = [status EXCEPT ![c] = to]
    /\ arg'    = [arg EXCEPT ![c] = NoArg]
    /\ UNCHANGED overlapped

\* The row and the link, or the row alone of an anonymous user.
Add(c) ==
    /\ transactions' = transactions \cup {arg[c].hash}
    /\ \/ /\ arg[c].user = NonAuthenticatedUser
          /\ UNCHANGED userTransactions
       \/ /\ arg[c].user # NonAuthenticatedUser
          /\ <<arg[c].user, arg[c].hash>> \notin userTransactions
          /\ userTransactions' = userTransactions \cup {<<arg[c].user, arg[c].hash>>}

Insert(c) == Finish(c, "inserting", "free") /\ Add(c)

Lose(c) == /\ overlapped
           /\ Finish(c, "inserting", "free")
           /\ UNCHANGED <<transactions, userTransactions>>

InsertFails(c) == /\ Finish(c, "inserting", "failed")
                  /\ UNCHANGED <<transactions, userTransactions>>

\* The call fails, and whether it stores is still open.
InsertInDoubt(c) ==
    /\ status[c] = "inserting"
    /\ status' = [status EXCEPT ![c] = "inDoubt"]
    /\ UNCHANGED <<transactions, userTransactions, arg, overlapped>>

Settle(c) == /\ Finish(c, "inDoubt", "failed")
             /\ Add(c) \/ UNCHANGED <<transactions, userTransactions>>

\* Anything else that a caller does fails.
Fail(c) == /\ status[c] = "free"
           /\ status' = [status EXCEPT ![c] = "failed"]
           /\ UNCHANGED <<transactions, userTransactions, arg, overlapped>>

Link == /\ \E h \in transactions, u \in User :
              userTransactions' = userTransactions \cup {<<u, h>>}
        /\ UNCHANGED <<transactions, status, arg, overlapped>>

Next == \/ \E c \in Caller : \/ CallInsert(c) \/ Insert(c) \/ Lose(c) \/ InsertFails(c)
                             \/ InsertInDoubt(c) \/ Settle(c) \/ Fail(c)
        \/ Link

Spec == Init /\ [][Next]_vars
=============================================================================
