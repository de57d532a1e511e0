-------------------------------- MODULE Store --------------------------------
(***************************************************************************)
(* The writes of the PostgreSQL store (internal/store/pg/db.go):           *)
(* InsertTransactions and InsertTransactionsUser as the service calls      *)
(* them, with one transaction each, from the goroutines of concurrent      *)
(* requests, against one Store value whose field txCount all of them share *)
(* without a lock.                                                         *)
(*                                                                         *)
(* The database is modelled by what the writes rely on: a bounded pool of  *)
(* connections, each open transaction holding one; uncommitted rows that   *)
(* make a conflicting writer wait; unique keys; rollback of whatever is    *)
(* open once the application context is done.  txCount++ and txCount-- are *)
(* a load and a store, and the comparison that follows a decrement sees    *)
(* the value just stored or whatever the field holds by then.              *)
(*                                                                         *)
(* A call that sends COMMIT, or an insert that commits itself, and gets an *)
(* error because the connection broke or the context was cancelled, does   *)
(* not know what the server did.  Such a transaction is in doubt: its call *)
(* has returned the error and its connection is thrown away, and some time *)
(* later the server has committed all of it or none (Settle).              *)
(*                                                                         *)
(* The branch of BeginTx that finds a *sql.Tx as the global executor is    *)
(* for tests only and left out; so are the columns of a row.               *)
(***************************************************************************)
EXTENDS Integers, FiniteSets

CONSTANTS Call,          \* calls of the two operations, one step of a request each
          Hash,          \* transaction hashes
          User,          \* authenticated users
          NonAuthenticatedUser,
          MaxOpenConns   \* SetMaxOpenConns

ASSUME UserAssumption  == NonAuthenticatedUser \notin User
ASSUME ConnsAssumption == MaxOpenConns \in Nat \ {0}

VARIABLES
    appDone,           \* the context of the store is cancelled
    txCount,           \* Store.txCount
    pc,                \* pc[c]: where call c stands
    arg,               \* arg[c]: the hash and the user of call c
    reg,               \* reg[c]: txCount as call c loaded, then changed it
    ending,            \* ending[c]: whether call c commits or rolls back
    dbTx,              \* dbTx[c]: the database transaction of call c
    wrote,             \* wrote[c]: its uncommitted rows
    transactions,      \* committed rows of the table transactions
    userTransactions,  \* committed rows of the table user_transactions
    overlapped         \* auxiliary: two calls of InsertTransactions overlapped

locals == <<pc, arg, reg, ending>>
tables == <<transactions, userTransactions>>
vars   == <<appDone, txCount, locals, dbTx, wrote, tables, overlapped>>

NoArg   == [hash |-> "none", user |-> NonAuthenticatedUser]
Counted == {"upsert", "addUser", "decLoad", "decStore"}
Insert  == {"begin", "incLoad", "incStore", "finish"} \cup Counted
Ended   == {"ok", "error"}

TypeOK ==
    /\ appDone \in BOOLEAN /\ overlapped \in BOOLEAN
    /\ txCount \in Int
    /\ pc      \in [Call -> {"idle", "linking"} \cup Insert \cup Ended]
    /\ arg     \in [Call -> [hash : Hash \cup {"none"}, user : User \cup {NonAuthenticatedUser}]]
    /\ reg     \in [Call -> Int]
    /\ ending  \in [Call -> {"commit", "rollback"}]
    /\ dbTx    \in [Call -> {"none", "open", "inDoubt", "committed", "rolledBack"}]
    /\ wrote   \in [Call -> SUBSET {"row", "link"}]
    /\ transactions     \subseteq Hash
    /\ userTransactions \subseteq User \X Hash

Init ==
    /\ appDone = FALSE /\ overlapped = FALSE
    /\ txCount = 0
    /\ pc      = [c \in Call |-> "idle"]
    /\ arg     = [c \in Call |-> NoArg]
    /\ reg     = [c \in Call |-> 0]
    /\ ending  = [c \in Call |-> "commit"]
    /\ dbTx    = [c \in Call |-> "none"]
    /\ wrote   = [c \in Call |-> {}]
    /\ transactions     = {}
    /\ userTransactions = {}

-----------------------------------------------------------------------------
Goto(c, where) == pc' = [pc EXCEPT ![c] = where]

\* The call returns, and its local variables are gone.
Return(c, how) == /\ Goto(c, how)
                  /\ reg'    = [reg EXCEPT ![c] = 0]
                  /\ ending' = [ending EXCEPT ![c] = "commit"]

Link(c) == <<arg[c].user, arg[c].hash>>

Open == {c \in Call : dbTx[c] = "open"}

\* Calls of InsertTransactions whose COMMIT was not answered.
InDoubt == {c \in Call : dbTx[c] = "inDoubt" /\ "row" \in wrote[c]}

\* The transactions that hold the rows they wrote against other writers.
Holding == Open \cup InDoubt

\* A connection of the pool is free for one more statement or transaction.
ConnFree == Cardinality(Open) < MaxOpenConns

\* One of the transactions D wrote the row that call c is about to write.
Locked(c, D) == \E d \in D \ {c} : "row" \in wrote[d] /\ arg[d].hash = arg[c].hash

\* One of the transactions D wrote the link that call c is about to write.
LinkLocked(c, D) == \E d \in D \ {c} : "link" \in wrote[d] /\ Link(d) = Link(c)

\* The database commits all that call c wrote.
Committed(c) ==
    /\ dbTx'  = [dbTx EXCEPT ![c] = "committed"]
    /\ wrote' = [wrote EXCEPT ![c] = {}]
    /\ transactions' = transactions \cup (IF "row" \in wrote[c] THEN {arg[c].hash} ELSE {})
    /\ userTransactions' = userTransactions \cup (IF "link" \in wrote[c] THEN {Link(c)} ELSE {})

\* It drops all of it.
RolledBack(c) ==
    /\ dbTx'  = [dbTx EXCEPT ![c] = "rolledBack"]
    /\ wrote' = [wrote EXCEPT ![c] = {}]
    /\ UNCHANGED tables

-----------------------------------------------------------------------------
(* InsertTransactions                                                      *)

CallInsert(c) ==
    /\ pc[c] = "idle"
    /\ Goto(c, "begin")
    /\ \E h \in Hash, u \in User \cup {NonAuthenticatedUser} :
          arg' = [arg EXCEPT ![c] = [hash |-> h, user |-> u]]
    /\ overlapped' = (overlapped \/ \E d \in Call : pc[d] \in Insert)
    /\ UNCHANGED <<appDone, txCount, reg, ending, dbTx, wrote, tables>>

\* boil.BeginTx takes a connection, waiting for one if need be.
Begin(c) ==
    /\ pc[c] = "begin"
    /\ ~appDone
    /\ ConnFree
    /\ dbTx' = [dbTx EXCEPT ![c] = "open"]
    /\ Goto(c, "incLoad")
    /\ UNCHANGED <<appDone, txCount, arg, reg, ending, wrote, tables, overlapped>>

BeginFails(c) ==
    /\ pc[c] = "begin"
    /\ Goto(c, "error")
    /\ UNCHANGED <<appDone, txCount, arg, reg, ending, dbTx, wrote, tables, overlapped>>

\* st.txCount++ in BeginTx
IncLoad(c) ==
    /\ pc[c] = "incLoad"
    /\ reg' = [reg EXCEPT ![c] = txCount]
    /\ Goto(c, "incStore")
    /\ UNCHANGED <<appDone, txCount, arg, ending, dbTx, wrote, tables, overlapped>>

\* ... its store; the copy is not used again and is forgotten
IncStore(c) ==
    /\ pc[c] = "incStore"
    /\ txCount' = reg[c] + 1
    /\ reg'     = [reg EXCEPT ![c] = 0]
    /\ Goto(c, "upsert")
    /\ UNCHANGED <<appDone, arg, ending, dbTx, wrote, tables, overlapped>>

\* Mutant: the anonymous user is linked like any other.
UpsertLinksAll(c) ==
    /\ pc[c] = "upsert"
    /\ dbTx[c] = "open" /\ ~appDone
    /\ ~Locked(c, Holding)
    /\ wrote'  = [wrote EXCEPT ![c] = @ \cup {"row"}]
    /\ ending' = [ending EXCEPT ![c] = "commit"]
    /\ Goto(c, "addUser")
    /\ UNCHANGED <<appDone, txCount, arg, reg, dbTx, tables, overlapped>>

\* Mutant: the upsert runs outside the transaction just begun.
UpsertOutside(c) ==
    /\ pc[c] = "upsert"
    /\ ~appDone
    /\ transactions' = transactions \cup {arg[c].hash}
    /\ ending' = [ending EXCEPT ![c] = "commit"]
    /\ Goto(c, IF arg[c].user # NonAuthenticatedUser THEN "addUser" ELSE "decLoad")
    /\ UNCHANGED <<appDone, txCount, arg, reg, dbTx, wrote, userTransactions, overlapped>>

\* INSERT ... ON CONFLICT (tx_hash) DO UPDATE
Upsert(c) ==
    /\ pc[c] = "upsert"
    /\ dbTx[c] = "open" /\ ~appDone
    /\ ~Locked(c, Holding)
    /\ wrote'  = [wrote EXCEPT ![c] = @ \cup {"row"}]
    /\ ending' = [ending EXCEPT ![c] = "commit"]
    /\ Goto(c, IF arg[c].user # NonAuthenticatedUser THEN "addUser" ELSE "decLoad")
    /\ UNCHANGED <<appDone, txCount, arg, reg, dbTx, tables, overlapped>>

\* Mutant: AddUsers runs outside the transaction just begun.
AddUsersOutside(c) ==
    /\ pc[c] = "addUser"
    /\ ~appDone
    /\ Link(c) \notin userTransactions
    /\ userTransactions' = userTransactions \cup {Link(c)}
    /\ Goto(c, "decLoad")
    /\ UNCHANGED <<appDone, txCount, arg, reg, ending, dbTx, wrote, transactions, overlapped>>

\* INSERT INTO user_transactions; the key (user_id, tx_hash) is unique.
AddUsers(c) ==
    /\ pc[c] = "addUser"
    /\ dbTx[c] = "open" /\ ~appDone
    /\ Link(c) \notin userTransactions
    /\ ~LinkLocked(c, Holding)
    /\ wrote'  = [wrote EXCEPT ![c] = @ \cup {"link"}]
    /\ Goto(c, "decLoad")
    /\ UNCHANGED <<appDone, txCount, arg, reg, ending, dbTx, tables, overlapped>>

\* Mutant: the error of a statement is dropped, the call goes on to commit.
StatementFailsDropped(c) ==
    /\ pc[c] \in {"upsert", "addUser"}
    /\ wrote'  = [wrote EXCEPT ![c] = {}]
    /\ ending' = [ending EXCEPT ![c] = "commit"]
    /\ Goto(c, "decLoad")
    /\ UNCHANGED <<appDone, txCount, arg, reg, dbTx, tables, overlapped>>

\* Mutant: the call returns the error without RollbackTx.
StatementFailsNoRollback(c) ==
    /\ pc[c] \in {"upsert", "addUser"}
    /\ wrote' = [wrote EXCEPT ![c] = {}]
    /\ Goto(c, "error")
    /\ UNCHANGED <<appDone, txCount, arg, reg, ending, dbTx, tables, overlapped>>

\* A statement fails: the server aborts the transaction and drops its locks,
\* the connection stays taken until RollbackTx gives it back.
StatementFails(c) ==
    /\ pc[c] \in {"upsert", "addUser"}
    /\ wrote'  = [wrote EXCEPT ![c] = {}]
    /\ ending' = [ending EXCEPT ![c] = "rollback"]
    /\ Goto(c, "decLoad")
    /\ UNCHANGED <<appDone, txCount, arg, reg, dbTx, tables, overlapped>>

\* st.txCount-- in CommitTx and RollbackTx
DecLoad(c) ==
    /\ pc[c] = "decLoad"
    /\ reg' = [reg EXCEPT ![c] = txCount]
    /\ Goto(c, "decStore")
    /\ UNCHANGED <<appDone, txCount, arg, ending, dbTx, wrote, tables, overlapped>>

DecStore(c) ==
    /\ pc[c] = "decStore"
    /\ reg'     = [reg EXCEPT ![c] = @ - 1]
    /\ txCount' = reg[c] - 1
    /\ Goto(c, "finish")
    /\ UNCHANGED <<appDone, arg, ending, dbTx, wrote, tables, overlapped>>

\* Mutant: the comparison sees the count from before the decrement.
CountSeenBefore(c) == {reg[c] + 1}

\* What the comparison st.txCount <= 0 may see.
CountSeen(c) == {reg[c], txCount}

\* COMMIT is sent, and the server says that it committed.
Commit(c) ==
    /\ pc[c] = "finish" /\ ending[c] = "commit"
    /\ \E n \in CountSeen(c) : n <= 0
    /\ dbTx[c] = "open" /\ ~appDone
    /\ Committed(c)
    /\ Return(c, "ok")
    /\ UNCHANGED <<appDone, txCount, arg, overlapped>>

\* COMMIT is sent, and no answer comes back: the connection broke or the
\* context was cancelled meanwhile.  The caller is told of an error.
CommitUnanswered(c) ==
    /\ pc[c] = "finish" /\ ending[c] = "commit"
    /\ \E n \in CountSeen(c) : n <= 0
    /\ dbTx[c] = "open" /\ ~appDone
    /\ dbTx' = [dbTx EXCEPT ![c] = "inDoubt"]
    /\ Return(c, "error")
    /\ UNCHANGED <<appDone, txCount, arg, wrote, tables, overlapped>>

\* The transaction was rolled back under a cancelled context, the server
\* refuses to commit it, or Rollback is called: it is gone.
Rollback(c) ==
    /\ pc[c] = "finish"
    /\ \E n \in CountSeen(c) : n <= 0
    /\ RolledBack(c)
    /\ Return(c, "error")
    /\ UNCHANGED <<appDone, txCount, arg, overlapped>>

\* The counter says that an outer transaction is still open: CommitTx and
\* RollbackTx return nil and nobody ends this one.
LeaveOpen(c) ==
    /\ pc[c] = "finish"
    /\ \E n \in CountSeen(c) : n > 0
    /\ Return(c, IF ending[c] = "commit" THEN "ok" ELSE "error")
    /\ UNCHANGED <<appDone, txCount, arg, dbTx, wrote, tables, overlapped>>

-----------------------------------------------------------------------------
(* InsertTransactionsUser, for a transaction the lookup found without a    *)
(* link to the user who asks.                                              *)

CallLink(c) ==
    /\ pc[c] = "idle"
    /\ \E h \in transactions, u \in User :
          /\ <<u, h>> \notin userTransactions
          /\ arg' = [arg EXCEPT ![c] = [hash |-> h, user |-> u]]
    /\ Goto(c, "linking")
    /\ UNCHANGED <<appDone, txCount, reg, ending, dbTx, wrote, tables, overlapped>>

\* Another call may have stored the link meanwhile: the duplicate is ignored.
LinkUser(c) ==
    /\ pc[c] = "linking"
    /\ ~appDone
    /\ ConnFree
    /\ ~LinkLocked(c, Holding)
    /\ userTransactions' = userTransactions \cup {Link(c)}
    /\ dbTx' = [dbTx EXCEPT ![c] = "committed"]
    /\ Goto(c, "ok")
    /\ UNCHANGED <<appDone, txCount, arg, reg, ending, wrote, transactions, overlapped>>

LinkFails(c) ==
    /\ pc[c] = "linking"
    /\ Goto(c, "error")
    /\ UNCHANGED <<appDone, txCount, arg, reg, ending, dbTx, wrote, tables, overlapped>>

\* The insert, which commits itself, is sent and not answered.
LinkUnanswered(c) ==
    /\ pc[c] = "linking"
    /\ ~appDone
    /\ ConnFree
    /\ dbTx'  = [dbTx EXCEPT ![c] = "inDoubt"]
    /\ wrote' = [wrote EXCEPT ![c] = {"link"}]
    /\ Goto(c, "error")
    /\ UNCHANGED <<appDone, txCount, arg, reg, ending, tables, overlapped>>

-----------------------------------------------------------------------------
AppCancel ==
    /\ ~appDone
    /\ appDone' = TRUE
    /\ UNCHANGED <<txCount, locals, dbTx, wrote, tables, overlapped>>

\* database/sql rolls back what was begun under a cancelled context.
AwaitDone(c) ==
    /\ appDone
    /\ dbTx[c] = "open"
    /\ RolledBack(c)
    /\ UNCHANGED <<appDone, txCount, locals, overlapped>>

\* The server is done with what it did not answer: COMMIT reached it, or the
\* connection was lost before.  A link on its own is inserted only now, and
\* waits for the transactions that hold it.
Settle(c) ==
    /\ dbTx[c] = "inDoubt"
    /\ (Committed(c) /\ ~LinkLocked(c, Holding)) \/ RolledBack(c)
    /\ UNCHANGED <<appDone, txCount, locals, overlapped>>

\* The application stopped, every call returned, nothing is open or in doubt.
Terminated == /\ appDone
              /\ \A c \in Call : pc[c] \in Ended /\ dbTx[c] \notin {"open", "inDoubt"}
              /\ UNCHANGED vars

InsertStep(c) == \/ Begin(c) \/ BeginFails(c) \/ IncLoad(c) \/ IncStore(c) \/ Upsert(c)
                 \/ AddUsers(c) \/ StatementFails(c) \/ DecLoad(c) \/ DecStore(c)
                 \/ Commit(c) \/ CommitUnanswered(c) \/ Rollback(c) \/ LeaveOpen(c)

LinkStep(c) == LinkUser(c) \/ LinkFails(c) \/ LinkUnanswered(c)

Next == \/ \E c \in Call : \/ CallInsert(c) \/ InsertStep(c) \/ CallLink(c) \/ LinkStep(c)
                           \/ AwaitDone(c) \/ Settle(c)
        \/ AppCancel
        \/ Terminated

Spec == Init /\ [][Next]_vars

(***************************************************************************)
(* Fairness.  A call that can go on does, and the database answers: a      *)
(* statement that is neither waiting nor doomed completes.  Failures the   *)
(* database may choose to report are not relied on, those it must report   *)
(* (a duplicate key, a cancelled context) are.  The server is done with a  *)
(* transaction in doubt at some time: it works COMMIT off, or notices that *)
(* the connection is gone.                                                 *)
(***************************************************************************)
MustFail(c) == \/ appDone /\ (BeginFails(c) \/ StatementFails(c) \/ LinkFails(c))
               \/ pc[c] = "addUser" /\ Link(c) \in userTransactions /\ StatementFails(c)

Progress(c) == \/ Begin(c) \/ IncLoad(c) \/ IncStore(c) \/ Upsert(c) \/ AddUsers(c)
               \/ DecLoad(c) \/ DecStore(c) \/ Commit(c) \/ Rollback(c) \/ LeaveOpen(c)
               \/ LinkUser(c) \/ MustFail(c)

FairSpec == Spec /\ \A c \in Call : /\ WF_vars(Progress(c))
                                /\ WF_vars(AwaitDone(c)) /\ WF_vars(Settle(c))

-----------------------------------------------------------------------------
(* Properties.                                                             *)

Stored(c) == /\ arg[c].hash \in transactions
             /\ arg[c].user # NonAuthenticatedUser => Link(c) \in userTransactions

\* A call that returned nil stored its rows: "first start dbTX, to ensure
\* that both eth TX and user/TX are inserted" (InsertTransactions).
AckStored == \A c \in Call : pc[c] = "ok" => Stored(c)

\* The same, as long as no two calls of InsertTransactions overlapped.
SerialAckStored == ~overlapped => AckStored

\* As long as none overlapped, a call that returned left no transaction open
\* behind it, whichever way it ended, and once none is in progress the shared
\* counter is back at zero: an imbalance outlives the call that made it and
\* decides whether later calls commit.
SerialBalanced ==
    ~overlapped => /\ \A c \in Open : pc[c] \in Insert
                   /\ (\A c \in Call : pc[c] \notin Insert) => txCount = 0

\* The tables hold what whole calls asked to store and nothing else: a call
\* that was told of an error has stored everything or nothing of it, or the
\* server has still to settle which, overlapping or not.  A caller that tries
\* again meets its own row with its link, or neither.
FailureAllOrNothing ==
    /\ \A c \in Call : dbTx[c] = "committed" => Stored(c)
    /\ \A h \in transactions : \E c \in Call : dbTx[c] = "committed" /\ arg[c].hash = h
    /\ \A l \in userTransactions : \E c \in Call : dbTx[c] = "committed" /\ Link(c) = l

\* As long as none overlapped, a call of InsertTransactions never waits for a
\* transaction of this program: one connection is free of them when it begins,
\* and none that nobody will end holds the row or the link that it writes.
\* It may wait for one in doubt, which the server ends by itself.
SerialNeverWaits ==
    ~overlapped => \A c \in Call : /\ pc[c] = "begin"   => ConnFree
                                   /\ pc[c] = "upsert"  => ~Locked(c, Open)
                                   /\ pc[c] = "addUser" => ~LinkLocked(c, Open)

\* A link refers to a stored row, whatever overlaps, fails or is rolled back:
\* the foreign key of user_transactions never refuses what the store writes.
LinksHaveRows == \A l \in userTransactions : l[2] \in transactions

\* Every call returns while none overlapped: no connection, row lock or count
\* that an earlier call left behind keeps it waiting for ever.
SerialCallsReturn ==
    \A c \in Call : pc[c] \in Insert \cup {"linking"} ~> pc[c] \in Ended \/ overlapped

-----------------------------------------------------------------------------
(* The inductive invariant of StoreProofs, in named parts.                 *)

\* Where call c stands tells what the counter, and its copy of it, hold.
CountAt(c) ==
    /\ pc[c] \in {"begin", "incLoad", "incStore", "finish"} => txCount = 0
    /\ pc[c] \in Counted => txCount = 1
    /\ pc[c] \in {"incStore", "finish"} => reg[c] = 0
    /\ pc[c] = "decStore" => reg[c] = 1

SerialCount ==
    /\ \A c, d \in Call : pc[c] \in Insert /\ pc[d] \in Insert => c = d
    /\ (\A c \in Call : pc[c] \notin Insert) => txCount = 0
    /\ \A c \in Call : CountAt(c)

\* A transaction about to commit wrote all that its call was asked to store.
WroteAll ==
    \A c \in Call :
       /\ pc[c] = "addUser" /\ dbTx[c] = "open" => "row" \in wrote[c]
       /\ pc[c] \in {"decLoad", "decStore", "finish"} /\ ending[c] = "commit" /\ dbTx[c] = "open"
             => /\ "row" \in wrote[c]
                /\ arg[c].user # NonAuthenticatedUser => "link" \in wrote[c]

\* A call that links a hash found it among the stored transactions.
LinkingStored ==
    \A c \in Call : pc[c] = "linking" \/ (dbTx[c] = "inDoubt" /\ c \notin InDoubt)
                      => arg[c].hash \in transactions

\* Only calls of an authenticated user write a link, none writes before it
\* began, and an insert in doubt was about to commit all it was asked to store.
ArgInv ==
    \A c \in Call :
       /\ pc[c] \in {"idle", "begin", "linking"} => wrote[c] = {} /\ dbTx[c] = "none"
       /\ dbTx[c] = "inDoubt" => pc[c] = "error" /\ wrote[c] # {}
       /\ dbTx[c] = "committed" => pc[c] \in Ended
       /\ pc[c] \in Insert \cup {"linking"} \/ wrote[c] # {} => arg[c].hash \in Hash
       /\ pc[c] \in {"addUser", "linking"} \/ "link" \in wrote[c] => arg[c].user \in User
       /\ c \in InDoubt /\ arg[c].user # NonAuthenticatedUser => "link" \in wrote[c]

\* A link that a transaction holds is in no other and is not committed: the
\* unique key holds across transactions that do not see each other.
LinksIsolated ==
    \A c \in Holding : "link" \in wrote[c] => /\ ~LinkLocked(c, Holding)
                                            /\ Link(c) \notin userTransactions

OpenInProgress == \A c \in Open : pc[c] \in Insert \ {"begin"}

SerialInv == ~overlapped => SerialCount /\ OpenInProgress /\ AckStored

IInv == TypeOK /\ ArgInv /\ WroteAll /\ LinkingStored /\ LinksIsolated
        /\ FailureAllOrNothing /\ SerialInv

-----------------------------------------------------------------------------
(* What the writes promise (StoreContract), read off their state.          *)

Status == [c \in Call |-> IF pc[c] \in Insert THEN "inserting"
                         ELSE IF c \in InDoubt THEN "inDoubt"
                         ELSE IF pc[c] = "error" THEN "failed" ELSE "free"]

Asked == [c \in Call |-> IF pc[c] \in Insert \/ c \in InDoubt THEN arg[c] ELSE NoArg]

Contract == INSTANCE StoreContract WITH Caller <- Call, status <- Status, arg <- Asked

\* Overlapping or not, InsertTransactions stores the row and its link in one
\* step or nothing at all, also when it has failed before the database made up
\* its mind; a link is stored by one call; and a call that returned nil
\* without storing overlapped another.
ContractKept == Contract!Spec
=============================================================================
