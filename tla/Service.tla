------------------------------- MODULE Service -------------------------------
(***************************************************************************)
(* What clients see: the routes of internal/server with their middleware,  *)
(* GetTransactionsByHashes of internal/app and the queries of the store,   *)
(* over the tables transactions and user_transactions, with the names that *)
(* hashes have in requests.                                                *)
(*                                                                         *)
(* A name is looked up, scheduled and answered as a string, in lower case, *)
(* but fetched as what common.HexToHash makes of it, and stored under the  *)
(* spelling of the node: 0x and 64 lower-case digits.  Any other spelling  *)
(* that passes the validation is an alias of the transaction it is fetched *)
(* as.                                                                     *)
(*                                                                         *)
(* FetchPool has the steps from ScheduleTasks to Receive in detail, Store  *)
(* those of the inserts; what Store shows of overlapping inserts is the    *)
(* action InsertLost here, of a commit whose answer is lost LateInsert.    *)
(* Times, user names and the columns of a row are left out.                *)
(***************************************************************************)
EXTENDS Integers, Sequences, FiniteSetsExt

CONSTANTS Tx,                    \* transactions of the chain
          User,                  \* rows of the table users
          NonAuthenticatedUser,
          Request,               \* requests
          Query,                 \* what clients ask the routes that take hashes
          MaxHashes              \* the most hashes a request may name, by route

Route    == {"query", "rlp"}
Spelling == {"lower", "mixed", "bare", "other"}

ASSUME UserAssumption  ==
    {NonAuthenticatedUser, "absent", "invalid", "malformed", "empty", "wrong"} \cap User = {}
ASSUME QueryAssumption ==
    /\ Query \subseteq [route : Route, encoding : {"hex", "0xhex", "broken"},
                        names : Seq([tx : Tx, spelling : Spelling])]
    /\ MaxHashes \in [Route -> Nat]

VARIABLES
    transactions,      \* rows of the table transactions
    userTransactions,  \* rows of the table user_transactions
    token,             \* token[u]: the token issued to user u last
    pc,                \* pc[r]: where request r stands
    route,             \* route[r]: the route that answers it
    user,              \* user[r]: the user of its context
    names,             \* names[r]: the hashes it asks for, in lower case
    available,         \* available[r]: the keys of availableMap
    unlinked,          \* unlinked[r]: rows found without a link to its user
    missing,           \* missing[r]: positions scheduled and not yet stored
    code,              \* code[r]: the HTTP status of its answer
    answer,            \* answer[r]: the transactions in it, by position
    failed,            \* auxiliary: failed[r], the database, the node or a
                       \* cancellation failed request r
    overlapped         \* auxiliary: two calls of InsertTransactions overlapped

tables == <<transactions, userTransactions>>
asked  == <<route, user, names>>
result == <<code, answer>>
vars   == <<tables, token, pc, asked, available, unlinked, missing, result,
            failed, overlapped>>

Name    == [tx : Tx, plain : BOOLEAN]
Running == {"select", "load", "link", "receive", "insert"}

TypeOK ==
    /\ transactions     \subseteq Tx
    /\ userTransactions \subseteq User \X Tx
    /\ token     \in [User -> {"none", "valid", "expired"}]
    /\ pc        \in [Request -> {"idle", "late", "done"} \cup Running]
    /\ route     \in [Request -> {"none", "eth", "all", "my"}]
    /\ user      \in [Request -> User \cup {NonAuthenticatedUser}]
    /\ names     \in [Request -> Seq(Name)]
    /\ available \in [Request -> SUBSET Tx]
    /\ unlinked  \in [Request -> SUBSET Tx]
    /\ missing   \in [Request -> SUBSET Nat]
    /\ code      \in [Request -> {0, 200, 401, 422, 500}]
    /\ DOMAIN answer = Request
    /\ \A r \in Request : /\ missing[r] \subseteq DOMAIN names[r]
                          /\ \A i \in DOMAIN answer[r] : answer[r][i] \in Tx
    /\ failed    \in [Request -> BOOLEAN]
    /\ overlapped \in BOOLEAN

\* The rows that anonymous clients of earlier runs left are still there.
Init ==
    /\ transactions \in SUBSET Tx /\ userTransactions = {}
    /\ token     = [u \in User |-> "none"]
    /\ pc        = [r \in Request |-> "idle"]
    /\ route     = [r \in Request |-> "none"]
    /\ user      = [r \in Request |-> NonAuthenticatedUser]
    /\ names     = [r \in Request |-> <<>>]
    /\ available = [r \in Request |-> {}]
    /\ unlinked  = [r \in Request |-> {}]
    /\ missing   = [r \in Request |-> {}]
    /\ code      = [r \in Request |-> 0]
    /\ answer    = [r \in Request |-> <<>>]
    /\ failed    = [r \in Request |-> FALSE]
    /\ overlapped = FALSE

-----------------------------------------------------------------------------
(* Authentication                                                          *)

\* The table users answers a name and password; no row is the anonymous user.
GetUser(credentials) ==
    IF credentials \in User THEN credentials ELSE NonAuthenticatedUser

\* POST /lime/authenticate.  A malformed body, an empty name or password and
\* unknown credentials get an error and no token.
Authenticate ==
    \E credentials \in User \cup {"malformed", "empty", "wrong"} :
        /\ credentials \notin {"malformed", "empty"}
        /\ GetUser(credentials) # NonAuthenticatedUser
        /\ token' = [token EXCEPT ![GetUser(credentials)] = "valid"]
        /\ UNCHANGED <<tables, pc, asked, available, unlinked, missing, result,
                       failed, overlapped>>

\* Four hours later (createToken).
Expire(u) ==
    /\ token[u] = "valid"
    /\ token' = [token EXCEPT ![u] = "expired"]
    /\ UNCHANGED <<tables, pc, asked, available, unlinked, missing, result,
                   failed, overlapped>>

\* AUTH_TOKEN: absent, a token of this server, or anything else.
Header == {"absent", "invalid"} \cup {u \in User : token[u] # "none"}

\* What the middleware lets through, with the user it attaches.
Accepted(header, optional) ==
    \/ optional /\ header = "absent"
    \/ header \in User /\ token[header] = "valid"

Attached(header) == IF header \in User THEN header ELSE NonAuthenticatedUser

-----------------------------------------------------------------------------
(* The routes.                                                             *)

\* Digits that are no list of strings, or have 0x before them, are refused.
decodeRLPToTxHashes(q) == q.encoding = "hex"

\* required,max=20,dive,len=66,hexadecimal of the query string, or a path of at
\* most 3000 digits.
Valid(q) ==
    /\ Len(q.names) <= MaxHashes[q.route]
    /\ IF q.route = "query"
       THEN q.names # <<>> /\ \A i \in DOMAIN q.names : q.names[i].spelling # "other"
       ELSE decodeRLPToTxHashes(q)

\* strings.ToLower
ToLower(sent) ==
    [i \in DOMAIN sent |-> [tx |-> sent[i].tx, plain |-> sent[i].spelling \in {"lower", "mixed"}]]

Refuse(r, status) ==
    /\ pc'   = [pc EXCEPT ![r] = "done"]
    /\ code' = [code EXCEPT ![r] = status]
    /\ UNCHANGED <<tables, token, asked, available, unlinked, missing, answer,
                   failed, overlapped>>

Admit(r, u, sent) ==
    /\ pc'    = [pc EXCEPT ![r] = "select"]
    /\ route' = [route EXCEPT ![r] = "eth"]
    /\ user'  = [user EXCEPT ![r] = u]
    /\ names' = [names EXCEPT ![r] = ToLower(sent)]
    /\ UNCHANGED <<tables, token, available, unlinked, missing, result, failed, overlapped>>

\* GET /lime/eth and /lime/eth/{rlphex} up to the call of the service.
Arrive(r) ==
    /\ pc[r] = "idle"
    /\ \E header \in Header, q \in Query :
          \/ ~Accepted(header, TRUE) /\ Refuse(r, 401)
          \/ Accepted(header, TRUE) /\ ~Valid(q) /\ Refuse(r, 422)
          \/ Accepted(header, TRUE) /\ Valid(q) /\ Admit(r, Attached(header), q.names)

\* A table without ORDER BY: its rows in any order.
Rows(S) == {s \in [1 .. Cardinality(S) -> S] : \A t \in S : \E i \in DOMAIN s : s[i] = t}

AllTransactions == Rows(transactions)

\* Mutant: the join is there, the condition on the user is not.
MyTransactionsOfAll(u) == Rows({t \in transactions : \E l \in userTransactions : l[2] = t})

MyTransactions(u) == Rows({t \in transactions : <<u, t>> \in userTransactions})

Respond(r, path, u, rows) ==
    /\ pc'     = [pc EXCEPT ![r] = "done"]
    /\ route'  = [route EXCEPT ![r] = path]
    /\ user'   = [user EXCEPT ![r] = u]
    /\ code'   = [code EXCEPT ![r] = 200]
    /\ answer' = [answer EXCEPT ![r] = rows]
    /\ UNCHANGED <<tables, token, names, available, unlinked, missing, failed, overlapped>>

\* GET /lime/all
GetAllTransactions(r) ==
    /\ pc[r] = "idle"
    /\ \E rows \in AllTransactions : Respond(r, "all", NonAuthenticatedUser, rows)

\* GET /lime/my
GetMyTransactions(r) ==
    /\ pc[r] = "idle"
    /\ \E header \in Header :
          \/ ~Accepted(header, FALSE) /\ Refuse(r, 401)
          \/ /\ Accepted(header, FALSE)
             /\ \E rows \in MyTransactions(header) : Respond(r, "my", header, rows)

-----------------------------------------------------------------------------
(* Service.GetTransactionsByHashes                                         *)

Goto(r, where) == pc' = [pc EXCEPT ![r] = where]

Anonymous(r) == user[r] = NonAuthenticatedUser

\* The string n is a key of a map whose keys are the spellings of the node.
Known(n, keys) == n.plain /\ n.tx \in keys

\* Mutant: the hashes do not restrict the rows.
SelectAll(r) ==
    /\ pc[r] = "select"
    /\ available' = [available EXCEPT ![r] = transactions]
    /\ Goto(r, IF Anonymous(r) THEN "link" ELSE "load")
    /\ UNCHANGED <<tables, token, asked, unlinked, missing, result, failed, overlapped>>

\* SELECT ... WHERE tx_hash IN (...): one row for each name that is a key.
Select(r) ==
    /\ pc[r] = "select"
    /\ available' = [available EXCEPT ![r] =
          {t \in transactions : \E i \in DOMAIN names[r] : Known(names[r][i], {t})}]
    /\ Goto(r, IF Anonymous(r) THEN "link" ELSE "load")
    /\ UNCHANGED <<tables, token, asked, unlinked, missing, result, failed, overlapped>>

\* Mutant: the users of a row are loaded without the condition on who asks.
LoadAllUsers(r) ==
    /\ pc[r] = "load"
    /\ unlinked' = [unlinked EXCEPT ![r] =
          {t \in available[r] : \A u \in User : <<u, t>> \notin userTransactions}]
    /\ Goto(r, "link")
    /\ UNCHANGED <<tables, token, asked, available, missing, result, failed, overlapped>>

\* Mutant: the users of all names are loaded, of rows that are not there as well.
LoadUsersOfNames(r) ==
    /\ pc[r] = "load"
    /\ unlinked' = [unlinked EXCEPT ![r] =
          {t \in {names[r][i].tx : i \in DOMAIN names[r]} : <<user[r], t>> \notin userTransactions}]
    /\ Goto(r, "link")
    /\ UNCHANGED <<tables, token, asked, available, missing, result, failed, overlapped>>

\* The eager load of the users of those rows, which is a second query and
\* restricted to the user who asks.
LoadUsers(r) ==
    /\ pc[r] = "load"
    /\ unlinked' = [unlinked EXCEPT ![r] =
          {t \in available[r] : <<user[r], t>> \notin userTransactions}]
    /\ Goto(r, "link")
    /\ UNCHANGED <<tables, token, asked, available, missing, result, failed, overlapped>>

\* Mutant: the duplicate key fails the request here as well.
InsertTransactionsUserStrict(r) ==
    /\ pc[r] = "link"
    /\ \E t \in unlinked[r] :
          IF <<user[r], t>> \in userTransactions
          THEN /\ Goto(r, "done")
               /\ code' = [code EXCEPT ![r] = 500]
               /\ UNCHANGED <<userTransactions, unlinked>>
          ELSE /\ unlinked' = [unlinked EXCEPT ![r] = @ \ {t}]
               /\ userTransactions' = userTransactions \cup {<<user[r], t>>}
               /\ UNCHANGED <<pc, code>>
    /\ UNCHANGED <<transactions, token, asked, available, missing, answer,
                   failed, overlapped>>

\* InsertTransactionsUser for one row; a link that is there by now is no error.
InsertTransactionsUser(r) ==
    /\ pc[r] = "link"
    /\ \E t \in unlinked[r] :
          /\ unlinked' = [unlinked EXCEPT ![r] = @ \ {t}]
          /\ userTransactions' = userTransactions \cup {<<user[r], t>>}
    /\ UNCHANGED <<transactions, token, pc, asked, available, missing, result,
                   failed, overlapped>>

\* The hashes that were not found, in the order of the request; one that the
\* request repeats is scheduled as often.
ScheduleTasks(r) ==
    /\ pc[r] = "link" /\ unlinked[r] = {}
    /\ missing' = [missing EXCEPT ![r] =
          {i \in DOMAIN names[r] : ~Known(names[r][i], available[r])}]
    /\ Goto(r, "receive")
    /\ UNCHANGED <<tables, token, asked, available, unlinked, result, failed, overlapped>>

\* The position whose result is read next, and what the node calls it.
NextResult(r) == Min(missing[r])
Fetched(r)    == names[r][NextResult(r)].tx

Inserting(r) == pc[r] = "insert"

\* A result arrives and goes to InsertTransactions.
Receive(r) ==
    /\ pc[r] = "receive" /\ missing[r] # {}
    /\ available' = [available EXCEPT ![r] = @ \cup {Fetched(r)}]
    /\ overlapped' = (overlapped \/ \E q \in Request : Inserting(q))
    /\ Goto(r, "insert")
    /\ UNCHANGED <<tables, token, asked, unlinked, missing, result, failed>>

\* Mutant: the anonymous user is linked like any other.
InsertTransactionsLinkAll(r) ==
    /\ Inserting(r)
    /\ <<user[r], Fetched(r)>> \notin userTransactions
    /\ transactions' = transactions \cup {Fetched(r)}
    /\ userTransactions' = userTransactions \cup {<<user[r], Fetched(r)>>}
    /\ missing' = [missing EXCEPT ![r] = @ \ {NextResult(r)}]
    /\ Goto(r, "receive")
    /\ UNCHANGED <<token, asked, available, unlinked, result, failed, overlapped>>

\* INSERT ... ON CONFLICT (tx_hash) DO UPDATE
Upsert(t) == transactions \cup {t}

\* Upsert and AddUsers are committed together.
InsertTransactions(r) ==
    /\ Inserting(r)
    /\ Anonymous(r) \/ <<user[r], Fetched(r)>> \notin userTransactions
    /\ transactions' = Upsert(Fetched(r))
    /\ userTransactions' = userTransactions \cup
          (IF Anonymous(r) THEN {} ELSE {<<user[r], Fetched(r)>>})
    /\ missing' = [missing EXCEPT ![r] = @ \ {NextResult(r)}]
    /\ Goto(r, "receive")
    /\ UNCHANGED <<token, asked, available, unlinked, result, failed, overlapped>>

\* The upsert tolerates a row that is there, AddUsers does not tolerate a link:
\* both are rolled back and the request fails.
InsertDuplicate(r) ==
    /\ Inserting(r)
    /\ ~Anonymous(r) /\ <<user[r], Fetched(r)>> \in userTransactions
    /\ Goto(r, "done")
    /\ code' = [code EXCEPT ![r] = 500]
    /\ UNCHANGED <<tables, token, asked, available, unlinked, missing, answer,
                   failed, overlapped>>

\* CommitTx returned nil without committing (see Store).
InsertLost(r) ==
    /\ Inserting(r) /\ overlapped
    /\ missing' = [missing EXCEPT ![r] = @ \ {NextResult(r)}]
    /\ Goto(r, "receive")
    /\ UNCHANGED <<tables, token, asked, available, unlinked, result, failed, overlapped>>

\* Mutant: the answer is txList, the rows found and then those fetched.
AnswerAsFound(r) ==
    /\ pc[r] = "receive" /\ missing[r] = {}
    /\ Goto(r, "done")
    /\ code' = [code EXCEPT ![r] = 200]
    /\ \E rows \in Rows(available[r]) : answer' = [answer EXCEPT ![r] = rows]
    /\ UNCHANGED <<tables, token, asked, available, unlinked, missing, failed, overlapped>>

\* The list in the order of the request: the names that are keys by now.
Answer(r) ==
    /\ pc[r] = "receive" /\ missing[r] = {}
    /\ Goto(r, "done")
    /\ code'   = [code EXCEPT ![r] = 200]
    /\ answer' = [answer EXCEPT ![r] =
          [i \in {j \in DOMAIN names[r] : Known(names[r][j], available[r])} |-> names[r][i].tx]]
    /\ UNCHANGED <<tables, token, asked, available, unlinked, missing, failed, overlapped>>

\* Request r waits for the database to store something.
Writing(r) == Inserting(r) \/ (pc[r] = "link" /\ unlinked[r] # {})

\* The database or the node fails, or a context is cancelled: the answer is an
\* error, what was stored before stays.  A write that is under way may have
\* reached the database all the same.  At "idle" it is a request of /lime/all or
\* /lime/my that fails.
Fail(r) ==
    /\ pc[r] \in Running \cup {"idle"}
    /\ Goto(r, IF Writing(r) THEN "late" ELSE "done")
    /\ code'   = [code EXCEPT ![r] = 500]
    /\ failed' = [failed EXCEPT ![r] = TRUE]
    /\ UNCHANGED <<tables, token, asked, available, unlinked, missing, answer, overlapped>>

\* The insert that request r was told has failed is committed, now or never.
LateInsert(r) ==
    /\ pc[r] = "late" /\ missing[r] # {}
    /\ transactions' = Upsert(Fetched(r))
    /\ userTransactions' = userTransactions \cup
          (IF Anonymous(r) THEN {} ELSE {<<user[r], Fetched(r)>>})
    /\ missing' = [missing EXCEPT ![r] = @ \ {NextResult(r)}]
    /\ Goto(r, "done")
    /\ UNCHANGED <<token, asked, available, unlinked, result, failed, overlapped>>

\* So is the link of a row found.
LateLink(r) ==
    /\ pc[r] = "late"
    /\ \E t \in unlinked[r] :
          /\ unlinked' = [unlinked EXCEPT ![r] = @ \ {t}]
          /\ userTransactions' = userTransactions \cup {<<user[r], t>>}
    /\ Goto(r, "done")
    /\ UNCHANGED <<transactions, token, asked, available, missing, result, failed, overlapped>>

-----------------------------------------------------------------------------
ServiceStep(r) == \/ Select(r) \/ LoadUsers(r) \/ InsertTransactionsUser(r)
                  \/ ScheduleTasks(r) \/ Receive(r) \/ InsertTransactions(r)
                  \/ InsertDuplicate(r) \/ InsertLost(r) \/ Answer(r)
                  \/ Fail(r) \/ LateInsert(r) \/ LateLink(r)

Next == \/ Authenticate
        \/ \E u \in User : Expire(u)
        \/ \E r \in Request : \/ Arrive(r) \/ GetAllTransactions(r) \/ GetMyTransactions(r)
                               \/ ServiceStep(r)

Spec == Init /\ [][Next]_vars

-----------------------------------------------------------------------------
(* Properties.                                                             *)

Listed(r)   == {answer[r][i] : i \in DOMAIN answer[r]}
Asks(r, t)  == \E i \in DOMAIN names[r] : names[r][i].tx = t
Answered(r) == route[r] = "eth" /\ code[r] = 200

\* A successful answer lists the transactions asked for by their proper names,
\* each at its place, found or fetched in whatever order, and nothing else; a
\* hash in another spelling is fetched and left out (getTransactionsByHashes).
AnswerExact ==
    \A r \in Request : Answered(r) =>
        answer[r] = [i \in {j \in DOMAIN names[r] : names[r][j].plain} |-> names[r][i].tx]

\* "the server should return all the transactions that this user has ever
\* asked for" (docs/ASSIGNMENT.md): the answer of /lime/my has what earlier
\* answers gave this user, unless two inserts overlapped, and nothing that the
\* user did not ask for.
MyTransactionsComplete ==
    [][\A r \in Request : pc[r] # "done" /\ pc'[r] = "done" /\ route'[r] = "my" =>
          /\ ~overlapped => \A q \in Request : Answered(q) /\ user[q] = user'[r] =>
                                Listed(q) \subseteq Listed(r)'
          /\ \A t \in Listed(r)' : \E q \in Request : user[q] = user'[r] /\ Asks(q, t)]_vars

\* "the server should remember that this user has asked for these specific
\* transaction hashes": what an answer gave is stored, and linked to the user
\* of the request if it had one, unless two inserts overlapped.
Remembered ==
    ~overlapped => \A r \in Request : Answered(r) => \A t \in Listed(r) :
        t \in transactions /\ (Anonymous(r) \/ <<user[r], t>> \in userTransactions)

\* A link is earned: its user once got a token and asked for this transaction.
LinksEarned ==
    \A l \in userTransactions : /\ token[l[1]] # "none"
                                /\ \E r \in Request : user[r] = l[1] /\ Asks(r, l[2])

\* The foreign key of user_transactions is never put to the test: a link has its
\* row, whatever fails, overlaps or comes late.
LinksHaveRows == \A l \in userTransactions : l[2] \in transactions

\* A request that fails though nothing failed it is one of a user, at a name
\* that its look-up did not find (a second spelling of a row that it did find is
\* one), whose transaction it names twice or another request of the same user
\* names: no request makes those of other users fail, and linking the rows found
\* (InsertTransactionsUser) makes none fail.
FailuresExplained ==
    \A r \in Request : code[r] = 500 /\ ~failed[r] =>
        /\ ~Anonymous(r) /\ missing[r] # {}
        /\ \/ \E i \in DOMAIN names[r] \ {NextResult(r)} : names[r][i].tx = Fetched(r)
           \/ \E q \in Request \ {r} : user[q] = user[r] /\ Asks(q, Fetched(r))

\* "upsert operation for each ethereum transaction" (InsertTransactions): a
\* valid request that nothing failed is not answered with an error.
NoSpuriousFailure == \A r \in Request : code[r] = 500 => failed[r]

-----------------------------------------------------------------------------
(* The inductive invariant of ServiceProofs, in named parts.               *)

\* What request r has where it stands.
Progressed(r) ==
    /\ pc[r] # "done" => route[r] \in {"none", "eth"}
    /\ pc[r] \notin {"late", "done"} => code[r] = 0
    /\ pc[r] = "late" => code[r] = 500 /\ failed[r]
    /\ pc[r] = "idle" => names[r] = <<>> /\ Anonymous(r)
    /\ pc[r] \in {"idle", "select", "load", "link"} => missing[r] = {}
    /\ pc[r] \in {"idle", "select", "load", "receive", "insert"} => unlinked[r] = {}
    /\ pc[r] = "load" \/ unlinked[r] # {} => ~Anonymous(r)
    /\ unlinked[r] = {} \/ missing[r] = {}
    /\ pc[r] = "insert" => missing[r] # {} /\ Fetched(r) \in available[r]

\* The map has every proper name whose result is not awaited, and before
\* anything is fetched no other name.
KeysAsked(r) ==
    /\ pc[r] \in {"receive", "insert"} =>
          \A i \in DOMAIN names[r] \ missing[r] :
              names[r][i].plain => names[r][i].tx \in available[r]
    /\ pc[r] \in {"load", "link"} =>
          \A t \in available[r] : \E i \in DOMAIN names[r] : Known(names[r][i], {t})
    /\ \A t \in unlinked[r] : t \in available[r] /\ Asks(r, t)

\* What is in the map is stored and linked, or about to be.
KeysStored(r) ==
    pc[r] \in {"load", "link", "receive", "insert"} => \A t \in available[r] :
        \/ pc[r] = "insert" /\ t = Fetched(r)
        \/ /\ t \in transactions
           /\ \/ Anonymous(r) \/ <<user[r], t>> \in userTransactions
              \/ pc[r] = "load" \/ t \in unlinked[r]

\* Rows found are never deleted, whoever else fails or overlaps.
FoundStored(r) == /\ pc[r] \in {"load", "link"} => available[r] \subseteq transactions
                  /\ unlinked[r] \subseteq transactions

UserTokens == \A r \in Request : Anonymous(r) \/ token[user[r]] # "none"

\* Position i of request r is stored: it was found, or fetched and inserted.
Settled(r, i) ==
    /\ pc[r] \in {"link", "late", "receive", "insert", "done"}
    /\ i \notin missing[r]
    /\ pc[r] = "link" => Known(names[r][i], available[r])

LinksSettled ==
    \A l \in userTransactions : \E r \in Request : \E i \in DOMAIN names[r] :
        user[r] = l[1] /\ names[r][i].tx = l[2] /\ Settled(r, i)

IInv == /\ TypeOK
        /\ \A r \in Request : Progressed(r) /\ KeysAsked(r) /\ FoundStored(r)
        /\ ~overlapped => \A r \in Request : KeysStored(r)
        /\ UserTokens
        /\ LinksSettled
        /\ LinksHaveRows
        /\ AnswerExact
        /\ Remembered
        /\ FailuresExplained

=============================================================================
