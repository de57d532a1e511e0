---------------------------- MODULE ServiceProofs ----------------------------
(***************************************************************************)
(* Proofs about Service for every set of transactions, users and requests, *)
(* whatever the requests ask for.                                          *)
(***************************************************************************)
EXTENDS Service, WellFoundedInduction, TLAPS

\* The receive loop has a next result as long as one is missing.
LEMMA NextIsMissing ==
    ASSUME NEW r \in Request, missing[r] \subseteq Nat, missing[r] # {}
    PROVE  NextResult(r) \in missing[r]
<1>1. PICK i \in missing[r] : \A j \in missing[r] : <<j, i>> \notin OpToRel(<, Nat)
  BY NatLessThanWellFounded, WFMin
<1>2. \A j \in missing[r] : ~ (j < i)
  BY <1>1, Zenon DEF OpToRel
<1>3. \A j \in missing[r] : i <= j
  BY <1>2
<1> QED
  BY <1>3 DEF NextResult, Min

\* The elements of a list of names are names.
LEMMA SeqElements ==
    ASSUME NEW S, NEW s \in Seq(S)
    PROVE  Len(s) \in Nat /\ DOMAIN s = 1 .. Len(s) /\ \A i \in DOMAIN s : s[i] \in S
OBVIOUS

\* Names are of transactions; so is the one that is fetched next.
LEMMA NamesTyped ==
    ASSUME TypeOK, NEW r \in Request
    PROVE  /\ DOMAIN names[r] \subseteq Nat
           /\ \A i \in DOMAIN names[r] : names[r][i] \in Name /\ names[r][i].tx \in Tx
           /\ missing[r] # {} => /\ NextResult(r) \in missing[r]
                                 /\ NextResult(r) \in DOMAIN names[r]
                                 /\ Fetched(r) \in Tx
<1>1. /\ DOMAIN names[r] \subseteq Nat
      /\ \A i \in DOMAIN names[r] : names[r][i] \in Name
  BY SeqElements DEF TypeOK
<1>2. \A i \in DOMAIN names[r] : names[r][i].tx \in Tx
  BY <1>1 DEF Name
<1>3. missing[r] \subseteq Nat /\ missing[r] \subseteq DOMAIN names[r]
  BY DEF TypeOK
<1>4. missing[r] # {} => NextResult(r) \in missing[r]
  BY <1>3, NextIsMissing
<1> QED
  BY <1>1, <1>2, <1>3, <1>4 DEF Fetched

\* The tables and requests that the server starts with satisfy the invariant.
LEMMA InitIInv == Init => IInv
<1> SUFFICES ASSUME Init PROVE IInv
  OBVIOUS
<1> USE DEF Init
<1>1. TypeOK
  <2>1. names \in [Request -> Seq(Name)] /\ missing \in [Request -> SUBSET Nat]
    OBVIOUS
  <2>2. \A r \in Request : missing[r] \subseteq DOMAIN names[r] /\ DOMAIN answer[r] = {}
    OBVIOUS
  <2>3. /\ available \in [Request -> SUBSET Tx]
        /\ unlinked \in [Request -> SUBSET Tx]
    OBVIOUS
  <2>4. /\ transactions \subseteq Tx /\ userTransactions \subseteq User \X Tx
        /\ token \in [User -> {"none", "valid", "expired"}]
        /\ pc \in [Request -> {"idle", "done"} \cup Running]
        /\ route \in [Request -> {"none", "eth", "all", "my"}]
        /\ user \in [Request -> User \cup {NonAuthenticatedUser}]
    OBVIOUS
  <2>5. /\ code \in [Request -> {0, 200, 401, 422, 500}]
        /\ DOMAIN answer = Request
        /\ failed \in [Request -> BOOLEAN]
        /\ overlapped \in BOOLEAN
    OBVIOUS
  <2> HIDE DEF Init
  <2> QED
    BY <2>1, <2>2, <2>3, <2>4, <2>5 DEF TypeOK
<1>2. /\ \A r \in Request : Progressed(r) /\ KeysAsked(r) /\ FoundStored(r) /\ KeysStored(r)
      /\ UserTokens /\ LinksSettled /\ LinksHaveRows
  BY DEF Progressed, KeysAsked, FoundStored, KeysStored, UserTokens, LinksSettled,
         LinksHaveRows, Anonymous
<1>3. AnswerExact /\ Remembered /\ FailuresExplained
  BY DEF AnswerExact, Remembered, FailuresExplained, Answered
<1> QED
  BY <1>1, <1>2, <1>3 DEF IInv

\* strings.ToLower of a list is a list of names.
LEMMA ToLowerNames ==
    ASSUME NEW q \in Query
    PROVE  ToLower(q.names) \in Seq(Name)
<1>1. q.names \in Seq([tx : Tx, spelling : Spelling])
  BY QueryAssumption
<1> DEFINE n == Len(q.names)
<1>2. n \in Nat /\ DOMAIN q.names = 1 .. n
  BY <1>1, SeqElements
<1>3. \A i \in 1 .. n : q.names[i] \in [tx : Tx, spelling : Spelling]
  BY <1>1, <1>2, SeqElements
<1>4. \A i \in 1 .. n : [tx |-> q.names[i].tx, plain |-> q.names[i].spelling \in {"lower", "mixed"}]
                          \in Name
  BY <1>3 DEF Name
<1>5. ToLower(q.names) \in [1 .. n -> Name]
  BY <1>2, <1>4 DEF ToLower
<1> QED
  BY <1>2, <1>5

\* A refused request keeps the types.
LEMMA RefuseTyped ==
    ASSUME TypeOK, NEW r \in Request, NEW status \in {401, 422}, Refuse(r, status)
    PROVE  TypeOK'
BY DEF TypeOK, Refuse, tables, asked

\* Every step keeps the types.
LEMMA TypeStep ==
    TypeOK /\ (\A r \in Request : Progressed(r)) /\ [Next]_vars => TypeOK'
<1> SUFFICES ASSUME TypeOK, \A r \in Request : Progressed(r), [Next]_vars PROVE TypeOK'
  OBVIOUS
<1> USE DEF Running, Goto, vars, tables, asked, result
<1>1. CASE Authenticate
  BY <1>1 DEF TypeOK, Authenticate, GetUser
<1>2. ASSUME NEW u \in User, Expire(u) PROVE TypeOK'
  BY <1>2 DEF TypeOK, Expire
<1>3. ASSUME NEW r \in Request, Arrive(r) PROVE TypeOK'
  <2>1. CASE Refuse(r, 401) \/ Refuse(r, 422)
    BY <2>1, RefuseTyped
  <2>2. ASSUME NEW u \in User \cup {NonAuthenticatedUser}, NEW q \in Query, Admit(r, u, q.names)
        PROVE  TypeOK'
    <3>1. missing[r] = {} /\ ToLower(q.names) \in Seq(Name)
      BY <1>3, ToLowerNames DEF TypeOK, Arrive, Progressed
    <3> QED
      BY <2>2, <3>1 DEF TypeOK, Admit
  <2>3. \A header \in Header : Attached(header) \in User \cup {NonAuthenticatedUser}
    BY DEF Attached
  <2> QED
    BY <1>3, <2>1, <2>2, <2>3 DEF Arrive
<1>4. ASSUME NEW r \in Request, GetAllTransactions(r) PROVE TypeOK'
  BY <1>4 DEF TypeOK, GetAllTransactions, AllTransactions, Rows, Respond
<1>5. ASSUME NEW r \in Request, GetMyTransactions(r) PROVE TypeOK'
  <2>1. CASE Refuse(r, 401)
    BY <2>1, RefuseTyped
  <2>2. ASSUME NEW header \in User, NEW rows \in MyTransactions(header),
               Respond(r, "my", header, rows)
        PROVE  TypeOK'
    <3>1. \A i \in DOMAIN rows : rows[i] \in Tx
      BY DEF TypeOK, MyTransactions, Rows
    <3> QED
      BY <2>2, <3>1 DEF TypeOK, Respond
  <2> QED
    BY <1>5, <2>1, <2>2 DEF GetMyTransactions, Accepted
<1>6. ASSUME NEW r \in Request, Select(r) PROVE TypeOK'
  BY <1>6 DEF TypeOK, Select
<1>7. ASSUME NEW r \in Request, LoadUsers(r) PROVE TypeOK'
  BY <1>7 DEF TypeOK, LoadUsers
<1>8. ASSUME NEW r \in Request, InsertTransactionsUser(r) PROVE TypeOK'
  <2>1. user[r] \in User
    BY <1>8 DEF TypeOK, InsertTransactionsUser, Progressed, Anonymous
  <2> QED
    BY <1>8, <2>1 DEF TypeOK, InsertTransactionsUser
<1>9. ASSUME NEW r \in Request, ScheduleTasks(r) PROVE TypeOK'
  BY <1>9 DEF TypeOK, ScheduleTasks
<1>10. ASSUME NEW r \in Request, Receive(r) PROVE TypeOK'
  BY <1>10, NamesTyped DEF TypeOK, Receive
<1>11. ASSUME NEW r \in Request, InsertTransactions(r) PROVE TypeOK'
  BY <1>11, NamesTyped DEF TypeOK, InsertTransactions, Upsert, Inserting, Progressed, Anonymous
<1>12. ASSUME NEW r \in Request, InsertDuplicate(r) PROVE TypeOK'
  BY <1>12 DEF TypeOK, InsertDuplicate
<1>13. ASSUME NEW r \in Request, InsertLost(r) PROVE TypeOK'
  BY <1>13 DEF TypeOK, InsertLost
<1>14. ASSUME NEW r \in Request, Answer(r) PROVE TypeOK'
  <2>1. \A i \in DOMAIN names[r] : names[r][i].tx \in Tx
    BY NamesTyped
  <2> DEFINE list == [i \in {j \in DOMAIN names[r] : Known(names[r][j], available[r])} |-> names[r][i].tx]
  <2>2. \A i \in DOMAIN list : list[i] \in Tx
    BY <2>1 DEF TypeOK
  <2>3. answer' = [answer EXCEPT ![r] = list]
    BY <1>14 DEF TypeOK, Answer
  <2> HIDE DEF list
  <2> QED
    BY <1>14, <2>2, <2>3 DEF TypeOK, Answer
<1>15. ASSUME NEW r \in Request, Fail(r) PROVE TypeOK'
  BY <1>15 DEF TypeOK, Fail
<1>17. ASSUME NEW r \in Request, LateInsert(r) PROVE TypeOK'
  BY <1>17, NamesTyped DEF TypeOK, LateInsert, Upsert, Anonymous
<1>18. ASSUME NEW r \in Request, LateLink(r) PROVE TypeOK'
  <2>1. user[r] \in User
    BY <1>18 DEF TypeOK, LateLink, Progressed, Anonymous
  <2> QED
    BY <1>18, <2>1 DEF TypeOK, LateLink
<1>16. CASE UNCHANGED vars
  BY <1>16 DEF TypeOK
<1> QED
  BY <1>1, <1>2, <1>3, <1>4, <1>5, <1>6, <1>7, <1>8, <1>9, <1>10, <1>11, <1>12, <1>13, <1>14, <1>15, <1>16,
     <1>17, <1>18
  DEF Next, ServiceStep
-----------------------------------------------------------------------------
(* A step is one of a single request or leaves all requests alone.         *)

Step(r) == Arrive(r) \/ GetAllTransactions(r) \/ GetMyTransactions(r) \/ ServiceStep(r)

Same(r) == /\ pc'[r] = pc[r] /\ route'[r] = route[r] /\ user'[r] = user[r]
           /\ names'[r] = names[r] /\ available'[r] = available[r]
           /\ unlinked'[r] = unlinked[r] /\ missing'[r] = missing[r]
           /\ code'[r] = code[r] /\ answer'[r] = answer[r] /\ failed'[r] = failed[r]

\* The answers of /lime/my are made for the user of a valid token.
LEMMA MyCases ==
    ASSUME NEW r \in Request, GetMyTransactions(r)
    PROVE  /\ pc[r] = "idle"
           /\ \/ Refuse(r, 401)
              \/ \E header \in User : \E rows \in MyTransactions(header) :
                    token[header] = "valid" /\ Respond(r, "my", header, rows)
BY DEF GetMyTransactions, Accepted

\* Nobody, or a user who has a token.
Entitled(u) == u = NonAuthenticatedUser \/ (u \in User /\ token[u] # "none")

\* A step of one request is one of the routes or one of the service.
LEMMA StepSplit ==
    ASSUME NEW r \in Request, Step(r)
    PROVE  \/ pc[r] = "idle" /\ \E status \in {401, 422} : Refuse(r, status)
           \/ pc[r] = "idle" /\ \E header \in Header, q \in Query :
                 Accepted(header, TRUE) /\ Admit(r, Attached(header), q.names)
           \/ pc[r] = "idle" /\ \E path \in {"all", "my"} : \E u, rows :
                 Entitled(u) /\ Respond(r, path, u, rows)
           \/ ServiceStep(r)
<1>1. CASE Arrive(r)
  BY <1>1 DEF Arrive
<1>2. CASE GetAllTransactions(r)
  <2>1. pc[r] = "idle" /\ \E rows : Respond(r, "all", NonAuthenticatedUser, rows)
    BY <1>2 DEF GetAllTransactions
  <2>2. Entitled(NonAuthenticatedUser)
    BY DEF Entitled
  <2> QED
    BY <2>1, <2>2
<1>3. CASE GetMyTransactions(r)
  BY <1>3, MyCases DEF Entitled
<1>4. CASE ServiceStep(r)
  BY <1>4
<1> QED
  BY <1>1, <1>2, <1>3, <1>4 DEF Step

\* Only GetMyTransactions ends a request on the route /lime/my.
LEMMA MyRoute ==
    ASSUME TypeOK, NEW r \in Request, Progressed(r), Step(r), pc[r] # "done",
           route'[r] = "my"
    PROVE  GetMyTransactions(r)
<1> USE DEF TypeOK, Progressed, Goto, tables, asked, result
<1>1. route[r] # "my"
  OBVIOUS
<1>2. ASSUME Arrive(r) PROVE FALSE
  <2>1. \A status \in {401, 422} : Refuse(r, status) => UNCHANGED route
    BY DEF Refuse
  <2>2. \A u, sent : Admit(r, u, sent) => route' = [route EXCEPT ![r] = "eth"]
    BY DEF Admit
  <2>3. UNCHANGED route \/ route' = [route EXCEPT ![r] = "eth"]
    BY <1>2, <2>1, <2>2 DEF Arrive
  <2> QED
    BY <1>1, <2>3
<1>3. ASSUME GetAllTransactions(r) PROVE FALSE
  BY <1>3 DEF GetAllTransactions, Respond
<1>4. ASSUME ServiceStep(r) PROVE route' = route
  BY <1>4 DEF ServiceStep, Select, LoadUsers, InsertTransactionsUser, ScheduleTasks, Receive,
              InsertTransactions, InsertDuplicate, InsertLost, Answer, Fail,
              LateInsert, LateLink
<1> QED
  BY <1>1, <1>2, <1>3, <1>4 DEF Step

\* A request's step leaves every other request as it is.
LEMMA OthersSame ==
    ASSUME TypeOK, NEW r \in Request, Step(r)
    PROVE  \A o \in Request \ {r} : Same(o)
<1> USE DEF TypeOK, Same, Goto, tables, asked, result
<1>1. ASSUME pc[r] = "idle", NEW status \in {401, 422}, Refuse(r, status)
      PROVE  \A o \in Request \ {r} : Same(o)
  BY <1>1 DEF Refuse
<1>2. ASSUME pc[r] = "idle", NEW header \in Header, NEW q \in Query,
             Accepted(header, TRUE), Admit(r, Attached(header), q.names)
      PROVE  \A o \in Request \ {r} : Same(o)
  BY <1>2 DEF Admit
<1>3. ASSUME pc[r] = "idle", NEW path \in {"all", "my"}, NEW u, NEW rows,
             Entitled(u), Respond(r, path, u, rows)
      PROVE  \A o \in Request \ {r} : Same(o)
  BY <1>3 DEF Respond
<1>4. CASE Select(r)
  BY <1>4 DEF Select
<1>5. CASE LoadUsers(r)
  BY <1>5 DEF LoadUsers
<1>6. CASE InsertTransactionsUser(r)
  BY <1>6 DEF InsertTransactionsUser
<1>7. CASE ScheduleTasks(r)
  BY <1>7 DEF ScheduleTasks
<1>8. CASE Receive(r)
  BY <1>8 DEF Receive
<1>9. CASE InsertTransactions(r)
  BY <1>9 DEF InsertTransactions, Inserting, Upsert
<1>10. CASE InsertDuplicate(r)
  BY <1>10 DEF InsertDuplicate, Inserting
<1>11. CASE InsertLost(r)
  BY <1>11 DEF InsertLost, Inserting
<1>12. CASE Answer(r)
  BY <1>12 DEF Answer
<1>13. CASE Fail(r)
  BY <1>13 DEF Fail, Running
<1>18. CASE LateInsert(r)
  BY <1>18 DEF LateInsert, Upsert
<1>19. CASE LateLink(r)
  BY <1>19 DEF LateLink
<1> HIDE DEF TypeOK, Same
<1>14. CASE pc[r] = "idle" /\ \E status \in {401, 422} : Refuse(r, status)
  BY <1>1, <1>14
<1>15. CASE pc[r] = "idle" /\ \E header \in Header, q \in Query :
          Accepted(header, TRUE) /\ Admit(r, Attached(header), q.names)
  BY <1>2, <1>15
<1>16. CASE pc[r] = "idle" /\ \E path \in {"all", "my"} : \E u, rows :
          Entitled(u) /\ Respond(r, path, u, rows)
  BY <1>3, <1>16
<1>17. CASE ServiceStep(r)
  BY <1>4, <1>5, <1>6, <1>7, <1>8, <1>9, <1>10, <1>11, <1>12, <1>13, <1>17, <1>18, <1>19
  DEF ServiceStep
<1> QED
  BY StepSplit, <1>14, <1>15, <1>16, <1>17

\* The tables only grow, and only requests change them.
Grow == /\ transactions \subseteq transactions'
        /\ userTransactions \subseteq userTransactions'
        /\ overlapped => overlapped'
        /\ UNCHANGED token

\* A step of a request keeps every row, every link and every token.
LEMMA TablesGrow ==
    ASSUME TypeOK, NEW r \in Request, Step(r)
    PROVE  Grow
<1> USE DEF TypeOK, Grow, Goto, tables, asked, result
<1>1. ASSUME pc[r] = "idle", NEW status \in {401, 422}, Refuse(r, status)
      PROVE  Grow
  BY <1>1 DEF Refuse
<1>2. ASSUME pc[r] = "idle", NEW header \in Header, NEW q \in Query,
             Accepted(header, TRUE), Admit(r, Attached(header), q.names)
      PROVE  Grow
  BY <1>2 DEF Admit
<1>3. ASSUME pc[r] = "idle", NEW path \in {"all", "my"}, NEW u, NEW rows,
             Entitled(u), Respond(r, path, u, rows)
      PROVE  Grow
  BY <1>3 DEF Respond
<1>4. CASE Select(r)
  BY <1>4 DEF Select
<1>5. CASE LoadUsers(r)
  BY <1>5 DEF LoadUsers
<1>6. CASE InsertTransactionsUser(r)
  BY <1>6 DEF InsertTransactionsUser
<1>7. CASE ScheduleTasks(r)
  BY <1>7 DEF ScheduleTasks
<1>8. CASE Receive(r)
  BY <1>8 DEF Receive
<1>9. CASE InsertTransactions(r)
  BY <1>9 DEF InsertTransactions, Inserting, Upsert
<1>10. CASE InsertDuplicate(r)
  BY <1>10 DEF InsertDuplicate, Inserting
<1>11. CASE InsertLost(r)
  BY <1>11 DEF InsertLost, Inserting
<1>12. CASE Answer(r)
  BY <1>12 DEF Answer
<1>13. CASE Fail(r)
  BY <1>13 DEF Fail, Running
<1>18. CASE LateInsert(r)
  BY <1>18 DEF LateInsert, Upsert
<1>19. CASE LateLink(r)
  BY <1>19 DEF LateLink
<1> HIDE DEF TypeOK, Grow
<1>14. CASE pc[r] = "idle" /\ \E status \in {401, 422} : Refuse(r, status)
  BY <1>1, <1>14
<1>15. CASE pc[r] = "idle" /\ \E header \in Header, q \in Query :
          Accepted(header, TRUE) /\ Admit(r, Attached(header), q.names)
  BY <1>2, <1>15
<1>16. CASE pc[r] = "idle" /\ \E path \in {"all", "my"} : \E u, rows :
          Entitled(u) /\ Respond(r, path, u, rows)
  BY <1>3, <1>16
<1>17. CASE ServiceStep(r)
  BY <1>4, <1>5, <1>6, <1>7, <1>8, <1>9, <1>10, <1>11, <1>12, <1>13, <1>17, <1>18, <1>19
  DEF ServiceStep
<1> QED
  BY StepSplit, <1>14, <1>15, <1>16, <1>17

\* A step of the server is a step of one request, or leaves all requests and
\* the tables alone.
LEMMA StepCases ==
    ASSUME TypeOK, [Next]_vars
    PROVE  \/ \E r \in Request : Step(r)
           \/ /\ \A r \in Request : Same(r)
              /\ UNCHANGED <<transactions, userTransactions, overlapped>>
              /\ \A u \in User : token[u] # "none" => token'[u] # "none"
<1> USE DEF TypeOK, Same, vars, tables, asked, result
<1>1. CASE Authenticate
  BY <1>1 DEF Authenticate
<1>2. ASSUME NEW u \in User, Expire(u)
      PROVE  /\ \A r \in Request : Same(r)
             /\ UNCHANGED <<transactions, userTransactions, overlapped>>
             /\ \A v \in User : token[v] # "none" => token'[v] # "none"
  BY <1>2 DEF Expire
<1>3. CASE UNCHANGED vars
  BY <1>3
<1>4. CASE \E r \in Request : Step(r)
  BY <1>4
<1> QED
  BY <1>1, <1>2, <1>3, <1>4 DEF Next, Step

-----------------------------------------------------------------------------
\* What request r has depends on its own variables only.
LEMMA ProgressedSame ==
    ASSUME NEW r \in Request, Progressed(r), Same(r)
    PROVE  Progressed(r)'
BY DEF Progressed, Same, Fetched, NextResult, Anonymous

\* Each request gets its list, its rows and its code in the order of the code.
LEMMA ProgressedStep ==
    ASSUME TypeOK, NEW r \in Request, Progressed(r), Step(r)
    PROVE  Progressed(r)'
<1> USE UserAssumption DEF TypeOK, Progressed, Anonymous, Fetched, NextResult, Goto, tables, asked, result
<1>1. ASSUME pc[r] = "idle", NEW status \in {401, 422}, Refuse(r, status)
      PROVE  Progressed(r)'
  BY <1>1 DEF Refuse
<1>2. ASSUME pc[r] = "idle", NEW header \in Header, NEW q \in Query,
             Accepted(header, TRUE), Admit(r, Attached(header), q.names)
      PROVE  Progressed(r)'
  BY <1>2 DEF Admit
<1>3. ASSUME pc[r] = "idle", NEW path \in {"all", "my"}, NEW u, NEW rows,
             Entitled(u), Respond(r, path, u, rows)
      PROVE  Progressed(r)'
  BY <1>3 DEF Respond
<1>4. CASE Select(r)
  BY <1>4 DEF Select
<1>5. CASE LoadUsers(r)
  BY <1>5 DEF LoadUsers
<1>6. CASE InsertTransactionsUser(r)
  BY <1>6 DEF InsertTransactionsUser
<1>7. CASE ScheduleTasks(r)
  BY <1>7 DEF ScheduleTasks
<1>8. CASE Receive(r)
  BY <1>8 DEF Receive
<1>9. CASE InsertTransactions(r)
  BY <1>9 DEF InsertTransactions, Inserting, Upsert
<1>10. CASE InsertDuplicate(r)
  BY <1>10 DEF InsertDuplicate, Inserting
<1>11. CASE InsertLost(r)
  BY <1>11 DEF InsertLost, Inserting
<1>12. CASE Answer(r)
  BY <1>12 DEF Answer
<1>13. CASE Fail(r)
  BY <1>13 DEF Fail, Running
<1>18. CASE LateInsert(r)
  BY <1>18 DEF LateInsert, Upsert
<1>19. CASE LateLink(r)
  BY <1>19 DEF LateLink
<1> HIDE DEF TypeOK, Progressed, Anonymous, Fetched, NextResult
<1>14. CASE pc[r] = "idle" /\ \E status \in {401, 422} : Refuse(r, status)
  BY <1>1, <1>14
<1>15. CASE pc[r] = "idle" /\ \E header \in Header, q \in Query :
          Accepted(header, TRUE) /\ Admit(r, Attached(header), q.names)
  BY <1>2, <1>15
<1>16. CASE pc[r] = "idle" /\ \E path \in {"all", "my"} : \E u, rows :
          Entitled(u) /\ Respond(r, path, u, rows)
  BY <1>3, <1>16
<1>17. CASE ServiceStep(r)
  BY <1>4, <1>5, <1>6, <1>7, <1>8, <1>9, <1>10, <1>11, <1>12, <1>13, <1>17, <1>18, <1>19
  DEF ServiceStep
<1> QED
  BY StepSplit, <1>14, <1>15, <1>16, <1>17

\* The rows that a request found stay in the table.
LEMMA FoundStep ==
    ASSUME TypeOK, NEW r \in Request, FoundStored(r), Step(r)
    PROVE  FoundStored(r)'
<1>1. transactions \subseteq transactions'
  BY TablesGrow DEF Grow
<1> USE <1>1 DEF TypeOK, FoundStored, Goto, tables, asked, result
<1>2. CASE pc[r] = "idle" /\ \E status \in {401, 422} : Refuse(r, status)
  BY <1>2 DEF Refuse
<1>3. CASE pc[r] = "idle" /\ \E header \in Header, q \in Query :
          Accepted(header, TRUE) /\ Admit(r, Attached(header), q.names)
  BY <1>3 DEF Admit
<1>4. CASE pc[r] = "idle" /\ \E path \in {"all", "my"} : \E u, rows :
          Entitled(u) /\ Respond(r, path, u, rows)
  BY <1>4 DEF Respond
<1>5. CASE ServiceStep(r)
  <2>1. CASE Select(r)
    BY <2>1 DEF Select
  <2>2. CASE LoadUsers(r)
    BY <2>2 DEF LoadUsers
  <2>6. CASE InsertTransactionsUser(r)
    BY <2>6 DEF InsertTransactionsUser
  <2>3. CASE ScheduleTasks(r) \/ Receive(r) \/ Answer(r) \/ Fail(r)
    BY <2>3 DEF ScheduleTasks, Receive, Answer, Fail
  <2>5. CASE LateInsert(r) \/ LateLink(r)
    BY <2>5 DEF LateInsert, LateLink
  <2>4. CASE InsertTransactions(r) \/ InsertDuplicate(r) \/ InsertLost(r)
    BY <2>4 DEF InsertTransactions, InsertDuplicate, InsertLost
  <2> QED
    BY <1>5, <2>1, <2>2, <2>3, <2>4, <2>5, <2>6 DEF ServiceStep
<1> QED
  BY StepSplit, <1>2, <1>3, <1>4, <1>5

\* The keys of availableMap are compared with the request's own names only.
LEMMA KeysAskedSame ==
    ASSUME NEW r \in Request, KeysAsked(r), Same(r)
    PROVE  KeysAsked(r)'
BY DEF KeysAsked, Same, Asks

\* availableMap gets the names asked for, when they are found or received.
LEMMA KeysAskedStep ==
    ASSUME TypeOK, NEW r \in Request, Progressed(r), KeysAsked(r), Step(r)
    PROVE  KeysAsked(r)'
<1> USE DEF TypeOK, KeysAsked, Known, Asks, Goto, tables, asked, result
<1>1. ASSUME pc[r] = "idle", NEW status \in {401, 422}, Refuse(r, status)
      PROVE  KeysAsked(r)'
  BY <1>1 DEF Refuse
<1>2. ASSUME pc[r] = "idle", NEW header \in Header, NEW q \in Query,
             Accepted(header, TRUE), Admit(r, Attached(header), q.names)
      PROVE  KeysAsked(r)'
  <2>1. unlinked[r] = {}
    BY <1>2 DEF Progressed
  <2>2. UNCHANGED <<available, unlinked>> /\ pc'[r] = "select"
    BY <1>2 DEF Admit
  <2> QED
    BY <2>1, <2>2
<1>3. ASSUME pc[r] = "idle", NEW path \in {"all", "my"}, NEW u, NEW rows,
             Entitled(u), Respond(r, path, u, rows)
      PROVE  KeysAsked(r)'
  <2>1. UNCHANGED <<names, available, unlinked>> /\ pc'[r] = "done"
    BY <1>3 DEF Respond
  <2> QED
    BY <2>1
<1>4. CASE Select(r)
  <2>1. unlinked[r] = {}
    BY <1>4 DEF Select, Progressed
  <2>2. /\ available'[r] = {t \in transactions : \E i \in DOMAIN names[r] : Known(names[r][i], {t})}
        /\ pc'[r] \in {"load", "link"}
        /\ UNCHANGED <<names, unlinked>>
    BY <1>4 DEF Select
  <2> QED
    BY <2>1, <2>2
<1>5. CASE LoadUsers(r)
  BY <1>5 DEF LoadUsers
<1>6. CASE InsertTransactionsUser(r)
  BY <1>6 DEF InsertTransactionsUser
<1>7. CASE ScheduleTasks(r)
  BY <1>7 DEF ScheduleTasks
<1>8. CASE Receive(r)
  BY <1>8 DEF Receive
<1>9. CASE InsertTransactions(r)
  <2>1. missing'[r] = missing[r] \ {NextResult(r)} /\ names'[r][NextResult(r)].tx \in available'[r]
    BY <1>9 DEF InsertTransactions, Inserting, Progressed, Fetched
  <2>2. UNCHANGED <<names, available, unlinked>> /\ pc'[r] = "receive" /\ pc[r] = "insert"
    BY <1>9 DEF InsertTransactions, Inserting, Upsert
  <2> QED
    BY <2>1, <2>2
<1>10. CASE InsertDuplicate(r)
  BY <1>10 DEF InsertDuplicate, Inserting
<1>11. CASE InsertLost(r)
  <2>1. missing'[r] = missing[r] \ {NextResult(r)} /\ names'[r][NextResult(r)].tx \in available'[r]
    BY <1>11 DEF InsertLost, Inserting, Progressed, Fetched
  <2>2. UNCHANGED <<names, available, unlinked>> /\ pc'[r] = "receive" /\ pc[r] = "insert"
    BY <1>11 DEF InsertLost, Inserting
  <2> QED
    BY <2>1, <2>2
<1>12. CASE Answer(r)
  BY <1>12 DEF Answer
<1>13. CASE Fail(r)
  BY <1>13 DEF Fail, Running
<1>18. CASE LateInsert(r)
  BY <1>18 DEF LateInsert, Upsert
<1>19. CASE LateLink(r)
  BY <1>19 DEF LateLink
<1> HIDE DEF TypeOK, KeysAsked, Known, Asks
<1>14. CASE pc[r] = "idle" /\ \E status \in {401, 422} : Refuse(r, status)
  BY <1>1, <1>14
<1>15. CASE pc[r] = "idle" /\ \E header \in Header, q \in Query :
          Accepted(header, TRUE) /\ Admit(r, Attached(header), q.names)
  BY <1>2, <1>15
<1>16. CASE pc[r] = "idle" /\ \E path \in {"all", "my"} : \E u, rows :
          Entitled(u) /\ Respond(r, path, u, rows)
  BY <1>3, <1>16
<1>17. CASE ServiceStep(r)
  BY <1>4, <1>5, <1>6, <1>7, <1>8, <1>9, <1>10, <1>11, <1>12, <1>13, <1>17, <1>18, <1>19
  DEF ServiceStep
<1> QED
  BY StepSplit, <1>14, <1>15, <1>16, <1>17

-----------------------------------------------------------------------------
\* The steps of others only add rows and links, so what the map has stays stored.
LEMMA KeysStoredSame ==
    ASSUME NEW r \in Request, KeysStored(r), Same(r), transactions \subseteq transactions',
           userTransactions \subseteq userTransactions'
    PROVE  KeysStored(r)'
BY DEF KeysStored, Same, Fetched, NextResult, Anonymous

\* What is in availableMap is stored and linked before the next result is read,
\* as long as no inserts overlap.
LEMMA KeysStoredStep ==
    ASSUME TypeOK, NEW r \in Request, Progressed(r), KeysStored(r), ~overlapped, Step(r)
    PROVE  KeysStored(r)'
<1> USE DEF TypeOK, KeysStored, Fetched, NextResult, Anonymous, Goto, tables, asked, result
<1>1. ASSUME pc[r] = "idle", NEW status \in {401, 422}, Refuse(r, status)
      PROVE  KeysStored(r)'
  BY <1>1 DEF Refuse
<1>2. ASSUME pc[r] = "idle", NEW header \in Header, NEW q \in Query,
             Accepted(header, TRUE), Admit(r, Attached(header), q.names)
      PROVE  KeysStored(r)'
  BY <1>2 DEF Admit
<1>3. ASSUME pc[r] = "idle", NEW path \in {"all", "my"}, NEW u, NEW rows,
             Entitled(u), Respond(r, path, u, rows)
      PROVE  KeysStored(r)'
  BY <1>3 DEF Respond
<1>4. CASE Select(r)
  BY <1>4 DEF Select
<1>5. CASE LoadUsers(r)
  BY <1>5 DEF LoadUsers
<1>6. CASE InsertTransactionsUser(r)
  BY <1>6 DEF InsertTransactionsUser
<1>7. CASE ScheduleTasks(r)
  <2>1. /\ pc[r] = "link" /\ unlinked[r] = {} /\ pc'[r] = "receive"
        /\ UNCHANGED <<transactions, userTransactions, user, names, available, unlinked>>
    BY <1>7 DEF ScheduleTasks
  <2> QED
    BY <2>1
<1>8. CASE Receive(r)
  <2>1. /\ pc[r] = "receive" /\ pc'[r] = "insert"
        /\ UNCHANGED <<transactions, userTransactions, user, names, missing, unlinked>>
        /\ available'[r] = available[r] \cup {Fetched(r)}
    BY <1>8 DEF Receive
  <2>2. Fetched(r)' = Fetched(r)
    BY <2>1
  <2> HIDE DEF Fetched, NextResult
  <2> QED
    BY <2>1, <2>2
<1>9. CASE InsertTransactions(r)
  <2>1. /\ pc[r] = "insert" /\ pc'[r] = "receive" /\ UNCHANGED <<user, names, available, unlinked>>
        /\ transactions' = transactions \cup {Fetched(r)}
        /\ userTransactions \subseteq userTransactions'
        /\ Anonymous(r) \/ <<user[r], Fetched(r)>> \in userTransactions'
    BY <1>9 DEF InsertTransactions, Inserting, Upsert
  <2> QED
    BY <2>1
<1>10. CASE InsertDuplicate(r)
  BY <1>10 DEF InsertDuplicate, Inserting
<1>11. CASE InsertLost(r)
  BY <1>11 DEF InsertLost, Inserting
<1>12. CASE Answer(r)
  BY <1>12 DEF Answer
<1>13. CASE Fail(r)
  BY <1>13 DEF Fail, Running
<1>18. CASE LateInsert(r)
  BY <1>18 DEF LateInsert, Upsert
<1>19. CASE LateLink(r)
  BY <1>19 DEF LateLink
<1> HIDE DEF TypeOK, KeysStored, Fetched, NextResult, Anonymous
<1>14. CASE pc[r] = "idle" /\ \E status \in {401, 422} : Refuse(r, status)
  BY <1>1, <1>14
<1>15. CASE pc[r] = "idle" /\ \E header \in Header, q \in Query :
          Accepted(header, TRUE) /\ Admit(r, Attached(header), q.names)
  BY <1>2, <1>15
<1>16. CASE pc[r] = "idle" /\ \E path \in {"all", "my"} : \E u, rows :
          Entitled(u) /\ Respond(r, path, u, rows)
  BY <1>3, <1>16
<1>17. CASE ServiceStep(r)
  BY <1>4, <1>5, <1>6, <1>7, <1>8, <1>9, <1>10, <1>11, <1>12, <1>13, <1>17, <1>18, <1>19
  DEF ServiceStep
<1> QED
  BY StepSplit, <1>14, <1>15, <1>16, <1>17

-----------------------------------------------------------------------------
(* Users and links.                                                        *)

Tokened(r) == Anonymous(r) \/ (user[r] \in User /\ token[user[r]] # "none")

\* A request gets its user from a token that was issued to that user.
LEMMA TokenedStep ==
    ASSUME TypeOK, NEW r \in Request, Tokened(r), Step(r)
    PROVE  Tokened(r)'
<1> USE DEF TypeOK, Tokened, Anonymous, Entitled, Goto, tables, asked, result
<1>1. ASSUME pc[r] = "idle", NEW status \in {401, 422}, Refuse(r, status)
      PROVE  Tokened(r)'
  BY <1>1 DEF Refuse
<1>2. ASSUME pc[r] = "idle", NEW header \in Header, NEW q \in Query,
             Accepted(header, TRUE), Admit(r, Attached(header), q.names)
      PROVE  Tokened(r)'
  <2>1. Entitled(Attached(header))
    BY <1>2, UserAssumption DEF Accepted, Attached, Entitled
  <2>2. user'[r] = Attached(header) /\ UNCHANGED token
    BY <1>2 DEF Admit
  <2> QED
    BY <2>1, <2>2
<1>3. ASSUME pc[r] = "idle", NEW path \in {"all", "my"}, NEW u, NEW rows,
             Entitled(u), Respond(r, path, u, rows)
      PROVE  Tokened(r)'
  BY <1>3 DEF Respond
<1>4. CASE Select(r)
  BY <1>4 DEF Select
<1>5. CASE LoadUsers(r)
  BY <1>5 DEF LoadUsers
<1>6. CASE InsertTransactionsUser(r)
  BY <1>6 DEF InsertTransactionsUser
<1>7. CASE ScheduleTasks(r)
  BY <1>7 DEF ScheduleTasks
<1>8. CASE Receive(r)
  BY <1>8 DEF Receive
<1>9. CASE InsertTransactions(r)
  BY <1>9 DEF InsertTransactions, Inserting, Upsert
<1>10. CASE InsertDuplicate(r)
  BY <1>10 DEF InsertDuplicate, Inserting
<1>11. CASE InsertLost(r)
  BY <1>11 DEF InsertLost, Inserting
<1>12. CASE Answer(r)
  BY <1>12 DEF Answer
<1>13. CASE Fail(r)
  BY <1>13 DEF Fail, Running
<1>18. CASE LateInsert(r)
  BY <1>18 DEF LateInsert, Upsert
<1>19. CASE LateLink(r)
  BY <1>19 DEF LateLink
<1> HIDE DEF TypeOK, Tokened, Anonymous, Entitled
<1>14. CASE pc[r] = "idle" /\ \E status \in {401, 422} : Refuse(r, status)
  BY <1>1, <1>14
<1>15. CASE pc[r] = "idle" /\ \E header \in Header, q \in Query :
          Accepted(header, TRUE) /\ Admit(r, Attached(header), q.names)
  BY <1>2, <1>15
<1>16. CASE pc[r] = "idle" /\ \E path \in {"all", "my"} : \E u, rows :
          Entitled(u) /\ Respond(r, path, u, rows)
  BY <1>3, <1>16
<1>17. CASE ServiceStep(r)
  BY <1>4, <1>5, <1>6, <1>7, <1>8, <1>9, <1>10, <1>11, <1>12, <1>13, <1>17, <1>18, <1>19
  DEF ServiceStep
<1> QED
  BY StepSplit, <1>14, <1>15, <1>16, <1>17

\* A request in the service keeps its user and its names, and a position that
\* is stored stays so.
LEMMA SettledStep ==
    ASSUME TypeOK, NEW r \in Request, Progressed(r), Step(r), pc[r] # "idle",
           NEW i \in DOMAIN names[r]
    PROVE  /\ user'[r] = user[r] /\ names'[r] = names[r]
           /\ Settled(r, i) => Settled(r, i)'
<1> DEFINE Kept == /\ user'[r] = user[r] /\ names'[r] = names[r]
                   /\ Settled(r, i) => Settled(r, i)'
<1> USE DEF TypeOK, Settled, Known, Goto, tables, asked, result
<1>1. ASSUME pc[r] = "idle", NEW status \in {401, 422}, Refuse(r, status)
      PROVE  Kept
  BY <1>1 DEF Refuse
<1>2. ASSUME pc[r] = "idle", NEW header \in Header, NEW q \in Query,
             Accepted(header, TRUE), Admit(r, Attached(header), q.names)
      PROVE  Kept
  BY <1>2 DEF Admit
<1>3. ASSUME pc[r] = "idle", NEW path \in {"all", "my"}, NEW u, NEW rows,
             Entitled(u), Respond(r, path, u, rows)
      PROVE  Kept
  BY <1>3 DEF Respond
<1>4. CASE Select(r)
  BY <1>4 DEF Select
<1>5. CASE LoadUsers(r)
  BY <1>5 DEF LoadUsers
<1>6. CASE InsertTransactionsUser(r)
  BY <1>6 DEF InsertTransactionsUser
<1>7. CASE ScheduleTasks(r)
  BY <1>7 DEF ScheduleTasks
<1>8. CASE Receive(r)
  BY <1>8 DEF Receive
<1>9. CASE InsertTransactions(r)
  BY <1>9 DEF InsertTransactions, Inserting, Upsert
<1>10. CASE InsertDuplicate(r)
  BY <1>10 DEF InsertDuplicate, Inserting
<1>11. CASE InsertLost(r)
  BY <1>11 DEF InsertLost, Inserting
<1>12. CASE Answer(r)
  BY <1>12 DEF Answer
<1>13. CASE Fail(r)
  BY <1>13 DEF Fail, Running
<1>18. CASE LateInsert(r)
  BY <1>18 DEF LateInsert, Upsert
<1>19. CASE LateLink(r)
  BY <1>19 DEF LateLink
<1> HIDE DEF TypeOK, Settled, Known
<1>14. CASE pc[r] = "idle" /\ \E status \in {401, 422} : Refuse(r, status)
  BY <1>1, <1>14
<1>15. CASE pc[r] = "idle" /\ \E header \in Header, q \in Query :
          Accepted(header, TRUE) /\ Admit(r, Attached(header), q.names)
  BY <1>2, <1>15
<1>16. CASE pc[r] = "idle" /\ \E path \in {"all", "my"} : \E u, rows :
          Entitled(u) /\ Respond(r, path, u, rows)
  BY <1>3, <1>16
<1>17. CASE ServiceStep(r)
  BY <1>4, <1>5, <1>6, <1>7, <1>8, <1>9, <1>10, <1>11, <1>12, <1>13, <1>17, <1>18, <1>19
  DEF ServiceStep
<1> QED
  BY StepSplit, <1>14, <1>15, <1>16, <1>17

\* A new link is of the user who asks and of a position that is stored with it.
LEMMA NewLinks ==
    ASSUME TypeOK, NEW r \in Request, Progressed(r), KeysAsked(r), Step(r),
           NEW l \in userTransactions', l \notin userTransactions
    PROVE  \E i \in DOMAIN names[r] : /\ pc[r] # "idle" /\ user[r] = l[1]
                                       /\ names[r][i].tx = l[2] /\ Settled(r, i)'
<1> DEFINE Goal == \E i \in DOMAIN names[r] : /\ pc[r] # "idle" /\ user[r] = l[1]
                                                /\ names[r][i].tx = l[2] /\ Settled(r, i)'
<1> USE DEF Goto, tables, asked, result
<1>1. ASSUME pc[r] = "idle", NEW status \in {401, 422}, Refuse(r, status)
      PROVE  Goal
  BY <1>1 DEF Refuse
<1>2. ASSUME pc[r] = "idle", NEW header \in Header, NEW q \in Query,
             Accepted(header, TRUE), Admit(r, Attached(header), q.names)
      PROVE  Goal
  BY <1>2 DEF Admit
<1>3. ASSUME pc[r] = "idle", NEW path \in {"all", "my"}, NEW u, NEW rows,
             Entitled(u), Respond(r, path, u, rows)
      PROVE  Goal
  BY <1>3 DEF Respond
<1>4. CASE Select(r)
  BY <1>4 DEF Select
<1>5. CASE LoadUsers(r)
  BY <1>5 DEF LoadUsers
<1>6. CASE InsertTransactionsUser(r)
  <2>1. PICK t \in unlinked[r] : l = <<user[r], t>>
    BY <1>6 DEF InsertTransactionsUser
  <2>2. /\ pc[r] = "link" /\ missing[r] = {} /\ t \in available[r]
        /\ UNCHANGED <<pc, names, available, missing>>
    BY <1>6, <2>1 DEF InsertTransactionsUser, Progressed, KeysAsked
  <2>3. PICK i \in DOMAIN names[r] : Known(names[r][i], {t})
    BY <2>2 DEF KeysAsked
  <2>4. names[r][i].tx = t /\ Settled(r, i)'
    BY <2>2, <2>3 DEF Settled, Known
  <2> QED
    BY <2>1, <2>2, <2>4
<1>7. CASE ScheduleTasks(r)
  BY <1>7 DEF ScheduleTasks
<1>8. CASE Receive(r)
  BY <1>8 DEF Receive
<1>9. CASE InsertTransactions(r)
  <2>1. l = <<user[r], Fetched(r)>> /\ missing[r] # {}
    BY <1>9 DEF InsertTransactions, Inserting, Progressed
  <2>2. NextResult(r) \in DOMAIN names[r] /\ names[r][NextResult(r)].tx = Fetched(r)
    BY <2>1, NamesTyped DEF Fetched
  <2>3. pc[r] = "insert" /\ pc'[r] = "receive" /\ missing'[r] = missing[r] \ {NextResult(r)}
    BY <1>9 DEF InsertTransactions, Inserting, TypeOK
  <2>4. PICK n \in DOMAIN names[r] : n = NextResult(r)
    BY <2>2
  <2>5. Settled(r, n)'
    BY <2>3, <2>4 DEF Settled
  <2> QED
    BY <2>1, <2>2, <2>3, <2>4, <2>5
<1>10. CASE InsertDuplicate(r)
  BY <1>10 DEF InsertDuplicate, Inserting
<1>11. CASE InsertLost(r)
  BY <1>11 DEF InsertLost, Inserting
<1>12. CASE Answer(r)
  BY <1>12 DEF Answer
<1>13. CASE Fail(r)
  BY <1>13 DEF Fail, Running
<1>18. CASE LateInsert(r)
  <2>1. l = <<user[r], Fetched(r)>> /\ missing[r] # {}
    BY <1>18 DEF LateInsert
  <2>2. NextResult(r) \in DOMAIN names[r] /\ names[r][NextResult(r)].tx = Fetched(r)
    BY <2>1, NamesTyped DEF Fetched
  <2>3. pc[r] = "late" /\ pc'[r] = "done" /\ missing'[r] = missing[r] \ {NextResult(r)}
    BY <1>18 DEF LateInsert, TypeOK
  <2>4. PICK n \in DOMAIN names[r] : n = NextResult(r)
    BY <2>2
  <2>5. Settled(r, n)'
    BY <2>3, <2>4 DEF Settled
  <2> QED
    BY <2>1, <2>2, <2>3, <2>4, <2>5
<1>19. CASE LateLink(r)
  <2>1. PICK t \in unlinked[r] : l = <<user[r], t>>
    BY <1>19 DEF LateLink
  <2>2. pc[r] = "late" /\ pc'[r] = "done" /\ missing[r] = {} /\ UNCHANGED missing
    BY <1>19, <2>1 DEF LateLink, TypeOK, Progressed
  <2>3. PICK i \in DOMAIN names[r] : names[r][i].tx = t
    BY <2>1 DEF KeysAsked, Asks
  <2>4. Settled(r, i)'
    BY <2>2 DEF Settled
  <2> QED
    BY <2>1, <2>2, <2>3, <2>4
<1>14. CASE pc[r] = "idle" /\ \E status \in {401, 422} : Refuse(r, status)
  BY <1>1, <1>14
<1>15. CASE pc[r] = "idle" /\ \E header \in Header, q \in Query :
          Accepted(header, TRUE) /\ Admit(r, Attached(header), q.names)
  BY <1>2, <1>15
<1>16. CASE pc[r] = "idle" /\ \E path \in {"all", "my"} : \E u, rows :
          Entitled(u) /\ Respond(r, path, u, rows)
  BY <1>3, <1>16
<1>17. CASE ServiceStep(r)
  BY <1>4, <1>5, <1>6, <1>7, <1>8, <1>9, <1>10, <1>11, <1>12, <1>13, <1>17, <1>18, <1>19
  DEF ServiceStep
<1> QED
  BY StepSplit, <1>14, <1>15, <1>16, <1>17

\* A new link comes with its row, or is one of a row that was found.
LEMMA NewLinkHasRow ==
    ASSUME TypeOK, NEW r \in Request, Progressed(r), FoundStored(r), Step(r),
           NEW l \in userTransactions', l \notin userTransactions
    PROVE  l[2] \in transactions'
<1> USE DEF Goto, tables, asked, result
<1>1. ASSUME ~ServiceStep(r) PROVE UNCHANGED userTransactions
  BY <1>1, StepSplit DEF Refuse, Admit, Respond
<1>2. CASE InsertTransactionsUser(r)
  BY <1>2 DEF InsertTransactionsUser, FoundStored
<1>3. CASE LateLink(r)
  BY <1>3 DEF LateLink, FoundStored
<1>4. CASE InsertTransactions(r)
  BY <1>4 DEF InsertTransactions, Upsert
<1>5. CASE LateInsert(r)
  BY <1>5 DEF LateInsert, Upsert
<1>6. CASE Select(r) \/ LoadUsers(r) \/ ScheduleTasks(r) \/ Receive(r) \/ Answer(r)
  BY <1>6 DEF Select, LoadUsers, ScheduleTasks, Receive, Answer
<1>7. CASE InsertDuplicate(r) \/ InsertLost(r) \/ Fail(r)
  BY <1>7 DEF InsertDuplicate, InsertLost, Fail
<1> QED
  BY <1>1, <1>2, <1>3, <1>4, <1>5, <1>6, <1>7 DEF ServiceStep

-----------------------------------------------------------------------------
(* Answers.                                                                *)

Exact(r) == Answered(r) =>
    answer[r] = [i \in {j \in DOMAIN names[r] : names[r][j].plain} |-> names[r][i].tx]

\* Answer lists the proper names in their places: by then the map has them all
\* and no other name can match a key.
LEMMA ExactStep ==
    ASSUME TypeOK, NEW r \in Request, Progressed(r), KeysAsked(r), Exact(r), Step(r)
    PROVE  Exact(r)'
<1> USE DEF TypeOK, Progressed, Exact, Answered, Goto, tables, asked, result
<1>1. ASSUME pc[r] = "idle", NEW status \in {401, 422}, Refuse(r, status)
      PROVE  Exact(r)'
  BY <1>1 DEF Refuse
<1>2. ASSUME pc[r] = "idle", NEW header \in Header, NEW q \in Query,
             Accepted(header, TRUE), Admit(r, Attached(header), q.names)
      PROVE  Exact(r)'
  BY <1>2 DEF Admit
<1>3. ASSUME pc[r] = "idle", NEW path \in {"all", "my"}, NEW u, NEW rows,
             Entitled(u), Respond(r, path, u, rows)
      PROVE  Exact(r)'
  BY <1>3 DEF Respond
<1>4. CASE Select(r)
  BY <1>4 DEF Select
<1>5. CASE LoadUsers(r)
  BY <1>5 DEF LoadUsers
<1>6. CASE InsertTransactionsUser(r)
  BY <1>6 DEF InsertTransactionsUser
<1>7. CASE ScheduleTasks(r)
  BY <1>7 DEF ScheduleTasks
<1>8. CASE Receive(r)
  BY <1>8 DEF Receive
<1>9. CASE InsertTransactions(r)
  BY <1>9 DEF InsertTransactions, Inserting, Upsert
<1>10. CASE InsertDuplicate(r)
  BY <1>10 DEF InsertDuplicate, Inserting
<1>11. CASE InsertLost(r)
  BY <1>11 DEF InsertLost, Inserting
<1>12. CASE Answer(r)
  <2> DEFINE found == {j \in DOMAIN names[r] : Known(names[r][j], available[r])}
             plain == {j \in DOMAIN names[r] : names[r][j].plain}
  <2>1. found = plain
    <3>1. pc[r] = "receive" /\ missing[r] = {}
      BY <1>12 DEF Answer
    <3> QED
      BY <3>1 DEF KeysAsked, Known
  <2>2. answer'[r] = [i \in found |-> names[r][i].tx] /\ UNCHANGED names
    BY <1>12 DEF Answer
  <2>3. answer'[r] = [i \in plain |-> names[r][i].tx]
    BY <2>1, <2>2, Zenon
  <2>4. names' = names
    BY <2>2
  <2> HIDE DEF TypeOK, Progressed, Answered, found, plain
  <2> DEFINE list(n) == [i \in {j \in DOMAIN n[r] : n[r][j].plain} |-> n[r][i].tx]
  <2>6. answer'[r] = list(names)
    BY <2>3 DEF plain
  <2>7. list(names') = list(names)
    <3> HIDE DEF list
    <3> QED
      BY <2>4
  <2>5. (answer[r] = [i \in {j \in DOMAIN names[r] : names[r][j].plain} |-> names[r][i].tx])'
    BY <2>6, <2>7
  <2> QED
    BY <2>5, Zenon
<1>13. CASE Fail(r)
  BY <1>13 DEF Fail, Running
<1>18. CASE LateInsert(r)
  BY <1>18 DEF LateInsert, Upsert
<1>19. CASE LateLink(r)
  BY <1>19 DEF LateLink
<1> HIDE DEF TypeOK, Progressed, Exact, Answered
<1>14. CASE pc[r] = "idle" /\ \E status \in {401, 422} : Refuse(r, status)
  BY <1>1, <1>14
<1>15. CASE pc[r] = "idle" /\ \E header \in Header, q \in Query :
          Accepted(header, TRUE) /\ Admit(r, Attached(header), q.names)
  BY <1>2, <1>15
<1>16. CASE pc[r] = "idle" /\ \E path \in {"all", "my"} : \E u, rows :
          Entitled(u) /\ Respond(r, path, u, rows)
  BY <1>3, <1>16
<1>17. CASE ServiceStep(r)
  BY <1>4, <1>5, <1>6, <1>7, <1>8, <1>9, <1>10, <1>11, <1>12, <1>13, <1>17, <1>18, <1>19
  DEF ServiceStep
<1> QED
  BY StepSplit, <1>14, <1>15, <1>16, <1>17

Stored(r) == Answered(r) => \A t \in Listed(r) :
    t \in transactions /\ (Anonymous(r) \/ <<user[r], t>> \in userTransactions)

\* Answer lists keys of availableMap, and all of them are stored by then.
LEMMA StoredStep ==
    ASSUME TypeOK, NEW r \in Request, Progressed(r), KeysStored(r), Stored(r), Step(r)
    PROVE  Stored(r)'
<1> USE DEF TypeOK, Progressed, Stored, Answered, Listed, Anonymous, Goto, tables, asked, result
<1>1. ASSUME pc[r] = "idle", NEW status \in {401, 422}, Refuse(r, status)
      PROVE  Stored(r)'
  BY <1>1 DEF Refuse
<1>2. ASSUME pc[r] = "idle", NEW header \in Header, NEW q \in Query,
             Accepted(header, TRUE), Admit(r, Attached(header), q.names)
      PROVE  Stored(r)'
  BY <1>2 DEF Admit
<1>3. ASSUME pc[r] = "idle", NEW path \in {"all", "my"}, NEW u, NEW rows,
             Entitled(u), Respond(r, path, u, rows)
      PROVE  Stored(r)'
  BY <1>3 DEF Respond
<1>4. CASE Select(r)
  BY <1>4 DEF Select
<1>5. CASE LoadUsers(r)
  BY <1>5 DEF LoadUsers
<1>6. CASE InsertTransactionsUser(r)
  BY <1>6 DEF InsertTransactionsUser
<1>7. CASE ScheduleTasks(r)
  BY <1>7 DEF ScheduleTasks
<1>8. CASE Receive(r)
  BY <1>8 DEF Receive
<1>9. CASE InsertTransactions(r)
  BY <1>9 DEF InsertTransactions, Inserting, Upsert
<1>10. CASE InsertDuplicate(r)
  BY <1>10 DEF InsertDuplicate, Inserting
<1>11. CASE InsertLost(r)
  BY <1>11 DEF InsertLost, Inserting
<1>12. CASE Answer(r)
  <2>1. pc[r] = "receive" /\ unlinked[r] = {}
    BY <1>12 DEF Answer
  <2>2. \A t \in available[r] :
           t \in transactions /\ (Anonymous(r) \/ <<user[r], t>> \in userTransactions)
    BY <2>1 DEF KeysStored
  <2> DEFINE list == [i \in {j \in DOMAIN names[r] : Known(names[r][j], available[r])} |-> names[r][i].tx]
  <2>3. answer'[r] = list /\ UNCHANGED <<transactions, userTransactions, user>>
    BY <1>12 DEF Answer
  <2>4. \A i \in DOMAIN list : list[i] \in available[r]
    BY DEF Known
  <2> HIDE DEF list
  <2> QED
    BY <2>2, <2>3, <2>4
<1>13. CASE Fail(r)
  BY <1>13 DEF Fail, Running
<1>18. CASE LateInsert(r)
  BY <1>18 DEF LateInsert, Upsert
<1>19. CASE LateLink(r)
  BY <1>19 DEF LateLink
<1> HIDE DEF TypeOK, Progressed, Stored, Answered, Listed, Anonymous
<1>14. CASE pc[r] = "idle" /\ \E status \in {401, 422} : Refuse(r, status)
  BY <1>1, <1>14
<1>15. CASE pc[r] = "idle" /\ \E header \in Header, q \in Query :
          Accepted(header, TRUE) /\ Admit(r, Attached(header), q.names)
  BY <1>2, <1>15
<1>16. CASE pc[r] = "idle" /\ \E path \in {"all", "my"} : \E u, rows :
          Entitled(u) /\ Respond(r, path, u, rows)
  BY <1>3, <1>16
<1>17. CASE ServiceStep(r)
  BY <1>4, <1>5, <1>6, <1>7, <1>8, <1>9, <1>10, <1>11, <1>12, <1>13, <1>17, <1>18, <1>19
  DEF ServiceStep
<1> QED
  BY StepSplit, <1>14, <1>15, <1>16, <1>17

Explained(r) == code[r] = 500 /\ ~failed[r] =>
    /\ ~Anonymous(r) /\ missing[r] # {}
    /\ \/ \E i \in DOMAIN names[r] \ {NextResult(r)} : names[r][i].tx = Fetched(r)
       \/ \E q \in Request \ {r} : user[q] = user[r] /\ Asks(q, Fetched(r))

\* A link that is there when its insert comes was made for another position of
\* the request or for another request.
LEMMA DuplicateExplained ==
    ASSUME TypeOK, LinksSettled, NEW r \in Request, Progressed(r), InsertDuplicate(r)
    PROVE  /\ ~Anonymous(r) /\ missing[r] # {}
           /\ \/ \E i \in DOMAIN names[r] \ {NextResult(r)} : names[r][i].tx = Fetched(r)
              \/ \E q \in Request \ {r} : user[q] = user[r] /\ Asks(q, Fetched(r))
           /\ UNCHANGED <<user, names, missing>>
<1>1. /\ ~Anonymous(r) /\ missing[r] # {} /\ <<user[r], Fetched(r)>> \in userTransactions
      /\ UNCHANGED <<user, names, missing>>
  BY DEF InsertDuplicate, Inserting, Progressed, asked
<1>q. PICK q \in Request : \E i \in DOMAIN names[q] :
         user[q] = user[r] /\ names[q][i].tx = Fetched(r) /\ Settled(q, i)
  BY <1>1 DEF LinksSettled
<1>2. PICK i \in DOMAIN names[q] :
         user[q] = user[r] /\ names[q][i].tx = Fetched(r) /\ Settled(q, i)
  BY <1>q
<1>3. CASE q = r
  <2>1. i # NextResult(r)
    BY <1>1, <1>2, <1>3, NamesTyped DEF Settled
  <2> QED
    BY <1>1, <1>2, <1>3, <2>1
<1>4. CASE q # r
  BY <1>1, <1>2, <1>4 DEF Asks
<1> QED
  BY <1>3, <1>4

\* InsertDuplicate is the one step that fails a request without a failure of
\* its surroundings, and the link it met has an explanation.
LEMMA ExplainedStep ==
    ASSUME TypeOK, LinksSettled, NEW r \in Request, Progressed(r), Explained(r), Step(r)
    PROVE  Explained(r)'
<1> USE DEF TypeOK, Progressed, Explained, Goto, tables, asked, result
<1>1. ASSUME pc[r] = "idle", NEW status \in {401, 422}, Refuse(r, status)
      PROVE  Explained(r)'
  BY <1>1 DEF Refuse
<1>2. ASSUME pc[r] = "idle", NEW header \in Header, NEW q \in Query,
             Accepted(header, TRUE), Admit(r, Attached(header), q.names)
      PROVE  Explained(r)'
  BY <1>2 DEF Admit
<1>3. ASSUME pc[r] = "idle", NEW path \in {"all", "my"}, NEW u, NEW rows,
             Entitled(u), Respond(r, path, u, rows)
      PROVE  Explained(r)'
  BY <1>3 DEF Respond
<1>4. CASE Select(r)
  BY <1>4 DEF Select
<1>5. CASE LoadUsers(r)
  BY <1>5 DEF LoadUsers
<1>6. CASE InsertTransactionsUser(r)
  BY <1>6 DEF InsertTransactionsUser
<1>7. CASE ScheduleTasks(r)
  BY <1>7 DEF ScheduleTasks
<1>8. CASE Receive(r)
  BY <1>8 DEF Receive
<1>9. CASE InsertTransactions(r)
  BY <1>9 DEF InsertTransactions, Inserting, Upsert
<1>10. CASE InsertDuplicate(r)
  <2>1. UNCHANGED <<user, names, missing>> /\ NextResult(r)' = NextResult(r)
    BY <1>10, DuplicateExplained DEF NextResult
  <2>2. \A q \in Request : Asks(q, Fetched(r))' <=> Asks(q, Fetched(r))
    BY <2>1 DEF Asks, Fetched
  <2>3. Fetched(r)' = Fetched(r) /\ Anonymous(r)' = Anonymous(r)
    BY <2>1 DEF Fetched, Anonymous
  <2>4. CASE \E i \in DOMAIN names[r] \ {NextResult(r)} : names[r][i].tx = Fetched(r)
    <3>1. (\E i \in DOMAIN names[r] \ {NextResult(r)} : names[r][i].tx = Fetched(r))'
      BY <2>1, <2>3, <2>4
    <3>2. (~Anonymous(r) /\ missing[r] # {})'
      BY <1>10, <2>1, <2>3, DuplicateExplained
    <3> QED
      BY <3>1, <3>2
  <2>5. CASE \E q \in Request \ {r} : user[q] = user[r] /\ Asks(q, Fetched(r))
    <3>1. PICK q \in Request \ {r} : user[q] = user[r] /\ Asks(q, Fetched(r))
      BY <2>5
    <3>2. (user[q] = user[r] /\ Asks(q, Fetched(r)))'
      BY <2>1, <2>2, <3>1
    <3> QED
      BY <1>10, <2>1, <2>3, <3>2, DuplicateExplained
  <2> QED
    BY <1>10, <2>4, <2>5, DuplicateExplained
<1>11. CASE InsertLost(r)
  BY <1>11 DEF InsertLost, Inserting
<1>12. CASE Answer(r)
  BY <1>12 DEF Answer
<1>13. CASE Fail(r)
  BY <1>13 DEF Fail, Running
<1>18. CASE LateInsert(r)
  BY <1>18 DEF LateInsert, Upsert
<1>19. CASE LateLink(r)
  BY <1>19 DEF LateLink
<1> HIDE DEF TypeOK, Progressed, Explained
<1>14. CASE pc[r] = "idle" /\ \E status \in {401, 422} : Refuse(r, status)
  BY <1>1, <1>14
<1>15. CASE pc[r] = "idle" /\ \E header \in Header, q \in Query :
          Accepted(header, TRUE) /\ Admit(r, Attached(header), q.names)
  BY <1>2, <1>15
<1>16. CASE pc[r] = "idle" /\ \E path \in {"all", "my"} : \E u, rows :
          Entitled(u) /\ Respond(r, path, u, rows)
  BY <1>3, <1>16
<1>17. CASE ServiceStep(r)
  BY <1>4, <1>5, <1>6, <1>7, <1>8, <1>9, <1>10, <1>11, <1>12, <1>13, <1>17, <1>18, <1>19
  DEF ServiceStep
<1> QED
  BY StepSplit, <1>14, <1>15, <1>16, <1>17

\* What a request asks for stays, so does what its user is.
LEMMA AskedKept ==
    ASSUME TypeOK, NEW r \in Request, Progressed(r), Step(r), NEW x, Asks(r, x)
    PROVE  user'[r] = user[r] /\ names'[r] = names[r]
<1>1. PICK i \in DOMAIN names[r] : names[r][i].tx = x
  BY DEF Asks
<1>2. pc[r] # "idle"
  BY <1>1 DEF Progressed
<1> QED
  BY <1>1, <1>2, SettledStep

\* The explanation of a failed request outlives the steps of others.
LEMMA ExplainedOther ==
    ASSUME TypeOK, NEW r \in Request, Progressed(r), Step(r),
           \A p \in Request \ {r} : Same(p), NEW o \in Request \ {r}, Explained(o)
    PROVE  Explained(o)'
<1> SUFFICES ASSUME code'[o] = 500, ~failed'[o]
             PROVE  (/\ ~Anonymous(o) /\ missing[o] # {}
                     /\ \/ \E i \in DOMAIN names[o] \ {NextResult(o)} : names[o][i].tx = Fetched(o)
                        \/ \E q \in Request \ {o} : user[q] = user[o] /\ Asks(q, Fetched(o)))'
  BY DEF Explained
<1>1. Same(o) /\ code[o] = 500 /\ ~failed[o]
  BY DEF Same
<1>2. /\ user'[o] = user[o] /\ names'[o] = names[o] /\ missing'[o] = missing[o]
      /\ NextResult(o)' = NextResult(o) /\ Fetched(o)' = Fetched(o)
  BY <1>1 DEF Same, NextResult, Fetched
<1>3. CASE \E i \in DOMAIN names[o] \ {NextResult(o)} : names[o][i].tx = Fetched(o)
  BY <1>1, <1>2, <1>3 DEF Explained, Anonymous
<1>4. CASE \E q \in Request \ {o} : user[q] = user[o] /\ Asks(q, Fetched(o))
  <2>1. PICK q \in Request \ {o} : user[q] = user[o] /\ Asks(q, Fetched(o))
    BY <1>4
  <2>2. user'[q] = user[q] /\ names'[q] = names[q]
    BY <2>1, AskedKept DEF Same
  <2>3. (user[q] = user[o] /\ Asks(q, Fetched(o)))'
    BY <1>2, <2>1, <2>2 DEF Asks
  <2> QED
    BY <1>1, <1>2, <2>1, <2>3 DEF Explained, Anonymous
<1> QED
  BY <1>1, <1>3, <1>4 DEF Explained

\* A position stays stored when its request does not move.
LEMMA SettledSame ==
    ASSUME NEW r \in Request, Same(r), NEW i, Settled(r, i)
    PROVE  Settled(r, i)'
BY DEF Same, Settled

-----------------------------------------------------------------------------
\* A step of a request keeps the invariant.
LEMMA RequestIInv ==
    ASSUME IInv, TypeOK', NEW r \in Request, Step(r)
    PROVE  IInv'
<1>1. TypeOK /\ (\A o \in Request : Progressed(o) /\ KeysAsked(o) /\ FoundStored(o)) /\ UserTokens
      /\ LinksSettled /\ LinksHaveRows /\ AnswerExact /\ Remembered /\ FailuresExplained
  BY DEF IInv
<1>2. (\A o \in Request \ {r} : Same(o)) /\ Grow
  BY <1>1, OthersSame, TablesGrow
<1>3. \A o \in Request : Progressed(o)' /\ KeysAsked(o)'
  BY <1>1, <1>2, ProgressedSame, ProgressedStep, KeysAskedSame, KeysAskedStep
<1>11. \A o \in Request : FoundStored(o)'
  BY <1>1, <1>2, FoundStep DEF FoundStored, Same, Grow
<1>4. ~overlapped' => ~overlapped
  BY <1>1, <1>2 DEF Grow, TypeOK
<1>5. ~overlapped' => \A o \in Request : KeysStored(o)'
  <2> SUFFICES ASSUME ~overlapped', NEW o \in Request PROVE KeysStored(o)'
    OBVIOUS
  <2>1. KeysStored(o) /\ KeysStored(r) /\ ~overlapped
    BY <1>4 DEF IInv
  <2> QED
    BY <1>1, <1>2, <2>1, KeysStoredSame, KeysStoredStep DEF Grow
<1>6. UserTokens'
  <2> SUFFICES ASSUME NEW o \in Request PROVE (Anonymous(o) \/ token[user[o]] # "none")'
    BY DEF UserTokens
  <2>1. Tokened(o) /\ Tokened(r)
    BY <1>1 DEF UserTokens, Tokened, TypeOK, Anonymous
  <2>2. Tokened(o)'
    BY <1>1, <1>2, <2>1, TokenedStep DEF Tokened, Anonymous, Same, Grow
  <2> QED
    BY <2>2 DEF Tokened
<1>7. LinksSettled'
  <2> SUFFICES ASSUME NEW l \in userTransactions'
               PROVE  \E q \in Request : \E i \in DOMAIN names'[q] :
                         user'[q] = l[1] /\ names'[q][i].tx = l[2] /\ Settled(q, i)'
    BY DEF LinksSettled
  <2>1. CASE l \in userTransactions
    <3>1. PICK q \in Request : \E i \in DOMAIN names[q] :
             user[q] = l[1] /\ names[q][i].tx = l[2] /\ Settled(q, i)
      BY <1>1, <2>1 DEF LinksSettled
    <3>2. PICK i \in DOMAIN names[q] : user[q] = l[1] /\ names[q][i].tx = l[2] /\ Settled(q, i)
      BY <3>1
    <3>3. pc[q] # "idle"
      BY <3>2 DEF Settled
    <3>4. user'[q] = user[q] /\ names'[q] = names[q] /\ Settled(q, i)'
      BY <1>1, <1>2, <3>2, <3>3, SettledSame, SettledStep DEF Same
    <3> QED
      BY <3>2, <3>4
  <2>2. CASE l \notin userTransactions
    <3>1. PICK i \in DOMAIN names[r] :
             pc[r] # "idle" /\ user[r] = l[1] /\ names[r][i].tx = l[2] /\ Settled(r, i)'
      BY <1>1, <2>2, NewLinks
    <3>2. user'[r] = user[r] /\ names'[r] = names[r]
      BY <1>1, <3>1, SettledStep
    <3> QED
      BY <3>1, <3>2
  <2> QED
    BY <2>1, <2>2
<1>8. AnswerExact'
  <2> SUFFICES ASSUME NEW o \in Request PROVE Exact(o)'
    BY DEF AnswerExact, Exact
  <2>1. Exact(o) /\ Exact(r)
    BY <1>1 DEF AnswerExact, Exact
  <2> QED
    BY <1>1, <1>2, <2>1, ExactStep DEF Exact, Same, Answered
<1>9. Remembered'
  <2> SUFFICES ASSUME ~overlapped', NEW o \in Request PROVE Stored(o)'
    BY DEF Remembered, Stored
  <2>1. Stored(o) /\ Stored(r) /\ KeysStored(r)
    BY <1>1, <1>4 DEF Remembered, Stored, IInv
  <2> QED
    BY <1>1, <1>2, <2>1, StoredStep DEF Stored, Same, Answered, Listed, Anonymous, Grow
<1>10. FailuresExplained'
  <2> SUFFICES ASSUME NEW o \in Request PROVE Explained(o)'
    BY DEF FailuresExplained, Explained
  <2>1. Explained(o)
    BY <1>1 DEF FailuresExplained, Explained
  <2> QED
    BY <1>1, <1>2, <2>1, ExplainedStep, ExplainedOther
<1>12. LinksHaveRows'
  BY <1>1, <1>2, NewLinkHasRow DEF LinksHaveRows, Grow
<1> QED
  BY <1>3, <1>5, <1>6, <1>7, <1>8, <1>9, <1>10, <1>11, <1>12 DEF IInv

\* A step that leaves the requests and the tables alone keeps it too.
LEMMA OtherIInv ==
    ASSUME IInv, TypeOK', \A r \in Request : Same(r),
           UNCHANGED <<transactions, userTransactions, overlapped>>,
           \A u \in User : token[u] # "none" => token'[u] # "none"
    PROVE  IInv'
<1>1. \A r \in Request : Progressed(r)' /\ KeysAsked(r)'
  BY ProgressedSame, KeysAskedSame DEF IInv
<1>8. \A r \in Request : FoundStored(r)'
  BY DEF IInv, FoundStored, Same
<1>2. ~overlapped' => \A r \in Request : KeysStored(r)'
  BY KeysStoredSame DEF IInv
<1>3. UserTokens'
  BY DEF IInv, UserTokens, Same, Anonymous, TypeOK
<1>4. LinksSettled'
  BY DEF IInv, LinksSettled, Same, Settled
<1>9. LinksHaveRows'
  BY DEF IInv, LinksHaveRows
<1>5. AnswerExact'
  <2> SUFFICES ASSUME NEW r \in Request PROVE Exact(r)'
    BY DEF AnswerExact, Exact
  <2>1. Exact(r) /\ names'[r] = names[r] /\ answer'[r] = answer[r] /\ Answered(r)' = Answered(r)
    BY DEF IInv, AnswerExact, Exact, Answered, Same
  <2> DEFINE list(n) == [i \in {j \in DOMAIN n : n[j].plain} |-> n[i].tx]
  <2>2. list(names'[r]) = list(names[r])
    <3> HIDE DEF list
    <3> QED
      BY <2>1
  <2>3. Answered(r)' => answer'[r] = list(names'[r])
    BY <2>1, <2>2 DEF Exact
  <2> QED
    BY <2>3 DEF Exact
<1>6. Remembered'
  BY DEF IInv, Remembered, Same, Answered, Listed, Anonymous
<1>7. FailuresExplained'
  <2> SUFFICES ASSUME NEW r \in Request PROVE Explained(r)'
    BY DEF FailuresExplained, Explained
  <2>1. Explained(r) /\ Same(r)
    BY DEF IInv, FailuresExplained, Explained
  <2>2. NextResult(r)' = NextResult(r) /\ Fetched(r)' = Fetched(r)
    BY <2>1 DEF Same, NextResult, Fetched
  <2>3. \A q \in Request : Asks(q, Fetched(r))' <=> Asks(q, Fetched(r))
    BY <2>2 DEF Same, Asks
  <2> QED
    BY <2>1, <2>2, <2>3 DEF Explained, Same, Anonymous
<1> QED
  BY <1>1, <1>2, <1>3, <1>4, <1>5, <1>6, <1>7, <1>8, <1>9 DEF IInv

\* Every step of the server keeps the invariant.
LEMMA StepIInv == IInv /\ [Next]_vars => IInv'
<1> SUFFICES ASSUME IInv, [Next]_vars PROVE IInv'
  OBVIOUS
<1>1. TypeOK /\ TypeOK'
  BY TypeStep DEF IInv
<1> QED
  BY <1>1, StepCases, RequestIInv, OtherIInv

\* The invariant holds in every reachable state.
THEOREM Invariance == Spec => []IInv
<1> QED
  BY InitIInv, StepIInv, PTL DEF Spec

\* Every variable keeps its type, and what is awaited is a position of the
\* request.
THEOREM TypeCorrect == Spec => []TypeOK
<1>1. IInv => TypeOK
  BY DEF IInv
<1> QED
  BY <1>1, Invariance, PTL

\* A successful answer has the transactions asked for by their proper names,
\* each at its place.
THEOREM AnswersExact == Spec => []AnswerExact
<1>1. IInv => AnswerExact
  BY DEF IInv
<1> QED
  BY <1>1, Invariance, PTL

\* What an answer gave is stored and linked to the user who asked.
THEOREM AnswersRemembered == Spec => []Remembered
<1>1. IInv => Remembered
  BY DEF IInv
<1> QED
  BY <1>1, Invariance, PTL

\* A link belongs to a user who got a token and asked for the transaction.
THEOREM LinksAreEarned == Spec => []LinksEarned
<1>1. IInv => LinksEarned
  <2> SUFFICES ASSUME IInv, NEW l \in userTransactions
               PROVE  token[l[1]] # "none" /\ \E r \in Request : user[r] = l[1] /\ Asks(r, l[2])
    BY DEF LinksEarned
  <2>1. PICK r \in Request : \E i \in DOMAIN names[r] : user[r] = l[1] /\ names[r][i].tx = l[2]
    BY DEF IInv, LinksSettled
  <2>2. l[1] \in User
    BY DEF IInv, TypeOK
  <2>3. ~Anonymous(r)
    BY <2>1, <2>2, UserAssumption DEF Anonymous
  <2> QED
    BY <2>1, <2>3 DEF IInv, UserTokens, Asks
<1> QED
  BY <1>1, Invariance, PTL

\* No link is ever without its row: none is made before the row is stored, and
\* the row and the link of an insert are committed together, if late.
THEOREM ForeignKeyKept == Spec => []LinksHaveRows
<1>1. IInv => LinksHaveRows
  BY DEF IInv
<1> QED
  BY <1>1, Invariance, PTL

\* A request that nothing failed fails only over a hash that it or another
\* request of its user names as well.
THEOREM FailuresAreExplained == Spec => []FailuresExplained
<1>1. IInv => FailuresExplained
  BY DEF IInv
<1> QED
  BY <1>1, Invariance, PTL

\* /lime/my answers with what earlier answers gave the user, and with nothing
\* that the user did not ask for.
THEOREM MyAnswersComplete == Spec => MyTransactionsComplete
<1> DEFINE Complete(r) ==
      pc[r] # "done" /\ pc'[r] = "done" /\ route'[r] = "my" =>
          /\ ~overlapped => \A q \in Request : Answered(q) /\ user[q] = user'[r] =>
                                Listed(q) \subseteq Listed(r)'
          /\ \A t \in Listed(r)' : \E q \in Request : user[q] = user'[r] /\ Asks(q, t)
<1>1. IInv /\ [Next]_vars => \A r \in Request : Complete(r)
  <2> SUFFICES ASSUME IInv, [Next]_vars, NEW r \in Request,
                      pc[r] # "done", pc'[r] = "done", route'[r] = "my"
               PROVE  Complete(r)
    OBVIOUS
  <2>1. TypeOK /\ Progressed(r)
    BY DEF IInv
  <2>2. PICK p \in Request : Step(p)
    BY <2>1, StepCases DEF Same
  <2>3. p = r
    BY <2>1, <2>2, OthersSame DEF Same
  <2>4. GetMyTransactions(r)
    BY <2>1, <2>2, <2>3, MyRoute
  <2>a. PICK u \in User : \E rows \in MyTransactions(u) : Respond(r, "my", u, rows)
    BY <2>1, <2>4, MyCases DEF Refuse, asked, Progressed
  <2>5. PICK rows \in MyTransactions(u) : Respond(r, "my", u, rows)
    BY <2>a
  <2>6. user'[r] = u /\ Listed(r)' = {t \in transactions : <<u, t>> \in userTransactions}
    <3>1. user'[r] = u /\ answer'[r] = rows
      BY <2>1, <2>5 DEF Respond, TypeOK
    <3>2. {rows[i] : i \in DOMAIN rows} = {t \in transactions : <<u, t>> \in userTransactions}
      BY DEF MyTransactions, Rows
    <3> QED
      BY <3>1, <3>2 DEF Listed
  <2>7. ASSUME ~overlapped, NEW q \in Request, Answered(q), user[q] = u
        PROVE  Listed(q) \subseteq Listed(r)'
    BY <2>6, <2>7, UserAssumption DEF IInv, Remembered, Anonymous
  <2>8. ASSUME NEW t \in Listed(r)'
        PROVE  \E q \in Request : user[q] = u /\ Asks(q, t)
    <3>1. <<u, t>> \in userTransactions
      BY <2>6, <2>8
    <3>2. PICK q \in Request : \E i \in DOMAIN names[q] : user[q] = u /\ names[q][i].tx = t
      BY <3>1 DEF IInv, LinksSettled
    <3> QED
      BY <3>2 DEF Asks
  <2> QED
    BY <2>6, <2>7, <2>8
<1>2. IInv /\ [Next]_vars => [\A r \in Request : Complete(r)]_vars
  BY <1>1
<1> QED
  BY <1>2, Invariance, PTL DEF Spec, MyTransactionsComplete

=============================================================================
