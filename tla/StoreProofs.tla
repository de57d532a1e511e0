----------------------------- MODULE StoreProofs -----------------------------
(***************************************************************************)
(* Proofs about Store for every set of calls, hashes and users, and every  *)
(* size of the connection pool.                                            *)
(***************************************************************************)
EXTENDS Store, FiniteSetTheorems, TLAPS

\* The store starts with its counter balanced and no transaction open.
LEMMA InitIInv == Init => IInv
<1> SUFFICES ASSUME Init PROVE IInv
  OBVIOUS
<1> USE DEF Init
<1>1. TypeOK
  <2>1. NoArg \in [hash : Hash \cup {"none"}, user : User \cup {NonAuthenticatedUser}]
    BY DEF NoArg
  <2>2. /\ arg \in [Call -> [hash : Hash \cup {"none"}, user : User \cup {NonAuthenticatedUser}]]
        /\ wrote \in [Call -> SUBSET {"row", "link"}]
    BY <2>1
  <2>3. /\ pc \in [Call -> {"idle", "linking"} \cup Insert \cup Ended]
        /\ reg \in [Call -> Int]
        /\ ending \in [Call -> {"commit", "rollback"}]
        /\ dbTx \in [Call -> {"none", "open", "inDoubt", "committed", "rolledBack"}]
    OBVIOUS
  <2>4. transactions \subseteq Hash /\ userTransactions \subseteq User \X Hash
    OBVIOUS
  <2>5. appDone \in BOOLEAN /\ overlapped \in BOOLEAN
    OBVIOUS
  <2>6. txCount \in Int
    OBVIOUS
  <2> HIDE DEF Init
  <2> QED
    BY <2>2, <2>3, <2>4, <2>5, <2>6 DEF TypeOK
<1>2. ArgInv /\ WroteAll /\ LinkingStored /\ LinksIsolated
  BY DEF ArgInv, WroteAll, LinkingStored, LinksIsolated, Open, InDoubt, Holding, Insert, Counted
<1>3. FailureAllOrNothing
  BY DEF FailureAllOrNothing
<1>4. SerialInv
  BY DEF SerialInv, SerialCount, CountAt, OpenInProgress, AckStored, Open, Insert, Counted
<1> QED
  BY <1>1, <1>2, <1>3, <1>4 DEF IInv

\* Every step keeps the types: no link is stored for the anonymous user.
LEMMA TypeStep == TypeOK /\ ArgInv /\ [Next]_vars => TypeOK'
<1> SUFFICES ASSUME TypeOK /\ ArgInv, [Next]_vars PROVE TypeOK'
  OBVIOUS
<1> USE UserAssumption DEF TypeOK, ArgInv, Goto, Return, Committed, RolledBack, InDoubt, Holding, Open, Link, Insert, Counted, Ended, vars, locals, tables
<1>1. ASSUME NEW c \in Call, CallInsert(c) PROVE TypeOK'
  BY <1>1 DEF CallInsert
<1>2. ASSUME NEW c \in Call, Begin(c) PROVE TypeOK'
  BY <1>2 DEF Begin
<1>3. ASSUME NEW c \in Call, BeginFails(c) PROVE TypeOK'
  BY <1>3 DEF BeginFails
<1>4. ASSUME NEW c \in Call, IncLoad(c) PROVE TypeOK'
  BY <1>4 DEF IncLoad
<1>5. ASSUME NEW c \in Call, IncStore(c) PROVE TypeOK'
  BY <1>5 DEF IncStore
<1>6. ASSUME NEW c \in Call, Upsert(c) PROVE TypeOK'
  BY <1>6 DEF Upsert
<1>7. ASSUME NEW c \in Call, AddUsers(c) PROVE TypeOK'
  BY <1>7 DEF AddUsers
<1>8. ASSUME NEW c \in Call, StatementFails(c) PROVE TypeOK'
  BY <1>8 DEF StatementFails
<1>9. ASSUME NEW c \in Call, DecLoad(c) PROVE TypeOK'
  BY <1>9 DEF DecLoad
<1>10. ASSUME NEW c \in Call, DecStore(c) PROVE TypeOK'
  BY <1>10 DEF DecStore
<1>11. ASSUME NEW c \in Call, Commit(c) PROVE TypeOK'
  BY <1>11 DEF Commit
<1>12. ASSUME NEW c \in Call, Rollback(c) PROVE TypeOK'
  BY <1>12 DEF Rollback
<1>13. ASSUME NEW c \in Call, LeaveOpen(c) PROVE TypeOK'
  BY <1>13 DEF LeaveOpen
<1>14. ASSUME NEW c \in Call, CallLink(c) PROVE TypeOK'
  BY <1>14 DEF CallLink
<1>15. ASSUME NEW c \in Call, LinkUser(c) PROVE TypeOK'
  BY <1>15 DEF LinkUser
<1>16. ASSUME NEW c \in Call, LinkFails(c) PROVE TypeOK'
  BY <1>16 DEF LinkFails
<1>17. ASSUME NEW c \in Call, AwaitDone(c) PROVE TypeOK'
  BY <1>17 DEF AwaitDone
<1>18. CASE AppCancel
  BY <1>18 DEF AppCancel
<1>19. CASE UNCHANGED vars
  BY <1>19
<1>20. ASSUME NEW c \in Call, CommitUnanswered(c) PROVE TypeOK'
  BY <1>20 DEF CommitUnanswered
<1>21. ASSUME NEW c \in Call, LinkUnanswered(c) PROVE TypeOK'
  BY <1>21 DEF LinkUnanswered
<1>22. ASSUME NEW c \in Call, Settle(c) PROVE TypeOK'
  <2>1. arg[c].hash \in Hash /\ ("link" \in wrote[c] => arg[c].user \in User)
    BY <1>22 DEF Settle
  <2>2. /\ dbTx'  \in [Call -> {"none", "open", "inDoubt", "committed", "rolledBack"}]
        /\ wrote' \in [Call -> SUBSET {"row", "link"}]
    BY <1>22 DEF Settle
  <2>3. transactions' \subseteq Hash /\ userTransactions' \subseteq User \X Hash
    BY <1>22, <2>1 DEF Settle
  <2> QED
    BY <1>22, <2>2, <2>3 DEF Settle
<1> QED
  BY <1>1, <1>2, <1>3, <1>4, <1>5, <1>6, <1>7, <1>8, <1>9, <1>10, <1>11, <1>12, <1>13, <1>14, <1>15, <1>16, <1>17, <1>18, <1>19, <1>20, <1>21, <1>22
  DEF Next, InsertStep, LinkStep, Terminated

\* The user of a call decides whether it writes a link.
LEMMA ArgStep == TypeOK /\ ArgInv /\ WroteAll /\ [Next]_vars => ArgInv'
<1> SUFFICES ASSUME TypeOK /\ ArgInv /\ WroteAll, [Next]_vars PROVE ArgInv'
  OBVIOUS
<1> USE UserAssumption DEF TypeOK, ArgInv, Goto, Return, Committed, RolledBack, InDoubt, Insert, Counted, Ended, vars, locals, tables
<1>1. ASSUME NEW c \in Call, CallInsert(c) PROVE ArgInv'
  <2>1. arg'[c].hash \in Hash /\ pc'[c] = "begin" /\ UNCHANGED wrote
    BY <1>1 DEF CallInsert
  <2>2. \A d \in Call \ {c} : arg'[d] = arg[d] /\ pc'[d] = pc[d]
    BY <1>1 DEF CallInsert
  <2>3. wrote[c] = {} /\ dbTx[c] = "none" /\ UNCHANGED dbTx
    BY <1>1 DEF CallInsert
  <2> QED
    BY <2>1, <2>2, <2>3
<1>2. ASSUME NEW c \in Call, Begin(c) PROVE ArgInv'
  BY <1>2 DEF Begin
<1>3. ASSUME NEW c \in Call, BeginFails(c) PROVE ArgInv'
  BY <1>3 DEF BeginFails
<1>4. ASSUME NEW c \in Call, IncLoad(c) PROVE ArgInv'
  BY <1>4 DEF IncLoad
<1>5. ASSUME NEW c \in Call, IncStore(c) PROVE ArgInv'
  BY <1>5 DEF IncStore
<1>6. ASSUME NEW c \in Call, Upsert(c) PROVE ArgInv'
  BY <1>6 DEF Upsert
<1>7. ASSUME NEW c \in Call, AddUsers(c) PROVE ArgInv'
  BY <1>7 DEF AddUsers
<1>8. ASSUME NEW c \in Call, StatementFails(c) PROVE ArgInv'
  BY <1>8 DEF StatementFails
<1>9. ASSUME NEW c \in Call, DecLoad(c) PROVE ArgInv'
  BY <1>9 DEF DecLoad
<1>10. ASSUME NEW c \in Call, DecStore(c) PROVE ArgInv'
  BY <1>10 DEF DecStore
<1>11. ASSUME NEW c \in Call, Commit(c) PROVE ArgInv'
  BY <1>11 DEF Commit
<1>12. ASSUME NEW c \in Call, Rollback(c) PROVE ArgInv'
  BY <1>12 DEF Rollback
<1>13. ASSUME NEW c \in Call, LeaveOpen(c) PROVE ArgInv'
  BY <1>13 DEF LeaveOpen
<1>14. ASSUME NEW c \in Call, CallLink(c) PROVE ArgInv'
  BY <1>14 DEF CallLink
<1>15. ASSUME NEW c \in Call, LinkUser(c) PROVE ArgInv'
  BY <1>15 DEF LinkUser
<1>16. ASSUME NEW c \in Call, LinkFails(c) PROVE ArgInv'
  BY <1>16 DEF LinkFails
<1>17. ASSUME NEW c \in Call, AwaitDone(c) PROVE ArgInv'
  BY <1>17 DEF AwaitDone
<1>18. CASE AppCancel
  BY <1>18 DEF AppCancel
<1>19. CASE UNCHANGED vars
  BY <1>19
<1>20. ASSUME NEW c \in Call, CommitUnanswered(c) PROVE ArgInv'
  <2>1. "row" \in wrote[c] /\ (arg[c].user # NonAuthenticatedUser => "link" \in wrote[c])
    BY <1>20 DEF CommitUnanswered, WroteAll
  <2> QED
    BY <1>20, <2>1 DEF CommitUnanswered
<1>21. ASSUME NEW c \in Call, LinkUnanswered(c) PROVE ArgInv'
  BY <1>21 DEF LinkUnanswered
<1>22. ASSUME NEW c \in Call, Settle(c) PROVE ArgInv'
  BY <1>22 DEF Settle
<1> QED
  BY <1>1, <1>2, <1>3, <1>4, <1>5, <1>6, <1>7, <1>8, <1>9, <1>10, <1>11, <1>12, <1>13, <1>14, <1>15, <1>16, <1>17, <1>18, <1>19, <1>20, <1>21, <1>22
  DEF Next, InsertStep, LinkStep, Terminated

\* The upsert and the link of a user come before the commit.
LEMMA WroteStep == TypeOK /\ WroteAll /\ [Next]_vars => WroteAll'
<1> SUFFICES ASSUME TypeOK /\ WroteAll, [Next]_vars PROVE WroteAll'
  OBVIOUS
<1> USE DEF TypeOK, WroteAll, Goto, Return, Committed, RolledBack, InDoubt, Insert, Counted, Ended, vars, locals, tables
<1>1. ASSUME NEW c \in Call, CallInsert(c) PROVE WroteAll'
  BY <1>1 DEF CallInsert
<1>2. ASSUME NEW c \in Call, Begin(c) PROVE WroteAll'
  BY <1>2 DEF Begin
<1>3. ASSUME NEW c \in Call, BeginFails(c) PROVE WroteAll'
  BY <1>3 DEF BeginFails
<1>4. ASSUME NEW c \in Call, IncLoad(c) PROVE WroteAll'
  BY <1>4 DEF IncLoad
<1>5. ASSUME NEW c \in Call, IncStore(c) PROVE WroteAll'
  BY <1>5 DEF IncStore
<1>6. ASSUME NEW c \in Call, Upsert(c) PROVE WroteAll'
  BY <1>6 DEF Upsert
<1>7. ASSUME NEW c \in Call, AddUsers(c) PROVE WroteAll'
  BY <1>7 DEF AddUsers
<1>8. ASSUME NEW c \in Call, StatementFails(c) PROVE WroteAll'
  BY <1>8 DEF StatementFails
<1>9. ASSUME NEW c \in Call, DecLoad(c) PROVE WroteAll'
  BY <1>9 DEF DecLoad
<1>10. ASSUME NEW c \in Call, DecStore(c) PROVE WroteAll'
  BY <1>10 DEF DecStore
<1>11. ASSUME NEW c \in Call, Commit(c) PROVE WroteAll'
  BY <1>11 DEF Commit
<1>12. ASSUME NEW c \in Call, Rollback(c) PROVE WroteAll'
  BY <1>12 DEF Rollback
<1>13. ASSUME NEW c \in Call, LeaveOpen(c) PROVE WroteAll'
  BY <1>13 DEF LeaveOpen
<1>14. ASSUME NEW c \in Call, CallLink(c) PROVE WroteAll'
  BY <1>14 DEF CallLink
<1>15. ASSUME NEW c \in Call, LinkUser(c) PROVE WroteAll'
  BY <1>15 DEF LinkUser
<1>16. ASSUME NEW c \in Call, LinkFails(c) PROVE WroteAll'
  BY <1>16 DEF LinkFails
<1>17. ASSUME NEW c \in Call, AwaitDone(c) PROVE WroteAll'
  BY <1>17 DEF AwaitDone
<1>18. CASE AppCancel
  BY <1>18 DEF AppCancel
<1>19. CASE UNCHANGED vars
  BY <1>19
<1>20. ASSUME NEW c \in Call, CommitUnanswered(c) PROVE WroteAll'
  BY <1>20 DEF CommitUnanswered
<1>21. ASSUME NEW c \in Call, LinkUnanswered(c) PROVE WroteAll'
  BY <1>21 DEF LinkUnanswered
<1>22. ASSUME NEW c \in Call, Settle(c) PROVE WroteAll'
  BY <1>22 DEF Settle
<1> QED
  BY <1>1, <1>2, <1>3, <1>4, <1>5, <1>6, <1>7, <1>8, <1>9, <1>10, <1>11, <1>12, <1>13, <1>14, <1>15, <1>16, <1>17, <1>18, <1>19, <1>20, <1>21, <1>22
  DEF Next, InsertStep, LinkStep, Terminated

\* A link is written only while no open transaction holds it, nor the table.
LEMMA IsolatedStep == TypeOK /\ ArgInv /\ LinksIsolated /\ [Next]_vars => LinksIsolated'
<1> SUFFICES ASSUME TypeOK /\ ArgInv /\ LinksIsolated, [Next]_vars PROVE LinksIsolated'
  OBVIOUS
<1> USE DEF TypeOK, ArgInv, LinksIsolated, LinkLocked, Link, Holding, Open, Goto, Return, Committed, RolledBack, InDoubt, Insert, Counted, Ended, vars, locals, tables
<1>1. ASSUME NEW c \in Call, CallInsert(c) PROVE LinksIsolated'
  BY <1>1 DEF CallInsert
<1>2. ASSUME NEW c \in Call, Begin(c) PROVE LinksIsolated'
  BY <1>2 DEF Begin
<1>3. ASSUME NEW c \in Call, BeginFails(c) PROVE LinksIsolated'
  BY <1>3 DEF BeginFails
<1>4. ASSUME NEW c \in Call, IncLoad(c) PROVE LinksIsolated'
  BY <1>4 DEF IncLoad
<1>5. ASSUME NEW c \in Call, IncStore(c) PROVE LinksIsolated'
  BY <1>5 DEF IncStore
<1>6. ASSUME NEW c \in Call, Upsert(c) PROVE LinksIsolated'
  BY <1>6 DEF Upsert
<1>7. ASSUME NEW c \in Call, AddUsers(c) PROVE LinksIsolated'
  <2>1. /\ UNCHANGED <<dbTx, arg, userTransactions>> /\ wrote' = [wrote EXCEPT ![c] = @ \cup {"link"}]
        /\ Link(c) \notin userTransactions /\ ~LinkLocked(c, Holding) /\ dbTx[c] = "open"
    BY <1>7 DEF AddUsers
  <2>2. Holding' = Holding /\ c \in Holding
    BY <2>1
  <2>3. \A d \in Call \ {c} : wrote'[d] = wrote[d]
    BY <2>1
  <2>4. \A d \in Holding \ {c} : "link" \in wrote[d] => Link(d) # Link(c)
    BY <2>1, <2>2
  <2> QED
    BY <2>1, <2>2, <2>3, <2>4
<1>8. ASSUME NEW c \in Call, StatementFails(c) PROVE LinksIsolated'
  BY <1>8 DEF StatementFails
<1>9. ASSUME NEW c \in Call, DecLoad(c) PROVE LinksIsolated'
  BY <1>9 DEF DecLoad
<1>10. ASSUME NEW c \in Call, DecStore(c) PROVE LinksIsolated'
  BY <1>10 DEF DecStore
<1>11. ASSUME NEW c \in Call, Commit(c) PROVE LinksIsolated'
  BY <1>11 DEF Commit
<1>12. ASSUME NEW c \in Call, Rollback(c) PROVE LinksIsolated'
  BY <1>12 DEF Rollback
<1>13. ASSUME NEW c \in Call, LeaveOpen(c) PROVE LinksIsolated'
  BY <1>13 DEF LeaveOpen
<1>14. ASSUME NEW c \in Call, CallLink(c) PROVE LinksIsolated'
  BY <1>14 DEF CallLink
<1>15. ASSUME NEW c \in Call, LinkUser(c) PROVE LinksIsolated'
  BY <1>15 DEF LinkUser
<1>16. ASSUME NEW c \in Call, LinkFails(c) PROVE LinksIsolated'
  BY <1>16 DEF LinkFails
<1>17. ASSUME NEW c \in Call, AwaitDone(c) PROVE LinksIsolated'
  BY <1>17 DEF AwaitDone
<1>18. CASE AppCancel
  BY <1>18 DEF AppCancel
<1>19. CASE UNCHANGED vars
  BY <1>19
<1>20. ASSUME NEW c \in Call, CommitUnanswered(c) PROVE LinksIsolated'
  BY <1>20 DEF CommitUnanswered
<1>21. ASSUME NEW c \in Call, LinkUnanswered(c) PROVE LinksIsolated'
  BY <1>21 DEF LinkUnanswered
<1>22. ASSUME NEW c \in Call, Settle(c) PROVE LinksIsolated'
  <2>2. UNCHANGED arg
    BY <1>22 DEF Settle
  <2>3. \A d \in Call : d # c => /\ dbTx'[d] = dbTx[d] /\ wrote'[d] = wrote[d]
    BY <1>22 DEF Settle
  <2>4. c \notin Holding'
    BY <1>22 DEF Settle
  <2>5. \A d \in Holding' : d \in Holding /\ d # c /\ wrote'[d] = wrote[d]
    BY <2>3, <2>4
  <2>6. ASSUME NEW d \in Holding', "link" \in wrote'[d] PROVE Link(d) \notin userTransactions'
    <3>1. d \in Holding /\ d # c /\ "link" \in wrote[d] /\ Link(d) \notin userTransactions
      BY <2>5, <2>6
    <3>2. CASE RolledBack(c)
      BY <3>1, <3>2
    <3>3. CASE Committed(c)
      <4>1. ~LinkLocked(c, Holding)
        BY <1>22, <3>3 DEF Settle
      <4>2. Link(d) # Link(c)
        BY <3>1, <4>1
      <4> QED
        BY <3>1, <3>3, <4>2
    <3> QED
      BY <1>22, <3>2, <3>3 DEF Settle
  <2> QED
    BY <2>2, <2>5, <2>6
<1> QED
  BY <1>1, <1>2, <1>3, <1>4, <1>5, <1>6, <1>7, <1>8, <1>9, <1>10, <1>11, <1>12, <1>13, <1>14, <1>15, <1>16, <1>17, <1>18, <1>19, <1>20, <1>21, <1>22
  DEF Next, InsertStep, LinkStep, Terminated

\* Stored transactions are never deleted.
LEMMA LinkingStep == TypeOK /\ ArgInv /\ WroteAll /\ LinkingStored /\ [Next]_vars => LinkingStored'
<1> SUFFICES ASSUME TypeOK /\ ArgInv /\ WroteAll /\ LinkingStored, [Next]_vars PROVE LinkingStored'
  OBVIOUS
<1> USE DEF TypeOK, LinkingStored, Goto, Return, Committed, RolledBack, InDoubt, Insert, Counted, Ended, vars, locals, tables
<1>1. ASSUME NEW c \in Call, CallInsert(c) PROVE LinkingStored'
  <2>1. pc[c] = "idle" /\ pc'[c] = "begin" /\ UNCHANGED <<dbTx, wrote, transactions>>
    BY <1>1 DEF CallInsert
  <2>2. \A d \in Call \ {c} : arg'[d] = arg[d] /\ pc'[d] = pc[d]
    BY <1>1 DEF CallInsert
  <2>3. dbTx[c] = "none"
    BY <2>1 DEF ArgInv
  <2> QED
    BY <2>1, <2>2, <2>3
<1>2. ASSUME NEW c \in Call, Begin(c) PROVE LinkingStored'
  BY <1>2 DEF Begin
<1>3. ASSUME NEW c \in Call, BeginFails(c) PROVE LinkingStored'
  BY <1>3 DEF BeginFails
<1>4. ASSUME NEW c \in Call, IncLoad(c) PROVE LinkingStored'
  BY <1>4 DEF IncLoad
<1>5. ASSUME NEW c \in Call, IncStore(c) PROVE LinkingStored'
  BY <1>5 DEF IncStore
<1>6. ASSUME NEW c \in Call, Upsert(c) PROVE LinkingStored'
  BY <1>6 DEF Upsert
<1>7. ASSUME NEW c \in Call, AddUsers(c) PROVE LinkingStored'
  BY <1>7 DEF AddUsers
<1>8. ASSUME NEW c \in Call, StatementFails(c) PROVE LinkingStored'
  <2>1. dbTx[c] # "inDoubt"
    BY <1>8 DEF StatementFails, ArgInv
  <2> QED
    BY <1>8, <2>1 DEF StatementFails
<1>9. ASSUME NEW c \in Call, DecLoad(c) PROVE LinkingStored'
  BY <1>9 DEF DecLoad
<1>10. ASSUME NEW c \in Call, DecStore(c) PROVE LinkingStored'
  BY <1>10 DEF DecStore
<1>11. ASSUME NEW c \in Call, Commit(c) PROVE LinkingStored'
  BY <1>11 DEF Commit
<1>12. ASSUME NEW c \in Call, Rollback(c) PROVE LinkingStored'
  BY <1>12 DEF Rollback
<1>13. ASSUME NEW c \in Call, LeaveOpen(c) PROVE LinkingStored'
  BY <1>13 DEF LeaveOpen
<1>14. ASSUME NEW c \in Call, CallLink(c) PROVE LinkingStored'
  BY <1>14 DEF CallLink
<1>15. ASSUME NEW c \in Call, LinkUser(c) PROVE LinkingStored'
  BY <1>15 DEF LinkUser
<1>16. ASSUME NEW c \in Call, LinkFails(c) PROVE LinkingStored'
  BY <1>16 DEF LinkFails
<1>17. ASSUME NEW c \in Call, AwaitDone(c) PROVE LinkingStored'
  BY <1>17 DEF AwaitDone
<1>18. CASE AppCancel
  BY <1>18 DEF AppCancel
<1>19. CASE UNCHANGED vars
  BY <1>19
<1>20. ASSUME NEW c \in Call, CommitUnanswered(c) PROVE LinkingStored'
  <2>1. "row" \in wrote[c]
    BY <1>20 DEF CommitUnanswered, WroteAll
  <2> QED
    BY <1>20, <2>1 DEF CommitUnanswered
<1>21. ASSUME NEW c \in Call, LinkUnanswered(c) PROVE LinkingStored'
  BY <1>21 DEF LinkUnanswered
<1>22. ASSUME NEW c \in Call, Settle(c) PROVE LinkingStored'
  BY <1>22 DEF Settle
<1> QED
  BY <1>1, <1>2, <1>3, <1>4, <1>5, <1>6, <1>7, <1>8, <1>9, <1>10, <1>11, <1>12, <1>13, <1>14, <1>15, <1>16, <1>17, <1>18, <1>19, <1>20, <1>21, <1>22
  DEF Next, InsertStep, LinkStep, Terminated

\* What is committed is all that one call was asked to store.
LEMMA FailureStep == TypeOK /\ ArgInv /\ WroteAll /\ LinkingStored /\ FailureAllOrNothing /\ [Next]_vars
                        => FailureAllOrNothing'
<1> SUFFICES ASSUME TypeOK, ArgInv, WroteAll, LinkingStored, FailureAllOrNothing, [Next]_vars
             PROVE  FailureAllOrNothing'
  OBVIOUS
<1> USE DEF FailureAllOrNothing, Stored, Link
\* Most steps commit nothing, and leave the arguments of those that did.
<1>q. ASSUME UNCHANGED tables,
             \A d \in Call : dbTx'[d] = "committed" => dbTx[d] = "committed",
             \A d \in Call : dbTx[d] = "committed" => dbTx'[d] = "committed" /\ arg'[d] = arg[d]
      PROVE  FailureAllOrNothing'
  <2>1. \A d \in Call : dbTx'[d] = "committed" => Stored(d)'
    BY <1>q DEF tables
  <2>2. \A d \in Call : dbTx[d] = "committed" => dbTx'[d] = "committed" /\ arg'[d] = arg[d]
    BY <1>q
  <2>3. UNCHANGED <<transactions, userTransactions>>
    BY <1>q DEF tables
  <2> QED
    BY <2>1, <2>2, <2>3
\* The others commit all that one call was asked to store.
<1>c. ASSUME NEW c \in Call, UNCHANGED arg, dbTx' = [dbTx EXCEPT ![c] = "committed"],
             transactions' = transactions \cup {arg[c].hash},
             \/ arg[c].user = NonAuthenticatedUser /\ UNCHANGED userTransactions
             \/ userTransactions' = userTransactions \cup {Link(c)}
      PROVE  FailureAllOrNothing'
  <2>1. \A d \in Call : dbTx'[d] = "committed" <=> dbTx[d] = "committed" \/ d = c
    BY <1>c DEF TypeOK
  <2>2. \A d \in Call : dbTx'[d] = "committed" => Stored(d)'
    BY <1>c, <2>1
  <2>3. \A h \in transactions' : \E d \in Call : dbTx'[d] = "committed" /\ arg'[d].hash = h
    BY <1>c, <2>1
  <2>4. \A l \in userTransactions' : \E d \in Call : dbTx'[d] = "committed" /\ Link(d)' = l
    BY <1>c, <2>1
  <2> QED
    BY <2>2, <2>3, <2>4
<1>w. ASSUME NEW c \in Call, Committed(c), UNCHANGED arg, arg[c].hash \in transactions \/ "row" \in wrote[c],
             arg[c].user # NonAuthenticatedUser => "link" \in wrote[c]
      PROVE  FailureAllOrNothing'
  <2>1. transactions' = transactions \cup {arg[c].hash}
    BY <1>w DEF Committed
  <2>2. \/ arg[c].user = NonAuthenticatedUser /\ UNCHANGED userTransactions
        \/ userTransactions' = userTransactions \cup {Link(c)}
    BY <1>w DEF Committed
  <2>3. dbTx' = [dbTx EXCEPT ![c] = "committed"]
    BY <1>w DEF Committed
  <2> QED
    BY <1>w, <1>c, <2>1, <2>2, <2>3
<1>1. ASSUME NEW c \in Call, CallInsert(c) \/ CallLink(c) PROVE FailureAllOrNothing'
  <2>1. pc[c] = "idle" /\ UNCHANGED <<dbTx, tables>>
    BY <1>1 DEF CallInsert, CallLink
  <2>4. \A d \in Call \ {c} : arg'[d] = arg[d]
    <3>1. \E a : arg' = [arg EXCEPT ![c] = a]
      BY <1>1 DEF CallInsert, CallLink
    <3> QED
      BY <3>1 DEF TypeOK
  <2>2. dbTx[c] = "none"
    BY <2>1 DEF ArgInv
  <2>3. \A d \in Call : dbTx[d] = "committed" => arg'[d] = arg[d]
    BY <2>2, <2>4
  <2> QED
    BY <1>q, <2>1, <2>3
<1>2. ASSUME NEW c \in Call, \/ BeginFails(c) \/ IncLoad(c) \/ IncStore(c) \/ Upsert(c) \/ AddUsers(c)
                             \/ StatementFails(c) \/ DecLoad(c) \/ DecStore(c) \/ LeaveOpen(c)
                             \/ LinkFails(c)
      PROVE  FailureAllOrNothing'
  <2>1. UNCHANGED <<dbTx, arg, tables>>
    BY <1>2 DEF BeginFails, IncLoad, IncStore, Upsert, AddUsers, StatementFails, DecLoad, DecStore,
                LeaveOpen, LinkFails
  <2> QED
    BY <1>q, <2>1
<1>3. ASSUME NEW c \in Call, Begin(c) \/ CommitUnanswered(c) \/ LinkUnanswered(c)
      PROVE  FailureAllOrNothing'
  <2>1. /\ dbTx[c] # "committed" /\ UNCHANGED <<arg, tables>>
        /\ dbTx' = [dbTx EXCEPT ![c] = "open"] \/ dbTx' = [dbTx EXCEPT ![c] = "inDoubt"]
    BY <1>3 DEF Begin, CommitUnanswered, LinkUnanswered, ArgInv
  <2> QED
    BY <1>q, <2>1 DEF TypeOK
<1>4. ASSUME NEW c \in Call, Commit(c) PROVE FailureAllOrNothing'
  BY <1>4, <1>w DEF Commit, WroteAll
<1>5. ASSUME NEW c \in Call, RolledBack(c), UNCHANGED arg, dbTx[c] # "committed"
      PROVE  FailureAllOrNothing'
  BY <1>5, <1>q DEF RolledBack, TypeOK
<1>6. ASSUME NEW c \in Call, Rollback(c) PROVE FailureAllOrNothing'
  <2>1. dbTx[c] # "committed"
    BY <1>6 DEF Rollback, ArgInv, Ended
  <2> QED
    BY <1>5, <1>6, <2>1 DEF Rollback
<1>7. ASSUME NEW c \in Call, LinkUser(c) PROVE FailureAllOrNothing'
  <2>1. /\ UNCHANGED arg /\ dbTx' = [dbTx EXCEPT ![c] = "committed"]
        /\ userTransactions' = userTransactions \cup {Link(c)}
        /\ transactions' = transactions \cup {arg[c].hash}
    BY <1>7 DEF LinkUser, LinkingStored
  <2> QED
    BY <1>c, <2>1
<1>8. ASSUME NEW c \in Call, AwaitDone(c) PROVE FailureAllOrNothing'
  BY <1>5, <1>8 DEF AwaitDone, locals
<1>9. ASSUME NEW c \in Call, Settle(c) PROVE FailureAllOrNothing'
  <2>1. dbTx[c] = "inDoubt" /\ UNCHANGED arg /\ (Committed(c) \/ RolledBack(c))
    BY <1>9 DEF Settle, locals
  <2>2. "row" \in wrote[c] \/ (arg[c].hash \in transactions /\ "link" \in wrote[c])
    BY <2>1 DEF ArgInv, LinkingStored, InDoubt, TypeOK
  <2>3. arg[c].user # NonAuthenticatedUser => "link" \in wrote[c]
    BY <2>1, <2>2 DEF ArgInv, InDoubt
  <2> QED
    BY <1>5, <1>w, <2>1, <2>2, <2>3
<1>10. CASE AppCancel \/ UNCHANGED vars
  BY <1>10, <1>q DEF AppCancel, vars, locals
<1> QED
  BY <1>1, <1>2, <1>3, <1>4, <1>6, <1>7, <1>8, <1>9, <1>10
  DEF Next, InsertStep, LinkStep, Terminated

\* One call at a time keeps the counter balanced.
LEMMA SerialStep == TypeOK /\ WroteAll /\ LinkingStored /\ SerialInv /\ [Next]_vars => SerialInv'
<1> SUFFICES ASSUME TypeOK /\ WroteAll /\ LinkingStored /\ SerialInv, [Next]_vars PROVE SerialInv'
  OBVIOUS
<1> USE DEF TypeOK, WroteAll, LinkingStored, SerialInv, SerialCount, CountAt, OpenInProgress, AckStored, Stored, CountSeen, Goto, Return, Committed, RolledBack, InDoubt, Link, Open, Insert, Counted, Ended, vars, locals, tables
<1>1. ASSUME NEW c \in Call, CallInsert(c) PROVE SerialInv'
  <2> SUFFICES ASSUME ~overlapped' PROVE (SerialCount /\ OpenInProgress /\ AckStored)'
    OBVIOUS
  <2>1. ~overlapped /\ (\A d \in Call : pc[d] \notin Insert) /\ txCount = 0
    BY <1>1 DEF CallInsert
  <2>2. /\ pc'[c] = "begin" /\ pc[c] = "idle"
        /\ UNCHANGED <<txCount, reg, dbTx, wrote, transactions, userTransactions>>
        /\ \A d \in Call \ {c} : arg'[d] = arg[d] /\ pc'[d] = pc[d]
    BY <1>1 DEF CallInsert
  <2>3. SerialCount'
    BY <2>1, <2>2
  <2>4. OpenInProgress'
    BY <2>1, <2>2
  <2>5. AckStored'
    BY <2>1, <2>2
  <2> QED
    BY <2>3, <2>4, <2>5
<1>2. ASSUME NEW c \in Call, Begin(c) PROVE SerialInv'
  BY <1>2 DEF Begin
<1>3. ASSUME NEW c \in Call, BeginFails(c) PROVE SerialInv'
  BY <1>3 DEF BeginFails
<1>4. ASSUME NEW c \in Call, IncLoad(c) PROVE SerialInv'
  BY <1>4 DEF IncLoad
<1>5. ASSUME NEW c \in Call, IncStore(c) PROVE SerialInv'
  BY <1>5 DEF IncStore
<1>6. ASSUME NEW c \in Call, Upsert(c) PROVE SerialInv'
  BY <1>6 DEF Upsert
<1>7. ASSUME NEW c \in Call, AddUsers(c) PROVE SerialInv'
  BY <1>7 DEF AddUsers
<1>8. ASSUME NEW c \in Call, StatementFails(c) PROVE SerialInv'
  BY <1>8 DEF StatementFails
<1>9. ASSUME NEW c \in Call, DecLoad(c) PROVE SerialInv'
  BY <1>9 DEF DecLoad
<1>10. ASSUME NEW c \in Call, DecStore(c) PROVE SerialInv'
  BY <1>10 DEF DecStore
<1>11. ASSUME NEW c \in Call, Commit(c) PROVE SerialInv'
  BY <1>11 DEF Commit
<1>12. ASSUME NEW c \in Call, Rollback(c) PROVE SerialInv'
  BY <1>12 DEF Rollback
<1>13. ASSUME NEW c \in Call, LeaveOpen(c) PROVE SerialInv'
  BY <1>13 DEF LeaveOpen
<1>14. ASSUME NEW c \in Call, CallLink(c) PROVE SerialInv'
  BY <1>14 DEF CallLink
<1>15. ASSUME NEW c \in Call, LinkUser(c) PROVE SerialInv'
  BY <1>15 DEF LinkUser
<1>16. ASSUME NEW c \in Call, LinkFails(c) PROVE SerialInv'
  BY <1>16 DEF LinkFails
<1>17. ASSUME NEW c \in Call, AwaitDone(c) PROVE SerialInv'
  BY <1>17 DEF AwaitDone
<1>18. CASE AppCancel
  BY <1>18 DEF AppCancel
<1>19. CASE UNCHANGED vars
  BY <1>19
<1>20. ASSUME NEW c \in Call, CommitUnanswered(c) PROVE SerialInv'
  BY <1>20 DEF CommitUnanswered
<1>21. ASSUME NEW c \in Call, LinkUnanswered(c) PROVE SerialInv'
  BY <1>21 DEF LinkUnanswered
<1>22. ASSUME NEW c \in Call, Settle(c) PROVE SerialInv'
  BY <1>22 DEF Settle
<1> QED
  BY <1>1, <1>2, <1>3, <1>4, <1>5, <1>6, <1>7, <1>8, <1>9, <1>10, <1>11, <1>12, <1>13, <1>14, <1>15, <1>16, <1>17, <1>18, <1>19, <1>20, <1>21, <1>22
  DEF Next, InsertStep, LinkStep, Terminated

-----------------------------------------------------------------------------
\* IInv holds in every state the store reaches.
THEOREM Invariance == Spec => []IInv
<1>1. Init => IInv
  BY InitIInv
<1>2. IInv /\ [Next]_vars => IInv'
  BY TypeStep, ArgStep, WroteStep, LinkingStep, IsolatedStep, FailureStep,
     SerialStep DEF IInv
<1> QED
  BY <1>1, <1>2, PTL DEF Spec

\* The tables hold rows of real hashes and links of authenticated users only,
\* and every call stands where the code can be.
THEOREM TypeCorrect == Spec => []TypeOK
<1>1. IInv => TypeOK
  BY DEF IInv
<1> QED
  BY <1>1, Invariance, PTL

\* Until two calls of InsertTransactions overlap, one that returned nil has
\* its row, and the link of its user, committed.
THEOREM SerialAckIsStored == Spec => []SerialAckStored
<1>1. IInv => SerialAckStored
  BY DEF IInv, SerialInv, SerialAckStored
<1> QED
  BY <1>1, Invariance, PTL

\* Until two calls overlap, txCount is zero whenever none is in progress, and
\* no call leaves a transaction open behind it.
THEOREM SerialIsBalanced == Spec => []SerialBalanced
<1>1. IInv => SerialBalanced
  BY DEF IInv, SerialInv, SerialCount, OpenInProgress, SerialBalanced
<1> QED
  BY <1>1, Invariance, PTL

\* Until two calls overlap, a call of InsertTransactions waits for no other
\* open transaction: the only one open is its own.
THEOREM SerialWritesNeverWait == Spec => []SerialNeverWaits
<1>1. IInv => SerialNeverWaits
  <2> SUFFICES ASSUME IInv, ~overlapped, NEW c \in Call
               PROVE  /\ pc[c] = "begin" => ConnFree
                      /\ pc[c] = "upsert" => ~Locked(c, Open)
                      /\ pc[c] = "addUser" => ~LinkLocked(c, Open)
    BY DEF SerialNeverWaits
  <2>1. \A d \in Open : pc[d] \in Insert \ {"begin"} /\ (pc[c] \in Insert => d = c)
    BY DEF IInv, SerialInv, SerialCount, OpenInProgress, Open
  <2>2. ASSUME pc[c] = "begin" PROVE ConnFree
    <3>1. Open = {}
      BY <2>1, <2>2 DEF Insert
    <3> QED
      BY <3>1, FS_EmptySet, ConnsAssumption DEF ConnFree
  <2>3. pc[c] \in {"upsert", "addUser"} => Open \ {c} = {}
    BY <2>1 DEF Insert, Counted
  <2> QED
    BY <2>2, <2>3 DEF Locked, LinkLocked
<1> QED
  BY <1>1, Invariance, PTL

\* Overlapping or not, the tables hold what whole calls asked for: a call that
\* returned an error has stored all of it or nothing, once the server settled.
THEOREM FailureIsWhole == Spec => []FailureAllOrNothing
<1>1. IInv => FailureAllOrNothing
  BY DEF IInv
<1> QED
  BY <1>1, Invariance, PTL

-----------------------------------------------------------------------------
\* The contract sees a call by its place, unless it is in doubt.
LEMMA SeenStays ==
    ASSUME TypeOK, NEW c \in Call, NEW p, pc' = [pc EXCEPT ![c] = p],
           InDoubt' = InDoubt, c \notin InDoubt, \A d \in Call \ {c} : arg'[d] = arg[d]
    PROVE  /\ Status' = [Status EXCEPT ![c] = IF p \in Insert THEN "inserting"
                                                ELSE IF p = "error" THEN "failed" ELSE "free"]
           /\ Asked' = [Asked EXCEPT ![c] = IF p \in Insert THEN arg'[c] ELSE NoArg]
<1>1. \A d \in Call : pc'[d] = IF d = c THEN p ELSE pc[d]
  BY DEF TypeOK
<1>2. \A d \in Call : d \in InDoubt' <=> d \in InDoubt
  OBVIOUS
<1> DEFINE seen(x, d) == IF x \in Insert THEN "inserting"
                         ELSE IF d \in InDoubt THEN "inDoubt"
                         ELSE IF x = "error" THEN "failed" ELSE "free"
<1>3. /\ Status  = [d \in Call |-> seen(pc[d], d)]
      /\ Status' = [d \in Call |-> seen(pc'[d], d)]
  BY <1>2 DEF Status
<1>4. seen(p, c) = IF p \in Insert THEN "inserting" ELSE IF p = "error" THEN "failed" ELSE "free"
  OBVIOUS
<1>5. Status' = [Status EXCEPT ![c] = seen(p, c)]
  <2> HIDE DEF seen
  <2> QED
    BY <1>1, <1>3
<1>6. Asked' = [Asked EXCEPT ![c] = IF p \in Insert THEN arg'[c] ELSE NoArg]
  <2>1. /\ Asked  = [d \in Call |-> IF pc[d] \in Insert \/ d \in InDoubt THEN arg[d] ELSE NoArg]
        /\ Asked' = [d \in Call |-> IF pc'[d] \in Insert \/ d \in InDoubt THEN arg'[d] ELSE NoArg]
    BY <1>2 DEF Asked
  <2> QED
    BY <2>1, <1>1
<1> QED
  BY <1>4, <1>5, <1>6

\* A call that moves from one place inside InsertTransactions to another, or
\* from one outside to another, without failing, shows the contract nothing.
LEMMA QuietMove ==
    ASSUME TypeOK, NEW c \in Call, NEW p, pc' = [pc EXCEPT ![c] = p],
           InDoubt' = InDoubt, c \notin InDoubt, UNCHANGED arg,
           pc[c] \in Insert <=> p \in Insert, p # "error", pc[c] # "error"
    PROVE  Status' = Status /\ Asked' = Asked
<1>1. /\ Status' = [Status EXCEPT ![c] = IF p \in Insert THEN "inserting" ELSE "free"]
      /\ Asked' = [Asked EXCEPT ![c] = IF p \in Insert THEN arg[c] ELSE NoArg]
  BY SeenStays
<1>2. /\ Status[c] = IF p \in Insert THEN "inserting" ELSE "free"
      /\ Asked[c] = IF p \in Insert THEN arg[c] ELSE NoArg
  BY DEF Status, Asked
<1>3. Status = [Status EXCEPT ![c] = Status[c]]
  BY DEF Status
<1>4. Asked = [Asked EXCEPT ![c] = Asked[c]]
  BY DEF Asked
<1> QED
  BY <1>1, <1>2, <1>3, <1>4

\* A call that leaves InsertTransactions returns to the contract's caller.
LEMMA ReturnMove ==
    ASSUME TypeOK, NEW c \in Call, pc[c] \in Insert, NEW p \in Ended,
           pc' = [pc EXCEPT ![c] = p], InDoubt' = InDoubt, c \notin InDoubt,
           UNCHANGED <<arg, overlapped>>
    PROVE  Contract!Finish(c, "inserting", IF p = "error" THEN "failed" ELSE "free")
<1>1. p \notin Insert
  BY DEF Ended, Insert, Counted
<1>2. /\ Status' = [Status EXCEPT ![c] = IF p = "error" THEN "failed" ELSE "free"]
      /\ Asked' = [Asked EXCEPT ![c] = NoArg]
  BY <1>1, SeenStays
<1>3. Status[c] = "inserting"
  BY DEF Status
<1> QED
  BY <1>2, <1>3 DEF Contract!Finish, NoArg, Contract!NoArg

\* Only COMMIT without an answer puts an insert in doubt, and only the server
\* takes it out of it.
LEMMA DoubtStays ==
    ASSUME TypeOK, ArgInv, NEW c \in Call,
           \/ CallInsert(c) \/ Begin(c) \/ BeginFails(c) \/ IncLoad(c) \/ IncStore(c) \/ Upsert(c)
           \/ AddUsers(c) \/ StatementFails(c) \/ DecLoad(c) \/ DecStore(c) \/ Commit(c)
           \/ Rollback(c) \/ LeaveOpen(c) \/ CallLink(c) \/ LinkStep(c) \/ AwaitDone(c)
    PROVE  InDoubt' = InDoubt
<1> USE DEF TypeOK, ArgInv
<1>1. ASSUME UNCHANGED <<dbTx, wrote>> PROVE InDoubt' = InDoubt
  BY <1>1 DEF InDoubt
<1>2. ASSUME dbTx[c] # "inDoubt", dbTx'[c] # "inDoubt" \/ "row" \notin wrote'[c],
             \A d \in Call \ {c} : dbTx'[d] = dbTx[d] /\ wrote'[d] = wrote[d]
      PROVE  InDoubt' = InDoubt
  BY <1>2 DEF InDoubt
<1>3. CASE \/ CallInsert(c) \/ BeginFails(c) \/ IncLoad(c) \/ IncStore(c)
           \/ DecLoad(c) \/ DecStore(c) \/ LeaveOpen(c) \/ CallLink(c) \/ LinkFails(c)
  BY <1>1, <1>3 DEF CallInsert, BeginFails, IncLoad, IncStore, DecLoad, DecStore, LeaveOpen,
                    CallLink, LinkFails
<1>4. CASE Begin(c) \/ Upsert(c) \/ AddUsers(c) \/ StatementFails(c)
  <2>1. pc[c] \in {"begin", "upsert", "addUser"}
    BY <1>4 DEF Begin, Upsert, AddUsers, StatementFails
  <2>2. dbTx[c] # "inDoubt" /\ dbTx'[c] # "inDoubt"
    BY <1>4, <2>1 DEF Begin, Upsert, AddUsers, StatementFails
  <2> QED
    BY <1>2, <1>4, <2>2 DEF Begin, Upsert, AddUsers, StatementFails
<1>5. CASE Commit(c) \/ Rollback(c) \/ AwaitDone(c)
  <2>1. dbTx[c] # "inDoubt" /\ dbTx'[c] # "inDoubt"
    BY <1>5 DEF Commit, Rollback, AwaitDone, Committed, RolledBack
  <2> QED
    BY <1>2, <1>5, <2>1 DEF Commit, Rollback, AwaitDone, Committed, RolledBack
<1>6. CASE LinkUser(c) \/ LinkUnanswered(c)
  <2>1. dbTx[c] # "inDoubt" /\ (dbTx'[c] # "inDoubt" \/ "row" \notin wrote'[c])
    BY <1>6 DEF LinkUser, LinkUnanswered
  <2> QED
    BY <1>2, <1>6, <2>1 DEF LinkUser, LinkUnanswered
<1> QED
  BY <1>3, <1>4, <1>5, <1>6 DEF LinkStep

\* A call that holds a row of its own, and the link of its user, commits both.
LEMMA CommittedAdds ==
    ASSUME TypeOK, ArgInv, LinksIsolated, NEW c \in Holding, Committed(c),
           "row" \in wrote[c], arg[c].user # NonAuthenticatedUser => "link" \in wrote[c],
           Asked[c] = arg[c]
    PROVE  Contract!Add(c)
<1>1. transactions' = transactions \cup {arg[c].hash} /\ c \in Call
  BY DEF Committed, Holding, Open, InDoubt
<1>2. CASE arg[c].user = NonAuthenticatedUser
  <2>1. "link" \notin wrote[c]
    BY <1>1, <1>2, UserAssumption DEF ArgInv
  <2> QED
    BY <1>1, <1>2, <2>1 DEF Committed, Contract!Add
<1>3. CASE arg[c].user # NonAuthenticatedUser
  <2>1. userTransactions' = userTransactions \cup {Link(c)}
    BY <1>3 DEF Committed
  <2>2. Link(c) \notin userTransactions
    BY <1>3 DEF LinksIsolated
  <2> QED
    BY <1>1, <1>3, <2>1, <2>2 DEF Contract!Add, Link
<1> QED
  BY <1>2, <1>3

\* Each step of the writes is a step of the contract or changes nothing in it:
\* the commit stores the row and its link, which no other transaction holds,
\* an error leaves nothing behind unless the server has still to decide, and
\* nobody returns nil without storing unless two calls overlapped.
THEOREM Refinement == Spec => ContractKept
<1>1. Init => Contract!Init
  BY DEF Init, Contract!Init, Status, Asked, NoArg, Contract!NoArg, InDoubt, Insert, Counted
<1>2. ASSUME IInv, [Next]_vars PROVE [Contract!Next]_(Contract!vars)
  <2> USE <1>2 DEF IInv
  <2> DEFINE quiet == UNCHANGED Contract!vars
             kept  == UNCHANGED <<transactions, userTransactions, overlapped>>
  <2>q. ASSUME UNCHANGED <<pc, arg, InDoubt>>, kept PROVE quiet
    BY <2>q DEF Contract!vars, Status, Asked
  <2>d. \A c \in Call : pc[c] # "error" => c \notin InDoubt
    BY DEF ArgInv, InDoubt
  <2>m. ASSUME NEW c \in Call, NEW p, pc' = [pc EXCEPT ![c] = p], UNCHANGED <<arg, InDoubt>>,
               kept, pc[c] \in Insert, p \in Insert
        PROVE  quiet
    <3>1. p # "error" /\ pc[c] # "error"
      BY <2>m DEF Insert, Counted
    <3>2. Status' = Status /\ Asked' = Asked
      BY <2>m, <2>d, <3>1, QuietMove
    <3> QED
      BY <2>m, <3>2 DEF Contract!vars
  <2>f. ASSUME NEW c \in Call, pc[c] \in Insert, pc' = [pc EXCEPT ![c] = "error"],
               UNCHANGED <<arg, InDoubt>>, kept
        PROVE  Contract!InsertFails(c)
    <3>1. c \notin InDoubt
      BY <2>f, <2>d DEF Insert, Counted
    <3>2. Contract!Finish(c, "inserting", "failed")
      BY <2>f, <3>1, ReturnMove DEF Ended
    <3> QED
      BY <2>f, <3>2 DEF Contract!InsertFails
  <2>1. ASSUME NEW c \in Call, CallInsert(c) PROVE Contract!CallInsert(c)
    <3>1. /\ pc[c] = "idle" /\ c \notin InDoubt /\ InDoubt' = InDoubt
          /\ pc' = [pc EXCEPT ![c] = "begin"]
      BY <2>1, <2>d, DoubtStays DEF CallInsert, Goto
    <3>2. PICK h \in Hash, u \in User \cup {NonAuthenticatedUser} :
             arg' = [arg EXCEPT ![c] = [hash |-> h, user |-> u]]
      BY <2>1 DEF CallInsert
    <3>3. arg'[c] = [hash |-> h, user |-> u] /\ \A d \in Call \ {c} : arg'[d] = arg[d]
      BY <3>2 DEF TypeOK
    <3>4. "begin" \in Insert
      BY DEF Insert
    <3>5. /\ Status' = [Status EXCEPT ![c] = "inserting"]
          /\ Asked' = [Asked EXCEPT ![c] = [hash |-> h, user |-> u]]
      BY <3>1, <3>3, <3>4, SeenStays
    <3>6. Status[c] = "free"
      BY <3>1 DEF Status, Insert, Counted
    <3>7. (\E d \in Call : pc[d] \in Insert) <=> \E d \in Call : Status[d] = "inserting"
      <4>1. \A d \in Call : Status[d] = "inserting" <=> pc[d] \in Insert
        BY DEF Status
      <4> QED
        BY <4>1
    <3> QED
      BY <2>1, <3>5, <3>6, <3>7 DEF CallInsert, Contract!CallInsert, tables
  <2>2. ASSUME NEW c \in Call, \/ Begin(c) \/ IncLoad(c) \/ IncStore(c) \/ Upsert(c)
                               \/ AddUsers(c) \/ StatementFails(c) \/ DecLoad(c) \/ DecStore(c)
        PROVE  quiet
    <3>1. UNCHANGED arg /\ kept /\ pc[c] \in Insert
      BY <2>2 DEF Begin, IncLoad, IncStore, Upsert, AddUsers, StatementFails, DecLoad, DecStore,
                  tables, Insert, Counted
    <3>2. \E p \in Insert : pc' = [pc EXCEPT ![c] = p]
      BY <2>2 DEF Begin, IncLoad, IncStore, Upsert, AddUsers, StatementFails, DecLoad, DecStore,
                  Goto, Insert, Counted
    <3>3. InDoubt' = InDoubt
      BY <2>2, DoubtStays
    <3> QED
      BY <3>1, <3>2, <3>3, <2>m
  <2>3. ASSUME NEW c \in Call, BeginFails(c) \/ Rollback(c) PROVE Contract!InsertFails(c)
    <3>1. InDoubt' = InDoubt
      BY <2>3, DoubtStays
    <3> QED
      BY <2>3, <3>1, <2>f DEF BeginFails, Rollback, RolledBack, Return, Goto, tables, Insert
  <2>4. ASSUME NEW c \in Call, Commit(c) PROVE Contract!Insert(c)
    <3>1. /\ pc[c] \in Insert /\ pc[c] # "error" /\ pc' = [pc EXCEPT ![c] = "ok"]
          /\ UNCHANGED <<arg, overlapped>> /\ InDoubt' = InDoubt
      BY <2>4, DoubtStays DEF Commit, Return, Goto, Insert
    <3>2. Contract!Finish(c, "inserting", "free")
      BY <3>1, <2>d, ReturnMove DEF Ended
    <3>3. Asked[c] = arg[c] /\ c \in Holding
      BY <2>4, <3>1 DEF Commit, Asked, Holding, Open
    <3>4. "row" \in wrote[c] /\ (arg[c].user # NonAuthenticatedUser => "link" \in wrote[c])
      BY <2>4 DEF Commit, WroteAll
    <3>5. Contract!Add(c)
      BY <2>4, <3>3, <3>4, CommittedAdds DEF Commit
    <3> QED
      BY <3>2, <3>5 DEF Contract!Insert
  <2>14. ASSUME NEW c \in Call, CommitUnanswered(c) PROVE Contract!InsertInDoubt(c)
    <3>1. /\ pc[c] = "finish" /\ pc' = [pc EXCEPT ![c] = "error"] /\ dbTx' = [dbTx EXCEPT ![c] = "inDoubt"]
          /\ UNCHANGED <<arg, wrote, transactions, userTransactions, overlapped>>
      BY <2>14 DEF CommitUnanswered, Return, Goto, tables
    <3>2. "row" \in wrote[c] /\ c \notin InDoubt
      BY <2>14, <2>d DEF CommitUnanswered, WroteAll
    <3>3. InDoubt' = InDoubt \cup {c}
      BY <3>1, <3>2 DEF InDoubt, TypeOK
    <3>4. \A d \in Call : /\ pc'[d] = IF d = c THEN "error" ELSE pc[d]
                          /\ d \in InDoubt' <=> d \in InDoubt \/ d = c
      BY <3>1, <3>3 DEF TypeOK
    <3>5. "finish" \in Insert /\ "error" \notin Insert
      BY DEF Insert, Counted
    <3>6. Asked' = Asked
      BY <3>1, <3>4, <3>5 DEF Asked
    <3>7. Status[c] = "inserting"
      BY <3>1, <3>5, Zenon DEF Status
    <3>8. Status' = [Status EXCEPT ![c] = "inDoubt"]
      <4>1. \A d \in Call : Status'[d] = IF d = c THEN "inDoubt" ELSE Status[d]
        BY <3>4, <3>5 DEF Status
      <4> QED
        BY <4>1 DEF Status
    <3> QED
      BY <3>1, <3>6, <3>7, <3>8 DEF Contract!InsertInDoubt
  <2>5. ASSUME NEW c \in Call, LeaveOpen(c) PROVE Contract!InsertFails(c) \/ Contract!Lose(c)
    <3>1. pc[c] \in Insert /\ UNCHANGED arg /\ kept /\ InDoubt' = InDoubt /\ c \notin InDoubt
      BY <2>5, <2>d, DoubtStays DEF LeaveOpen, tables, Insert
    <3>2. CASE ending[c] = "commit"
      <4>1. overlapped
        <5> SUFFICES ASSUME ~overlapped PROVE FALSE
          OBVIOUS
        <5>1. reg[c] = 0 /\ txCount = 0
          BY <2>5 DEF LeaveOpen, SerialInv, SerialCount, CountAt
        <5> QED
          BY <2>5, <5>1 DEF LeaveOpen, CountSeen
      <4>2. Contract!Finish(c, "inserting", "free")
        BY <2>5, <3>1, <3>2, ReturnMove DEF LeaveOpen, Return, Goto, Ended
      <4> QED
        BY <3>1, <4>1, <4>2 DEF Contract!Lose
    <3>3. CASE ending[c] # "commit"
      BY <2>5, <3>1, <3>3, <2>f DEF LeaveOpen, Return, Goto
    <3> QED
      BY <3>2, <3>3
  <2>6. ASSUME NEW c \in Call, CallLink(c) PROVE quiet
    <3>1. /\ pc[c] = "idle" /\ kept /\ pc' = [pc EXCEPT ![c] = "linking"]
          /\ \A d \in Call \ {c} : arg'[d] = arg[d]
      BY <2>6 DEF CallLink, TypeOK, tables, Goto
    <3>2. InDoubt' = InDoubt /\ c \notin InDoubt
      BY <2>6, <2>d, <3>1, DoubtStays
    <3>3. "linking" \notin Insert /\ "idle" \notin Insert
      BY DEF Insert, Counted
    <3>4. Status' = [Status EXCEPT ![c] = "free"] /\ Asked' = [Asked EXCEPT ![c] = NoArg]
      <4>1. "linking" # "error"
        OBVIOUS
      <4> QED
        BY <3>1, <3>2, <3>3, <4>1, SeenStays
    <3>5. Status[c] = "free" /\ Asked[c] = NoArg
      BY <3>1, <3>2, <3>3 DEF Status, Asked
    <3>6. Status' = Status /\ Asked' = Asked
      BY <3>4, <3>5 DEF Status, Asked
    <3> QED
      BY <3>1, <3>6 DEF Contract!vars
  <2>7. ASSUME NEW c \in Call, LinkUser(c) PROVE Contract!Link
    <3>1. InDoubt' = InDoubt
      BY <2>7, DoubtStays DEF LinkStep
    <3>2. Status' = Status /\ Asked' = Asked
      BY <2>7, <2>d, <3>1, QuietMove DEF LinkUser, Goto, Insert, Counted
    <3>3. arg[c].hash \in transactions /\ arg[c].user \in User
      BY <2>7 DEF LinkUser, LinkingStored, ArgInv
    <3> QED
      BY <2>7, <3>2, <3>3 DEF LinkUser, Contract!Link, Link
  <2>8. ASSUME NEW c \in Call, LinkFails(c) \/ LinkUnanswered(c) PROVE Contract!Fail(c)
    <3>1. /\ pc[c] = "linking" /\ pc' = [pc EXCEPT ![c] = "error"]
          /\ UNCHANGED arg /\ kept
      BY <2>8 DEF LinkFails, LinkUnanswered, Goto, tables
    <3>2. InDoubt' = InDoubt /\ c \notin InDoubt
      BY <2>8, <2>d, <3>1, DoubtStays DEF LinkStep
    <3>3. "error" \notin Insert /\ "linking" \notin Insert
      BY DEF Insert, Counted
    <3>4. Status' = [Status EXCEPT ![c] = "failed"] /\ Asked' = [Asked EXCEPT ![c] = NoArg]
      BY <3>1, <3>2, <3>3, SeenStays
    <3>5. Status[c] = "free" /\ Asked[c] = NoArg
      BY <3>1, <3>2, <3>3 DEF Status, Asked
    <3>6. Asked' = Asked
      BY <3>4, <3>5 DEF Asked
    <3> QED
      BY <3>1, <3>4, <3>5, <3>6 DEF Contract!Fail
  <2>9. ASSUME NEW c \in Call, AwaitDone(c) PROVE quiet
    BY <2>9, <2>q, DoubtStays DEF AwaitDone, RolledBack, locals, tables
  <2>15. ASSUME NEW c \in InDoubt, Settle(c) PROVE Contract!Settle(c)
    <3>1. c \in Call /\ pc[c] = "error" /\ "row" \in wrote[c] /\ c \in Holding
      BY <2>15 DEF InDoubt, ArgInv, Holding
    <3>2. UNCHANGED <<pc, arg, overlapped>> /\ (Committed(c) \/ RolledBack(c))
      BY <2>15 DEF Settle, locals
    <3>3. InDoubt' = InDoubt \ {c}
      BY <3>1, <3>2 DEF InDoubt, Committed, RolledBack, TypeOK
    <3>4. \A d \in Call : d \in InDoubt' <=> d \in InDoubt /\ d # c
      BY <3>3
    <3>5. "error" \notin Insert
      BY DEF Insert, Counted
    <3>6. Asked[c] = arg[c] /\ Status[c] = "inDoubt"
      BY <2>15, <3>1, <3>5 DEF Asked, Status
    <3>7. Status' = [Status EXCEPT ![c] = "failed"]
      <4>1. \A d \in Call : Status'[d] = IF d = c THEN "failed" ELSE Status[d]
        BY <3>1, <3>2, <3>4, <3>5 DEF Status
      <4> QED
        BY <4>1 DEF Status
    <3>8. Asked' = [Asked EXCEPT ![c] = NoArg]
      <4>1. \A d \in Call : Asked'[d] = IF d = c THEN NoArg ELSE Asked[d]
        BY <3>1, <3>2, <3>4, <3>5 DEF Asked
      <4> QED
        BY <4>1 DEF Asked
    <3>9. Contract!Finish(c, "inDoubt", "failed")
      BY <3>2, <3>6, <3>7, <3>8 DEF Contract!Finish, NoArg, Contract!NoArg
    <3>10. ASSUME Committed(c) PROVE Contract!Add(c)
      <4>1. arg[c].user # NonAuthenticatedUser => "link" \in wrote[c]
        BY <2>15, <3>1 DEF ArgInv
      <4> QED
        BY <3>1, <3>6, <3>10, <4>1, CommittedAdds
    <3> QED
      BY <3>2, <3>9, <3>10 DEF Contract!Settle, RolledBack, tables
  <2>16. ASSUME NEW c \in Call, c \notin InDoubt, Settle(c) PROVE quiet \/ Contract!Link
    <3>1. /\ dbTx[c] = "inDoubt" /\ "row" \notin wrote[c] /\ wrote[c] # {}
          /\ UNCHANGED <<pc, arg, overlapped>>
      BY <2>16 DEF Settle, InDoubt, ArgInv, locals
    <3>2. InDoubt' = InDoubt
      BY <2>16 DEF Settle, Committed, RolledBack, InDoubt, TypeOK
    <3>3. Status' = Status /\ Asked' = Asked
      BY <3>1, <3>2 DEF Status, Asked
    <3>4. CASE RolledBack(c)
      BY <3>1, <3>3, <3>4 DEF RolledBack, tables, Contract!vars
    <3>5. CASE Committed(c)
      <4>1. "link" \in wrote[c]
        BY <3>1 DEF TypeOK
      <4>2. arg[c].user \in User /\ arg[c].hash \in transactions
        BY <2>16, <3>1, <4>1 DEF ArgInv, LinkingStored
      <4> QED
        BY <3>1, <3>3, <3>5, <4>1, <4>2 DEF Committed, Contract!Link, Link
    <3> QED
      BY <2>16, <3>4, <3>5 DEF Settle
  <2>10. CASE AppCancel
    BY <2>10, <2>q DEF AppCancel, InDoubt, locals, tables
  <2>11. CASE UNCHANGED vars
    BY <2>11, <2>q DEF vars, InDoubt, locals, tables
  <2>12. (\E c \in Call : \/ Contract!CallInsert(c) \/ Contract!Insert(c) \/ Contract!Lose(c)
                          \/ Contract!InsertFails(c) \/ Contract!InsertInDoubt(c)
                          \/ Contract!Settle(c) \/ Contract!Fail(c)) => Contract!Next
    BY DEF Contract!Next
  <2>13. Contract!Link => Contract!Next
    BY DEF Contract!Next
  <2>17. InDoubt \subseteq Call
    BY DEF InDoubt
  <2> QED
    BY <1>2, <2>1, <2>2, <2>3, <2>4, <2>5, <2>6, <2>7, <2>8, <2>9, <2>10, <2>11, <2>12, <2>13,
       <2>14, <2>15, <2>16, <2>17
    DEF Next, InsertStep, LinkStep, Terminated
<1> QED
  BY <1>1, <1>2, Invariance, PTL DEF Spec, ContractKept, Contract!Spec

\* The contract never links a row that is not there, so the store does not.
THEOREM ForeignKeyKept == Spec => []LinksHaveRows
<1>1. Contract!Init => LinksHaveRows
  BY DEF Contract!Init, LinksHaveRows
<1>2. ASSUME LinksHaveRows, [Contract!Next]_(Contract!vars) PROVE LinksHaveRows'
  <2> USE DEF LinksHaveRows
  <2>1. ASSUME NEW c \in Call, Contract!Add(c) PROVE LinksHaveRows'
    <3>1. transactions' = transactions \cup {Asked[c].hash}
      BY <2>1 DEF Contract!Add
    <3>2. \A l \in userTransactions' : l \in userTransactions \/ l = <<Asked[c].user, Asked[c].hash>>
      BY <2>1 DEF Contract!Add
    <3> QED
      BY <1>2, <3>1, <3>2
  <2>2. CASE Contract!Link
    BY <1>2, <2>2 DEF Contract!Link
  <2>3. ASSUME UNCHANGED <<transactions, userTransactions>> PROVE LinksHaveRows'
    BY <1>2, <2>3
  <2>4. ASSUME NEW c \in Call, \/ Contract!CallInsert(c) \/ Contract!Insert(c) \/ Contract!Lose(c)
                               \/ Contract!InsertFails(c) \/ Contract!InsertInDoubt(c)
                               \/ Contract!Settle(c) \/ Contract!Fail(c)
        PROVE  LinksHaveRows'
    BY <2>1, <2>3, <2>4 DEF Contract!CallInsert, Contract!Insert, Contract!Lose, Contract!InsertFails,
                            Contract!InsertInDoubt, Contract!Settle, Contract!Fail
  <2>5. CASE UNCHANGED Contract!vars
    BY <2>3, <2>5 DEF Contract!vars
  <2> QED
    BY <1>2, <2>2, <2>4, <2>5 DEF Contract!Next
<1> QED
  BY <1>1, <1>2, Refinement, PTL DEF ContractKept, Contract!Spec
=============================================================================
