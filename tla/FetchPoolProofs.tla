--------------------------- MODULE FetchPoolProofs ---------------------------
(***************************************************************************)
(* Proofs about FetchPool for every set of requests, every limit on their  *)
(* hashes and every number of workers.                                     *)
(***************************************************************************)
EXTENDS FetchPool, FiniteSetTheorems, TLAPS

\* A task is a request and a place among that request's hashes.
LEMMA TaskForm ==
    /\ \A t \in Task : /\ t = <<t[1], t[2]>>
                       /\ t[1] \in Request
                       /\ t[2] \in 1..MaxHashes[t[1]]
    /\ \A r \in Request : \A i \in 1..MaxHashes[r] : <<r, i>> \in Task
BY DEF Task

\* Every route accepts at least one hash.
LEMMA HashesPositive == \A r \in Request : MaxHashes[r] \in Nat /\ 1 \in 1..MaxHashes[r]
<1> TAKE r \in Request
<1>1. MaxHashes[r] \in Nat \ {0}
  BY MaxHashesAssumption
<1> QED
  BY <1>1

\* There are finitely many tasks, so any set of them can be counted.
LEMMA TaskFinite == IsFiniteSet(Task)
<1> DEFINE Of(r) == {r} \X (1..MaxHashes[r])
<1>1. ASSUME NEW r \in Request PROVE IsFiniteSet(Of(r))
  <2>1. MaxHashes[r] \in Nat
    BY MaxHashesAssumption
  <2>2. IsFiniteSet(1..MaxHashes[r])
    BY <2>1, FS_Interval
  <2>3. IsFiniteSet({r})
    BY FS_Singleton
  <2> QED
    BY <2>2, <2>3, FS_Product
<1> DEFINE of == [r \in Request |-> Of(r)]
<1>2. IsFiniteSet({Of(r) : r \in Request})
  <2>1. of \in Surjection(Request, {Of(r) : r \in Request})
    BY DEF Surjection
  <2> QED
    BY <2>1, RequestAssumption, FS_Surjection
<1>3. IsFiniteSet(UNION {Of(r) : r \in Request})
  BY <1>1, <1>2, FS_UNION
<1> QED
  BY <1>3 DEF Task


\* The pool starts with all permits free and no task.
LEMMA InitIInv == Init => IInv
<1> SUFFICES ASSUME Init PROVE IInv
  OBVIOUS
<1>1. TypeOK
  <2>1. \A r \in Request : missing[r] <= MaxHashes[r] /\ next[r] \in 1..MaxHashes[r]
    BY HashesPositive DEF Init
  <2> QED
    BY <2>1 DEF Init, TypeOK, Stage
<1>2. PermitDiscipline
  BY FS_EmptySet, MaxWorkersAssumption DEF Init, PermitDiscipline, Offering
<1>3. MuxHonest /\ ClosedHonest
  BY TaskForm DEF Init, MuxHonest, ClosedHonest
<1>4. HandedInOrder
  BY TaskForm DEF Init, HandedInOrder
<1>5. SavedInOrder
  BY DEF Init, SavedInOrder
<1> QED
  BY <1>1, <1>2, <1>3, <1>4, <1>5 DEF IInv


\* What a hand-over, or the lack of one, can change.
LEMMA HandoverEffect ==
    ASSUME TypeOK, NEW t \in Task, NEW what,
           Handover(t, what) \/ UNCHANGED <<service, contexts>>
    PROVE  /\ UNCHANGED <<missing, next, saved, appDone, reqDone, merging>>
           /\ received \subseteq received' /\ received' \subseteq received \cup {t}
           /\ pc' \in [Request -> {"lookup"} \cup Running \cup Ended]
           /\ muxDone' \in [Request -> BOOLEAN]
           /\ \A q \in Request :
                 /\ pc'[q] = pc[q] \/ (pc[q] = "receive" /\ pc'[q] \in {"store", "error"})
                 /\ muxDone'[q] => muxDone[q] \/ pc'[q] = "error"
<1>1. /\ UNCHANGED <<missing, next, saved, appDone, reqDone, merging>>
      /\ received \subseteq received' /\ received' \subseteq received \cup {t}
  BY DEF Handover, service, contexts
<1>2. \/ pc' = pc /\ muxDone' = muxDone
      \/ pc[t[1]] = "receive" /\ pc' = [pc EXCEPT ![t[1]] = "store"] /\ muxDone' = muxDone
      \/ /\ pc[t[1]] = "receive"
         /\ pc' = [pc EXCEPT ![t[1]] = "error"]
         /\ muxDone' = [muxDone EXCEPT ![t[1]] = TRUE]
  BY DEF Handover, Awaits, Return, service, contexts
<1>3. t[1] \in Request
  BY TaskForm
<1>4. pc \in [Request -> {"lookup"} \cup Running \cup Ended] /\ muxDone \in [Request -> BOOLEAN]
  BY DEF TypeOK
<1>5. "store" \in Running /\ "error" \in Ended
  BY DEF Running, Ended
<1> QED
  BY <1>1, <1>2, <1>3, <1>4, <1>5

\* Every step keeps the types; the order of the hand-over keeps next in range.
LEMMA TypeStep == TypeOK /\ HandedInOrder /\ [Next]_vars => TypeOK'
<1> SUFFICES ASSUME TypeOK /\ HandedInOrder, [Next]_vars PROVE TypeOK'
  OBVIOUS
<1> USE HashesPositive, TaskForm DEF TypeOK, HandedInOrder, Stage, Offering, Running, Ended, vars, service, contexts, pool
<1>1. ASSUME NEW r \in Request, Lookup(r) PROVE TypeOK'
  BY <1>1 DEF Lookup
<1>2. ASSUME NEW r \in Request, LookupFails(r) PROVE TypeOK'
  BY <1>2 DEF LookupFails
<1>3. ASSUME NEW r \in Request, Take(r) PROVE TypeOK'
  <2>1. <<r, next[r]>> \in Task /\ next[r] \in Nat /\ missing[r] \in Nat /\ next[r] <= missing[r]
    BY <1>3 DEF Take
  <2>2. stage' \in [Task -> Stage] /\ pc' \in [Request -> {"lookup"} \cup Running \cup Ended]
    BY <2>1, <1>3 DEF Take
  <2>3. next' \in [Request -> Nat] /\ missing' = missing
    BY <2>1, <1>3 DEF Take
  <2>4. next'[r] \in 1..MaxHashes[r]
    <3>1. next[r] = missing[r] => next'[r] = 1
      BY <1>3 DEF Take
    <3>2. next[r] # missing[r] => next'[r] = next[r] + 1
      BY <1>3 DEF Take
    <3>3. missing[r] <= MaxHashes[r] /\ MaxHashes[r] \in Nat
      OBVIOUS
    <3> HIDE DEF TypeOK, HandedInOrder
    <3> QED
      BY <2>1, <3>1, <3>2, <3>3, HashesPositive
  <2>5. \A q \in Request \ {r} : next'[q] = next[q]
    BY <1>3 DEF Take
  <2> QED
    BY <2>2, <2>3, <2>4, <2>5, <1>3 DEF Take
<1>4. ASSUME NEW r \in Request, ScheduleDone(r) PROVE TypeOK'
  BY <1>4 DEF ScheduleDone, Return
<1>5. ASSUME NEW r \in Request, ReceiveDone(r) PROVE TypeOK'
  BY <1>5 DEF ReceiveDone, Return
<1>6. ASSUME NEW r \in Request, ReceiveZero(r) PROVE TypeOK'
  BY <1>6 DEF ReceiveZero, Return
<1>7. ASSUME NEW r \in Request, Save(r) PROVE TypeOK'
  BY <1>7 DEF Save
<1>8. ASSUME NEW r \in Request, SaveFails(r) PROVE TypeOK'
  BY <1>8 DEF SaveFails, Return
<1>9. ASSUME NEW r \in Request, Answer(r) PROVE TypeOK'
  BY <1>9 DEF Answer, Return
<1>10. ASSUME NEW r \in Request, Merge(r) PROVE TypeOK'
  BY <1>10 DEF Merge
<1>11. ASSUME NEW r \in Request, Disconnect(r) PROVE TypeOK'
  BY <1>11 DEF Disconnect
<1>12. ASSUME NEW r \in Request, Finish(r) PROVE TypeOK'
  BY <1>12 DEF Finish
<1>13. ASSUME NEW t \in Task, GrantPermit(t) PROVE TypeOK'
  BY <1>13 DEF GrantPermit, PermitFree
<1>14. ASSUME NEW t \in Task, CancelHeld(t) PROVE TypeOK'
  <2>1. (\E what : Handover(t, what)) \/ UNCHANGED <<service, contexts>>
    BY <1>14 DEF CancelHeld, OfferCanceled
  <2>2. UNCHANGED workersChan /\ dispatching' \in BOOLEAN /\ stage' \in [Task -> Stage]
    BY <1>14 DEF CancelHeld
  <2> QED
    BY <2>1, <2>2, HandoverEffect
<1>15. ASSUME NEW t \in Task, FetchReturns(t) PROVE TypeOK'
  BY <1>15 DEF FetchReturns
<1>16. ASSUME NEW t \in Task, Deliver(t) PROVE TypeOK'
  <2>1. (\E what : Handover(t, what)) \/ UNCHANGED <<service, contexts>>
    BY <1>16 DEF Deliver, OfferCanceled
  <2>2. UNCHANGED workersChan /\ dispatching' \in BOOLEAN /\ stage' \in [Task -> Stage]
    BY <1>16 DEF Deliver
  <2> QED
    BY <2>1, <2>2, HandoverEffect
<1>17. ASSUME NEW t \in Task, CancelSend(t) PROVE TypeOK'
  <2>1. (\E what : Handover(t, what)) \/ UNCHANGED <<service, contexts>>
    BY <1>17 DEF CancelSend, OfferCanceled
  <2>2. UNCHANGED workersChan /\ dispatching' \in BOOLEAN /\ stage' \in [Task -> Stage]
    BY <1>17 DEF CancelSend
  <2> QED
    BY <2>1, <2>2, HandoverEffect
<1>18. ASSUME NEW t \in Task, ReleasePermit(t) PROVE TypeOK'
  BY <1>18 DEF ReleasePermit
<1>19. CASE DispatcherExit
  BY <1>19 DEF DispatcherExit
<1>20. CASE AppCancel
  BY <1>20 DEF AppCancel
<1>21. CASE UNCHANGED vars
  BY <1>21
<1>22. QED
  BY <1>1, <1>2, <1>3, <1>4, <1>5, <1>6, <1>7, <1>8, <1>9, <1>10, <1>11, <1>12, <1>13, <1>14, <1>15, <1>16, <1>17, <1>18, <1>19, <1>20, <1>21 DEF Next, ServiceStep, StoreStep, OwnStep, PoolStep, ContextStep, Terminated

\* Only Merge cancels the context of a request in progress.
LEMMA MuxStep == TypeOK /\ MuxHonest /\ [Next]_vars => MuxHonest'
<1> SUFFICES ASSUME TypeOK /\ MuxHonest, [Next]_vars PROVE MuxHonest'
  OBVIOUS
<1> USE HashesPositive, TaskForm DEF TypeOK, MuxHonest, Running, Ended, vars, service, contexts, pool
<1>1. ASSUME NEW r \in Request, Lookup(r) PROVE MuxHonest'
  BY <1>1 DEF Lookup
<1>2. ASSUME NEW r \in Request, LookupFails(r) PROVE MuxHonest'
  BY <1>2 DEF LookupFails
<1>3. ASSUME NEW r \in Request, Take(r) PROVE MuxHonest'
  BY <1>3 DEF Take, AtTasksChan
<1>4. ASSUME NEW r \in Request, ScheduleDone(r) PROVE MuxHonest'
  BY <1>4 DEF ScheduleDone, Return
<1>5. ASSUME NEW r \in Request, ReceiveDone(r) PROVE MuxHonest'
  BY <1>5 DEF ReceiveDone, Return
<1>6. ASSUME NEW r \in Request, ReceiveZero(r) PROVE MuxHonest'
  BY <1>6 DEF ReceiveZero, Return
<1>7. ASSUME NEW r \in Request, Save(r) PROVE MuxHonest'
  BY <1>7 DEF Save
<1>8. ASSUME NEW r \in Request, SaveFails(r) PROVE MuxHonest'
  BY <1>8 DEF SaveFails, Return
<1>9. ASSUME NEW r \in Request, Answer(r) PROVE MuxHonest'
  BY <1>9 DEF Answer, Return
<1>10. ASSUME NEW r \in Request, Merge(r) PROVE MuxHonest'
  BY <1>10 DEF Merge
<1>11. ASSUME NEW r \in Request, Disconnect(r) PROVE MuxHonest'
  BY <1>11 DEF Disconnect
<1>12. ASSUME NEW r \in Request, Finish(r) PROVE MuxHonest'
  BY <1>12 DEF Finish
<1>13. ASSUME NEW t \in Task, GrantPermit(t) PROVE MuxHonest'
  BY <1>13 DEF GrantPermit, PermitFree
<1>14. ASSUME NEW t \in Task, CancelHeld(t) PROVE MuxHonest'
  BY <1>14 DEF CancelHeld, OfferCanceled, Handover, Awaits, Return
<1>15. ASSUME NEW t \in Task, FetchReturns(t) PROVE MuxHonest'
  BY <1>15 DEF FetchReturns
<1>16. ASSUME NEW t \in Task, Deliver(t) PROVE MuxHonest'
  BY <1>16 DEF Deliver, Handover, Awaits, Return
<1>17. ASSUME NEW t \in Task, CancelSend(t) PROVE MuxHonest'
  BY <1>17 DEF CancelSend, OfferCanceled, Handover, Awaits, Return
<1>18. ASSUME NEW t \in Task, ReleasePermit(t) PROVE MuxHonest'
  BY <1>18 DEF ReleasePermit
<1>19. CASE DispatcherExit
  BY <1>19 DEF DispatcherExit
<1>20. CASE AppCancel
  BY <1>20 DEF AppCancel
<1>21. CASE UNCHANGED vars
  BY <1>21
<1>22. QED
  BY <1>1, <1>2, <1>3, <1>4, <1>5, <1>6, <1>7, <1>8, <1>9, <1>10, <1>11, <1>12, <1>13, <1>14, <1>15, <1>16, <1>17, <1>18, <1>19, <1>20, <1>21 DEF Next, ServiceStep, StoreStep, OwnStep, PoolStep, ContextStep, Terminated

\* A channel is closed by its reader's error, after a hand-over, or cancelled.
LEMMA ClosedStep == TypeOK /\ MuxHonest /\ ClosedHonest /\ [Next]_vars => ClosedHonest'
<1> SUFFICES ASSUME TypeOK /\ MuxHonest /\ ClosedHonest, [Next]_vars PROVE ClosedHonest'
  OBVIOUS
<1> USE HashesPositive, TaskForm DEF TypeOK, MuxHonest, ClosedHonest, Running, Ended, Stage, Offering, vars, service, contexts, pool
<1>1. ASSUME NEW r \in Request, Lookup(r) PROVE ClosedHonest'
  BY <1>1 DEF Lookup
<1>2. ASSUME NEW r \in Request, LookupFails(r) PROVE ClosedHonest'
  BY <1>2 DEF LookupFails
<1>3. ASSUME NEW r \in Request, Take(r) PROVE ClosedHonest'
  BY <1>3 DEF Take, AtTasksChan
<1>4. ASSUME NEW r \in Request, ScheduleDone(r) PROVE ClosedHonest'
  BY <1>4 DEF ScheduleDone, Return
<1>5. ASSUME NEW r \in Request, ReceiveDone(r) PROVE ClosedHonest'
  BY <1>5 DEF ReceiveDone, Return
<1>6. ASSUME NEW r \in Request, ReceiveZero(r) PROVE ClosedHonest'
  BY <1>6 DEF ReceiveZero, Return
<1>7. ASSUME NEW r \in Request, Save(r) PROVE ClosedHonest'
  BY <1>7 DEF Save
<1>8. ASSUME NEW r \in Request, SaveFails(r) PROVE ClosedHonest'
  BY <1>8 DEF SaveFails, Return
<1>9. ASSUME NEW r \in Request, Answer(r) PROVE ClosedHonest'
  BY <1>9 DEF Answer, Return
<1>10. ASSUME NEW r \in Request, Merge(r) PROVE ClosedHonest'
  BY <1>10 DEF Merge
<1>11. ASSUME NEW r \in Request, Disconnect(r) PROVE ClosedHonest'
  BY <1>11 DEF Disconnect
<1>12. ASSUME NEW r \in Request, Finish(r) PROVE ClosedHonest'
  BY <1>12 DEF Finish
<1>13. ASSUME NEW t \in Task, GrantPermit(t) PROVE ClosedHonest'
  BY <1>13 DEF GrantPermit, PermitFree
<1>14. ASSUME NEW t \in Task, CancelHeld(t) PROVE ClosedHonest'
  BY <1>14 DEF CancelHeld, OfferCanceled, Handover, Awaits, Return
<1>15. ASSUME NEW t \in Task, FetchReturns(t) PROVE ClosedHonest'
  BY <1>15 DEF FetchReturns
<1>16. ASSUME NEW t \in Task, Deliver(t) PROVE ClosedHonest'
  BY <1>16 DEF Deliver, Handover, Awaits, Return
<1>17. ASSUME NEW t \in Task, CancelSend(t) PROVE ClosedHonest'
  BY <1>17 DEF CancelSend, OfferCanceled, Handover, Awaits, Return
<1>18. ASSUME NEW t \in Task, ReleasePermit(t) PROVE ClosedHonest'
  BY <1>18 DEF ReleasePermit
<1>19. CASE DispatcherExit
  BY <1>19 DEF DispatcherExit
<1>20. CASE AppCancel
  BY <1>20 DEF AppCancel
<1>21. CASE UNCHANGED vars
  BY <1>21
<1>22. QED
  BY <1>1, <1>2, <1>3, <1>4, <1>5, <1>6, <1>7, <1>8, <1>9, <1>10, <1>11, <1>12, <1>13, <1>14, <1>15, <1>16, <1>17, <1>18, <1>19, <1>20, <1>21 DEF Next, ServiceStep, StoreStep, OwnStep, PoolStep, ContextStep, Terminated

\* The scheduling loop visits each hash once, in order.
LEMMA HandedStep == TypeOK /\ HandedInOrder /\ [Next]_vars => HandedInOrder'
<1> SUFFICES ASSUME TypeOK /\ HandedInOrder, [Next]_vars PROVE HandedInOrder'
  OBVIOUS
<1> USE HashesPositive, TaskForm DEF TypeOK, HandedInOrder, Running, Ended, Stage, Offering, vars, service, contexts, pool
<1>1. ASSUME NEW r \in Request, Lookup(r) PROVE HandedInOrder'
  BY <1>1 DEF Lookup
<1>2. ASSUME NEW r \in Request, LookupFails(r) PROVE HandedInOrder'
  BY <1>2 DEF LookupFails
<1>3. ASSUME NEW r \in Request, Take(r) PROVE HandedInOrder'
  BY <1>3 DEF Take, AtTasksChan
<1>4. ASSUME NEW r \in Request, ScheduleDone(r) PROVE HandedInOrder'
  BY <1>4 DEF ScheduleDone, Return
<1>5. ASSUME NEW r \in Request, ReceiveDone(r) PROVE HandedInOrder'
  BY <1>5 DEF ReceiveDone, Return
<1>6. ASSUME NEW r \in Request, ReceiveZero(r) PROVE HandedInOrder'
  BY <1>6 DEF ReceiveZero, Return
<1>7. ASSUME NEW r \in Request, Save(r) PROVE HandedInOrder'
  BY <1>7 DEF Save
<1>8. ASSUME NEW r \in Request, SaveFails(r) PROVE HandedInOrder'
  BY <1>8 DEF SaveFails, Return
<1>9. ASSUME NEW r \in Request, Answer(r) PROVE HandedInOrder'
  BY <1>9 DEF Answer, Return
<1>10. ASSUME NEW r \in Request, Merge(r) PROVE HandedInOrder'
  BY <1>10 DEF Merge
<1>11. ASSUME NEW r \in Request, Disconnect(r) PROVE HandedInOrder'
  BY <1>11 DEF Disconnect
<1>12. ASSUME NEW r \in Request, Finish(r) PROVE HandedInOrder'
  BY <1>12 DEF Finish
<1>13. ASSUME NEW t \in Task, GrantPermit(t) PROVE HandedInOrder'
  BY <1>13 DEF GrantPermit, PermitFree
<1>14. ASSUME NEW t \in Task, CancelHeld(t) PROVE HandedInOrder'
  BY <1>14 DEF CancelHeld, OfferCanceled, Handover, Awaits, Return
<1>15. ASSUME NEW t \in Task, FetchReturns(t) PROVE HandedInOrder'
  BY <1>15 DEF FetchReturns
<1>16. ASSUME NEW t \in Task, Deliver(t) PROVE HandedInOrder'
  BY <1>16 DEF Deliver, Handover, Awaits, Return
<1>17. ASSUME NEW t \in Task, CancelSend(t) PROVE HandedInOrder'
  BY <1>17 DEF CancelSend, OfferCanceled, Handover, Awaits, Return
<1>18. ASSUME NEW t \in Task, ReleasePermit(t) PROVE HandedInOrder'
  BY <1>18 DEF ReleasePermit
<1>19. CASE DispatcherExit
  BY <1>19 DEF DispatcherExit
<1>20. CASE AppCancel
  BY <1>20 DEF AppCancel
<1>21. CASE UNCHANGED vars
  BY <1>21
<1>22. QED
  BY <1>1, <1>2, <1>3, <1>4, <1>5, <1>6, <1>7, <1>8, <1>9, <1>10, <1>11, <1>12, <1>13, <1>14, <1>15, <1>16, <1>17, <1>18, <1>19, <1>20, <1>21 DEF Next, ServiceStep, StoreStep, OwnStep, PoolStep, ContextStep, Terminated

\* The receive loop stores each result before it reads the next.
LEMMA SavedStep == TypeOK /\ HandedInOrder /\ SavedInOrder /\ [Next]_vars => SavedInOrder'
<1> SUFFICES ASSUME TypeOK /\ HandedInOrder /\ SavedInOrder, [Next]_vars PROVE SavedInOrder'
  OBVIOUS
<1> USE HashesPositive, TaskForm DEF TypeOK, HandedInOrder, SavedInOrder, Running, Ended, vars, service, contexts, pool
<1>1. ASSUME NEW r \in Request, Lookup(r) PROVE SavedInOrder'
  <2>1. UNCHANGED <<saved, next>> /\ pc[r] = "lookup"
    BY <1>1 DEF Lookup
  <2>2. pc'[r] = "schedule" \/ (pc'[r] = "answer" /\ missing'[r] = 0)
    BY <1>1 DEF Lookup
  <2>3. \A q \in Request \ {r} : pc'[q] = pc[q] /\ missing'[q] = missing[q]
    BY <1>1 DEF Lookup
  <2> SUFFICES ASSUME NEW q \in Request, NEW i \in 1..MaxHashes[q]
               PROVE  /\ pc'[q] \in {"lookup", "schedule"} => <<q, i>> \notin saved'
                      /\ pc'[q] \in {"receive", "store"} => (<<q, i>> \in saved' <=> i < next'[q])
                      /\ pc'[q] = "answer" /\ i <= missing'[q] => <<q, i>> \in saved'
    OBVIOUS
  <2>4. CASE q # r
    BY <2>1, <2>2, <2>3, <2>4
  <2>5. CASE q = r
    BY <2>1, <2>2, <2>5
  <2> QED
    BY <2>4, <2>5
<1>2. ASSUME NEW r \in Request, LookupFails(r) PROVE SavedInOrder'
  BY <1>2 DEF LookupFails
<1>3. ASSUME NEW r \in Request, Take(r) PROVE SavedInOrder'
  <2>1. UNCHANGED <<saved, missing>> /\ pc[r] = "schedule"
    BY <1>3 DEF Take
  <2>2. pc'[r] = "schedule" \/ (pc'[r] = "receive" /\ next'[r] = 1)
    BY <1>3 DEF Take
  <2>3. \A q \in Request \ {r} : pc'[q] = pc[q] /\ next'[q] = next[q]
    BY <1>3 DEF Take
  <2> SUFFICES ASSUME NEW q \in Request, NEW i \in 1..MaxHashes[q]
               PROVE  /\ pc'[q] \in {"lookup", "schedule"} => <<q, i>> \notin saved'
                      /\ pc'[q] \in {"receive", "store"} => (<<q, i>> \in saved' <=> i < next'[q])
                      /\ pc'[q] = "answer" /\ i <= missing'[q] => <<q, i>> \in saved'
    OBVIOUS
  <2>4. CASE q # r
    BY <2>1, <2>2, <2>3, <2>4
  <2>5. CASE q = r
    BY <2>1, <2>2, <2>5
  <2> QED
    BY <2>4, <2>5
<1>4. ASSUME NEW r \in Request, ScheduleDone(r) PROVE SavedInOrder'
  BY <1>4 DEF ScheduleDone, Return
<1>5. ASSUME NEW r \in Request, ReceiveDone(r) PROVE SavedInOrder'
  BY <1>5 DEF ReceiveDone, Return
<1>6. ASSUME NEW r \in Request, ReceiveZero(r) PROVE SavedInOrder'
  BY <1>6 DEF ReceiveZero, Return
<1>7. ASSUME NEW r \in Request, Save(r) PROVE SavedInOrder'
  <2>1. saved' = saved \cup {<<r, next[r]>>} /\ UNCHANGED missing /\ pc[r] = "store"
    BY <1>7 DEF Save
  <2>2. \/ pc'[r] = "answer" /\ next[r] = missing[r]
        \/ pc'[r] = "receive" /\ next'[r] = next[r] + 1
    BY <1>7 DEF Save
  <2>3. \A q \in Request \ {r} : pc'[q] = pc[q] /\ next'[q] = next[q]
    BY <1>7 DEF Save
  <2> SUFFICES ASSUME NEW q \in Request, NEW i \in 1..MaxHashes[q]
               PROVE  /\ pc'[q] \in {"lookup", "schedule"} => <<q, i>> \notin saved'
                      /\ pc'[q] \in {"receive", "store"} => (<<q, i>> \in saved' <=> i < next'[q])
                      /\ pc'[q] = "answer" /\ i <= missing'[q] => <<q, i>> \in saved'
    OBVIOUS
  <2>4. CASE q # r
    BY <2>1, <2>2, <2>3, <2>4
  <2>5. CASE q = r
    BY <2>1, <2>2, <2>5
  <2> QED
    BY <2>4, <2>5
<1>8. ASSUME NEW r \in Request, SaveFails(r) PROVE SavedInOrder'
  <2>1. pc[r] = "store" /\ pc' = [pc EXCEPT ![r] = "error"] /\ UNCHANGED <<missing, next>>
    BY <1>8 DEF SaveFails, Return
  <2>2. saved' = saved \/ saved' = saved \cup {<<r, next[r]>>}
    BY <1>8 DEF SaveFails
  <2>3. \A q \in Request \ {r} : pc'[q] = pc[q]
    BY <2>1
  <2>4. ASSUME NEW q \in Request \ {r}, NEW i \in 1..MaxHashes[q]
        PROVE  <<q, i>> \in saved' <=> <<q, i>> \in saved
    BY <2>2, <2>4
  <2> QED
    BY <2>1, <2>3, <2>4
<1>9. ASSUME NEW r \in Request, Answer(r) PROVE SavedInOrder'
  BY <1>9 DEF Answer, Return
<1>10. ASSUME NEW r \in Request, Merge(r) PROVE SavedInOrder'
  BY <1>10 DEF Merge
<1>11. ASSUME NEW r \in Request, Disconnect(r) PROVE SavedInOrder'
  BY <1>11 DEF Disconnect
<1>12. ASSUME NEW r \in Request, Finish(r) PROVE SavedInOrder'
  BY <1>12 DEF Finish
<1>13. ASSUME NEW t \in Task, GrantPermit(t) PROVE SavedInOrder'
  BY <1>13 DEF GrantPermit, PermitFree
<1>14. ASSUME NEW t \in Task, CancelHeld(t) PROVE SavedInOrder'
  <2>1. (\E what : Handover(t, what)) \/ UNCHANGED <<service, contexts>>
    BY <1>14 DEF CancelHeld, OfferCanceled
  <2> QED
    BY <2>1, HandoverEffect
<1>15. ASSUME NEW t \in Task, FetchReturns(t) PROVE SavedInOrder'
  BY <1>15 DEF FetchReturns
<1>16. ASSUME NEW t \in Task, Deliver(t) PROVE SavedInOrder'
  <2>1. (\E what : Handover(t, what)) \/ UNCHANGED <<service, contexts>>
    BY <1>16 DEF Deliver, OfferCanceled
  <2> QED
    BY <2>1, HandoverEffect
<1>17. ASSUME NEW t \in Task, CancelSend(t) PROVE SavedInOrder'
  <2>1. (\E what : Handover(t, what)) \/ UNCHANGED <<service, contexts>>
    BY <1>17 DEF CancelSend, OfferCanceled
  <2> QED
    BY <2>1, HandoverEffect
<1>18. ASSUME NEW t \in Task, ReleasePermit(t) PROVE SavedInOrder'
  BY <1>18 DEF ReleasePermit
<1>19. CASE DispatcherExit
  BY <1>19 DEF DispatcherExit
<1>20. CASE AppCancel
  BY <1>20 DEF AppCancel
<1>21. CASE UNCHANGED vars
  BY <1>21
<1>22. QED
  BY <1>1, <1>2, <1>3, <1>4, <1>5, <1>6, <1>7, <1>8, <1>9, <1>10, <1>11, <1>12, <1>13, <1>14, <1>15, <1>16, <1>17, <1>18, <1>19, <1>20, <1>21 DEF Next, ServiceStep, StoreStep, OwnStep, PoolStep, ContextStep, Terminated
\* Permits are counted with the tasks that hold them.
LEMMA PermitStep ==
    TypeOK /\ HandedInOrder /\ PermitDiscipline /\ [Next]_vars => PermitDiscipline'
<1> SUFFICES ASSUME TypeOK, HandedInOrder, PermitDiscipline, [Next]_vars
             PROVE  PermitDiscipline'
  OBVIOUS
<1> USE DEF PermitDiscipline, Offering, pool
<1>a. IsFiniteSet(workersChan) /\ Cardinality(workersChan) \in Nat
  BY TaskFinite, FS_Subset, FS_CardinalityType DEF TypeOK
<1>b. ASSUME UNCHANGED <<stage, workersChan>> PROVE PermitDiscipline'
  BY <1>b
<1>1. ASSUME NEW r \in Request, Lookup(r) PROVE PermitDiscipline'
  BY <1>1, <1>b DEF Lookup
<1>2. ASSUME NEW r \in Request, LookupFails(r) PROVE PermitDiscipline'
  BY <1>2, <1>b DEF LookupFails
<1>3. ASSUME NEW r \in Request, Take(r) PROVE PermitDiscipline'
  <2>1. <<r, next[r]>> \in Task /\ stage[<<r, next[r]>>] = "idle"
    BY <1>3, TaskForm DEF Take, TypeOK, HandedInOrder
  <2> QED
    BY <2>1, <1>3 DEF Take, TypeOK
<1>4. ASSUME NEW r \in Request, ScheduleDone(r) PROVE PermitDiscipline'
  <2>1. <<r, next[r]>> \in Task /\ stage[<<r, next[r]>>] = "idle"
    BY <1>4, TaskForm DEF ScheduleDone, TypeOK, HandedInOrder
  <2> QED
    BY <2>1, <1>4 DEF ScheduleDone, TypeOK
<1>5. ASSUME NEW r \in Request, ReceiveDone(r) PROVE PermitDiscipline'
  BY <1>5, <1>b DEF ReceiveDone
<1>6. ASSUME NEW r \in Request, ReceiveZero(r) PROVE PermitDiscipline'
  BY <1>6, <1>b DEF ReceiveZero
<1>7. ASSUME NEW r \in Request, Save(r) PROVE PermitDiscipline'
  BY <1>7, <1>b DEF Save
<1>8. ASSUME NEW r \in Request, SaveFails(r) PROVE PermitDiscipline'
  BY <1>8, <1>b DEF SaveFails
<1>9. ASSUME NEW r \in Request, Answer(r) PROVE PermitDiscipline'
  BY <1>9, <1>b DEF Answer
<1>10. ASSUME NEW r \in Request, Merge(r) PROVE PermitDiscipline'
  BY <1>10, <1>b DEF Merge
<1>11. ASSUME NEW r \in Request, Disconnect(r) PROVE PermitDiscipline'
  BY <1>11, <1>b DEF Disconnect
<1>12. ASSUME NEW r \in Request, Finish(r) PROVE PermitDiscipline'
  BY <1>12, <1>b DEF Finish
<1>13. ASSUME NEW t \in Task, GrantPermit(t) PROVE PermitDiscipline'
  <2>1. /\ workersChan' = workersChan \cup {t}
        /\ Cardinality(workersChan) < MaxWorkers
    BY <1>13 DEF GrantPermit, PermitFree
  <2>2. \/ Cardinality(workersChan') = Cardinality(workersChan)
        \/ Cardinality(workersChan') = Cardinality(workersChan) + 1
    BY <1>a, <2>1, FS_AddElement
  <2>3. Cardinality(workersChan') <= MaxWorkers
    BY <1>a, <2>1, <2>2, MaxWorkersAssumption
  <2> QED
    BY <2>3, <1>13 DEF GrantPermit, TypeOK
<1>14. ASSUME NEW t \in Task, CancelHeld(t) PROVE PermitDiscipline'
  BY <1>14 DEF CancelHeld, TypeOK
<1>15. ASSUME NEW t \in Task, FetchReturns(t) PROVE PermitDiscipline'
  BY <1>15 DEF FetchReturns, TypeOK
<1>16. ASSUME NEW t \in Task, Deliver(t) PROVE PermitDiscipline'
  BY <1>16 DEF Deliver, TypeOK
<1>17. ASSUME NEW t \in Task, CancelSend(t) PROVE PermitDiscipline'
  BY <1>17 DEF CancelSend, TypeOK
<1>18. ASSUME NEW t \in Task, ReleasePermit(t) PROVE PermitDiscipline'
  <2>1. workersChan' \subseteq workersChan
    BY <1>18 DEF ReleasePermit
  <2>2. Cardinality(workersChan') <= Cardinality(workersChan)
    BY <1>a, <2>1, FS_Subset
  <2>3. Cardinality(workersChan') \in Nat
    BY <1>a, <2>1, FS_Subset, FS_CardinalityType
  <2>4. Cardinality(workersChan') <= MaxWorkers
    BY <1>a, <2>2, <2>3, MaxWorkersAssumption
  <2> QED
    BY <2>4, <1>18 DEF ReleasePermit, TypeOK
<1>19. CASE DispatcherExit
  BY <1>19, <1>b DEF DispatcherExit
<1>20. CASE AppCancel
  BY <1>20, <1>b DEF AppCancel
<1>21. CASE UNCHANGED vars
  BY <1>21, <1>b DEF vars
<1> QED
  BY <1>1, <1>2, <1>3, <1>4, <1>5, <1>6, <1>7, <1>8, <1>9, <1>10, <1>11, <1>12, <1>13, <1>14, <1>15, <1>16, <1>17, <1>18, <1>19, <1>20, <1>21
  DEF Next, ServiceStep, StoreStep, OwnStep, PoolStep, ContextStep, Terminated

-----------------------------------------------------------------------------
\* IInv holds in every state the program reaches.
THEOREM Invariance == Spec => []IInv
<1>1. Init => IInv
  BY InitIInv
<1>2. IInv /\ [Next]_vars => IInv'
  BY TypeStep, PermitStep, MuxStep, ClosedStep, HandedStep, SavedStep DEF IInv
<1> QED
  BY <1>1, <1>2, PTL DEF Spec

\* Every variable of the pool keeps its type, whatever the limits: no hash is
\* scheduled or received beyond those the request has.
THEOREM TypeCorrect == Spec => []TypeOK
<1>1. IInv => TypeOK
  BY DEF IInv
<1> QED
  BY <1>1, Invariance, PTL

\* At most maxFetchWorkers workers fetch or offer a result at a time, and each
\* holds a permit (NewEthNode, the send on and the receive from workersChan).
THEOREM PermitsKept == Spec => []PermitDiscipline
<1>1. IInv => PermitDiscipline
  BY DEF IInv
<1> QED
  BY <1>1, Invariance, PTL

\* A result channel closed without a value tells a running request that it
\* was cancelled, never that the pool lost the result.
THEOREM ChannelsHonest == Spec => []ChannelHonest
<1>1. IInv => ChannelHonest
  BY TaskForm DEF IInv, ClosedHonest, ChannelHonest, Running, Ended
<1> QED
  BY <1>1, Invariance, PTL

\* A pool with more permits than the tasks that scheduling loops can leave
\* unread never has all its permits held by such tasks.
THEOREM PoolNeverWedges == Capacity => (Spec => []NotWedged)
<1> DEFINE Unread == {t \in Task : t[2] < MaxHashes[t[1]]}
<1>1. ASSUME Capacity, IInv PROVE NotWedged
  <2> SUFFICES ASSUME \A t \in workersChan : pc[t[1]] = "schedule"
               PROVE  PermitFree
    BY DEF NotWedged
  <2>1. IsFiniteSet(Unread) /\ Cardinality(Unread) \in Nat
    BY TaskFinite, FS_Subset, FS_CardinalityType
  <2>2. ASSUME NEW t \in workersChan PROVE t \in Unread
    <3>1. t \in Task /\ t = <<t[1], t[2]>> /\ t[1] \in Request /\ t[2] \in 1..MaxHashes[t[1]]
      BY <1>1, TaskForm DEF IInv, TypeOK
    <3>2. stage[t] # "idle" /\ pc[t[1]] = "schedule"
      BY <1>1, <3>1 DEF IInv, PermitDiscipline, Offering
    <3>3. ~(next[t[1]] <= t[2])
      BY <1>1, <3>1, <3>2 DEF IInv, HandedInOrder
    <3>4. next[t[1]] <= missing[t[1]] /\ missing[t[1]] <= MaxHashes[t[1]]
      BY <1>1, <3>1, <3>2 DEF IInv, HandedInOrder, TypeOK
    <3>5. /\ next[t[1]] \in Nat /\ missing[t[1]] \in Nat
          /\ MaxHashes[t[1]] \in Nat /\ t[2] \in Nat
      BY <1>1, <3>1, HashesPositive DEF IInv, TypeOK
    <3>6. t[2] < MaxHashes[t[1]]
      BY <3>3, <3>4, <3>5
    <3> QED
      BY <3>1, <3>6
  <2>3. Cardinality(workersChan) <= Cardinality(Unread) /\ Cardinality(workersChan) \in Nat
    BY <2>1, <2>2, FS_Subset, FS_CardinalityType
  <2>4. Cardinality(Unread) < MaxWorkers
    BY <1>1 DEF Capacity
  <2> QED
    BY <2>1, <2>3, <2>4, MaxWorkersAssumption DEF PermitFree
<1>2. CASE Capacity
  <2>1. IInv => NotWedged
    BY <1>1, <1>2
  <2> QED
    BY <2>1, Invariance, PTL
<1> QED
  BY <1>2

-----------------------------------------------------------------------------
(* The contract of GetTransactionsByHashes.                                *)

\* Only the zero TxResult makes a request panic, and it takes a cancellation.
THEOREM PanicNeedsCancel == Spec => PanicOnlyIfCanceled
<1> DEFINE P == \A r \in Request : pc'[r] = "panic" /\ pc[r] # "panic" => appDone \/ reqDone[r]
<1>1. ASSUME IInv, [Next]_vars PROVE P
  <2> USE <1>1 DEF IInv
  <2>1. ASSUME NEW r \in Request, ServiceStep(r) PROVE P
    <3>1. CASE ReceiveZero(r)
      <4>1. next[r] \in 1..MaxHashes[r] /\ pc[r] \notin Ended
        BY <3>1 DEF ReceiveZero, TypeOK, Ended
      <4>2. <<r, next[r]>> \in Task /\ <<r, next[r]>>[1] = r
        BY <4>1, TaskForm
      <4>3. appDone \/ reqDone[r]
        BY <3>1, <4>1, <4>2 DEF ReceiveZero, ClosedHonest
      <4> QED
        BY <3>1, <4>3 DEF ReceiveZero, Return, TypeOK
    <3>2. CASE ~ReceiveZero(r)
      BY <2>1, <3>2 DEF ServiceStep, StoreStep, OwnStep, Lookup, LookupFails, Take, ScheduleDone, ReceiveDone,
                        Save, SaveFails, Answer, Return, TypeOK
    <3> QED
      BY <3>1, <3>2
  <2>2. ASSUME NEW r \in Request, ContextStep(r) PROVE P
    BY <2>2 DEF ContextStep, Merge, Disconnect, Finish, service
  <2>3. ASSUME NEW t \in Task, PoolStep(t) PROVE P
    <3>1. (\E what : Handover(t, what)) \/ UNCHANGED <<service, contexts>> \/ UNCHANGED pc
      BY <2>3 DEF PoolStep, GrantPermit, CancelHeld, FetchReturns, Deliver, CancelSend,
                  ReleasePermit, OfferCanceled, service
    <3> QED
      BY <3>1, HandoverEffect
  <2>4. CASE DispatcherExit \/ AppCancel \/ UNCHANGED vars
    BY <2>4 DEF DispatcherExit, AppCancel, vars, service
  <2> QED
    BY <1>1, <2>1, <2>2, <2>3, <2>4 DEF Next, Terminated
<1>2. IInv /\ [Next]_vars => [P]_vars
  BY <1>1
<1> QED
  BY <1>2, Invariance, PTL DEF Spec, PanicOnlyIfCanceled

\* What the contract sees of a step that moves request r to place p.
LEMMA OutcomeMoves ==
    ASSUME TypeOK, NEW r \in Request, NEW p, pc' = [pc EXCEPT ![r] = p]
    PROVE  outcome' = [outcome EXCEPT ![r] = CASE p = "lookup"   -> "new"
                                               [] p \in Running -> "running"
                                               [] OTHER         -> p]
<1> DEFINE seen(x) == CASE x = "lookup"   -> "new"
                        [] x \in Running -> "running"
                        [] OTHER         -> x
<1>1. outcome = [q \in Request |-> seen(pc[q])] /\ outcome' = [q \in Request |-> seen(pc'[q])]
  BY DEF outcome
<1>2. \A q \in Request : pc'[q] = IF q = r THEN p ELSE pc[q]
  BY DEF TypeOK
<1>3. outcome' = [outcome EXCEPT ![r] = seen(p)]
  <2> HIDE DEF seen
  <2> QED
    BY <1>1, <1>2
<1> QED
  BY <1>3

\* What a request's caller sees depends on where the request stands only.
LEMMA OutcomeStays == pc' = pc => outcome' = outcome
BY DEF outcome

\* Each step of the pool is a step of the contract or changes nothing in it.
THEOREM Refinement == Spec => ContractKept
<1> DEFINE canceled == {r \in Request : appDone \/ reqDone[r]}
<1> USE DEF Running, Ended
<1>1. Init => Contract!Init
  BY DEF Init, Contract!Init, outcome
<1>2. ASSUME IInv, [Next]_vars PROVE [Contract!Next]_(Contract!vars)
  <2> USE <1>2 DEF IInv
  <2> DEFINE quiet == UNCHANGED Contract!vars
  <2>f. ASSUME NEW r \in Request, pc[r] \notin Ended, pc' = [pc EXCEPT ![r] = "error"],
               UNCHANGED <<missing, saved, appDone, reqDone>>
        PROVE  Contract!Fail(r)
    BY <2>f, OutcomeMoves DEF Contract!Fail, outcome, TypeOK
  <2>q. ASSUME UNCHANGED <<pc, missing, saved, appDone, reqDone>> PROVE quiet
    BY <2>q, OutcomeStays DEF Contract!vars
  <2>p. ASSUME NEW t \in Task, NEW what, Handover(t, what)
        PROVE  quiet \/ \E r \in Request : Contract!Fail(r)
    <3>1. t[1] \in Request /\ pc[t[1]] = "receive" /\ UNCHANGED <<missing, saved, appDone, reqDone>>
      BY <2>p, TaskForm DEF Handover, Awaits
    <3>2. CASE what = "tx"
      <4>1. pc' = [pc EXCEPT ![t[1]] = "store"]
        BY <2>p, <3>2 DEF Handover
      <4>2. outcome' = outcome
        BY <3>1, <4>1, OutcomeMoves DEF outcome, TypeOK
      <4> QED
        BY <3>1, <4>2 DEF Contract!vars
    <3>3. CASE what # "tx"
      <4>1. pc' = [pc EXCEPT ![t[1]] = "error"]
        BY <2>p, <3>3 DEF Handover, Return
      <4> QED
        BY <3>1, <4>1, <2>f
    <3> QED
      BY <3>2, <3>3
  <2>1. ASSUME NEW r \in Request, Lookup(r) PROVE Contract!Start(r)
    BY <2>1, OutcomeMoves DEF Lookup, Contract!Start, outcome, TypeOK
  <2>2. ASSUME NEW r \in Request, LookupFails(r) PROVE Contract!Fail(r)
    BY <2>2, <2>f DEF LookupFails, contexts
  <2>3. ASSUME NEW r \in Request, Take(r) PROVE quiet
    <3>1. outcome' = outcome
      BY <2>3, OutcomeMoves, OutcomeStays DEF Take, outcome, TypeOK
    <3> QED
      BY <2>3, <3>1 DEF Take, contexts, Contract!vars
  <2>4. ASSUME NEW r \in Request, ScheduleDone(r) \/ ReceiveDone(r)
        PROVE  Contract!Fail(r)
    BY <2>4, <2>f DEF ScheduleDone, ReceiveDone, Return
  <2>5. ASSUME NEW r \in Request, ReceiveZero(r) PROVE Contract!Crash(r)
    <3>1. next[r] \in 1..MaxHashes[r]
      BY DEF TypeOK
    <3>2. <<r, next[r]>> \in Task /\ <<r, next[r]>>[1] = r
      BY <3>1, TaskForm
    <3>3. r \in canceled
      BY <2>5, <3>2 DEF ReceiveZero, ClosedHonest
    <3> QED
      BY <2>5, <3>3, OutcomeMoves DEF ReceiveZero, Return, Contract!Crash, outcome, TypeOK
  <2>a. ASSUME NEW r \in Request, pc[r] = "store", saved' = saved \cup {<<r, next[r]>>}
        PROVE  Contract!Advance(r)
    <3>1. /\ next[r] \in 1..MaxHashes[r] /\ next[r] <= missing[r]
          /\ next[r] \in Nat /\ missing[r] \in Nat /\ MaxHashes[r] \in Nat
      BY <2>a, HashesPositive DEF TypeOK, HandedInOrder
    <3>2. next[r] \in 1..missing[r]
      BY <3>1
    <3>3. <<r, next[r]>> \notin saved
      BY <2>a, <3>1 DEF SavedInOrder
    <3>4. ASSUME NEW j \in 1..(next[r] - 1) PROVE <<r, j>> \in saved
      <4>1. j \in 1..MaxHashes[r] /\ j < next[r]
        BY <3>1
      <4> QED
        BY <2>a, <4>1 DEF SavedInOrder
    <3> QED
      BY <2>a, <3>2, <3>3, <3>4 DEF Contract!Advance
  <2>6. ASSUME NEW r \in Request, Save(r) PROVE Contract!StoreNext(r)
    <3>1. UNCHANGED <<missing, appDone, reqDone>> /\ Contract!Advance(r)
      BY <2>6, <2>a DEF Save, contexts
    <3>2. outcome[r] = "running" /\ outcome' = outcome
      BY <2>6, OutcomeMoves DEF Save, outcome, TypeOK
    <3> QED
      BY <3>1, <3>2 DEF Contract!StoreNext
  <2>s. ASSUME NEW r \in Request, SaveFails(r) PROVE Contract!Fail(r)
    <3>1. /\ pc[r] = "store" /\ pc' = [pc EXCEPT ![r] = "error"]
          /\ UNCHANGED <<missing, appDone, reqDone>>
      BY <2>s DEF SaveFails, Return
    <3>2. UNCHANGED saved \/ Contract!Advance(r)
      BY <2>s, <3>1, <2>a DEF SaveFails
    <3>3. outcome[r] = "running" /\ outcome' = [outcome EXCEPT ![r] = "error"]
      BY <3>1, OutcomeMoves DEF outcome, TypeOK
    <3> QED
      BY <3>1, <3>2, <3>3 DEF Contract!Fail
  <2>7. ASSUME NEW r \in Request, Answer(r) PROVE Contract!Succeed(r)
    <3>1. \A i \in 1..missing[r] : <<r, i>> \in saved
      <4>1. missing[r] \in Nat /\ MaxHashes[r] \in Nat /\ missing[r] <= MaxHashes[r]
        BY HashesPositive DEF TypeOK
      <4>2. \A i \in 1..missing[r] : i \in 1..MaxHashes[r] /\ i <= missing[r]
        BY <4>1
      <4> QED
        BY <2>7, <4>2 DEF Answer, SavedInOrder
    <3> QED
      BY <2>7, <3>1, OutcomeMoves DEF Answer, Return, Contract!Succeed, outcome, TypeOK
  <2>8. ASSUME NEW r \in Request, Merge(r) PROVE quiet
    BY <2>8, <2>q DEF Merge, service
  <2>9. ASSUME NEW r \in Request, Disconnect(r) \/ Finish(r)
        PROVE  Contract!Cancel({r})
    <3>1. reqDone' = [reqDone EXCEPT ![r] = TRUE] /\ UNCHANGED <<pc, missing, saved, appDone>>
      BY <2>9 DEF Disconnect, Finish, service
    <3>2. canceled' = canceled \cup {r}
      BY <3>1 DEF TypeOK
    <3> QED
      BY <3>1, <3>2, OutcomeStays DEF Contract!Cancel
  <2>10. ASSUME NEW t \in Task, PoolStep(t) PROVE quiet \/ \E r \in Request : Contract!Fail(r)
    <3>1. (\E what : Handover(t, what)) \/ UNCHANGED <<service, contexts>>
      BY <2>10 DEF PoolStep, GrantPermit, CancelHeld, FetchReturns, Deliver, CancelSend,
                   ReleasePermit, OfferCanceled
    <3>2. CASE UNCHANGED <<service, contexts>>
      BY <3>2, <2>q DEF service, contexts
    <3> QED
      BY <3>1, <3>2, <2>p
  <2>11. CASE DispatcherExit
    BY <2>11, <2>q DEF DispatcherExit, service, contexts
  <2>12. CASE AppCancel
    <3>1. canceled' = canceled \cup Request /\ UNCHANGED <<pc, missing, saved>>
      BY <2>12 DEF AppCancel, service
    <3>2. Contract!Cancel(Request)
      BY <3>1, OutcomeStays DEF Contract!Cancel
    <3> QED
      BY <3>2 DEF Contract!Next
  <2>13. CASE UNCHANGED vars
    BY <2>13, <2>q DEF vars, service, contexts
  <2>14. (\E r \in Request : \/ Contract!Start(r) \/ Contract!StoreNext(r) \/ Contract!Succeed(r)
                            \/ Contract!Fail(r) \/ Contract!Crash(r)
                            \/ Contract!Cancel({r})) => Contract!Next
    BY DEF Contract!Next
  <2> QED
    BY <1>2, <2>1, <2>2, <2>3, <2>4, <2>5, <2>6, <2>s, <2>7, <2>8, <2>9, <2>10, <2>11, <2>12, <2>13, <2>14
    DEF Next, ServiceStep, StoreStep, OwnStep, ContextStep, Terminated
<1> QED
  BY <1>1, <1>2, Invariance, PTL DEF Spec, ContractKept, Contract!Spec

=============================================================================
