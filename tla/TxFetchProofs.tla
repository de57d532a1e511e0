---------------------------- MODULE TxFetchProofs ----------------------------
(***************************************************************************)
(* Proofs about TxFetch for every set of fetches and every limit.          *)
(***************************************************************************)
EXTENDS TxFetch, TLAPS

\* A goroutine belongs to the task it is named after, and to no other.
LEMMA FetcherForm ==
    /\ \A f \in Fetcher : f[1] \in Task /\ f \in Of(f[1])
    /\ \A t \in Task : \A f \in Of(t) : f \in Fetcher /\ f[1] = t
BY DEF Fetcher, Of

\* No fetch runs and no error channel is open at the start.
LEMMA InitIInv == Init => IInv
<1> SUFFICES ASSUME Init PROVE IInv
  OBVIOUS
<1>1. pc = [f \in Fetcher |-> "poll"]
  BY DEF Init, Limiter!Init
<1>2. FetchTypeOK
  BY DEF Init, FetchTypeOK
<1>3. LoopInv /\ IdleInv
  BY <1>1, FetcherForm DEF Init, LoopInv, IdleInv
<1>4. ClosedInv /\ ErrorsAccounted /\ ResultComplete
  BY FetcherForm DEF Init, ClosedInv, ErrorsAccounted, ResultComplete, Ended
<1> QED
  BY <1>2, <1>3, <1>4 DEF IInv

\* A round of the polling loop moves one goroutine that is still working, and
\* leaves it with a call to make, or back in its loop.
LEMMA PollMoves ==
    ASSUME NEW f \in Fetcher, Poll(f), LoopInv
    PROVE  /\ f \in working /\ UNCHANGED fetch
           /\ pc[f] \in {"poll", "sleep"}
           /\ \E where \in {"poll", "sleep", "call"} : pc' = [pc EXCEPT ![f] = where]
BY DEF Poll, Limiter!AllowTrue, Limiter!AllowFalse, Limiter!Wake, LoopInv

\* Every step of a fetch, of the limiter or of a cancellation keeps the invariant.
LEMMA StepIInv == IInv /\ [Next]_vars => IInv'
<1> SUFFICES ASSUME IInv, [Next]_vars PROVE IInv'
  OBVIOUS
<1> USE DEF IInv
<1>q. ASSUME UNCHANGED <<fetch, pc>> PROVE IInv'
  BY <1>q DEF fetch, FetchTypeOK, LoopInv, IdleInv, ClosedInv, ErrorsAccounted, ResultComplete
<1>1. ASSUME NEW t \in Task, Call(t) PROVE IInv'
  <2> USE <1>1, FetcherForm DEF Call, limiter
  <2>1. FetchTypeOK'
    BY DEF FetchTypeOK, Fetcher, Of
  <2>2. LoopInv'
    BY DEF LoopInv
  <2>3. IdleInv' /\ ClosedInv'
    BY DEF IdleInv, ClosedInv, FetchTypeOK, Of, Ended
  <2>4. ErrorsAccounted'
    BY DEF ErrorsAccounted, FetchTypeOK
  <2>5. ResultComplete'
    BY DEF ResultComplete, FetchTypeOK
  <2> QED
    BY <2>1, <2>2, <2>3, <2>4, <2>5
<1>2. ASSUME NEW t \in Task, CloseErrCh(t) PROVE IInv'
  <2> USE <1>2 DEF CloseErrCh, limiter
  <2>1. FetchTypeOK' /\ LoopInv'
    BY DEF FetchTypeOK, LoopInv
  <2>2. IdleInv' /\ ClosedInv'
    BY DEF IdleInv, ClosedInv
  <2>3. ErrorsAccounted' /\ ResultComplete'
    BY DEF ErrorsAccounted, ResultComplete
  <2> QED
    BY <2>1, <2>2, <2>3
<1>3. ASSUME NEW t \in Task, Collect(t) PROVE IInv'
  <2> USE <1>3 DEF Collect, limiter
  <2>1. PICK f \in errCh \cap Of(t) : errCh' = errCh \ {f} /\ errList' = errList \cup {f}
    OBVIOUS
  <2> USE <2>1, FetcherForm
  <2>2. FetchTypeOK' /\ LoopInv'
    BY DEF FetchTypeOK, LoopInv
  <2>3. IdleInv' /\ ClosedInv'
    BY DEF IdleInv, ClosedInv
  <2>4. ErrorsAccounted' /\ ResultComplete'
    BY DEF ErrorsAccounted, ResultComplete
  <2> QED
    BY <2>2, <2>3, <2>4
<1>4. ASSUME NEW t \in Task, CollectEnd(t) PROVE IInv'
  <2> USE <1>4, FetcherForm DEF CollectEnd, limiter
  <2>1. FetchTypeOK' /\ LoopInv'
    BY DEF FetchTypeOK, LoopInv
  <2>2. IdleInv' /\ ClosedInv'
    BY DEF IdleInv, ClosedInv, FetchTypeOK
  <2>3. ErrorsAccounted' /\ ResultComplete'
    BY DEF ErrorsAccounted, ResultComplete, FetchTypeOK
  <2> QED
    BY <2>1, <2>2, <2>3
<1>5. ASSUME NEW t \in Task, Conclude(t) PROVE IInv'
  <2> USE <1>5, FetcherForm DEF Conclude, limiter
  <2>1. PICK end \in Ended : /\ end = "interrupted" <=> ctxDone[t]
                             /\ errList \cap Of(t) # {} => end # "tx"
                             /\ status' = [status EXCEPT ![t] = end]
    OBVIOUS
  <2>2. FetchTypeOK' /\ LoopInv'
    BY <2>1 DEF FetchTypeOK, LoopInv
  <2>3. IdleInv' /\ ClosedInv'
    BY <2>1 DEF IdleInv, ClosedInv, FetchTypeOK, Ended
  <2>4. ErrorsAccounted'
    BY <2>1 DEF ErrorsAccounted, FetchTypeOK
  <2>5. ASSUME end = "tx", NEW f \in Of(t) PROVE answer[f] = "ok"
    <3>1. f \notin working /\ f \notin errCh /\ f \notin errList /\ ~ctxDone[t]
      BY <2>1, <2>5 DEF ClosedInv
    <3>2. answer[f] # "none" /\ answer[f] # "err"
      BY <3>1 DEF ErrorsAccounted
    <3> QED
      BY <3>2 DEF FetchTypeOK
  <2>6. ResultComplete'
    BY <2>1, <2>5 DEF ResultComplete, FetchTypeOK
  <2> QED
    BY <2>2, <2>3, <2>4, <2>6
<1>6. ASSUME NEW t \in Task, Cancel(t) PROVE IInv'
  <2> USE <1>6 DEF Cancel, limiter
  <2>1. FetchTypeOK' /\ LoopInv'
    BY DEF FetchTypeOK, LoopInv
  <2>2. IdleInv' /\ ClosedInv' /\ ResultComplete'
    BY DEF IdleInv, ClosedInv, ResultComplete
  <2>3. ErrorsAccounted'
    BY DEF ErrorsAccounted, FetchTypeOK
  <2> QED
    BY <2>1, <2>2, <2>3
<1>7. ASSUME NEW f \in Fetcher, Poll(f) PROVE IInv'
  <2>1. PICK where \in {"poll", "sleep", "call"} : pc' = [pc EXCEPT ![f] = where]
    BY <1>7, PollMoves
  <2>2. pc[f] \in {"poll", "sleep"} /\ f \in working /\ UNCHANGED fetch
    BY <1>7, PollMoves
  <2>3. FetchTypeOK' /\ ClosedInv' /\ ResultComplete'
    BY <2>2 DEF fetch, FetchTypeOK, ClosedInv, ResultComplete
  <2>4. LoopInv'
    BY <2>1, <2>2 DEF fetch, LoopInv
  <2>5. IdleInv'
    BY <2>1, <2>2, FetcherForm DEF fetch, IdleInv, LoopInv
  <2>6. ErrorsAccounted'
    BY <2>2 DEF fetch, ErrorsAccounted
  <2> QED
    BY <2>3, <2>4, <2>5, <2>6
<1>8. ASSUME NEW f \in Fetcher, NodeAnswers(f) PROVE IInv'
  <2>1. /\ pc[f] = "call" /\ pc' = [pc EXCEPT ![f] = "done"]
        /\ UNCHANGED <<status, ctxDone, errCh, closed, errList>>
    BY <1>8 DEF NodeAnswers, Limiter!CallReturns
  <2>2. f \in working /\ answer[f] = "none"
    BY <2>1 DEF LoopInv
  <2>3. \/ answer' = [answer EXCEPT ![f] = "ok"] /\ working' = working \ {f}
        \/ answer' = [answer EXCEPT ![f] = "err"] /\ working' = working
    BY <1>8 DEF NodeAnswers
  <2>4. \A t \in Task : f \in Of(t) => status[t] = "collect" /\ t \notin closed
    BY <2>2 DEF IdleInv, ClosedInv, FetchTypeOK
  <2> USE <2>1, <2>2, <2>3, FetcherForm
  <2>5. FetchTypeOK'
    BY DEF FetchTypeOK
  <2>6. LoopInv'
    BY DEF LoopInv, FetchTypeOK
  <2>7. IdleInv' /\ ClosedInv'
    BY <2>4 DEF IdleInv, ClosedInv, FetchTypeOK, LoopInv
  <2>8. ErrorsAccounted'
    BY DEF ErrorsAccounted, FetchTypeOK
  <2>9. ResultComplete'
    BY <2>4 DEF ResultComplete, FetchTypeOK
  <2> QED
    BY <2>5, <2>6, <2>7, <2>8, <2>9
<1>9. ASSUME NEW f \in Fetcher, ReportError(f) PROVE IInv'
  <2> USE <1>9, FetcherForm DEF ReportError, limiter
  <2>1. \A t \in Task : f \in Of(t) => status[t] = "collect" /\ t \notin closed
    BY DEF IdleInv, ClosedInv, FetchTypeOK
  <2>2. FetchTypeOK'
    BY DEF FetchTypeOK
  <2>3. LoopInv'
    BY DEF LoopInv
  <2>4. IdleInv' /\ ClosedInv'
    BY <2>1 DEF IdleInv, ClosedInv
  <2>5. ErrorsAccounted' /\ ResultComplete'
    BY DEF ErrorsAccounted, ResultComplete
  <2> QED
    BY <2>2, <2>3, <2>4, <2>5
<1>10. CASE LimiterStep
  BY <1>10, <1>q DEF LimiterStep, Limiter!Tick, Limiter!Refill, Limiter!AppCancel
<1>11. CASE UNCHANGED vars
  BY <1>11, <1>q DEF vars, limiter
<1> QED
  BY <1>1, <1>2, <1>3, <1>4, <1>5, <1>6, <1>7, <1>8, <1>9, <1>10, <1>11
  DEF Next, WorkerStep, Terminated

\* The invariant holds in every reachable state.
LEMMA Invariance == Spec => []IInv
BY InitIInv, StepIInv, PTL DEF Spec

\* A transaction is built from two good answers: a nil receipt or nil details
\* are never dereferenced, whichever errors were dropped on cancellation.
THEOREM ResultsComplete == Spec => []ResultComplete
<1>1. IInv => ResultComplete
  BY DEF IInv
<1> QED
  BY <1>1, Invariance, PTL

\* When the worker decides, a fetch that was not cancelled lost no error.
THEOREM ErrorsNotLost == Spec => []ErrorsReported
<1>1. IInv => ErrorsReported
  BY FetcherForm DEF IInv, ErrorsReported, ClosedInv, ErrorsAccounted
<1> QED
  BY <1>1, Invariance, PTL

\* The error channel is closed after the last send, and no goroutine outlives
\* the fetch that started it.
THEOREM NothingIsLeft == Spec => []NothingLeftBehind
<1>1. IInv => NothingLeftBehind
  BY DEF IInv, NothingLeftBehind, ClosedInv
<1> QED
  BY <1>1, Invariance, PTL

\* The fetches use the limiter's own actions and leave it alone otherwise, so
\* what RateLimiterProofs shows of it carries over.
LEMMA LimiterUsed == Spec => Limiter!Spec
<1>1. Init => Limiter!Init
  BY DEF Init
<1>2. [Next]_vars => [Limiter!Next]_(Limiter!vars)
  <2> SUFFICES ASSUME [Next]_vars PROVE Limiter!Next \/ UNCHANGED Limiter!vars
    OBVIOUS
  <2>q. UNCHANGED limiter => UNCHANGED Limiter!vars
    BY DEF limiter, Limiter!vars, Limiter!audit
  <2>1. ASSUME NEW t \in Task, WorkerStep(t) \/ CloseErrCh(t) \/ Cancel(t)
        PROVE  UNCHANGED limiter
    BY <2>1 DEF WorkerStep, Call, Collect, CollectEnd, Conclude, CloseErrCh, Cancel
  <2>2. ASSUME NEW f \in Fetcher, Poll(f) \/ NodeAnswers(f) PROVE Limiter!Next
    BY <2>2 DEF Poll, NodeAnswers, Limiter!Next
  <2>3. ASSUME NEW f \in Fetcher, ReportError(f) PROVE UNCHANGED limiter
    BY <2>3 DEF ReportError
  <2>4. LimiterStep => Limiter!Next
    BY DEF LimiterStep, Limiter!Next
  <2>5. Terminated \/ UNCHANGED vars => UNCHANGED limiter
    BY DEF Terminated, vars
  <2> QED
    BY <2>q, <2>1, <2>2, <2>3, <2>4, <2>5 DEF Next
<1> QED
  BY <1>1, <1>2, PTL DEF Spec, Limiter!Spec

\* The theorems about the limiter, for these callers.
Proved == INSTANCE RateLimiterProofs WITH Caller <- Fetcher

\* The type invariant: the limiter's part from the theorem about the limiter,
\* the rest from the inductive invariant.
THEOREM TypeCorrect == Spec => []TypeOK
<1>1. Proved!Spec => []Proved!TypeOK
  BY Proved!TypeCorrect, LimitAssumption, DefaultAssumption, HorizonAssumption
<1>2. Limiter!Init => Proved!Init
  BY DEF Limiter!Init, Proved!Init, Limiter!MaxCredits, Proved!MaxCredits
<1>3. [Limiter!Next]_(Limiter!vars) => [Proved!Next]_(Proved!vars)
  BY DEF Limiter!Next, Limiter!vars, Limiter!audit, Limiter!MaxCredits,
         Limiter!Tick, Limiter!Refill, Limiter!AppCancel, Limiter!OpenWindow,
         Limiter!AllowTrue, Limiter!AllowFalse, Limiter!Wake, Limiter!CallReturns,
         Limiter!Again, Proved!Next, Proved!vars, Proved!audit, Proved!MaxCredits,
         Proved!Tick, Proved!Refill, Proved!AppCancel, Proved!OpenWindow,
         Proved!AllowTrue, Proved!AllowFalse, Proved!Wake, Proved!CallReturns,
         Proved!Again
<1>4. Proved!TypeOK => Limiter!TypeOK
  BY DEF Limiter!TypeOK, Proved!TypeOK, Limiter!MaxCredits, Proved!MaxCredits
<1>5. IInv => FetchTypeOK
  BY DEF IInv
<1> QED
  BY <1>1, <1>2, <1>3, <1>4, <1>5, Invariance, LimiterUsed, PTL
  DEF TypeOK, Limiter!Spec, Proved!Spec
=============================================================================
