------------------------------- MODULE TxFetch -------------------------------
(***************************************************************************)
(* EthNode.GetTransactionByHash (internal/network/node.go): two goroutines *)
(* fetch the details and the receipt of a transaction through the rate     *)
(* limiter that all fetches share, a third closes the error channel when   *)
(* both are done, and the worker collects errors until it is closed.       *)
(*                                                                         *)
(* The limiter is the module RateLimiter with these goroutines as its      *)
(* callers: its actions are used as they are, and here the goroutines get  *)
(* an answer from the node and report it.  An error is named by the half   *)
(* it comes from: errors are sorted before they are joined, so that their  *)
(* order does not matter.                                                  *)
(***************************************************************************)
EXTENDS Integers, FiniteSets

CONSTANTS Task,               \* fetches, one per worker
          NodeRateLimit, DefaultNodeCredit, Horizon    \* see RateLimiter

ASSUME LimitAssumption   == NodeRateLimit \in Int
ASSUME DefaultAssumption == DefaultNodeCredit \in Nat \ {0}
ASSUME HorizonAssumption == Horizon \in Nat

VARIABLES
    appDone, credits, tick, refilling, pc, ticks, allowed,   \* see RateLimiter
    status,    \* status[t]: where the worker stands in GetTransactionByHash
    ctxDone,   \* ctxDone[t]: the context of task t is cancelled
    answer,    \* answer[f]: what the node answered to goroutine f
    working,   \* goroutines that have not called wg.Done
    errCh,     \* errors in the error channels, named by their goroutine
    closed,    \* tasks whose error channel is closed
    errList    \* errors the workers collected

limiter == <<appDone, credits, tick, refilling, pc, ticks, allowed>>
fetch   == <<status, ctxDone, answer, working, errCh, closed, errList>>
vars    == <<limiter, fetch>>

Half    == {"details", "receipt"}
Fetcher == Task \X Half
Of(t)   == {t} \X Half     \* the two goroutines of task t
Ended   == {"tx", "error", "interrupted"}

Limiter == INSTANCE RateLimiter WITH Caller <- Fetcher

FetchTypeOK ==
    /\ status  \in [Task -> {"idle", "collect", "check"} \cup Ended]
    /\ ctxDone \in [Task -> BOOLEAN]
    /\ answer  \in [Fetcher -> {"none", "ok", "err"}]
    /\ working \subseteq Fetcher
    /\ errCh   \subseteq Fetcher
    /\ closed  \subseteq Task
    /\ errList \subseteq Fetcher

TypeOK == Limiter!TypeOK /\ FetchTypeOK

Init ==
    /\ Limiter!Init
    /\ status  = [t \in Task |-> "idle"]
    /\ ctxDone = [t \in Task |-> FALSE]
    /\ answer  = [f \in Fetcher |-> "none"]
    /\ working = {}
    /\ errCh   = {}
    /\ closed  = {}
    /\ errList = {}

-----------------------------------------------------------------------------
(* The worker, and the goroutine that closes the error channel.            *)

\* wg.Add(2) and the start of the two goroutines.
Call(t) ==
    /\ status[t] = "idle"
    /\ status'  = [status EXCEPT ![t] = "collect"]
    /\ working' = working \cup Of(t)
    /\ UNCHANGED <<limiter, ctxDone, answer, errCh, closed, errList>>

\* Mutant: the wait group counts one of the two.
CloseErrChEarly(t) ==
    /\ status[t] # "idle" /\ t \notin closed
    /\ Cardinality(working \cap Of(t)) <= 1
    /\ closed' = closed \cup {t}
    /\ UNCHANGED <<limiter, status, ctxDone, answer, working, errCh, errList>>

\* wg.Wait() returns once both goroutines called wg.Done.
CloseErrCh(t) ==
    /\ status[t] # "idle" /\ t \notin closed
    /\ working \cap Of(t) = {}
    /\ closed' = closed \cup {t}
    /\ UNCHANGED <<limiter, status, ctxDone, answer, working, errCh, errList>>

\* range errCh: the worker receives an error.
Collect(t) ==
    /\ status[t] = "collect"
    /\ \E f \in errCh \cap Of(t) : /\ errCh'   = errCh \ {f}
                                   /\ errList' = errList \cup {f}
    /\ UNCHANGED <<limiter, status, ctxDone, answer, working, closed>>

\* Mutant: the first error ends the collection.
CollectEndAtError(t) ==
    /\ status[t] = "collect"
    /\ \/ t \in closed /\ errCh \cap Of(t) = {}
       \/ errList \cap Of(t) # {}
    /\ status' = [status EXCEPT ![t] = "check"]
    /\ UNCHANGED <<limiter, ctxDone, answer, working, errCh, closed, errList>>

\* range errCh: the channel is closed and empty.
CollectEnd(t) ==
    /\ status[t] = "collect"
    /\ t \in closed
    /\ errCh \cap Of(t) = {}
    /\ status' = [status EXCEPT ![t] = "check"]
    /\ UNCHANGED <<limiter, ctxDone, answer, working, errCh, closed, errList>>

\* Mutant: the context is not looked at before the errors.
ConcludeUnchecked(t) ==
    /\ status[t] = "check"
    /\ \E end \in {"tx", "error"} :
          /\ errList \cap Of(t) # {} => end = "error"
          /\ status' = [status EXCEPT ![t] = end]
    /\ UNCHANGED <<limiter, ctxDone, answer, working, errCh, closed, errList>>

\* A cancelled context comes first, then the errors; then the transaction is
\* built from both answers, which fails if it has no valid sender.
Conclude(t) ==
    /\ status[t] = "check"
    /\ \E end \in Ended :
          /\ end = "interrupted" <=> ctxDone[t]
          /\ errList \cap Of(t) # {} => end # "tx"
          /\ status' = [status EXCEPT ![t] = end]
    /\ UNCHANGED <<limiter, ctxDone, answer, working, errCh, closed, errList>>

-----------------------------------------------------------------------------
(* fetchTransactionDetails and fetchTransactionReceipt                     *)

\* Mutant: the loop takes a credit once it has slept, whether there is one.
PollOverdrawing(f) ==
    /\ f \in working
    /\ \/ Limiter!AllowTrue(f) \/ Limiter!AllowFalse(f)
       \/ /\ pc[f] = "sleep"
          /\ pc'      = [pc EXCEPT ![f] = "call"]
          /\ credits' = credits - 1
          /\ UNCHANGED <<appDone, tick, refilling, ticks, allowed>>
    /\ UNCHANGED fetch

\* The loop that polls the limiter and sleeps.
Poll(f) ==
    /\ f \in working
    /\ Limiter!AllowTrue(f) \/ Limiter!AllowFalse(f) \/ Limiter!Wake(f)
    /\ UNCHANGED fetch

\* Mutant: a failed call goes back to the loop and is tried again.
NodeAnswersRetry(f) ==
    /\ pc[f] = "call"
    /\ \/ /\ pc' = [pc EXCEPT ![f] = "done"]
          /\ answer'  = [answer EXCEPT ![f] = "ok"]
          /\ working' = working \ {f}
       \/ /\ pc' = [pc EXCEPT ![f] = "poll"]
          /\ UNCHANGED <<answer, working>>
    /\ UNCHANGED <<appDone, credits, tick, refilling, ticks, allowed,
                   status, ctxDone, errCh, closed, errList>>

\* The node's client returns, with an error when the context is cancelled, the
\* transaction is unknown or the node fails; without one the goroutine ends.
NodeAnswers(f) ==
    /\ Limiter!CallReturns(f)
    /\ \/ /\ answer'  = [answer EXCEPT ![f] = "ok"]
          /\ working' = working \ {f}
       \/ /\ answer'  = [answer EXCEPT ![f] = "err"]
          /\ UNCHANGED working
    /\ UNCHANGED <<status, ctxDone, errCh, closed, errList>>

\* The error goes into the channel, which has room for two, or is dropped
\* because the context is cancelled; then wg.Done.
ReportError(f) ==
    /\ f \in working
    /\ answer[f] = "err"
    /\ errCh' = errCh \cup {f} \/ (ctxDone[f[1]] /\ UNCHANGED errCh)
    /\ working' = working \ {f}
    /\ UNCHANGED <<limiter, status, ctxDone, answer, closed, errList>>

-----------------------------------------------------------------------------
\* The merged context of the request is cancelled: its client left, it
\* returned early, or the application stops.  A fetch that is over looks at
\* its context no more.
Cancel(t) ==
    /\ ~ctxDone[t] /\ status[t] \notin Ended
    /\ ctxDone' = [ctxDone EXCEPT ![t] = TRUE]
    /\ UNCHANGED <<limiter, status, answer, working, errCh, closed, errList>>

\* Steps of the limiter's own goroutine, its ticker and the application.
LimiterStep == /\ Limiter!Tick \/ Limiter!Refill \/ Limiter!AppCancel
               /\ UNCHANGED fetch

\* The application stopped, its ticker too, and every fetch is over.
Terminated == /\ appDone /\ ~refilling
              /\ \A t \in Task : status[t] \in Ended
              /\ UNCHANGED vars

WorkerStep(t) == Call(t) \/ Collect(t) \/ CollectEnd(t) \/ Conclude(t)

Next == \/ \E t \in Task : WorkerStep(t) \/ CloseErrCh(t) \/ Cancel(t)
        \/ \E f \in Fetcher : Poll(f) \/ NodeAnswers(f) \/ ReportError(f)
        \/ LimiterStep
        \/ Terminated

Spec == Init /\ [][Next]_vars

(***************************************************************************)
(* Fairness.  Goroutines run, the ticker ticks and calls of the node       *)
(* return; MergeContexts hands a stop of the application on to the task.   *)
(* Nothing else cancels a task.                                            *)
(***************************************************************************)
Fairness ==
    /\ \A t \in Task : /\ WF_vars(WorkerStep(t)) /\ WF_vars(CloseErrCh(t))
                       /\ WF_vars(appDone /\ Cancel(t))
    /\ \A f \in Fetcher : /\ WF_vars(Poll(f)) /\ WF_vars(NodeAnswers(f))
                          /\ WF_vars(ReportError(f))
    /\ WF_vars(Limiter!Tick /\ UNCHANGED fetch)
    /\ WF_vars(Limiter!Refill /\ UNCHANGED fetch)

FairSpec == Spec /\ Fairness

-----------------------------------------------------------------------------
(* Properties.                                                             *)

\* A transaction is built only from two good answers.  ethTX and receipt are
\* dereferenced without a test for nil: an error dropped because the context
\* was cancelled must never leave the list of errors empty at that point.
ResultComplete ==
    \A t \in Task : status[t] = "tx" => \A f \in Of(t) : answer[f] = "ok"

\* "handle multiple errors as one": unless the context was cancelled, no
\* error of either half is missing when the worker decides.
ErrorsReported ==
    \A t \in Task : \A f \in Of(t) :
       status[t] = "check" /\ ~ctxDone[t] /\ answer[f] = "err" => f \in errList

\* Once the error channel is closed nobody is left to send to it, and when
\* GetTransactionByHash has what it returns, both its goroutines are done: the
\* permit of the worker covers everything that was started under it.
NothingLeftBehind ==
    \A t \in Task : t \in closed \/ status[t] \in {"check"} \cup Ended
                      => working \cap Of(t) = {}

\* Every fetch ends while the application runs: cancelled or not, failed or
\* not, in whatever order the goroutines finish.
FetchEnds == \A t \in Task : <>(status[t] \in Ended \/ appDone)

\* "upon context cancellation, quit here the execution with abort message"
\* (node.go): a cancelled fetch comes to an end.
CanceledQuits == \A t \in Task : ctxDone[t] ~> status[t] \in {"idle"} \cup Ended
-----------------------------------------------------------------------------
(* The inductive invariant of TxFetchProofs, in named parts.               *)

\* A goroutine calls the node while the worker waits for it, and has no
\* answer before its loop is done.
LoopInv ==
    /\ pc \in [Fetcher -> {"poll", "sleep", "call", "done"}]
    /\ \A f \in Fetcher : /\ pc[f] = "call" => f \in working
                          /\ pc[f] # "done" => answer[f] = "none"

\* Nothing of a fetch exists before it is called.
IdleInv ==
    \A t \in Task : status[t] = "idle" =>
       /\ t \notin closed
       /\ working \cap Of(t) = {} /\ errCh \cap Of(t) = {} /\ errList \cap Of(t) = {}
       /\ \A f \in Of(t) : answer[f] = "none" /\ pc[f] # "done"

\* The worker is past its loop only once the channel is closed and drained.
ClosedInv ==
    \A t \in Task :
       /\ t \in closed => working \cap Of(t) = {}
       /\ status[t] \in {"check"} \cup Ended => t \in closed /\ errCh \cap Of(t) = {}

\* A goroutine that is done has its answer, and an error that the worker
\* cannot see was dropped because of a cancelled context.
ErrorsAccounted ==
    \A f \in Fetcher : status[f[1]] # "idle" /\ f \notin working =>
       /\ answer[f] # "none"
       /\ answer[f] = "err" => f \in errCh \cup errList \/ ctxDone[f[1]]

IInv == /\ FetchTypeOK /\ LoopInv /\ IdleInv
        /\ ClosedInv /\ ErrorsAccounted /\ ResultComplete
=============================================================================
