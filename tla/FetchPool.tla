------------------------------ MODULE FetchPool ------------------------------
(***************************************************************************)
(* The concurrent core of the server: requests inside                      *)
(* Service.GetTransactionsByHashes (internal/app/service.go), the          *)
(* dispatcher goroutine and the worker goroutines of EthNode               *)
(* (internal/network/setup.go), the unbuffered tasks and result channels   *)
(* between them, and the context that MergeContexts makes of the           *)
(* application's and the request's.                                        *)
(*                                                                         *)
(* A hash is the position it has among the request's missing hashes, a     *)
(* result is the tag "tx" or "err"; which hash is which, and what a        *)
(* transaction holds, make no difference to the pool.  What one fetch does *)
(* (TxFetch) is the single step FetchReturns, what the database does       *)
(* (Store) the steps Lookup and Save.                                      *)
(***************************************************************************)
EXTENDS Naturals, FiniteSets

CONSTANTS Request,     \* requests the HTTP server handles at the same time
          MaxHashes,   \* MaxHashes[r]: most hashes the route of r accepts
          MaxWorkers   \* maxFetchWorkers

ASSUME RequestAssumption    == IsFiniteSet(Request)
ASSUME MaxHashesAssumption  == MaxHashes \in [Request -> Nat \ {0}]
ASSUME MaxWorkersAssumption == MaxWorkers \in Nat \ {0}

VARIABLES
    appDone,      \* the application context is cancelled (Ctrl+C, SIGTERM)
    reqDone,      \* reqDone[r]: net/http cancelled the context of request r
    muxDone,      \* muxDone[r]: the merged context of request r is cancelled
    merging,      \* merging[r]: the goroutine MergeContexts starts
    pc,           \* pc[r]: where GetTransactionsByHashes stands
    missing,      \* missing[r]: how many hashes the store does not hold
    next,         \* next[r]: the hash being scheduled, or being received
    stage,        \* stage[t]: where task t, and its result channel, stand
    received,     \* tasks whose result the service took from the channel
    saved,        \* tasks whose transaction the database took
    workersChan,  \* tasks whose worker goroutine holds a permit
    dispatching   \* the dispatcher goroutine still runs

service    == <<pc, missing, next, received, saved>>
contexts   == <<appDone, reqDone, muxDone, merging>>
pool       == <<stage, workersChan, dispatching>>
vars       == <<service, contexts, pool>>

\* A task is named by its request and its place among the missing hashes.
Task == UNION {{r} \X (1..MaxHashes[r]) : r \in Request}

Running  == {"schedule", "receive", "store", "answer"}
Ended    == {"ok", "error", "panic"}
Offering == {"tx", "err"}    \* the worker offers what its fetch returned
Stage    == {"idle", "held", "fetch", "closed"} \cup Offering

TypeOK ==
    /\ appDone     \in BOOLEAN
    /\ reqDone     \in [Request -> BOOLEAN]
    /\ muxDone     \in [Request -> BOOLEAN]
    /\ merging     \in [Request -> {"none", "running", "exited"}]
    /\ pc          \in [Request -> {"lookup"} \cup Running \cup Ended]
    /\ missing     \in [Request -> Nat]
    /\ next        \in [Request -> Nat]
    /\ \A r \in Request : missing[r] <= MaxHashes[r] /\ next[r] \in 1..MaxHashes[r]
    /\ stage       \in [Task -> Stage]
    /\ received    \subseteq Task
    /\ saved       \subseteq Task
    /\ workersChan \subseteq Task
    /\ dispatching \in BOOLEAN

Init ==
    /\ appDone     = FALSE
    /\ reqDone     = [r \in Request |-> FALSE]
    /\ muxDone     = [r \in Request |-> FALSE]
    /\ merging     = [r \in Request |-> "none"]
    /\ pc          = [r \in Request |-> "lookup"]
    /\ missing     = [r \in Request |-> 0]
    /\ next        = [r \in Request |-> 1]
    /\ stage       = [t \in Task |-> "idle"]
    /\ received    = {}
    /\ saved       = {}
    /\ workersChan = {}
    /\ dispatching = TRUE

-----------------------------------------------------------------------------
(* Guards and effects shared by the actions.                               *)

\* Mutant: the buffer is made one place too large.
PermitFreeOneMore == Cardinality(workersChan) <= MaxWorkers

\* Mutant: the buffer is made one place too small.
PermitFreeOneLess == Cardinality(workersChan) + 1 < MaxWorkers

\* workersChan <- struct{}{} can proceed: the buffer has a free place.
PermitFree == Cardinality(workersChan) < MaxWorkers

\* The dispatcher is back at its outer select, holding no task.
AtTasksChan == dispatching /\ \A t \in Task : stage[t] # "held"

\* The service is at the select that reads the result channel of task t.
Awaits(t) == pc[t[1]] = "receive" /\ next[t[1]] = t[2]

\* GetTransactionsByHashes returns; the deferred cancel() runs first.
Return(r, how) == /\ pc'      = [pc EXCEPT ![r] = how]
                  /\ muxDone' = [muxDone EXCEPT ![r] = TRUE]

\* The result of task t goes over its channel to the waiting service.
Handover(t, what) ==
    /\ Awaits(t)
    /\ received' = received \cup {t}
    /\ IF what = "tx" THEN pc' = [pc EXCEPT ![t[1]] = "store"] /\ UNCHANGED muxDone
                      ELSE Return(t[1], "error")
    /\ UNCHANGED <<missing, next, saved, appDone, reqDone, merging>>

\* What to do with a task once its context is cancelled: offer "task
\* canceled" to a service that still waits, and close the channel anyway.
OfferCanceled(t) == \/ Handover(t, "err")
                    \/ UNCHANGED <<service, contexts>>

-----------------------------------------------------------------------------
(* The service, one request at a time in each goroutine of net/http.       *)

\* Stored transactions are looked up and linked to the user, then the
\* contexts are merged and the missing hashes remain to be scheduled.  The
\* store runs on the application context: nothing succeeds once it is done.
Lookup(r) ==
    /\ pc[r] = "lookup"
    /\ ~appDone
    /\ merging' = [merging EXCEPT ![r] = "running"]
    /\ \E n \in 0..MaxHashes[r] :
          /\ missing' = [missing EXCEPT ![r] = n]
          /\ pc'      = [pc EXCEPT ![r] = IF n = 0 THEN "answer" ELSE "schedule"]
    /\ UNCHANGED <<next, received, saved, appDone, reqDone, muxDone, pool>>

\* The store fails before the contexts are merged.
LookupFails(r) ==
    /\ pc[r] = "lookup"
    /\ pc' = [pc EXCEPT ![r] = "error"]
    /\ UNCHANGED <<missing, next, received, saved, contexts, pool>>

\* Mutant: the receive loop starts where the scheduling loop ended.
TakeNoReset(r) ==
    /\ pc[r] = "schedule"
    /\ AtTasksChan
    /\ stage' = [stage EXCEPT ![<<r, next[r]>>] = "held"]
    /\ next'  = [next EXCEPT ![r] = @ + 1]
    /\ pc'    = [pc EXCEPT ![r] = IF next[r] = missing[r] THEN "receive" ELSE @]
    /\ UNCHANGED <<missing, received, saved, contexts, workersChan, dispatching>>

\* Rendezvous on tasksChan between ScheduleTask and the dispatcher.
Take(r) ==
    /\ pc[r] = "schedule"
    /\ AtTasksChan
    /\ stage' = [stage EXCEPT ![<<r, next[r]>>] = "held"]
    /\ IF next[r] = missing[r]
       THEN /\ pc'   = [pc EXCEPT ![r] = "receive"]
            /\ next' = [next EXCEPT ![r] = 1]
       ELSE /\ next' = [next EXCEPT ![r] = @ + 1]
            /\ UNCHANGED pc
    /\ UNCHANGED <<missing, received, saved, contexts, workersChan, dispatching>>

\* ScheduleTask gives up: the merged context is cancelled.
ScheduleDone(r) ==
    /\ pc[r] = "schedule"
    /\ muxDone[r]
    /\ stage' = [stage EXCEPT ![<<r, next[r]>>] = "closed"]
    /\ Return(r, "error")
    /\ UNCHANGED <<missing, next, received, saved, appDone, reqDone, merging,
                   workersChan, dispatching>>

\* Mutant: the receive loop watches the request's context only.
ReceiveDoneRequestOnly(r) ==
    /\ pc[r] = "receive"
    /\ reqDone[r]
    /\ Return(r, "error")
    /\ UNCHANGED <<missing, next, received, saved, appDone, reqDone, merging, pool>>

\* The select of the receive loop sees the merged context cancelled.
ReceiveDone(r) ==
    /\ pc[r] = "receive"
    /\ muxDone[r]
    /\ Return(r, "error")
    /\ UNCHANGED <<missing, next, received, saved, appDone, reqDone, merging, pool>>

\* The same select reads a channel closed without a value: the zero TxResult
\* has no error and no transaction, and result.Tx.TXHash panics.
ReceiveZero(r) ==
    /\ pc[r] = "receive"
    /\ stage[<<r, next[r]>>] = "closed"
    /\ <<r, next[r]>> \notin received
    /\ Return(r, "panic")
    /\ UNCHANGED <<missing, next, received, saved, appDone, reqDone, merging, pool>>

\* InsertTransactions stores the transaction just received.
Save(r) ==
    /\ pc[r] = "store"
    /\ ~appDone
    /\ saved' = saved \cup {<<r, next[r]>>}
    /\ IF next[r] = missing[r]
       THEN pc' = [pc EXCEPT ![r] = "answer"] /\ UNCHANGED next
       ELSE /\ pc'   = [pc EXCEPT ![r] = "receive"]
            /\ next' = [next EXCEPT ![r] = @ + 1]
    /\ UNCHANGED <<missing, received, contexts, pool>>

\* Mutant: the error of InsertTransactions is dropped.
SaveFailsIgnored(r) ==
    /\ pc[r] = "store"
    /\ IF next[r] = missing[r]
       THEN pc' = [pc EXCEPT ![r] = "answer"] /\ UNCHANGED next
       ELSE /\ pc'   = [pc EXCEPT ![r] = "receive"]
            /\ next' = [next EXCEPT ![r] = @ + 1]
    /\ UNCHANGED <<missing, received, saved, contexts, pool>>

\* InsertTransactions fails; what was stored before stays stored.  A Commit
\* whose answer is lost fails too, and may have stored the transaction.
SaveFails(r) ==
    /\ pc[r] = "store"
    /\ UNCHANGED saved \/ saved' = saved \cup {<<r, next[r]>>}
    /\ Return(r, "error")
    /\ UNCHANGED <<missing, next, received, appDone, reqDone, merging, pool>>

\* The answer is rebuilt in the order of the request and returned.
Answer(r) ==
    /\ pc[r] = "answer"
    /\ Return(r, "ok")
    /\ UNCHANGED <<missing, next, received, saved, appDone, reqDone, merging, pool>>

-----------------------------------------------------------------------------
(* The dispatcher goroutine of NewEthNode.                                 *)

\* A permit is free: a worker goroutine starts on the held task.
GrantPermit(t) ==
    /\ stage[t] = "held"
    /\ PermitFree
    /\ stage'       = [stage EXCEPT ![t] = "fetch"]
    /\ workersChan' = workersChan \cup {t}
    /\ UNCHANGED <<service, contexts, dispatching>>

\* Mutant: a task that finds no permit is turned away like a cancelled one.
CancelHeldIfFull(t) ==
    /\ stage[t] = "held"
    /\ muxDone[t[1]] \/ ~PermitFree
    /\ OfferCanceled(t)
    /\ stage'       = [stage EXCEPT ![t] = "closed"]
    /\ dispatching' = ~appDone
    /\ UNCHANGED workersChan

\* The context of the held task is cancelled before a permit is found.
CancelHeld(t) ==
    /\ stage[t] = "held"
    /\ muxDone[t[1]]
    /\ OfferCanceled(t)
    /\ stage'       = [stage EXCEPT ![t] = "closed"]
    /\ dispatching' = ~appDone
    /\ UNCHANGED workersChan

\* The outer select sees the application context cancelled.
DispatcherExit ==
    /\ AtTasksChan
    /\ appDone
    /\ dispatching' = FALSE
    /\ UNCHANGED <<service, contexts, stage, workersChan>>

-----------------------------------------------------------------------------
(* A worker goroutine.                                                     *)

\* Mutant: a failed fetch ends the worker, which closes the channel unused.
FetchReturnsClosing(t) ==
    /\ stage[t] = "fetch"
    /\ \E what \in {"tx", "closed"} :
          /\ what = "tx" => ~muxDone[t[1]]
          /\ stage' = [stage EXCEPT ![t] = what]
    /\ UNCHANGED <<service, contexts, workersChan, dispatching>>

\* GetTransactionByHash returns: an error once the merged context is
\* cancelled, whatever the node answered or failed to answer otherwise.
FetchReturns(t) ==
    /\ stage[t] = "fetch"
    /\ \E what \in Offering :
          /\ what = "tx" => ~muxDone[t[1]]
          /\ stage' = [stage EXCEPT ![t] = what]
    /\ UNCHANGED <<service, contexts, workersChan, dispatching>>

\* The service takes the result; the deferred close follows.
Deliver(t) ==
    /\ stage[t] \in Offering
    /\ Handover(t, stage[t])
    /\ stage' = [stage EXCEPT ![t] = "closed"]
    /\ UNCHANGED <<workersChan, dispatching>>

\* Mutant: the offer of "task canceled" lacks its default and waits.
CancelSendBlocking(t) ==
    /\ stage[t] \in Offering
    /\ muxDone[t[1]]
    /\ Handover(t, "err")
    /\ stage' = [stage EXCEPT ![t] = "closed"]
    /\ UNCHANGED <<workersChan, dispatching>>

\* The worker sees the merged context cancelled instead; the deferred close
\* follows.
CancelSend(t) ==
    /\ stage[t] \in Offering
    /\ muxDone[t[1]]
    /\ OfferCanceled(t)
    /\ stage' = [stage EXCEPT ![t] = "closed"]
    /\ UNCHANGED <<workersChan, dispatching>>

\* Last of the deferred calls: the permit goes back.
ReleasePermit(t) ==
    /\ stage[t] = "closed"
    /\ t \in workersChan
    /\ workersChan' = workersChan \ {t}
    /\ UNCHANGED <<service, contexts, stage, dispatching>>

-----------------------------------------------------------------------------
(* Contexts.                                                               *)

\* Mutant: the goroutine waits for the application only.
MergeAppOnly(r) ==
    /\ merging[r] = "running"
    /\ appDone
    /\ merging' = [merging EXCEPT ![r] = "exited"]
    /\ muxDone' = [muxDone EXCEPT ![r] = TRUE]
    /\ UNCHANGED <<service, appDone, reqDone, pool>>

\* The goroutine of MergeContexts forwards a cancellation and exits.
Merge(r) ==
    /\ merging[r] = "running"
    /\ appDone \/ reqDone[r]
    /\ merging' = [merging EXCEPT ![r] = "exited"]
    /\ muxDone' = [muxDone EXCEPT ![r] = TRUE]
    /\ UNCHANGED <<service, appDone, reqDone, pool>>

\* The client closes its connection while the request is served.
Disconnect(r) ==
    /\ pc[r] \notin Ended
    /\ ~reqDone[r]
    /\ reqDone' = [reqDone EXCEPT ![r] = TRUE]
    /\ UNCHANGED <<service, appDone, muxDone, merging, pool>>

\* net/http cancels the context of a request whose handler returned.
Finish(r) ==
    /\ pc[r] \in Ended
    /\ ~reqDone[r]
    /\ reqDone' = [reqDone EXCEPT ![r] = TRUE]
    /\ UNCHANGED <<service, appDone, muxDone, merging, pool>>

\* The shutdown handler cancels the application context.
AppCancel ==
    /\ ~appDone
    /\ appDone' = TRUE
    /\ UNCHANGED <<service, reqDone, muxDone, merging, pool>>

\* Every request is over and every task of the pool at rest.
Terminated ==
    /\ \A r \in Request : pc[r] \in Ended /\ reqDone[r] /\ merging[r] # "running"
    /\ \A t \in Task : stage[t] \in {"idle", "closed"} /\ t \notin workersChan
    /\ UNCHANGED vars

-----------------------------------------------------------------------------
\* A call of the store returns; all other steps are the service's own.
StoreStep(r) == Lookup(r) \/ LookupFails(r) \/ Save(r) \/ SaveFails(r)

OwnStep(r) == \/ Take(r) \/ ScheduleDone(r) \/ ReceiveDone(r) \/ ReceiveZero(r)
              \/ Answer(r)

ServiceStep(r) == StoreStep(r) \/ OwnStep(r)

PoolStep(t) == \/ GrantPermit(t) \/ CancelHeld(t) \/ FetchReturns(t)
               \/ Deliver(t) \/ CancelSend(t) \/ ReleasePermit(t)

ContextStep(r) == Merge(r) \/ Disconnect(r) \/ Finish(r)

Next == \/ \E r \in Request : ServiceStep(r) \/ ContextStep(r)
        \/ \E t \in Task : PoolStep(t)
        \/ DispatcherExit
        \/ AppCancel
        \/ Terminated

Spec == Init /\ [][Next]_vars

(***************************************************************************)
(* Fairness.  Goroutines that can run do run: the Go scheduler starves     *)
(* none, and a runnable select takes one of its ready cases.  net/http     *)
(* always cancels the context of a finished request.  A fetch returns as   *)
(* long as the application runs (the node answers, the limiter refills);   *)
(* after AppCancel nothing promises that: see TxFetch.  Nothing makes      *)
(* a client leave or the operator stop the server.                         *)
(*                                                                         *)
(* StoreReturns is an assumption about another component: every call of    *)
(* the store returns.  Store shows it (SerialCallsReturn) as long as no    *)
(* two inserts overlap; after an overlap an abandoned transaction can make *)
(* a call wait for ever, and the request that made it with it.             *)
(***************************************************************************)
StoreReturns == \A r \in Request : WF_vars(StoreStep(r))

Fairness ==
    /\ \A r \in Request : WF_vars(OwnStep(r)) /\ WF_vars(Merge(r)) /\ WF_vars(Finish(r))
    /\ \A t \in Task :
          /\ WF_vars(GrantPermit(t) \/ CancelHeld(t))
          /\ WF_vars(~appDone /\ FetchReturns(t))
          /\ WF_vars(Deliver(t) \/ CancelSend(t))
          /\ WF_vars(ReleasePermit(t))
    /\ WF_vars(DispatcherExit)

FairSpec == Spec /\ Fairness /\ StoreReturns

-----------------------------------------------------------------------------
(* Safety.                                                                 *)

\* A permit is held by every worker that fetches or offers a result, by no
\* task that has no worker, and never by more than the pool has: releasing
\* early, or starting a worker without one, lifts the limit on concurrent
\* fetches (the send on workersChan and the deferred receive).
PermitDiscipline ==
    /\ Cardinality(workersChan) <= MaxWorkers
    /\ \A t \in Task : /\ stage[t] \in {"fetch"} \cup Offering => t \in workersChan
                       /\ t \in workersChan => stage[t] \in {"fetch", "closed"} \cup Offering

\* While its request runs, a result channel closed without a value means
\* cancellation and nothing else: closing a channel is the only way the pool
\* loses a result, and the service cannot tell a lost result from an empty one.
ChannelHonest ==
    \A t \in Task : stage[t] = "closed" /\ t \notin received /\ pc[t[1]] \in Running
                      => appDone \/ reqDone[t[1]]

\* The pool does not wedge: when no permit is left, some worker belongs to
\* a request that is past its scheduling loop, so that somebody reads, or
\* will read, its result.  The service schedules everything before it reads
\* anything, so this rests on the sizes alone: it is what Capacity buys.
NotWedged ==
    ~PermitFree => \E t \in workersChan : pc[t[1]] # "schedule"

\* Fewer tasks than permits can have been handed over by requests that do
\* not read yet: all the hashes of a request but its last.
Capacity == Cardinality({t \in Task : t[2] < MaxHashes[t[1]]}) < MaxWorkers

\* A request does not panic.  TxResult "is used to transport fetch results
\* over channels" (node.go): a received one holds a transaction or an error.
NoPanic == \A r \in Request : pc[r] # "panic"

\* The panic of the zero TxResult needs a cancellation that came first.
PanicOnlyIfCanceled ==
    [][\A r \in Request : pc'[r] = "panic" /\ pc[r] # "panic" => appDone \/ reqDone[r]]_vars

-----------------------------------------------------------------------------
(* Liveness.                                                               *)

(* All three rest on StoreReturns.                                         *)

\* Every request comes to an end: with its answer, an error or a panic.
RequestReturns == \A r \in Request : <>(pc[r] \in Ended)

\* Every task that the dispatcher took ends with its channel closed and its
\* permit back, whether or not anyone still waits for it, unless the
\* application is being stopped.
TasksEnd == \A t \in Task :
    stage[t] # "idle" ~> (stage[t] = "closed" /\ t \notin workersChan) \/ appDone

\* "This goroutine will exit once the request completes" (MergeContexts).
MergerExits == \A r \in Request : merging[r] = "running" ~> merging[r] = "exited"

-----------------------------------------------------------------------------
(* Refinement.                                                             *)

\* A request is new until it looked its hashes up and runs until it returned.
outcome == [r \in Request |-> CASE pc[r] = "lookup"   -> "new"
                               [] pc[r] \in Running -> "running"
                               [] OTHER             -> pc[r]]

Contract == INSTANCE FetchContract
               WITH stored   <- saved,
                    canceled <- {r \in Request : appDone \/ reqDone[r]}

\* The pool, the channels and the contexts together keep the contract of
\* GetTransactionsByHashes: an answer only when every missing hash was
\* fetched and stored, results stored in the order of the request and none
\* after one that failed, and a panic only after a cancellation.
ContractKept == Contract!Spec

-----------------------------------------------------------------------------
(* The inductive invariant of FetchPoolProofs, in named parts.             *)

\* A merged context is cancelled while its request is in progress only by
\* the goroutine of MergeContexts.
MuxHonest ==
    \A r \in Request : muxDone[r] /\ pc[r] \notin Ended => appDone \/ reqDone[r]

\* ChannelHonest, from before the request starts to run.
ClosedHonest ==
    \A t \in Task : stage[t] = "closed" /\ t \notin received /\ pc[t[1]] \notin Ended
                      => appDone \/ reqDone[t[1]]

\* Tasks are handed over in order, none before its turn.
HandedInOrder ==
    \A r \in Request :
       /\ pc[r] = "lookup" => next[r] = 1
       /\ pc[r] \in {"schedule", "receive", "store"} => next[r] <= missing[r]
       /\ \A i \in 1..MaxHashes[r] :
             pc[r] = "lookup" \/ (pc[r] = "schedule" /\ next[r] <= i)
                => stage[<<r, i>>] = "idle"

\* What a request stored is what it has read so far.
SavedInOrder ==
    \A r \in Request : \A i \in 1..MaxHashes[r] :
       /\ pc[r] \in {"lookup", "schedule"} => <<r, i>> \notin saved
       /\ pc[r] \in {"receive", "store"} => (<<r, i>> \in saved <=> i < next[r])
       /\ pc[r] = "answer" /\ i <= missing[r] => <<r, i>> \in saved

IInv == /\ TypeOK
        /\ PermitDiscipline
        /\ MuxHonest
        /\ ClosedHonest
        /\ HandedInOrder
        /\ SavedInOrder

=============================================================================
