----------------------------- MODULE RateLimiter -----------------------------
(***************************************************************************)
(* The limiter that stands between the workers and the Ethereum node       *)
(* (internal/network/ratelimiter.go): a buffered channel of credits, a     *)
(* goroutine that refills it from a ticker, and the goroutines of          *)
(* fetchTransactionDetails and fetchTransactionReceipt (node.go) that poll *)
(* Allow, sleep, and call the node once.                                   *)
(*                                                                         *)
(* Time is the ticks of the ticker.  An audit, which the program does not  *)
(* have, opens a window anywhere and counts the ticks and the calls let    *)
(* through since; any stretch of an execution is some such window.         *)
(***************************************************************************)
EXTENDS Integers

CONSTANTS Caller,             \* goroutines of fetchTransactionDetails / Receipt
          NodeRateLimit,      \* NODE_RATE_LIMIT_PER_SECOND, any integer
          DefaultNodeCredit,  \* cmd.DefaultNodeCredit
          Horizon             \* ticks after which the audit opens a new window

ASSUME LimitAssumption   == NodeRateLimit \in Int
ASSUME DefaultAssumption == DefaultNodeCredit \in Nat \ {0}
ASSUME HorizonAssumption == Horizon \in Nat

VARIABLES
    appDone,    \* the context of the limiter is cancelled
    credits,    \* credits in the channel
    tick,       \* ticks in the channel of the ticker, which holds one
    refilling,  \* the refill goroutine runs
    pc,         \* pc[c]: where caller c stands in its loop
    ticks,      \* audit: ticks since the window opened
    allowed     \* audit: credits consumed since the window opened

audit == <<ticks, allowed>>
vars  == <<appDone, credits, tick, refilling, pc, audit>>

\* make(chan struct{}, maxCredits), after the default for a limit below one.
MaxCredits == IF NodeRateLimit <= 0 THEN DefaultNodeCredit ELSE NodeRateLimit

TypeOK ==
    /\ appDone   \in BOOLEAN
    /\ credits   \in 0..MaxCredits
    /\ tick      \in 0..1
    /\ refilling \in BOOLEAN
    /\ pc        \in [Caller -> {"poll", "sleep", "call", "done"}]
    /\ ticks     \in 0..Horizon
    /\ allowed   \in Nat

Init ==
    /\ appDone   = FALSE
    /\ credits   = MaxCredits
    /\ tick      = 0
    /\ refilling = TRUE
    /\ pc        = [c \in Caller |-> "poll"]
    /\ ticks     = 0
    /\ allowed   = 0

-----------------------------------------------------------------------------
\* The ticker fires; a tick that finds the last one unread is dropped.  At
\* the horizon the audit starts over, with this tick inside the new window.
Tick ==
    /\ refilling
    /\ tick' = 1
    /\ IF ticks = Horizon THEN ticks' = 0 /\ allowed' = 0
                          ELSE ticks' = ticks + 1 /\ UNCHANGED allowed
    /\ UNCHANGED <<appDone, credits, refilling, pc>>

\* Mutant: the refill does not notice that the channel is full.
RefillOverfull ==
    /\ refilling
    /\ tick = 1
    /\ tick' = 0
    /\ credits' = credits + 1
    /\ UNCHANGED <<appDone, refilling, pc, audit>>

\* Mutant: the refill leaves, instead of dropping the tick, when it is full.
RefillLeavesWhenFull ==
    /\ refilling
    /\ tick = 1
    /\ tick' = 0
    /\ IF credits < MaxCredits
       THEN credits' = credits + 1 /\ UNCHANGED refilling
       ELSE refilling' = FALSE /\ UNCHANGED credits
    /\ UNCHANGED <<appDone, pc, audit>>

\* The refill goroutine reads a tick; its select adds a credit when there is
\* room, leaves when the application is done, and else drops the tick.
Refill ==
    /\ refilling
    /\ tick = 1
    /\ tick' = 0
    /\ \/ /\ credits < MaxCredits
          /\ credits' = credits + 1
          /\ UNCHANGED refilling
       \/ /\ appDone
          /\ refilling' = FALSE
          /\ UNCHANGED credits
       \/ /\ credits = MaxCredits /\ ~appDone
          /\ UNCHANGED <<credits, refilling>>
    /\ UNCHANGED <<appDone, pc, audit>>

\* Mutant: Allow looks at the channel without taking a credit.
AllowTrueKeeping(c) ==
    /\ pc[c] = "poll"
    /\ credits > 0
    /\ allowed' = allowed + 1
    /\ pc' = [pc EXCEPT ![c] = "call"]
    /\ UNCHANGED <<appDone, credits, tick, refilling, ticks>>

\* Allow returns true: one credit is consumed, the node will be called.
AllowTrue(c) ==
    /\ pc[c] = "poll"
    /\ credits > 0
    /\ credits' = credits - 1
    /\ allowed' = allowed + 1
    /\ pc' = [pc EXCEPT ![c] = "call"]
    /\ UNCHANGED <<appDone, tick, refilling, ticks>>

\* Allow returns false: no credit, or the application is done.
AllowFalse(c) ==
    /\ pc[c] = "poll"
    /\ credits = 0 \/ appDone
    /\ pc' = [pc EXCEPT ![c] = "sleep"]
    /\ UNCHANGED <<appDone, credits, tick, refilling, audit>>

\* time.Sleep(WaitDuration()) is over; the loop looks at no context.
Wake(c) ==
    /\ pc[c] = "sleep"
    /\ pc' = [pc EXCEPT ![c] = "poll"]
    /\ UNCHANGED <<appDone, credits, tick, refilling, audit>>

\* The node answered, or its client gave up on a cancelled context.
CallReturns(c) ==
    /\ pc[c] = "call"
    /\ pc' = [pc EXCEPT ![c] = "done"]
    /\ UNCHANGED <<appDone, credits, tick, refilling, audit>>

AppCancel ==
    /\ ~appDone
    /\ appDone' = TRUE
    /\ UNCHANGED <<credits, tick, refilling, pc, audit>>

\* The audit opens its window here.
OpenWindow ==
    /\ ticks' = 0 /\ allowed' = 0
    /\ UNCHANGED <<appDone, credits, tick, refilling, pc>>

\* The goroutine is over, and another one polls in its place: there is no end
\* of requests, and a request has two goroutines for each of its hashes.
Again(c) ==
    /\ pc[c] = "done"
    /\ pc' = [pc EXCEPT ![c] = "poll"]
    /\ UNCHANGED <<appDone, credits, tick, refilling, audit>>

Next == \/ Tick \/ Refill \/ AppCancel \/ OpenWindow
        \/ \E c \in Caller : \/ AllowTrue(c) \/ AllowFalse(c) \/ Wake(c)
                             \/ CallReturns(c) \/ Again(c)

Spec == Init /\ [][Next]_vars

\* The ticker ticks, goroutines that can run do, and calls of the node return;
\* none has to come again.  A credit is not handed out in the order of the
\* polls: whether a poll finds one left is not for fairness to say.
Fairness == /\ WF_vars(Tick) /\ WF_vars(Refill)
            /\ \A c \in Caller : /\ WF_vars(AllowTrue(c) \/ AllowFalse(c))
                                 /\ WF_vars(Wake(c)) /\ WF_vars(CallReturns(c))

FairSpec == Spec /\ Fairness

-----------------------------------------------------------------------------
(* Properties.                                                             *)

\* In every window, the calls let through are paid for by the credits at its
\* start, at most a full channel and one unread tick, and by its ticks: a
\* burst after an idle second adds to the rate, it never compounds.
BurstBound == allowed + credits + tick <= MaxCredits + 1 + ticks

\* Nothing but other calls keeps a fetch waiting.  While the application runs,
\* each gets its call through, unless other goroutines are let through again
\* and again for ever: the limiter itself never stops, whenever the channel
\* ran full or empty, and a fetch may starve only behind the others.
OvertakenOrServed ==
    \A c \in Caller : \/ []<>(pc[c] \in {"call", "done"} \/ appDone)
                     \/ []<><<\E d \in Caller \ {c} : AllowTrue(d)>>_vars
=============================================================================
