-------------------------- MODULE RateLimiterProofs --------------------------
(***************************************************************************)
(* Proofs about RateLimiter for every limit, positive or not, and every    *)
(* set of callers, however many.                                           *)
(***************************************************************************)
EXTENDS RateLimiter, TLAPS

\* A limit below one is replaced by the default, so the channel has room.
LEMMA MaxCreditsPositive == MaxCredits \in Nat /\ MaxCredits > 0
BY LimitAssumption, DefaultAssumption DEF MaxCredits

\* The channel never holds more than MaxCredits, whatever the configuration.
THEOREM TypeCorrect == Spec => []TypeOK
<1>1. Init => TypeOK
  <2> SUFFICES ASSUME Init PROVE TypeOK
    OBVIOUS
  <2>1. appDone \in BOOLEAN /\ refilling \in BOOLEAN
    BY DEF Init
  <2>2. credits \in 0..MaxCredits /\ tick \in 0..1 /\ ticks \in 0..Horizon /\ allowed \in Nat
    BY MaxCreditsPositive, HorizonAssumption DEF Init
  <2>3. pc \in [Caller -> {"poll", "sleep", "call", "done"}]
    BY DEF Init
  <2> QED
    BY <2>1, <2>2, <2>3 DEF TypeOK
<1>2. TypeOK /\ [Next]_vars => TypeOK'
  <2> SUFFICES ASSUME TypeOK, [Next]_vars PROVE TypeOK'
    OBVIOUS
  <2> USE MaxCreditsPositive, HorizonAssumption DEF TypeOK, audit
  <2>1. CASE Tick
    BY <2>1 DEF Tick
  <2>2. CASE Refill
    <3>1. /\ tick = 1 /\ tick' = 0 /\ UNCHANGED <<ticks, allowed>>
          /\ (credits < MaxCredits /\ credits' = credits + 1) \/ credits' = credits
      BY <2>2 DEF Refill
    <3>2. UNCHANGED <<appDone, pc>> /\ refilling' \in BOOLEAN
      BY <2>2 DEF Refill
    <3>3. credits' \in 0..MaxCredits /\ tick' \in 0..1 /\ ticks' \in 0..Horizon /\ allowed' \in Nat
      BY <3>1
    <3> QED
      BY <3>2, <3>3
  <2>3. ASSUME NEW c \in Caller, AllowTrue(c) PROVE TypeOK'
    BY <2>3 DEF AllowTrue
  <2>4. ASSUME NEW c \in Caller, AllowFalse(c) \/ Wake(c) \/ CallReturns(c) \/ Again(c) PROVE TypeOK'
    BY <2>4 DEF AllowFalse, Wake, CallReturns, Again
  <2>5. CASE AppCancel
    <3>1. appDone' \in BOOLEAN /\ UNCHANGED <<credits, tick, refilling, pc, ticks, allowed>>
      BY <2>5 DEF AppCancel
    <3> QED
      BY <3>1
  <2>6. CASE OpenWindow
    BY <2>6 DEF OpenWindow
  <2>7. CASE UNCHANGED vars
    BY <2>7 DEF vars
  <2> QED
    BY <2>1, <2>2, <2>3, <2>4, <2>5, <2>6, <2>7 DEF Next
<1> QED
  BY <1>1, <1>2, PTL DEF Spec

\* In any window of any execution the calls let through are at most a full
\* channel, one unread tick and the ticks of the window.
THEOREM BurstBounded == Spec => []BurstBound
<1>1. Init => BurstBound
  BY MaxCreditsPositive DEF Init, BurstBound
<1>2. TypeOK /\ BurstBound /\ [Next]_vars => BurstBound'
  <2> SUFFICES ASSUME TypeOK, BurstBound, [Next]_vars PROVE BurstBound'
    OBVIOUS
  <2> USE MaxCreditsPositive, HorizonAssumption DEF TypeOK, BurstBound, audit
  <2>1. CASE Tick
    BY <2>1 DEF Tick
  <2>2. CASE Refill
    <3>1. /\ tick = 1 /\ tick' = 0 /\ UNCHANGED <<ticks, allowed>>
          /\ (credits < MaxCredits /\ credits' = credits + 1) \/ credits' = credits
      BY <2>2 DEF Refill
    <3> QED
      BY <3>1
  <2>3. ASSUME NEW c \in Caller, AllowTrue(c) PROVE BurstBound'
    BY <2>3 DEF AllowTrue
  <2>4. ASSUME NEW c \in Caller, AllowFalse(c) \/ Wake(c) \/ CallReturns(c) \/ Again(c) PROVE BurstBound'
    BY <2>4 DEF AllowFalse, Wake, CallReturns, Again
  <2>5. CASE AppCancel \/ OpenWindow
    BY <2>5 DEF AppCancel, OpenWindow
  <2>6. CASE UNCHANGED vars
    BY <2>6 DEF vars
  <2> QED
    BY <2>1, <2>2, <2>3, <2>4, <2>5, <2>6 DEF Next
<1> QED
  BY <1>1, <1>2, TypeCorrect, PTL DEF Spec
=============================================================================
