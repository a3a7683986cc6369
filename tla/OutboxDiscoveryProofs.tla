----------------------- MODULE OutboxDiscoveryProofs -----------------------
(***************************************************************************)
(* Proofs about OutboxDiscovery, for any number of signals, any window,    *)
(* any adapters and any retry limit.  That committed work is settled stays *)
(* with TLC: it is a liveness property.                                    *)
(***************************************************************************)
EXTENDS OutboxDiscovery, TLAPS

(* A row that a worker may claim again has tries left.  A claim counts a   *)
(* try without looking at the limit, which only the completion before it   *)
(* compared.                                                               *)
TriesLeft ==
  \A a \in Actions : outcome[a] \in {"pending", "waiting"} => tries[a] < MaxTries
Bounded == TypeOK /\ TriesLeft

LEMMA BoundedInit == Init => Bounded
BY DiscoveryAssumption DEF Init, Bounded, TypeOK, TriesLeft, Outcome

LEMMA ExecuteBounded ==
  ASSUME Bounded, NEW a \in Actions, Execute(a)
  PROVE  Bounded'
<1> USE DEF Bounded, TypeOK, Outcome
<1>0. /\ MaxRuns \in Nat /\ MaxTries \in Nat
      /\ started[a] \in Nat /\ started[a] > 0
  BY DiscoveryAssumption DEF Execute
<1>1. /\ started' \in [Actions -> 0..MaxRuns]
      /\ UNCHANGED <<signal, barred>>
  BY <1>0 DEF Execute
<1>2. CASE Pass(a) \/ Throw(a)
  BY <1>1, <1>2 DEF Pass, Throw, TriesLeft
<1>3. CASE Cancel(a) \/ MarkStale(a)
  BY <1>1, <1>3 DEF Cancel, MarkStale, TriesLeft
<1>4. CASE Claim(a)
  <2>1. tries[a] + 1 \in 0..MaxTries
    BY <1>0, <1>4 DEF Claim, TriesLeft
  <2> QED BY <1>1, <1>4, <2>1 DEF Claim, TriesLeft
<1> QED
  BY <1>2, <1>3, <1>4 DEF Execute

LEMMA StepBounded ==
  ASSUME Bounded, [Next]_vars
  PROVE  Bounded'
<1> USE DEF Bounded, TypeOK, Outcome
<1>0. MaxRuns \in Nat /\ MaxTries \in Nat
  BY DiscoveryAssumption
<1>1. ASSUME NEW a \in Actions,
             Insert(a) \/ EndTransaction(a, "committed") \/ EndTransaction(a, "none")
      PROVE  Bounded'
  BY <1>1 DEF Insert, EndTransaction, TriesLeft
<1>2. ASSUME NEW a \in Actions, Start(a)
      PROVE  Bounded'
  BY <1>0, <1>2 DEF Start, TriesLeft
<1>3. ASSUME NEW a \in Actions, NEW result \in {"settled", "waiting"}, Complete(a, result)
      PROVE  Bounded'
  BY <1>0, <1>3 DEF Complete, Spent, TriesLeft
<1>4. ASSUME NEW a \in Actions, DieStarted(a) \/ DieDelivering(a)
      PROVE  Bounded'
  <2>1. started[a] > 0 => started[a] - 1 \in 0..MaxRuns
    BY <1>0
  <2> QED BY <1>4, <2>1 DEF DieStarted, DieDelivering, TriesLeft
<1>5. ASSUME NEW a \in Actions, ClaimAges(a) \/ RetryFallsDue(a) \/ ChangeChecks(a)
      PROVE  Bounded'
  BY <1>0, <1>5 DEF ClaimAges, RetryFallsDue, ChangeChecks, TriesLeft
<1>6. ASSUME NEW found \in SUBSET Actions, Discover(found)
      PROVE  Bounded'
  BY <1>6 DEF Discover, TriesLeft
<1>7. CASE UNCHANGED vars
  BY <1>7 DEF vars, TriesLeft
<1> QED
  BY <1>1, <1>2, <1>3, <1>4, <1>5, <1>6, <1>7, ExecuteBounded DEF Next, EndDelivery

(* The signals, the queue and the executions stay well typed; in           *)
(* particular no action is ever claimed more often than the retry limit    *)
(* says, however often discovery queues it and workers race for it.        *)
THEOREM TypeCorrect == Spec => []TypeOK
<1>1. Bounded => TypeOK
  BY DEF Bounded
<1> QED
  BY <1>1, BoundedInit, StepBounded, PTL DEF Spec
=============================================================================
