--------------------------- MODULE OutboxDiscovery ---------------------------
(***************************************************************************)
(* How committed outbox work reaches a worker: the signal the database     *)
(* writes with the row (migration 0006), the cron task discover_outbox     *)
(* that queues the oldest signals under one job key per action, and the    *)
(* task execute_outbox (apps/api/src/worker.ts).  Nothing removes or marks *)
(* a signal.  The outbox row is reduced to what these tasks turn on: what  *)
(* operators and reconcilers do to it is in the module Outbox.             *)
(***************************************************************************)
EXTENDS Naturals, FiniteSets

CONSTANTS
  Last,      \* signals are numbered 1..Last in the order of created_at
  Owned,     \* actions whose adapter the worker has registered
  Limit,     \* how many signals one discovery reads (100)
  MaxTries,  \* the attempt at which a retryable result is a dead letter (5)
  MaxRuns    \* bound on the executions of one action at a time

ASSUME DiscoveryAssumption ==
  /\ {Last, Limit, MaxTries, MaxRuns} \subseteq Nat \ {0}
  /\ Owned \subseteq 1..Last

VARIABLES
  signal,     \* "none", "open" (in a business transaction), "committed"
  barred,     \* the claim's checks refuse the action
  queued,     \* a job with the action's key waits in the queue
  started,    \* executions that have not yet run the claim transaction
  delivering, \* an execution holds the claim
  tries,      \* attempts made
  outcome     \* what the outbox row says to a claim: see Outcome

vars == <<signal, barred, queued, started, delivering, tries, outcome>>

Actions == 1..Last

(* "stale" is executing under a claim older than five minutes, "waiting"   *)
(* retryable but not due; "pending" is retryable and due as well.  A       *)
(* settled row (succeeded, dead letter, cancelled, unknown) no worker      *)
(* opens again.                                                            *)
Outcome == {"pending", "executing", "stale", "waiting", "settled"}

TypeOK ==
  /\ signal \in [Actions -> {"none", "open", "committed"}]
  /\ barred \in [Actions -> BOOLEAN]
  /\ queued \in [Actions -> BOOLEAN]
  /\ started \in [Actions -> 0..MaxRuns]
  /\ delivering \in [Actions -> BOOLEAN]
  /\ tries \in [Actions -> 0..MaxTries]
  /\ outcome \in [Actions -> Outcome]

Init ==
  /\ signal = [a \in Actions |-> "none"]
  /\ barred = [a \in Actions |-> FALSE]
  /\ queued = [a \in Actions |-> FALSE]
  /\ started = [a \in Actions |-> 0]
  /\ delivering = [a \in Actions |-> FALSE]
  /\ tries = [a \in Actions |-> 0]
  /\ outcome = [a \in Actions |-> "pending"]

-----------------------------------------------------------------------------
(* The row's insert trigger writes the signal; both appear at commit, in   *)
(* an order of commits that need not be the order of created_at.           *)
Insert(a) ==
  /\ signal[a] = "none"
  /\ signal' = [signal EXCEPT ![a] = "open"]
  /\ UNCHANGED <<barred, queued, started, delivering, tries, outcome>>

EndTransaction(a, to) ==
  /\ signal[a] = "open"
  /\ to \in {"committed", "none"}
  /\ signal' = [signal EXCEPT ![a] = to]
  /\ UNCHANGED <<barred, queued, started, delivering, tries, outcome>>

(* Operators named Mut... are mutations of the definition they precede.    *)
MutCommitted ==               \* discovery reads the signals of new rows only
  {a \in Actions : signal[a] = "committed" /\ outcome[a] = "pending"}
Committed == {a \in Actions : signal[a] = "committed"}
Oldest(limit) ==
  {a \in Committed : Cardinality({b \in Committed : b < a}) < limit}

(* discover_outbox, or as much of its loop as ran.  The job key makes a    *)
(* second waiting job for the action the same job.                         *)
Discover(found) ==
  /\ found \subseteq Oldest(Limit)
  /\ queued' = [a \in Actions |-> queued[a] \/ a \in found]
  /\ UNCHANGED <<signal, barred, started, delivering, tries, outcome>>

(* A worker takes the job, which frees the key for another.                *)
Start(a) ==
  /\ queued[a]
  /\ started[a] < MaxRuns
  /\ queued' = [queued EXCEPT ![a] = FALSE]
  /\ started' = [started EXCEPT ![a] = @ + 1]
  /\ UNCHANGED <<signal, barred, delivering, tries, outcome>>

-----------------------------------------------------------------------------
(* The claim transaction of ActionExecutor.execute.                        *)

(* It returns without effect: the worker does not own the adapter, a check *)
(* in front of the status refuses (no current authority, the pause), or    *)
(* the row is not one to claim.                                            *)
Pass(a) ==
  /\ a \notin Owned \/ barred[a] \/ outcome[a] \in {"executing", "waiting", "settled"}
  /\ UNCHANGED <<queued, delivering, tries, outcome>>

(* It throws (beforeClaim, the content), which leaves the job in the queue.*)
Throw(a) ==
  /\ a \in Owned
  /\ barred[a]
  /\ queued' = [queued EXCEPT ![a] = TRUE]
  /\ UNCHANGED <<delivering, tries, outcome>>

(* The author was revoked, or the action has lapsed.                       *)
Cancel(a) ==
  /\ a \in Owned
  /\ outcome[a] \in {"pending", "waiting"}
  /\ outcome' = [outcome EXCEPT ![a] = "settled"]
  /\ UNCHANGED <<queued, delivering, tries>>

Claim(a) ==
  /\ a \in Owned
  /\ ~barred[a]
  /\ outcome[a] = "pending"
  /\ outcome' = [outcome EXCEPT ![a] = "executing"]
  /\ delivering' = [delivering EXCEPT ![a] = TRUE]
  /\ tries' = [tries EXCEPT ![a] = @ + 1]
  /\ UNCHANGED queued

(* A claim older than five minutes: the outcome is unknown.                *)
MarkStale(a) ==
  /\ a \in Owned
  /\ ~barred[a]
  /\ outcome[a] = "stale"
  /\ outcome' = [outcome EXCEPT ![a] = "settled"]
  /\ UNCHANGED <<queued, delivering, tries>>

Execute(a) ==
  /\ started[a] > 0
  /\ started' = [started EXCEPT ![a] = @ - 1]
  /\ Pass(a) \/ Throw(a) \/ Cancel(a) \/ Claim(a) \/ MarkStale(a)
  /\ UNCHANGED <<signal, barred>>

-----------------------------------------------------------------------------
(* The completion transaction, which writes nothing if the claim was taken *)
(* over.  A retryable result leaves the row open for a minute, up to the   *)
(* last try.                                                               *)
MutSpent(a) == tries[a] > MaxTries        \* one attempt too many
Spent(a) == tries[a] >= MaxTries

Complete(a, result) ==
  /\ delivering[a]
  /\ delivering' = [delivering EXCEPT ![a] = FALSE]
  /\ result = "waiting" => ~Spent(a)
  /\ outcome' = IF outcome[a] \in {"executing", "stale"}
                  THEN [outcome EXCEPT ![a] = result]
                  ELSE outcome
  /\ UNCHANGED <<signal, barred, queued, started, tries>>

(* A worker dies before its claim, or between claim and completion.        *)
DieStarted(a) ==
  /\ started[a] > 0
  /\ started' = [started EXCEPT ![a] = @ - 1]
  /\ UNCHANGED <<signal, barred, queued, delivering, tries, outcome>>

DieDelivering(a) ==
  /\ delivering[a]
  /\ delivering' = [delivering EXCEPT ![a] = FALSE]
  /\ UNCHANGED <<signal, barred, queued, started, tries, outcome>>

EndDelivery(a) ==
  (\E result \in {"settled", "waiting"} : Complete(a, result)) \/ DieDelivering(a)

-----------------------------------------------------------------------------
(* Time, and what the claim's checks depend on: authority, the pause, the  *)
(* environment.                                                            *)

ClaimAges(a) ==
  /\ outcome[a] = "executing"
  /\ outcome' = [outcome EXCEPT ![a] = "stale"]
  /\ UNCHANGED <<signal, barred, queued, started, delivering, tries>>

RetryFallsDue(a) ==
  /\ outcome[a] = "waiting"
  /\ outcome' = [outcome EXCEPT ![a] = "pending"]
  /\ UNCHANGED <<signal, barred, queued, started, delivering, tries>>

ChangeChecks(a) ==
  /\ a \in Owned
  /\ barred' = [barred EXCEPT ![a] = ~@]
  /\ UNCHANGED <<signal, queued, started, delivering, tries, outcome>>

Next ==
  \/ \E a \in Actions :
       \/ Insert(a) \/ EndTransaction(a, "committed") \/ EndTransaction(a, "none")
       \/ Start(a) \/ Execute(a)
       \/ EndDelivery(a) \/ DieStarted(a)
       \/ ClaimAges(a) \/ RetryFallsDue(a) \/ ChangeChecks(a)
  \/ \E found \in SUBSET Actions : Discover(found)

(* Cron runs discover_outbox every minute; the queue hands out every job;  *)
(* a worker is not killed every time before it reaches the claim; one that *)
(* has claimed completes or dies; time passes.  Nothing lifts a bar.       *)
Fairness ==
  /\ WF_vars(Discover(Oldest(Limit)))
  /\ \A a \in Actions :
       /\ WF_vars(Start(a))
       /\ SF_vars(Execute(a))
       /\ WF_vars(EndDelivery(a))
       /\ WF_vars(ClaimAges(a))
       /\ WF_vars(RetryFallsDue(a))

Spec == Init /\ [][Next]_vars /\ Fairness

-----------------------------------------------------------------------------
(* Properties.                                                             *)

(* Committed work whose adapter the worker owns is settled once nothing    *)
(* bars it any more, however often it was refused, thrown out, put off for *)
(* a retry or left by a dying worker before: the signal, which stays, has  *)
(* it discovered again.                                                    *)
CommittedIsSettled ==
  \A a \in Owned :
    <>[](signal[a] = "committed" /\ ~barred[a]) => <>(outcome[a] = "settled")

=============================================================================
