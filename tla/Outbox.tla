------------------------------- MODULE Outbox -------------------------------
(***************************************************************************)
(* The transactional outbox of JobGuard: rows of app.action_outbox, the    *)
(* attempts made to deliver them and the four programs that write them     *)
(* (packages/db/src/outbox.ts): the executor run by any number of queue    *)
(* workers, the operator's retry and cancel, the reconciler that asks the  *)
(* provider what happened, and the authority that may vanish under them.   *)
(*                                                                         *)
(* Every transaction of the code is one action.  What the code does        *)
(* outside a transaction (the network call between the claim and the       *)
(* completion, and between the reconciler's read and its write) is split,  *)
(* so that anything may happen in between.                                 *)
(***************************************************************************)
EXTENDS Naturals, FiniteSets

CONSTANTS
  Actions,      \* outbox rows
  Reached,      \* those a worker reaches: it holds the adapter, and the signal
                \* stays among the 100 that a discovery reads
  Reconcilers,  \* concurrent calls of reconcileOutbox
  MaxTries,     \* the attempt at which a retryable result is a dead letter (5)
  AttemptCap,   \* bound on the attempts of one action
  Punctual,     \* TRUE: no execution outlives the five-minute claim
  NoAction      \* "no row read"

ASSUME OutboxAssumption ==
  /\ Reached \subseteq Actions
  /\ MaxTries \in Nat \ {0}
  /\ AttemptCap \in Nat
  /\ Punctual \in BOOLEAN
  /\ NoAction \notin Actions

VARIABLES
  status,     \* action_outbox.status, "absent" before the row is appended
  due,        \* next_attempt_at <= now
  stale,      \* claimed_at is more than five minutes ago
  authority,  \* what the authority lookup of the claim finds
  sendable,   \* what the checks behind the status find: see Sendable
  paused,     \* outbound_control.state.paused
  attempts,   \* the number of action_attempt rows of the action
  row,        \* action_attempt.outcome of each of them
  worker,     \* the execution that made the attempt
  provider,   \* what became of the attempt's request at the provider
  recon,      \* what each reconciler holds between its two transactions
  audit       \* the last audit event of the action

vars == <<status, due, stale, authority, sendable, paused, attempts, row,
          worker, provider, recon, audit>>

Attempt == 1..AttemptCap

Status == {"absent", "pending", "executing", "succeeded", "retryable",
           "outcome_unknown", "dead_letter", "cancelled"}

(* What the claim's checks in front of the status find.  "barred" is every *)
(* reason for which the claim returns, or beforeClaim throws, before it    *)
(* looks at the status: the author has no current authority, an approval   *)
(* may not be sent, or actions of its type are not settled in this         *)
(* environment.                                                            *)
Authority == {"granted", "barred", "member_revoked"}

(* What the checks behind the status find: a lapsed action (authorization  *)
(* expired, order authority stale, entitlement lost) is cancelled; for one *)
(* that throws (sign-in delivery unavailable, content altered) the claim   *)
(* is rolled back.                                                         *)
Sendable == {"yes", "lapsed", "throws"}

Outcome == {"none", "started", "succeeded", "retryable", "outcome_unknown",
            "failed"}
Cause == {"none", "adapter", "stale_claim", "refused", "superseded",
          "operator", "reconciliation"}
Kind == {"succeeded", "retryable", "outcome_unknown"}

(* An audit event; "by" is the attempt whose result it records, else 0.    *)
Event(s, c, n) == [outcome |-> s, cause |-> c, by |-> n]
Events == [outcome : Status \cup {"none"}, cause : Cause, by : Nat]

(* What a reconciler read in its first transaction.  "fresh" abstracts the *)
(* comparison of updated_at with the value read: every write to the row    *)
(* sets updated_at, hence makes every reading of it stale.                 *)
Reading == [action : Actions \cup {NoAction}, fresh : BOOLEAN,
            answer : {"asking", "succeeded", "not_found"}]
NoReading == [action |-> NoAction, fresh |-> FALSE, answer |-> "asking"]

TypeOK ==
  /\ status \in [Actions -> Status]
  /\ due \in [Actions -> BOOLEAN]
  /\ stale \in [Actions -> BOOLEAN]
  /\ authority \in [Actions -> Authority]
  /\ sendable \in [Actions -> Sendable]
  /\ paused \in BOOLEAN
  /\ attempts \in [Actions -> 0..AttemptCap]
  /\ row \in [Actions -> [Attempt -> Outcome]]
  /\ worker \in [Actions -> [Attempt -> {"none", "claimed", "delivering", "gone"}]]
  /\ provider \in [Actions -> [Attempt -> {"none", "wire", "effect", "rejected"}]]
  /\ recon \in [Reconcilers -> Reading]
  /\ audit \in [Actions -> Events]

Init ==
  /\ status = [a \in Actions |-> "absent"]
  /\ due = [a \in Actions |-> FALSE]
  /\ stale = [a \in Actions |-> FALSE]
  /\ authority = [a \in Actions |-> "granted"]
  /\ sendable = [a \in Actions |-> "yes"]
  /\ paused = FALSE
  /\ attempts = [a \in Actions |-> 0]
  /\ row = [a \in Actions |-> [n \in Attempt |-> "none"]]
  /\ worker = [a \in Actions |-> [n \in Attempt |-> "none"]]
  /\ provider = [a \in Actions |-> [n \in Attempt |-> "none"]]
  /\ recon = [r \in Reconcilers |-> NoReading]
  /\ audit = [a \in Actions |-> Event("none", "none", 0)]

-----------------------------------------------------------------------------
(* Operators named Mut... are mutations of the definition they precede,    *)
(* each a mistake this code could contain; no definition uses them.        *)

(* A write of the row: its status and updated_at.                          *)
MutOutdated(a) == recon   \* reconcileOutbox compares no updated_at
Outdated(a) ==
  [r \in Reconcilers |-> IF recon[r].action = a
                           THEN [recon[r] EXCEPT !.fresh = FALSE]
                           ELSE recon[r]]
SetStatus(a, s) == status' = [status EXCEPT ![a] = s]
Touch(a) == recon' = Outdated(a)
AuditOutcome(a, e) == audit' = [audit EXCEPT ![a] = e]

Live(a, n) == worker[a][n] \in {"claimed", "delivering"}
MutDeliverable(a) == status[a] \in {"pending", "retryable", "outcome_unknown"}
Deliverable(a) == status[a] \in {"pending", "retryable"}

(* appendOutboundAction, in the business transaction that decided the send.*)
Append(a) ==
  /\ status[a] = "absent"
  /\ SetStatus(a, "pending")
  /\ due' = [due EXCEPT ![a] = TRUE]
  /\ UNCHANGED <<stale, authority, sendable, paused, attempts, row, worker,
                 provider, recon, audit>>

-----------------------------------------------------------------------------
(* The claim transaction of ActionExecutor.execute.  It runs whenever a    *)
(* queued job reaches a worker, for any action and in any state.           *)

(* The claim's SELECT returns the row.                                     *)
MutFound(a) ==            \* a retryable row is never selected
  /\ status[a] \in {"pending", "executing"}
  /\ authority[a] = "granted"
Found(a) ==
  /\ status[a] # "absent"
  /\ authority[a] = "granted"
  /\ status[a] = "executing" \/ due[a]

(* It passes the checks in front of the status: the pause, and those whose *)
(* failure is "barred" and already keeps Found from holding.               *)
Admitted(a) == Found(a) /\ ~paused

(* No row, and the author's membership was revoked: cancelRevokedAction.   *)
RefuseRevoked(a) ==
  /\ authority[a] = "member_revoked"
  /\ Deliverable(a)
  /\ SetStatus(a, "cancelled")
  /\ Touch(a)
  /\ AuditOutcome(a, Event("cancelled", "refused", 0))
  /\ UNCHANGED <<due, stale, authority, sendable, paused, attempts, row, worker,
                 provider>>

(* A claim nobody completed in five minutes has an unknown outcome.  The   *)
(* attempt's row is left "started".                                        *)
MutClaimIsStale(a) == status[a] = "executing"
MutClaimIsStaleByDue(a) == status[a] = "executing" /\ ~due[a]
ClaimIsStale(a) == status[a] = "executing" /\ stale[a]

MarkStale(a) ==
  /\ Admitted(a)
  /\ ClaimIsStale(a)
  /\ SetStatus(a, "outcome_unknown")
  /\ Touch(a)
  /\ AuditOutcome(a, Event("outcome_unknown", "stale_claim", 0))
  /\ UNCHANGED <<due, stale, authority, sendable, paused, attempts, row, worker,
                 provider>>

(* Order authority stale, authorization expired or entitlement lost.       *)
RefuseLapsed(a) ==
  /\ Admitted(a)
  /\ Deliverable(a)
  /\ sendable[a] = "lapsed"
  /\ SetStatus(a, "cancelled")
  /\ Touch(a)
  /\ AuditOutcome(a, Event("cancelled", "refused", 0))
  /\ UNCHANGED <<due, stale, authority, sendable, paused, attempts, row, worker,
                 provider>>

Claim(a) ==
  LET n == attempts[a] + 1 IN
  /\ Admitted(a)
  /\ Deliverable(a)
  /\ sendable[a] = "yes"
  /\ n <= AttemptCap
  /\ SetStatus(a, "executing")
  /\ Touch(a)
  /\ stale' = [stale EXCEPT ![a] = FALSE]
  /\ attempts' = [attempts EXCEPT ![a] = n]
  /\ row' = [row EXCEPT ![a][n] = "started"]
  /\ worker' = [worker EXCEPT ![a][n] = "claimed"]
  /\ UNCHANGED <<due, authority, sendable, paused, provider, audit>>

-----------------------------------------------------------------------------
(* adapter.deliver, outside any transaction, and the provider it calls.    *)

Deliver(a, n) ==
  /\ worker[a][n] = "claimed"
  /\ worker' = [worker EXCEPT ![a][n] = "delivering"]
  /\ provider' = [provider EXCEPT ![a][n] = "wire"]
  /\ UNCHANGED <<status, due, stale, authority, sendable, paused, attempts, row,
                 recon, audit>>

(* The request reaches the provider and takes effect, or never will.  This *)
(* may happen long after the execution that sent it is gone.               *)
Arrive(a, n, fate) ==
  /\ provider[a][n] = "wire"
  /\ fate \in {"effect", "rejected"}
  /\ provider' = [provider EXCEPT ![a][n] = fate]
  /\ UNCHANGED <<status, due, stale, authority, sendable, paused, attempts, row,
                 worker, recon, audit>>

(* The results an adapter may truthfully return for the attempt.           *)
Truthful(a, n, kind) ==
  \/ kind = "succeeded" /\ provider[a][n] = "effect"
  \/ kind = "retryable" /\ provider[a][n] = "rejected"
  \/ kind = "outcome_unknown"

(* The status an attempt's result becomes.                                 *)
MutResultStatus(n, kind) ==         \* one attempt too many
  IF kind = "retryable" /\ n > MaxTries THEN "dead_letter" ELSE kind
MutResultStatusName(n, kind) ==     \* the attempt's word for the row
  IF kind = "retryable" /\ n >= MaxTries THEN "failed" ELSE kind
ResultStatus(n, kind) ==
  IF kind = "retryable" /\ n >= MaxTries THEN "dead_letter" ELSE kind
RowOutcome(s) == IF s = "dead_letter" THEN "failed" ELSE s

(* The completion transaction.  Its UPDATE asks only that the row is still *)
(* "executing", not that it is this attempt that is.                       *)
ApplyResult(a, n, kind) ==
  LET s == ResultStatus(n, kind) IN
  /\ worker[a][n] = "delivering"
  /\ Truthful(a, n, kind)
  /\ status[a] = "executing"
  /\ SetStatus(a, s)
  /\ Touch(a)
  /\ due' = [due EXCEPT ![a] = IF s = "retryable" THEN FALSE ELSE due[a]]
  /\ row' = [row EXCEPT ![a][n] = RowOutcome(s)]
  /\ worker' = [worker EXCEPT ![a][n] = "gone"]
  /\ AuditOutcome(a, Event(s, "adapter", n))
  /\ UNCHANGED <<stale, authority, sendable, paused, attempts, provider>>

(* The row is no longer "executing" (rowCount 0), deliver threw, or the    *)
(* process died before the claim was used or the result was written.       *)
EndWithoutResult(a, n) ==
  /\ Live(a, n)
  /\ worker' = [worker EXCEPT ![a][n] = "gone"]
  /\ UNCHANGED <<status, due, stale, authority, sendable, paused, attempts, row,
                 provider, recon, audit>>

-----------------------------------------------------------------------------
(* operateOutbox: any other status is UNSAFE_OUTBOX_COMMAND.               *)

MutCancellable(a) == status[a] \notin {"absent", "succeeded", "cancelled"}
Cancellable(a) ==
  status[a] \in {"pending", "retryable", "dead_letter", "outcome_unknown"}

OperatorCancel(a) ==
  /\ Cancellable(a)
  /\ SetStatus(a, "cancelled")
  /\ Touch(a)
  /\ AuditOutcome(a, Event("cancelled", "operator", 0))
  /\ UNCHANGED <<due, stale, authority, sendable, paused, attempts, row, worker,
                 provider>>

MutSafeToRetry(a) == status[a] \in {"retryable", "outcome_unknown"}
SafeToRetry(a) == status[a] = "retryable"

OperatorRetry(a) ==
  /\ SafeToRetry(a)
  /\ SetStatus(a, "retryable")
  /\ Touch(a)
  /\ due' = [due EXCEPT ![a] = TRUE]
  /\ AuditOutcome(a, Event("retryable", "operator", 0))
  /\ UNCHANGED <<stale, authority, sendable, paused, attempts, row, worker,
                 provider>>

(* A repository replaces the business fact behind the send and cancels the *)
(* row if it was not claimed (approval links, sign-in links, messages).    *)
Supersede(a) ==
  /\ Deliverable(a)
  /\ SetStatus(a, "cancelled")
  /\ Touch(a)
  /\ AuditOutcome(a, Event("cancelled", "superseded", 0))
  /\ UNCHANGED <<due, stale, authority, sendable, paused, attempts, row, worker,
                 provider>>

-----------------------------------------------------------------------------
(* reconcileOutbox: a read, a network call, a compare-and-set.             *)

ReadUnknown(r, a) ==
  /\ recon[r] = NoReading
  /\ status[a] = "outcome_unknown"
  /\ recon' = [recon EXCEPT ![r] = [action |-> a, fresh |-> TRUE, answer |-> "asking"]]
  /\ UNCHANGED <<status, due, stale, authority, sendable, paused, attempts, row,
                 worker, provider, audit>>

(* What adapter.reconcile may answer: "not_found" is final, so the         *)
(* provider never gives it while a request for the effect is under way.    *)
ProviderAnswer(a, answer) ==
  \/ /\ answer = "succeeded"
     /\ \E n \in Attempt : provider[a][n] = "effect"
  \/ /\ answer = "not_found"
     /\ \A n \in Attempt : provider[a][n] \in {"none", "rejected"}

AskProvider(r, answer) ==
  /\ recon[r].action # NoAction
  /\ recon[r].answer = "asking"
  /\ ProviderAnswer(recon[r].action, answer)
  /\ recon' = [recon EXCEPT ![r].answer = answer]
  /\ UNCHANGED <<status, due, stale, authority, sendable, paused, attempts, row,
                 worker, provider, audit>>

MutReconciled(answer) == "succeeded"   \* any definitive answer is success
Reconciled(answer) == IF answer = "succeeded" THEN "succeeded" ELSE "retryable"

(* The compare-and-set holds: the row is still the one that was read.      *)
Reconcile(r) ==
  LET a == recon[r].action
      s == Reconciled(recon[r].answer)
  IN
  /\ a # NoAction
  /\ recon[r].answer # "asking"
  /\ status[a] = "outcome_unknown"
  /\ recon[r].fresh
  /\ SetStatus(a, s)
  /\ recon' = [Outdated(a) EXCEPT ![r] = NoReading]
  /\ due' = [due EXCEPT ![a] = TRUE]
  /\ AuditOutcome(a, Event(s, "reconciliation", 0))
  /\ UNCHANGED <<stale, authority, sendable, paused, attempts, row, worker,
                 provider>>

(* The answer is "unknown", the row has moved on, or the caller is gone.   *)
DropReading(r) ==
  /\ recon[r].action # NoAction
  /\ recon' = [recon EXCEPT ![r] = NoReading]
  /\ UNCHANGED <<status, due, stale, authority, sendable, paused, attempts, row,
                 worker, provider, audit>>

-----------------------------------------------------------------------------
(* What changes under the outbox.                                          *)

(* The authorization or the send authority is withdrawn, and may be given  *)
(* back; a contractor membership revocation is final.                      *)
ChangeAuthority(a, to) ==
  /\ authority[a] # "member_revoked"
  /\ to \in Authority \ {authority[a]}
  /\ authority' = [authority EXCEPT ![a] = to]
  /\ UNCHANGED <<status, due, stale, sendable, paused, attempts, row, worker,
                 provider, recon, audit>>

ChangeEligibility(a, to) ==
  /\ to \in Sendable \ {sendable[a]}
  /\ sendable' = [sendable EXCEPT ![a] = to]
  /\ UNCHANGED <<status, due, stale, authority, paused, attempts, row, worker,
                 provider, recon, audit>>

ChangePause ==
  /\ paused' = ~paused
  /\ UNCHANGED <<status, due, stale, authority, sendable, attempts, row, worker,
                 provider, recon, audit>>

(* Five minutes pass since the claim.  Nothing in the code bounds deliver; *)
(* Punctual assumes that no execution lasts that long.                     *)
ClaimAges(a) ==
  /\ status[a] = "executing"
  /\ ~stale[a]
  /\ Punctual => \A n \in Attempt : ~Live(a, n)
  /\ stale' = [stale EXCEPT ![a] = TRUE]
  /\ UNCHANGED <<status, due, authority, sendable, paused, attempts, row, worker,
                 provider, recon, audit>>

RetryFallsDue(a) ==
  /\ status[a] = "retryable"
  /\ ~due[a]
  /\ due' = [due EXCEPT ![a] = TRUE]
  /\ UNCHANGED <<status, stale, authority, sendable, paused, attempts, row,
                 worker, provider, recon, audit>>

-----------------------------------------------------------------------------
(* One run of the claim transaction that changes the row.                  *)
Execute(a) == Claim(a) \/ MarkStale(a) \/ RefuseLapsed(a) \/ RefuseRevoked(a)

(* A live execution goes on.                                               *)
Proceed(a, n) ==
  \/ Deliver(a, n)
  \/ \E kind \in Kind : ApplyResult(a, n, kind)
  \/ EndWithoutResult(a, n)

System ==
  \/ \E a \in Actions :
       \/ Append(a) \/ Execute(a)
       \/ OperatorCancel(a) \/ OperatorRetry(a) \/ Supersede(a)
       \/ \E n \in Attempt : Proceed(a, n)
  \/ \E r \in Reconcilers :
       \/ \E a \in Actions : ReadUnknown(r, a)
       \/ \E answer \in {"succeeded", "not_found"} : AskProvider(r, answer)
       \/ Reconcile(r) \/ DropReading(r)

Surroundings ==
  \/ \E a \in Actions :
       \/ \E to \in Authority : ChangeAuthority(a, to)
       \/ \E to \in Sendable : ChangeEligibility(a, to)
       \/ ClaimAges(a) \/ RetryFallsDue(a)
       \/ \E n \in Attempt, fate \in {"effect", "rejected"} : Arrive(a, n, fate)
  \/ ChangePause

Next == System \/ Surroundings

(* discover_outbox queues the oldest 100 signals again each minute, so a   *)
(* job for each action among them reaches a worker again and again; the    *)
(* module OutboxDiscovery says which those are and what becomes of the     *)
(* others.  Time passes and a live execution ends; nothing makes anybody   *)
(* operate, reconcile, lift the pause or give authority back.              *)
Fairness ==
  \A a \in Actions :
    /\ a \in Reached => WF_vars(Execute(a))
    /\ WF_vars(ClaimAges(a))
    /\ WF_vars(RetryFallsDue(a))
    /\ \A n \in Attempt : WF_vars(Proceed(a, n))

Spec == Init /\ [][Next]_vars
FairSpec == Spec /\ Fairness

-----------------------------------------------------------------------------
(* Properties.                                                             *)

(* The programs of this module only ever take the status along an edge     *)
(* that the trigger of migration 0661 accepts: no completion, operator     *)
(* command or reconciliation, in any interleaving, meets the               *)
(* INVALID_TRANSITION that would abort its transaction.                    *)
Lifecycle == INSTANCE OutboxLifecycle
ForwardOnly == Lifecycle!Spec

Effects(a) == {n \in Attempt : provider[a][n] = "effect"}

(* However many workers, reconcilers and operators run, crash and retry,   *)
(* an action takes effect at most once at a provider that does not         *)
(* deduplicate: no attempt is begun while an earlier one may still land.   *)
AtMostOneEffect == \A a \in Actions : Cardinality(Effects(a)) <= 1

(* Success is never assumed: an action is "succeeded" only if one of its   *)
(* requests did take effect (execute's completion and reconcileOutbox).    *)
SuccessHasEffect ==
  \A a \in Actions : status[a] = "succeeded" => Effects(a) # {}

(* A status that the completion transaction wrote comes from the attempt   *)
(* that holds the claim: the result of an execution whose claim was taken  *)
(* over is never written over the execution that took it.                  *)
ResultOfItsOwnAttempt ==
  \A a \in Actions :
    /\ status[a] \in {"succeeded", "retryable", "outcome_unknown", "dead_letter"}
    /\ audit[a].cause = "adapter"
    => audit[a].by = attempts[a]

(* The adapter alone cannot keep an action going for ever: after MaxTries  *)
(* attempts only a reconciliation or an operator makes it retryable again. *)
RetryBudget ==
  \A a \in Actions :
    status[a] = "retryable" /\ audit[a].cause = "adapter" => attempts[a] < MaxTries

(* No request of the action can take effect any more.                      *)
Clear(a) ==
  \A n \in Attempt : provider[a][n] \in {"none", "rejected"} /\ ~Live(a, n)

(* Attempts do not overlap, in the parts the proofs need.  An attempt that *)
(* was not begun sent nothing, and one that was followed by another is     *)
(* harmless; whoever still executes holds a young claim of the last        *)
(* attempt, and has not sent its request before it says so; a row that may *)
(* be claimed, or given up, is clear; and a reconciler whose reading is    *)
(* still fresh may trust the provider's "not found".                       *)
UnbegunSentNothing ==
  \A a \in Actions, n \in Attempt :
    n > attempts[a] => provider[a][n] = "none" /\ worker[a][n] = "none"
EarlierAreHarmless ==
  \A a \in Actions, n \in Attempt :
    n < attempts[a] => provider[a][n] \in {"none", "rejected"} /\ ~Live(a, n)
ClaimHolder ==
  \A a \in Actions, n \in Attempt :
    /\ Live(a, n) => status[a] = "executing" /\ n = attempts[a] /\ ~stale[a]
    /\ worker[a][n] = "claimed" => provider[a][n] = "none"
RestIsClear ==
  \A a \in Actions :
    status[a] \in {"absent", "pending", "retryable", "dead_letter"} => Clear(a)
FreshReading ==
  \A r \in Reconcilers, a \in Actions :
    recon[r].action = a /\ recon[r].fresh =>
      /\ status[a] = "outcome_unknown"
      /\ recon[r].answer = "not_found" => Clear(a)
AttemptsDoNotOverlap ==
  /\ UnbegunSentNothing
  /\ EarlierAreHarmless
  /\ ClaimHolder
  /\ RestIsClear
  /\ FreshReading

(* A refusal is terminal: once the outbox cancelled an action by itself    *)
(* (author revoked, authorization lapsed, send superseded) no request sent *)
(* before that moment takes effect after it.                               *)
RefusedForGood(a) ==
  status[a] = "cancelled" /\ audit[a].cause \in {"refused", "superseded"}
RefusalIsFinal ==
  [][\A a \in Actions : RefusedForGood(a) => Effects(a)' = Effects(a)]_vars

(* The outbox keeps its promise: Promise!Spec under this mapping.          *)
VerdictOf(a) ==
  CASE status[a] = "succeeded" -> "succeeded"
    [] status[a] = "dead_letter" -> "failed"
    [] RefusedForGood(a) -> "refused"
    [] status[a] = "cancelled" /\ ~RefusedForGood(a) -> "cancelled"
    [] OTHER -> "open"
Promise == INSTANCE OutboxPromise
             WITH effect <- [a \in Actions |-> Cardinality(Effects(a))],
                  verdict <- [a \in Actions |-> VerdictOf(a)]
KeepsPromise == Promise!Spec

(* What stops a claim before it looks at the status, and what stops it     *)
(* before it decides about an action that nobody holds: the action of a    *)
(* revoked author is cancelled whether or not the outbox is paused.        *)
Barred(a) == paused \/ authority[a] # "granted"
Undecidable(a) ==
  \/ authority[a] = "barred"
  \/ authority[a] = "granted" /\ (paused \/ sendable[a] = "throws")

(* A claim whose worker died does not hold a reached action for ever:      *)
(* unless the claim's checks bar it again and again, the action is         *)
(* completed or found stale.                                               *)
ExecutingIsReleased ==
  \A a \in Reached :
    status[a] = "executing" ~> (status[a] # "executing" \/ Barred(a))

(* A reached action that may be claimed is not forgotten, whether new or   *)
(* to be retried: it is claimed, refused or cancelled, unless the claim's  *)
(* checks stop it again and again or the bound on attempts is reached.     *)
DeliverableIsDecided ==
  \A a \in Reached :
    Deliverable(a) ~>
      (~Deliverable(a) \/ Undecidable(a) \/ attempts[a] = AttemptCap)

(* What a crash loses is found again even if the author is revoked or the  *)
(* outbox is paused meanwhile.                                             *)
CrashIsNoticed ==
  \A a \in Actions :
    (status[a] = "executing" /\ ~paused) ~> (status[a] # "executing" \/ paused)

=============================================================================
