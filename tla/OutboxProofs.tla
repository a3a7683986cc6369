----------------------------- MODULE OutboxProofs -----------------------------
(***************************************************************************)
(* Theorems about Outbox, for every set of actions and reconcilers, every  *)
(* retry limit and every bound on the attempts: its types, that attempts   *)
(* do not overlap and an action takes effect once, the refinement of       *)
(* OutboxLifecycle; then that success is never assumed, the retry limit    *)
(* and the refinement of OutboxPromise.                                    *)
(***************************************************************************)
EXTENDS Outbox, FiniteSetTheorems, TLAPS

-----------------------------------------------------------------------------
(* Type correctness.                                                       *)

(* A write of an action's row leaves every reading well typed.             *)
LEMMA OutdatedType ==
  ASSUME TypeOK, NEW a \in Actions
  PROVE  Outdated(a) \in [Reconcilers -> Reading]
BY DEF TypeOK, Outdated, Reading

LEMMA EventType ==
  ASSUME NEW s \in Status, NEW c \in Cause, NEW n \in Nat
  PROVE  Event(s, c, n) \in Events
BY DEF Event, Events

LEMMA ResultTypes ==
  ASSUME NEW n \in Attempt, NEW kind \in Kind
  PROVE  /\ ResultStatus(n, kind) \in Status
         /\ RowOutcome(ResultStatus(n, kind)) \in Outcome
BY DEF ResultStatus, RowOutcome, Kind, Status, Outcome

LEMMA TypeInit == Init => TypeOK
<1> SUFFICES ASSUME Init
             PROVE  TypeOK
  OBVIOUS
<1>1. audit \in [Actions -> Events]
  <2>1. Event("none", "none", 0) \in Events
    BY DEF Event, Events, Cause
  <2> QED
    BY <2>1 DEF Init
<1>2. recon \in [Reconcilers -> Reading]
  BY DEF Init, Reading, NoReading
<1>3. attempts \in [Actions -> 0..AttemptCap]
  BY OutboxAssumption DEF Init
<1>4. /\ row \in [Actions -> [Attempt -> Outcome]]
      /\ worker \in [Actions -> [Attempt -> {"none", "claimed", "delivering", "gone"}]]
      /\ provider \in [Actions -> [Attempt -> {"none", "wire", "effect", "rejected"}]]
  BY DEF Init, Outcome
<1> QED
  BY <1>1, <1>2, <1>3, <1>4 DEF Init, TypeOK, Status, Authority, Sendable

LEMMA TypeStep == TypeOK /\ [Next]_vars => TypeOK'
<1> SUFFICES ASSUME TypeOK, [Next]_vars
             PROVE  TypeOK'
  OBVIOUS
<1> USE OutboxAssumption DEF SetStatus, Touch, AuditOutcome
<1>1. ASSUME NEW a \in Actions, Append(a)
      PROVE  TypeOK'
  BY <1>1 DEF Append, TypeOK, Status
<1>2. ASSUME NEW a \in Actions, Claim(a)
      PROVE  TypeOK'
  <2>1. attempts[a] + 1 \in Attempt
    BY <1>2 DEF Claim, TypeOK, Attempt
  <2>2. recon' \in [Reconcilers -> Reading]
    BY <1>2, OutdatedType DEF Claim
  <2> QED
    BY <1>2, <2>1, <2>2 DEF Claim, TypeOK, Status, Outcome, Attempt
<1>3. ASSUME NEW a \in Actions, MarkStale(a)
      PROVE  TypeOK'
  <2>1. recon' \in [Reconcilers -> Reading]
    BY <1>3, OutdatedType DEF MarkStale
  <2>2. audit' \in [Actions -> Events]
    BY <1>3, EventType DEF MarkStale, TypeOK, Status, Cause
  <2> QED
    BY <1>3, <2>1, <2>2 DEF MarkStale, TypeOK, Status
<1>4. ASSUME NEW a \in Actions, RefuseLapsed(a)
      PROVE  TypeOK'
  <2>1. recon' \in [Reconcilers -> Reading]
    BY <1>4, OutdatedType DEF RefuseLapsed
  <2>2. audit' \in [Actions -> Events]
    BY <1>4, EventType DEF RefuseLapsed, TypeOK, Status, Cause
  <2> QED
    BY <1>4, <2>1, <2>2 DEF RefuseLapsed, TypeOK, Status
<1>5. ASSUME NEW a \in Actions, RefuseRevoked(a)
      PROVE  TypeOK'
  <2>1. recon' \in [Reconcilers -> Reading]
    BY <1>5, OutdatedType DEF RefuseRevoked
  <2>2. audit' \in [Actions -> Events]
    BY <1>5, EventType DEF RefuseRevoked, TypeOK, Status, Cause
  <2> QED
    BY <1>5, <2>1, <2>2 DEF RefuseRevoked, TypeOK, Status
<1>6. ASSUME NEW a \in Actions, NEW n \in Attempt, Deliver(a, n)
      PROVE  TypeOK'
  BY <1>6 DEF Deliver, TypeOK
<1>7. ASSUME NEW a \in Actions, NEW n \in Attempt, NEW kind \in Kind, ApplyResult(a, n, kind)
      PROVE  TypeOK'
  <2>1. recon' \in [Reconcilers -> Reading]
    BY <1>7, OutdatedType DEF ApplyResult
  <2>2. audit' \in [Actions -> Events]
    BY <1>7, EventType, ResultTypes DEF ApplyResult, TypeOK, Cause, Attempt
  <2>3. status' \in [Actions -> Status] /\ row' \in [Actions -> [Attempt -> Outcome]]
    BY <1>7, ResultTypes DEF ApplyResult, TypeOK
  <2> QED
    BY <1>7, <2>1, <2>2, <2>3 DEF ApplyResult, TypeOK
<1>8. ASSUME NEW a \in Actions, NEW n \in Attempt, EndWithoutResult(a, n)
      PROVE  TypeOK'
  BY <1>8 DEF EndWithoutResult, TypeOK
<1>9. ASSUME NEW a \in Actions, OperatorCancel(a)
      PROVE  TypeOK'
  <2>1. recon' \in [Reconcilers -> Reading]
    BY <1>9, OutdatedType DEF OperatorCancel
  <2>2. audit' \in [Actions -> Events]
    BY <1>9, EventType DEF OperatorCancel, TypeOK, Status, Cause
  <2> QED
    BY <1>9, <2>1, <2>2 DEF OperatorCancel, TypeOK, Status
<1>10. ASSUME NEW a \in Actions, OperatorRetry(a)
       PROVE  TypeOK'
  <2>1. recon' \in [Reconcilers -> Reading]
    BY <1>10, OutdatedType DEF OperatorRetry
  <2>2. audit' \in [Actions -> Events]
    BY <1>10, EventType DEF OperatorRetry, TypeOK, Status, Cause
  <2> QED
    BY <1>10, <2>1, <2>2 DEF OperatorRetry, TypeOK, Status
<1>11. ASSUME NEW a \in Actions, Supersede(a)
       PROVE  TypeOK'
  <2>1. recon' \in [Reconcilers -> Reading]
    BY <1>11, OutdatedType DEF Supersede
  <2>2. audit' \in [Actions -> Events]
    BY <1>11, EventType DEF Supersede, TypeOK, Status, Cause
  <2> QED
    BY <1>11, <2>1, <2>2 DEF Supersede, TypeOK, Status
<1>12. ASSUME NEW r \in Reconcilers, NEW a \in Actions, ReadUnknown(r, a)
       PROVE  TypeOK'
  BY <1>12 DEF ReadUnknown, TypeOK, Reading
<1>13. ASSUME NEW r \in Reconcilers, NEW answer \in {"succeeded", "not_found"}, AskProvider(r, answer)
       PROVE  TypeOK'
  BY <1>13, ZenonT(30) DEF AskProvider, TypeOK, Reading
<1>14. ASSUME NEW r \in Reconcilers, Reconcile(r)
       PROVE  TypeOK'
  <2> DEFINE a == recon[r].action
  <2>1. a \in Actions
    BY <1>14 DEF Reconcile, TypeOK, Reading
  <2>2. Reconciled(recon[r].answer) \in Status
    BY DEF Reconciled, Status
  <2>3. recon' \in [Reconcilers -> Reading]
    BY <1>14, <2>1, OutdatedType DEF Reconcile, NoReading, Reading
  <2>4. audit' \in [Actions -> Events]
    BY <1>14, <2>1, <2>2, EventType DEF Reconcile, TypeOK, Cause
  <2> QED
    BY <1>14, <2>1, <2>2, <2>3, <2>4 DEF Reconcile, TypeOK
<1>15. ASSUME NEW r \in Reconcilers, DropReading(r)
       PROVE  TypeOK'
  BY <1>15 DEF DropReading, TypeOK, Reading, NoReading
<1>16. CASE Surroundings
  <2>1. ASSUME NEW a \in Actions, NEW to \in Authority, ChangeAuthority(a, to)
        PROVE  TypeOK'
    BY <2>1 DEF ChangeAuthority, TypeOK
  <2>2. ASSUME NEW a \in Actions, NEW to \in Sendable, ChangeEligibility(a, to)
        PROVE  TypeOK'
    BY <2>2 DEF ChangeEligibility, TypeOK
  <2>3. ASSUME NEW a \in Actions, ClaimAges(a)
        PROVE  TypeOK'
    BY <2>3 DEF ClaimAges, TypeOK
  <2>4. ASSUME NEW a \in Actions, RetryFallsDue(a)
        PROVE  TypeOK'
    BY <2>4 DEF RetryFallsDue, TypeOK
  <2>5. ASSUME NEW a \in Actions, NEW n \in Attempt, NEW fate \in {"effect", "rejected"},
               Arrive(a, n, fate)
        PROVE  TypeOK'
    BY <2>5 DEF Arrive, TypeOK
  <2>6. ASSUME ChangePause
        PROVE  TypeOK'
    BY <2>6 DEF ChangePause, TypeOK
  <2> QED
    BY <1>16, <2>1, <2>2, <2>3, <2>4, <2>5, <2>6 DEF Surroundings
<1>17. CASE UNCHANGED vars
  BY <1>17 DEF vars, TypeOK
<1> QED
  BY <1>1, <1>2, <1>3, <1>4, <1>5, <1>6, <1>7, <1>8, <1>9, <1>10, <1>11, <1>12, <1>13,
     <1>14, <1>15, <1>16, <1>17 DEF Next, System, Execute, Proceed

(* Every variable of the outbox keeps its type.                            *)
THEOREM TypeCorrect == Spec => []TypeOK
<1> QED
  BY TypeInit, TypeStep, PTL DEF Spec

-----------------------------------------------------------------------------
(* Attempts do not overlap.                                                *)

(* After a write of the row of action a no reading of it is fresh, and the *)
(* fresh readings of other rows are as they were.                          *)
OutdatesReadings(a) ==
  \A r \in Reconcilers : recon'[r].fresh => recon[r].action # a /\ recon'[r] = recon[r]

LEMMA TouchOutdates ==
  ASSUME TypeOK, NEW a \in Actions, Touch(a)
  PROVE  OutdatesReadings(a)
BY DEF TypeOK, Touch, Outdated, OutdatesReadings, Reading

LEMMA ReadingsOfOthers ==
  ASSUME AttemptsDoNotOverlap, NEW a \in Actions, OutdatesReadings(a),
         \A b \in Actions : b # a => /\ status'[b] = status[b]
                                    /\ worker'[b] = worker[b]
                                    /\ provider'[b] = provider[b]
  PROVE  FreshReading'
<1> SUFFICES ASSUME NEW r \in Reconcilers, NEW b \in Actions,
                    recon'[r].action = b, recon'[r].fresh
             PROVE  /\ status'[b] = "outcome_unknown"
                    /\ recon'[r].answer = "not_found" => Clear(b)'
  BY DEF FreshReading
<1>1. b # a /\ recon'[r] = recon[r]
  BY DEF OutdatesReadings
<1>2. /\ status[b] = "outcome_unknown"
      /\ recon[r].answer = "not_found" => Clear(b)
  BY <1>1 DEF AttemptsDoNotOverlap, FreshReading
<1>3. Clear(b) => Clear(b)'
  BY <1>1 DEF Clear, Live
<1> QED
  BY <1>1, <1>2, <1>3

(* A write that settles the row of an action nobody executes: refusal,     *)
(* stale claim, operator command, supersession, reconciliation.            *)
LEMMA SettleStep ==
  ASSUME TypeOK, AttemptsDoNotOverlap, NEW a \in Actions, NEW s \in Status,
         SetStatus(a, s), OutdatesReadings(a),
         \A n \in Attempt : ~Live(a, n),
         s \in {"absent", "pending", "retryable", "dead_letter"} => Clear(a),
         UNCHANGED <<stale, attempts, worker, provider>>
  PROVE  AttemptsDoNotOverlap'
<1> USE DEF SetStatus, Live
<1>1. UnbegunSentNothing' /\ EarlierAreHarmless'
  BY DEF AttemptsDoNotOverlap, UnbegunSentNothing, EarlierAreHarmless
<1>2. ClaimHolder'
  BY DEF AttemptsDoNotOverlap, ClaimHolder, TypeOK
<1>3. RestIsClear'
  BY DEF AttemptsDoNotOverlap, RestIsClear, Clear, TypeOK
<1>4. FreshReading'
  BY ReadingsOfOthers DEF TypeOK
<1> QED
  BY <1>1, <1>2, <1>3, <1>4 DEF AttemptsDoNotOverlap

(* Only an action that is executing has a live execution.                  *)
LEMMA OnlyExecutingLives ==
  ASSUME AttemptsDoNotOverlap, NEW a \in Actions, status[a] # "executing" \/ stale[a]
  PROVE  \A n \in Attempt : ~Live(a, n)
BY DEF AttemptsDoNotOverlap, ClaimHolder

LEMMA NoOverlapInit == Init => AttemptsDoNotOverlap
BY DEF Init, AttemptsDoNotOverlap, UnbegunSentNothing, EarlierAreHarmless, ClaimHolder,
       RestIsClear, FreshReading, Clear, Live, NoReading

LEMMA NoOverlapStep ==
  ASSUME Punctual = TRUE, TypeOK, AttemptsDoNotOverlap, [Next]_vars
  PROVE  AttemptsDoNotOverlap'
<1>1. ASSUME NEW a \in Actions, Append(a)
      PROVE  AttemptsDoNotOverlap'
  <2>1. \A n \in Attempt : ~Live(a, n)
    BY <1>1, OnlyExecutingLives DEF Append
  <2>2. Clear(a)
    BY <1>1 DEF Append, AttemptsDoNotOverlap, RestIsClear
  <2>3. OutdatesReadings(a)
    BY <1>1 DEF Append, OutdatesReadings, AttemptsDoNotOverlap, FreshReading
  <2> QED
    BY <1>1, <2>1, <2>2, <2>3, SettleStep DEF Append, Status
<1>2. ASSUME NEW a \in Actions, Claim(a)
      PROVE  AttemptsDoNotOverlap'
  <2> DEFINE n == attempts[a] + 1
  <2> USE DEF Claim, Deliverable, SetStatus
  <2>1. n \in Attempt /\ attempts[a] \in Nat
    BY <1>2, OutboxAssumption DEF TypeOK, Attempt
  <2>2. Clear(a)
    BY <1>2 DEF AttemptsDoNotOverlap, RestIsClear
  <2>3. provider[a][n] = "none"
    BY <2>1 DEF AttemptsDoNotOverlap, UnbegunSentNothing
  <2>4. OutdatesReadings(a)
    BY <1>2, TouchOutdates
  <2>5. UnbegunSentNothing'
    BY <1>2, <2>1, OutboxAssumption DEF AttemptsDoNotOverlap, UnbegunSentNothing, TypeOK, Attempt
  <2>6. EarlierAreHarmless'
    BY <1>2, <2>1, <2>2 DEF AttemptsDoNotOverlap, EarlierAreHarmless, TypeOK, Attempt, Clear, Live
  <2>7. ClaimHolder'
    BY <1>2, <2>1, <2>2, <2>3 DEF AttemptsDoNotOverlap, ClaimHolder, TypeOK, Clear, Live
  <2>8. RestIsClear'
    BY <1>2 DEF AttemptsDoNotOverlap, RestIsClear, TypeOK, Clear, Live
  <2>9. FreshReading'
    BY <1>2, <2>4, ReadingsOfOthers DEF TypeOK
  <2> QED
    BY <2>5, <2>6, <2>7, <2>8, <2>9 DEF AttemptsDoNotOverlap
<1>3. ASSUME NEW a \in Actions, MarkStale(a)
      PROVE  AttemptsDoNotOverlap'
  BY <1>3, TouchOutdates, OnlyExecutingLives, SettleStep DEF MarkStale, ClaimIsStale, Status
<1>4. ASSUME NEW a \in Actions,
             RefuseLapsed(a) \/ RefuseRevoked(a) \/ Supersede(a) \/ OperatorCancel(a)
      PROVE  AttemptsDoNotOverlap'
  <2>1. /\ status[a] # "executing" /\ SetStatus(a, "cancelled") /\ Touch(a)
        /\ UNCHANGED <<stale, attempts, worker, provider>>
    BY <1>4 DEF RefuseLapsed, RefuseRevoked, Supersede, OperatorCancel, Deliverable, Cancellable
  <2> QED
    BY <2>1, TouchOutdates, OnlyExecutingLives, SettleStep DEF Status
<1>5. ASSUME NEW a \in Actions, OperatorRetry(a)
      PROVE  AttemptsDoNotOverlap'
  <2>1. Clear(a)
    BY <1>5 DEF OperatorRetry, SafeToRetry, AttemptsDoNotOverlap, RestIsClear
  <2> QED
    BY <1>5, <2>1, TouchOutdates, OnlyExecutingLives, SettleStep
       DEF OperatorRetry, SafeToRetry, Status
<1>6. ASSUME NEW a \in Actions, NEW n \in Attempt, Deliver(a, n)
      PROVE  AttemptsDoNotOverlap'
  <2>1. Live(a, n) /\ status[a] = "executing" /\ n = attempts[a]
    BY <1>6 DEF Deliver, Live, AttemptsDoNotOverlap, ClaimHolder
  <2> USE <1>6, <2>1 DEF Deliver, AttemptsDoNotOverlap, TypeOK, Live
  <2>2. UnbegunSentNothing'
    BY DEF UnbegunSentNothing
  <2>3. EarlierAreHarmless'
    BY DEF EarlierAreHarmless
  <2>4. ClaimHolder'
    BY DEF ClaimHolder
  <2>5. RestIsClear'
    BY DEF RestIsClear, Clear
  <2>6. FreshReading'
    BY DEF FreshReading, Clear
  <2> QED
    BY <2>2, <2>3, <2>4, <2>5, <2>6
<1>7. ASSUME NEW a \in Actions, NEW n \in Attempt, NEW fate \in {"effect", "rejected"},
             Arrive(a, n, fate)
      PROVE  AttemptsDoNotOverlap'
  <2>0. provider[a][n] = "wire"
    BY <1>7 DEF Arrive
  <2>1. n = attempts[a] /\ ~Clear(a)
    <3>1. ~(n > attempts[a]) /\ ~(n < attempts[a])
      BY <2>0 DEF AttemptsDoNotOverlap, UnbegunSentNothing, EarlierAreHarmless
    <3>2. n \in Int /\ attempts[a] \in Int
      BY OutboxAssumption DEF TypeOK, Attempt
    <3> QED
      BY <3>1, <3>2, <2>0 DEF Clear
  <2> USE <1>7, <2>1 DEF Arrive, AttemptsDoNotOverlap, TypeOK, Live
  <2>2. UnbegunSentNothing'
    BY DEF UnbegunSentNothing
  <2>3. EarlierAreHarmless'
    BY DEF EarlierAreHarmless
  <2>4. ClaimHolder'
    BY DEF ClaimHolder
  <2>5. RestIsClear'
    BY DEF RestIsClear, Clear
  <2>6. FreshReading'
    BY SMTT(30) DEF FreshReading, Clear
  <2> QED
    BY <2>2, <2>3, <2>4, <2>5, <2>6
<1>8. ASSUME NEW a \in Actions, NEW n \in Attempt, NEW kind \in Kind, ApplyResult(a, n, kind)
      PROVE  AttemptsDoNotOverlap'
  <2> DEFINE s == ResultStatus(n, kind)
  <2>1. n = attempts[a]
    BY <1>8 DEF ApplyResult, Live, AttemptsDoNotOverlap, ClaimHolder
  <2>2. \A i \in Attempt : i # n => ~Live(a, i)
    BY <2>1 DEF AttemptsDoNotOverlap, ClaimHolder
  <2>3. s # "executing"
    BY DEF ResultStatus, Kind
  <2>4. s \in {"absent", "pending", "retryable", "dead_letter"} => provider[a][n] = "rejected"
    BY <1>8 DEF ApplyResult, ResultStatus, Kind, Truthful
  <2>5. OutdatesReadings(a)
    BY <1>8, TouchOutdates DEF ApplyResult
  <2>6. /\ status' = [status EXCEPT ![a] = s]
        /\ worker' = [worker EXCEPT ![a][n] = "gone"]
        /\ UNCHANGED <<stale, attempts, provider>>
    BY <1>8 DEF ApplyResult, SetStatus
  <2>7. UnbegunSentNothing'
    BY <2>1, <2>6 DEF AttemptsDoNotOverlap, UnbegunSentNothing, TypeOK, Attempt
  <2>8. EarlierAreHarmless'
    BY <2>6 DEF AttemptsDoNotOverlap, EarlierAreHarmless, TypeOK, Live
  <2>9. ClaimHolder'
    BY <2>2, <2>6 DEF AttemptsDoNotOverlap, ClaimHolder, TypeOK, Live
  <2>10. RestIsClear'
    <3>1. s \in {"absent", "pending", "retryable", "dead_letter"} => Clear(a)'
      <4> SUFFICES ASSUME s \in {"absent", "pending", "retryable", "dead_letter"},
                          NEW i \in Attempt
                   PROVE  provider'[a][i] \in {"none", "rejected"} /\ ~Live(a, i)'
        BY DEF Clear
      <4>1. CASE i = n
        BY <4>1, <2>4, <2>6 DEF TypeOK, Live
      <4>2. CASE i # n
        BY <4>2, <2>1, <2>2, <2>6
           DEF AttemptsDoNotOverlap, UnbegunSentNothing, EarlierAreHarmless, TypeOK, Live, Attempt
      <4> QED
        BY <4>1, <4>2
    <3>2. \A b \in Actions : b # a /\ Clear(b) => Clear(b)'
      BY <2>6 DEF Clear, Live, TypeOK
    <3> QED
      BY <3>1, <3>2, <2>6 DEF AttemptsDoNotOverlap, RestIsClear, TypeOK
  <2>11. FreshReading'
    BY <2>5, <2>6, ReadingsOfOthers DEF TypeOK
  <2> QED
    BY <2>7, <2>8, <2>9, <2>10, <2>11 DEF AttemptsDoNotOverlap
<1>9. ASSUME NEW a \in Actions, NEW n \in Attempt, EndWithoutResult(a, n)
      PROVE  AttemptsDoNotOverlap'
  <2> USE <1>9 DEF EndWithoutResult, AttemptsDoNotOverlap, TypeOK, Live
  <2>1. n = attempts[a]
    BY DEF ClaimHolder
  <2>2. UnbegunSentNothing'
    BY <2>1 DEF UnbegunSentNothing, Attempt
  <2>3. EarlierAreHarmless'
    BY DEF EarlierAreHarmless
  <2>4. ClaimHolder'
    BY DEF ClaimHolder
  <2>5. RestIsClear'
    BY DEF RestIsClear, Clear
  <2>6. FreshReading'
    <3>1. \A b \in Actions : Clear(b) => Clear(b)'
      BY DEF Clear
    <3> QED
      BY <3>1 DEF FreshReading
  <2> QED
    BY <2>2, <2>3, <2>4, <2>5, <2>6
<1>10. ASSUME NEW r \in Reconcilers, NEW a \in Actions, ReadUnknown(r, a)
       PROVE  AttemptsDoNotOverlap'
  <2>1. FreshReading'
    BY <1>10, ZenonT(40) DEF ReadUnknown, AttemptsDoNotOverlap, FreshReading, TypeOK, Clear, Live
  <2> QED
    BY <1>10, <2>1 DEF ReadUnknown, AttemptsDoNotOverlap, UnbegunSentNothing, EarlierAreHarmless,
                       ClaimHolder, RestIsClear, Clear, Live
<1>11. ASSUME NEW r \in Reconcilers, NEW answer \in {"succeeded", "not_found"},
              AskProvider(r, answer)
       PROVE  AttemptsDoNotOverlap'
  <2>1. FreshReading'
    <3> SUFFICES ASSUME NEW q \in Reconcilers, NEW a \in Actions,
                        recon'[q].action = a, recon'[q].fresh
                 PROVE  /\ status'[a] = "outcome_unknown"
                        /\ recon'[q].answer = "not_found" => Clear(a)'
      BY DEF FreshReading
    <3>1. recon[q].action = a /\ recon[q].fresh
      BY <1>11 DEF AskProvider, TypeOK, Reading
    <3>2. status[a] = "outcome_unknown"
      BY <3>1 DEF AttemptsDoNotOverlap, FreshReading
    <3>3. \A n \in Attempt : ~Live(a, n)
      BY <3>2, OnlyExecutingLives
    <3>4. Clear(a) => Clear(a)'
      BY <1>11 DEF AskProvider, Clear, Live
    <3>5. recon'[q].answer = "not_found" => Clear(a)
      <4>1. CASE q = r
        BY <4>1, <1>11, <3>1, <3>3 DEF AskProvider, ProviderAnswer, TypeOK, Reading, Clear
      <4>2. CASE q # r
        BY <4>2, <1>11, <3>1 DEF AskProvider, TypeOK, AttemptsDoNotOverlap, FreshReading
      <4> QED
        BY <4>1, <4>2
    <3> QED
      BY <1>11, <3>2, <3>4, <3>5 DEF AskProvider
  <2> QED
    BY <1>11, <2>1 DEF AskProvider, AttemptsDoNotOverlap, UnbegunSentNothing, EarlierAreHarmless,
                       ClaimHolder, RestIsClear, Clear, Live
<1>12. ASSUME NEW r \in Reconcilers, Reconcile(r)
       PROVE  AttemptsDoNotOverlap'
  <2> DEFINE a == recon[r].action
             s == Reconciled(recon[r].answer)
  <2>1. a \in Actions /\ s \in Status
    BY <1>12 DEF Reconcile, TypeOK, Reading, Reconciled, Status
  <2>2. OutdatesReadings(a)
    BY <1>12 DEF Reconcile, OutdatesReadings, Outdated, NoReading, TypeOK, Reading
  <2>3. s \in {"absent", "pending", "retryable", "dead_letter"} => Clear(a)
    BY <1>12, <2>1 DEF Reconcile, Reconciled, AttemptsDoNotOverlap, FreshReading, TypeOK, Reading
  <2>4. \A n \in Attempt : ~Live(a, n)
    BY <1>12, <2>1, OnlyExecutingLives DEF Reconcile
  <2> QED
    BY <1>12, <2>1, <2>2, <2>3, <2>4, SettleStep DEF Reconcile
<1>13. ASSUME NEW r \in Reconcilers, DropReading(r)
       PROVE  AttemptsDoNotOverlap'
  <2>1. FreshReading'
    BY <1>13, ZenonT(40)
    DEF DropReading, AttemptsDoNotOverlap, FreshReading, TypeOK, Clear, Live, NoReading
  <2> QED
    BY <1>13, <2>1 DEF DropReading, AttemptsDoNotOverlap, UnbegunSentNothing, EarlierAreHarmless,
                       ClaimHolder, RestIsClear, Clear, Live
<1>14. ASSUME NEW a \in Actions, ClaimAges(a)
       PROVE  AttemptsDoNotOverlap'
  <2>1. ClaimHolder'
    BY <1>14 DEF ClaimAges, AttemptsDoNotOverlap, ClaimHolder, TypeOK, Live
  <2> QED
    BY <1>14, <2>1 DEF ClaimAges, AttemptsDoNotOverlap, UnbegunSentNothing, EarlierAreHarmless,
                       RestIsClear, FreshReading, Clear, Live
<1>15. ASSUME \/ \E a \in Actions :
                   \/ \E to \in Authority : ChangeAuthority(a, to)
                   \/ \E to \in Sendable : ChangeEligibility(a, to)
                   \/ RetryFallsDue(a)
              \/ ChangePause
              \/ UNCHANGED vars
       PROVE  AttemptsDoNotOverlap'
  <2>1. UNCHANGED <<status, stale, attempts, worker, provider, recon>>
    BY <1>15 DEF ChangeAuthority, ChangeEligibility, RetryFallsDue, ChangePause, vars
  <2> QED
    BY <2>1 DEF AttemptsDoNotOverlap, UnbegunSentNothing, EarlierAreHarmless, ClaimHolder,
                RestIsClear, FreshReading, Clear, Live
<1> QED
  BY <1>1, <1>2, <1>3, <1>4, <1>5, <1>6, <1>7, <1>8, <1>9, <1>10, <1>11, <1>12, <1>13,
     <1>14, <1>15 DEF Next, System, Surroundings, Execute, Proceed

(* Attempts of an action do not overlap, whatever workers, reconcilers and *)
(* operators do, if no execution outlives its claim.                       *)
THEOREM NoOverlap ==
  ASSUME Punctual = TRUE
  PROVE  Spec => []AttemptsDoNotOverlap
<1>1. TypeOK /\ AttemptsDoNotOverlap /\ [Next]_vars => AttemptsDoNotOverlap'
  BY NoOverlapStep
<1> QED
  BY <1>1, NoOverlapInit, TypeCorrect, PTL DEF Spec

(* An action takes effect at most once, at a provider that does not        *)
(* deduplicate, if no execution outlives its claim.                        *)
THEOREM EffectOnce ==
  ASSUME Punctual = TRUE
  PROVE  Spec => []AtMostOneEffect
<1>1. ASSUME TypeOK, AttemptsDoNotOverlap
      PROVE  AtMostOneEffect
  <2> SUFFICES ASSUME NEW a \in Actions
               PROVE  Cardinality(Effects(a)) <= 1
    BY DEF AtMostOneEffect
  <2>0. attempts[a] \in Nat /\ Attempt \subseteq Nat
    BY <1>1, OutboxAssumption DEF TypeOK, Attempt
  <2>1. ASSUME NEW n \in Effects(a)
        PROVE  n = attempts[a]
    <3>1. n \in Attempt /\ provider[a][n] = "effect"
      BY <2>1 DEF Effects
    <3>2. ~(n > attempts[a]) /\ ~(n < attempts[a])
      BY <1>1, <3>1 DEF AttemptsDoNotOverlap, UnbegunSentNothing, EarlierAreHarmless
    <3>3. n \in Nat /\ attempts[a] \in Nat
      BY <2>0, <3>1
    <3> QED
      BY <3>2, <3>3, SMTT(30)
  <2>2. IsFiniteSet({attempts[a]}) /\ Cardinality({attempts[a]}) = 1
    BY FS_Singleton
  <2>3. Cardinality(Effects(a)) <= Cardinality({attempts[a]})
    <3>1. Effects(a) \subseteq {attempts[a]}
      BY <2>1
    <3> QED
      BY <2>2, <3>1, FS_Subset
  <2>4. Cardinality(Effects(a)) \in Nat
    <3>1. Effects(a) \subseteq {attempts[a]}
      BY <2>1
    <3> QED
      BY <2>2, <3>1, FS_Subset, FS_CardinalityType
  <2> QED
    BY <2>2, <2>3, <2>4
<1> QED
  BY <1>1, NoOverlap, TypeCorrect, PTL

-----------------------------------------------------------------------------
(* The status only takes the edges of the trigger.                         *)

LEMMA LifecycleStep == TypeOK /\ [Next]_vars => [Lifecycle!Next]_status
<1> SUFFICES ASSUME TypeOK, [Next]_vars
             PROVE  [Lifecycle!Next]_status
  OBVIOUS
<1>1. ASSUME NEW a \in Actions, NEW s \in Status, SetStatus(a, s),
             <<status[a], s>> \in Lifecycle!Edges
      PROVE  Lifecycle!Next
  <2>1. Lifecycle!Update(a)
    BY <1>1 DEF SetStatus, Lifecycle!Update
  <2> QED
    BY <2>1 DEF Lifecycle!Next
<1>2. ASSUME NEW a \in Actions, Append(a)
      PROVE  Lifecycle!Next
  <2>1. Lifecycle!Insert(a)
    BY <1>2 DEF Append, SetStatus, Lifecycle!Insert
  <2> QED
    BY <2>1 DEF Lifecycle!Next
<1>3. ASSUME NEW a \in Actions, Execute(a) \/ OperatorCancel(a) \/ Supersede(a)
      PROVE  Lifecycle!Next
  <2>1. PICK s \in Status : SetStatus(a, s) /\ <<status[a], s>> \in Lifecycle!Edges
    BY <1>3 DEF Execute, Claim, MarkStale, RefuseLapsed, RefuseRevoked, OperatorCancel, Supersede,
                Deliverable, Cancellable, ClaimIsStale, Lifecycle!Edges, Status
  <2> QED
    BY <2>1, <1>1
<1>4. ASSUME NEW a \in Actions, OperatorRetry(a)
      PROVE  UNCHANGED status
  BY <1>4 DEF OperatorRetry, SafeToRetry, SetStatus, TypeOK
<1>5. ASSUME NEW a \in Actions, NEW n \in Attempt, NEW kind \in Kind, ApplyResult(a, n, kind)
      PROVE  Lifecycle!Next
  <2>1. <<status[a], ResultStatus(n, kind)>> \in Lifecycle!Edges
    BY <1>5 DEF ApplyResult, ResultStatus, Kind, Lifecycle!Edges
  <2> QED
    BY <1>5, <2>1, <1>1, ResultTypes DEF ApplyResult
<1>6. ASSUME NEW r \in Reconcilers, Reconcile(r)
      PROVE  Lifecycle!Next
  <2> DEFINE a == recon[r].action
             s == Reconciled(recon[r].answer)
  <2>1. a \in Actions /\ s \in Status /\ SetStatus(a, s)
    BY <1>6 DEF Reconcile, TypeOK, Reading, Reconciled, Status
  <2>2. <<status[a], s>> \in Lifecycle!Edges
    BY <1>6 DEF Reconcile, Reconciled, Lifecycle!Edges
  <2> QED
    BY <2>1, <2>2, <1>1
<1>7. ASSUME \/ \E a \in Actions, n \in Attempt : Deliver(a, n) \/ EndWithoutResult(a, n)
             \/ \E r \in Reconcilers :
                  \/ \E a \in Actions : ReadUnknown(r, a)
                  \/ \E answer \in {"succeeded", "not_found"} : AskProvider(r, answer)
                  \/ DropReading(r)
             \/ Surroundings
             \/ UNCHANGED vars
      PROVE  UNCHANGED status
  BY <1>7 DEF Deliver, EndWithoutResult, ReadUnknown, AskProvider, DropReading, Surroundings,
              ChangeAuthority, ChangeEligibility, ClaimAges, RetryFallsDue, Arrive, ChangePause, vars
<1> QED
  BY <1>2, <1>3, <1>4, <1>5, <1>6, <1>7 DEF Next, System, Proceed

(* No program of the outbox ever meets the trigger's INVALID_TRANSITION.   *)
THEOREM NeverRefusedByTrigger == Spec => ForwardOnly
<1>1. Init => Lifecycle!Init
  BY DEF Init, Lifecycle!Init
<1> QED
  BY <1>1, LifecycleStep, TypeCorrect, PTL DEF Spec, ForwardOnly, Lifecycle!Spec

-----------------------------------------------------------------------------
(* Success is never assumed.  Nothing here depends on Punctual.            *)

ClaimedSentNothing ==
  \A a \in Actions, n \in Attempt : worker[a][n] = "claimed" => provider[a][n] = "none"
AnswersAreTrue ==
  \A r \in Reconcilers, a \in Actions :
    recon[r].action = a /\ recon[r].answer = "succeeded" => Effects(a) # {}
Evidence ==
  /\ UnbegunSentNothing
  /\ ClaimedSentNothing
  /\ AnswersAreTrue
  /\ SuccessHasEffect

LEMMA EvidenceInit == Init => Evidence
BY DEF Init, Evidence, UnbegunSentNothing, ClaimedSentNothing, AnswersAreTrue, SuccessHasEffect,
       NoReading

(* Nothing undoes an effect.                                               *)
LEMMA EffectsStay ==
  ASSUME TypeOK, ClaimedSentNothing, [Next]_vars, NEW a \in Actions
  PROVE  Effects(a) \subseteq Effects(a)'
<1> SUFFICES ASSUME NEW n \in Attempt, provider[a][n] = "effect"
             PROVE  provider'[a][n] = "effect"
  BY DEF Effects
<1>1. ASSUME NEW b \in Actions, NEW i \in Attempt, Deliver(b, i)
      PROVE  provider'[a][n] = "effect"
  BY <1>1 DEF Deliver, ClaimedSentNothing, TypeOK
<1>2. ASSUME NEW b \in Actions, NEW i \in Attempt, NEW fate \in {"effect", "rejected"},
             Arrive(b, i, fate)
      PROVE  provider'[a][n] = "effect"
  BY <1>2 DEF Arrive, TypeOK
<1>3. CASE UNCHANGED provider
  BY <1>3
<1>4. \/ UNCHANGED provider
      \/ \E b \in Actions, i \in Attempt : Deliver(b, i)
      \/ \E b \in Actions, i \in Attempt, fate \in {"effect", "rejected"} : Arrive(b, i, fate)
  BY ZenonT(40)
  DEF Next, System, Surroundings, Execute, Proceed, Append, Claim, MarkStale, RefuseLapsed,
         RefuseRevoked, ApplyResult, EndWithoutResult, OperatorCancel, OperatorRetry, Supersede,
         ReadUnknown, AskProvider, Reconcile, DropReading, ChangeAuthority, ChangeEligibility,
         ClaimAges, RetryFallsDue, ChangePause, vars
<1> QED
  BY <1>1, <1>2, <1>3, <1>4

(* An attempt that was not begun has neither worker nor request.           *)
LEMMA UnbegunStep ==
  ASSUME TypeOK, UnbegunSentNothing, ClaimedSentNothing, [Next]_vars
  PROVE  UnbegunSentNothing' /\ ClaimedSentNothing'
<1> USE DEF UnbegunSentNothing, ClaimedSentNothing, TypeOK
<1>1. ASSUME NEW a \in Actions, Claim(a)
      PROVE  UnbegunSentNothing' /\ ClaimedSentNothing'
  <2>1. attempts[a] + 1 \in Attempt /\ attempts[a] \in Nat
    BY <1>1, OutboxAssumption DEF Claim, Attempt
  <2> QED
    BY <1>1, <2>1, OutboxAssumption DEF Claim, Attempt
<1>2. ASSUME NEW a \in Actions, NEW n \in Attempt,
             \/ Deliver(a, n) \/ EndWithoutResult(a, n)
             \/ \E kind \in Kind : ApplyResult(a, n, kind)
      PROVE  UnbegunSentNothing' /\ ClaimedSentNothing'
  <2>1. Live(a, n) /\ UNCHANGED attempts
    BY <1>2 DEF Deliver, EndWithoutResult, ApplyResult, Live
  <2>2. ~(n > attempts[a])
    BY <2>1 DEF Live
  <2>3. /\ \E w \in {"delivering", "gone"} : worker' = [worker EXCEPT ![a][n] = w]
        /\ provider' = provider \/ provider' = [provider EXCEPT ![a][n] = "wire"]
    BY <1>2 DEF Deliver, EndWithoutResult, ApplyResult
  <2> QED
    BY <2>1, <2>2, <2>3
<1>3. ASSUME NEW a \in Actions, NEW n \in Attempt, NEW fate \in {"effect", "rejected"},
             Arrive(a, n, fate)
      PROVE  UnbegunSentNothing' /\ ClaimedSentNothing'
  BY <1>3 DEF Arrive
<1>4. CASE UNCHANGED <<attempts, worker, provider>>
  BY <1>4
<1>5. \/ UNCHANGED <<attempts, worker, provider>>
      \/ \E a \in Actions : Claim(a)
      \/ \E a \in Actions, n \in Attempt :
           \/ Deliver(a, n) \/ EndWithoutResult(a, n)
           \/ \E kind \in Kind : ApplyResult(a, n, kind)
      \/ \E a \in Actions, n \in Attempt, fate \in {"effect", "rejected"} : Arrive(a, n, fate)
  <2>1. CASE \/ \E a \in Actions :
                  Execute(a) \/ Append(a) \/ OperatorCancel(a) \/ OperatorRetry(a) \/ Supersede(a)
             \/ \E r \in Reconcilers :
                  \/ \E a \in Actions : ReadUnknown(r, a)
                  \/ \E answer \in {"succeeded", "not_found"} : AskProvider(r, answer)
                  \/ Reconcile(r) \/ DropReading(r)
    BY <2>1 DEF Execute, Append, MarkStale, RefuseLapsed, RefuseRevoked, OperatorCancel,
                OperatorRetry, Supersede, ReadUnknown, AskProvider, Reconcile, DropReading
  <2>2. CASE Surroundings \/ UNCHANGED vars
    BY <2>2 DEF Surroundings, ChangeAuthority, ChangeEligibility, ClaimAges, RetryFallsDue,
                ChangePause, vars
  <2> QED
    BY <2>1, <2>2 DEF Next, System, Proceed
<1> QED
  BY <1>1, <1>2, <1>3, <1>4, <1>5

(* An answer "succeeded" was given only for an effect.                     *)
LEMMA AnswersStep ==
  ASSUME TypeOK, Evidence, [Next]_vars
  PROVE  AnswersAreTrue'
<1> SUFFICES ASSUME NEW r \in Reconcilers, NEW a \in Actions,
                    recon'[r].action = a, recon'[r].answer = "succeeded"
             PROVE  Effects(a)' # {}
  BY DEF AnswersAreTrue
<1>1. Effects(a) \subseteq Effects(a)'
  BY EffectsStay DEF Evidence
<1>2. CASE recon[r].action = a /\ recon[r].answer = "succeeded"
  BY <1>1, <1>2 DEF Evidence, AnswersAreTrue
<1>3. ASSUME NEW q \in Reconcilers, NEW answer \in {"succeeded", "not_found"},
             AskProvider(q, answer), ~(recon[r].action = a /\ recon[r].answer = "succeeded")
      PROVE  Effects(a) # {}
  <2>1. q = r /\ answer = "succeeded" /\ recon[r].action = a
    BY <1>3 DEF AskProvider, TypeOK, Reading
  <2> QED
    BY <1>3, <2>1 DEF AskProvider, ProviderAnswer, Effects
<1>4. ASSUME NEW b \in Actions, Touch(b)
      PROVE  recon[r].action = a /\ recon[r].answer = "succeeded"
  BY <1>4 DEF Touch, Outdated, TypeOK, Reading
<1>5. ASSUME NEW q \in Reconcilers,
             (\E b \in Actions : ReadUnknown(q, b)) \/ Reconcile(q) \/ DropReading(q)
      PROVE  recon[r].action = a /\ recon[r].answer = "succeeded"
  <2>1. q # r
    BY <1>5 DEF ReadUnknown, Reconcile, DropReading, Outdated, NoReading, TypeOK
  <2>2. recon'[r] = recon[r] \/ recon'[r] = [recon[r] EXCEPT !.fresh = FALSE]
    BY <1>5, <2>1 DEF ReadUnknown, Reconcile, DropReading, Outdated, TypeOK
  <2> QED
    BY <2>2 DEF TypeOK, Reading
<1>6. \/ UNCHANGED recon
      \/ \E b \in Actions : Touch(b)
      \/ \E q \in Reconcilers, answer \in {"succeeded", "not_found"} : AskProvider(q, answer)
      \/ \E q \in Reconcilers :
           (\E b \in Actions : ReadUnknown(q, b)) \/ Reconcile(q) \/ DropReading(q)
  BY ZenonT(40)
  DEF Next, System, Surroundings, Execute, Proceed, Append, Claim, MarkStale, RefuseLapsed,
         RefuseRevoked, Deliver, ApplyResult, EndWithoutResult, OperatorCancel, OperatorRetry,
         Supersede, ChangeAuthority, ChangeEligibility, ClaimAges, RetryFallsDue, Arrive,
         ChangePause, vars
<1> QED
  BY <1>1, <1>2, <1>3, <1>4, <1>5, <1>6

(* A row becomes "succeeded" by a result or by a reconciliation.           *)
LEMMA WhoSucceeds ==
  ASSUME TypeOK, [Next]_vars, NEW a \in Actions, status'[a] = "succeeded"
  PROVE  \/ status[a] = "succeeded"
         \/ \E n \in Attempt : ApplyResult(a, n, "succeeded")
         \/ \E r \in Reconcilers :
              Reconcile(r) /\ recon[r].action = a /\ recon[r].answer = "succeeded"
<1>1. ASSUME NEW b \in Actions, NEW s, s # "succeeded", SetStatus(b, s)
      PROVE  status[a] = "succeeded"
  BY <1>1 DEF SetStatus, TypeOK
<1>2. ASSUME NEW b \in Actions, NEW n \in Attempt, NEW kind \in Kind, ApplyResult(b, n, kind)
      PROVE  status[a] = "succeeded" \/ ApplyResult(a, n, "succeeded")
  <2>1. CASE kind = "succeeded" /\ b = a
    BY <1>2, <2>1
  <2>2. CASE kind = "succeeded" /\ b # a
    BY <1>2, <2>2 DEF ApplyResult, SetStatus, TypeOK
  <2>3. CASE kind # "succeeded"
    <3>1. ResultStatus(n, kind) # "succeeded"
      BY <2>3 DEF ResultStatus
    <3> QED
      BY <1>1, <1>2, <3>1 DEF ApplyResult
  <2> QED
    BY <2>1, <2>2, <2>3
<1>3. ASSUME NEW r \in Reconcilers, Reconcile(r)
      PROVE  \/ status[a] = "succeeded"
             \/ recon[r].action = a /\ recon[r].answer = "succeeded"
  BY <1>3 DEF Reconcile, Reconciled, SetStatus, TypeOK, Reading
<1>4. CASE UNCHANGED status
  BY <1>4
<1>5. \/ UNCHANGED status
      \/ \E b \in Actions, s \in Status \ {"succeeded"} : SetStatus(b, s)
      \/ \E b \in Actions, n \in Attempt, kind \in Kind : ApplyResult(b, n, kind)
      \/ \E r \in Reconcilers : Reconcile(r)
  BY DEF Next, System, Surroundings, Execute, Proceed, Append, Claim, MarkStale, RefuseLapsed,
         RefuseRevoked, Deliver, EndWithoutResult, OperatorCancel, OperatorRetry, Supersede,
         ReadUnknown, AskProvider, DropReading, ChangeAuthority, ChangeEligibility, ClaimAges,
         RetryFallsDue, Arrive, ChangePause, vars, Status
<1> QED
  BY <1>1, <1>2, <1>3, <1>4, <1>5

LEMMA EvidenceStep == TypeOK /\ Evidence /\ [Next]_vars => Evidence'
<1> SUFFICES ASSUME TypeOK, Evidence, [Next]_vars
             PROVE  Evidence'
  OBVIOUS
<1>1. SuccessHasEffect'
  <2> SUFFICES ASSUME NEW a \in Actions, status'[a] = "succeeded"
               PROVE  Effects(a)' # {}
    BY DEF SuccessHasEffect
  <2>1. Effects(a) # {}
    BY WhoSucceeds DEF Evidence, SuccessHasEffect, AnswersAreTrue, ApplyResult, Truthful, Effects
  <2> QED
    BY <2>1, EffectsStay DEF Evidence
<1> QED
  BY <1>1, UnbegunStep, AnswersStep DEF Evidence

LEMMA EvidenceHolds == Spec => []Evidence
<1> QED
  BY EvidenceInit, EvidenceStep, TypeCorrect, PTL DEF Spec

(* An action is reported a success only if one of its requests took        *)
(* effect, however late executions end and whoever reconciles.             *)
THEOREM NoAssumedSuccess == Spec => []SuccessHasEffect
<1>1. Evidence => SuccessHasEffect
  BY DEF Evidence
<1> QED
  BY <1>1, EvidenceHolds, PTL

-----------------------------------------------------------------------------
(* The retry limit.  That the attempt whose result is written is the last  *)
(* one of the action, hence the number compared with the limit is the      *)
(* number of its attempts, is where overlap would do harm.                 *)

LEMMA BudgetInit == Init => RetryBudget
BY DEF Init, RetryBudget

LEMMA BudgetStep ==
  ASSUME TypeOK, AttemptsDoNotOverlap, RetryBudget, [Next]_vars
  PROVE  RetryBudget'
<1> USE DEF RetryBudget
<1>1. ASSUME NEW a \in Actions, NEW s \in Status, NEW c \in Cause \ {"adapter"},
             SetStatus(a, s), AuditOutcome(a, Event(s, c, 0)), UNCHANGED attempts
      PROVE  RetryBudget'
  BY <1>1 DEF SetStatus, AuditOutcome, Event, TypeOK
<1>2. ASSUME NEW a \in Actions, Append(a)
      PROVE  RetryBudget'
  BY <1>2 DEF Append, SetStatus, TypeOK
<1>3. ASSUME NEW a \in Actions, Claim(a)
      PROVE  RetryBudget'
  BY <1>3 DEF Claim, SetStatus, TypeOK
<1>4. ASSUME NEW a \in Actions, NEW n \in Attempt, NEW kind \in Kind, ApplyResult(a, n, kind)
      PROVE  RetryBudget'
  <2> DEFINE s == ResultStatus(n, kind)
  <2>1. n = attempts[a]
    BY <1>4 DEF ApplyResult, Live, AttemptsDoNotOverlap, ClaimHolder
  <2>2. s = "retryable" => n < MaxTries
    BY OutboxAssumption DEF ResultStatus, Attempt
  <2>3. /\ status' = [status EXCEPT ![a] = s]
        /\ audit' = [audit EXCEPT ![a] = Event(s, "adapter", n)]
        /\ UNCHANGED attempts
    BY <1>4 DEF ApplyResult, SetStatus, AuditOutcome
  <2> QED
    BY <2>1, <2>2, <2>3 DEF Event, TypeOK
<1>5. CASE UNCHANGED <<status, attempts, audit>>
  BY <1>5
<1>6. \/ UNCHANGED <<status, attempts, audit>>
      \/ \E a \in Actions : Append(a) \/ Claim(a)
      \/ \E a \in Actions, s \in Status, c \in Cause \ {"adapter"} :
           SetStatus(a, s) /\ AuditOutcome(a, Event(s, c, 0)) /\ UNCHANGED attempts
      \/ \E a \in Actions, n \in Attempt, kind \in Kind : ApplyResult(a, n, kind)
  <2>1. ASSUME NEW a \in Actions, Execute(a) \/ OperatorCancel(a) \/ OperatorRetry(a) \/ Supersede(a)
        PROVE  \/ Claim(a)
               \/ \E s \in Status, c \in Cause \ {"adapter"} :
                    SetStatus(a, s) /\ AuditOutcome(a, Event(s, c, 0)) /\ UNCHANGED attempts
    BY <2>1 DEF Execute, MarkStale, RefuseLapsed, RefuseRevoked, OperatorCancel, OperatorRetry,
                Supersede, Status, Cause
  <2>2. ASSUME NEW r \in Reconcilers, Reconcile(r)
        PROVE  \E a \in Actions, s \in Status, c \in Cause \ {"adapter"} :
                 SetStatus(a, s) /\ AuditOutcome(a, Event(s, c, 0)) /\ UNCHANGED attempts
    BY <2>2 DEF Reconcile, Reconciled, TypeOK, Reading, Status, Cause
  <2>3. CASE \/ \E a \in Actions, n \in Attempt : Deliver(a, n) \/ EndWithoutResult(a, n)
             \/ \E r \in Reconcilers :
                  \/ \E a \in Actions : ReadUnknown(r, a)
                  \/ \E answer \in {"succeeded", "not_found"} : AskProvider(r, answer)
                  \/ DropReading(r)
             \/ Surroundings
             \/ UNCHANGED vars
    BY <2>3 DEF Deliver, EndWithoutResult, ReadUnknown, AskProvider, DropReading, Surroundings,
                ChangeAuthority, ChangeEligibility, ClaimAges, RetryFallsDue, Arrive, ChangePause,
                vars
  <2> QED
    BY <2>1, <2>2, <2>3 DEF Next, System, Proceed
<1> QED
  BY <1>1, <1>2, <1>3, <1>4, <1>5, <1>6

(* An adapter's last allowed retryable answer makes a dead letter, if no   *)
(* execution outlives its claim.                                           *)
THEOREM RetriesAreBounded ==
  ASSUME Punctual = TRUE
  PROVE  Spec => []RetryBudget
<1>1. TypeOK /\ AttemptsDoNotOverlap /\ RetryBudget /\ [Next]_vars => RetryBudget'
  BY BudgetStep
<1> QED
  BY <1>1, BudgetInit, NoOverlap, TypeCorrect, PTL DEF Spec

-----------------------------------------------------------------------------
(* The outbox implements OutboxPromise.                                    *)

RefusedIsClear == \A a \in Actions : RefusedForGood(a) => Clear(a)
PromiseInv == AttemptsDoNotOverlap /\ Evidence /\ RefusedIsClear

EffectBar == [a \in Actions |-> Cardinality(Effects(a))]
VerdictBar == [a \in Actions |-> VerdictOf(a)]

LEMMA CountEffects ==
  ASSUME TypeOK, AttemptsDoNotOverlap, NEW a \in Actions
  PROVE  /\ Effects(a) \subseteq {attempts[a]}
         /\ Effects(a) = {} => Cardinality(Effects(a)) = 0
         /\ Effects(a) # {} => Cardinality(Effects(a)) = 1
<1>1. Effects(a) \subseteq {attempts[a]}
  <2> SUFFICES ASSUME NEW n \in Attempt, provider[a][n] = "effect"
               PROVE  n = attempts[a]
    BY DEF Effects
  <2>1. ~(n > attempts[a]) /\ ~(n < attempts[a])
    BY DEF AttemptsDoNotOverlap, UnbegunSentNothing, EarlierAreHarmless
  <2>2. n \in Int /\ attempts[a] \in Int
    BY OutboxAssumption DEF TypeOK, Attempt
  <2> QED
    BY <2>1, <2>2
<1>2. Effects(a) = {} \/ Effects(a) = {attempts[a]}
  BY <1>1
<1> QED
  BY <1>1, <1>2, FS_EmptySet, FS_Singleton

(* A row that may be refused or given up has had no effect.                *)
LEMMA ClearHasNone ==
  ASSUME NEW a \in Actions, Clear(a)
  PROVE  Effects(a) = {}
BY DEF Clear, Effects

(* What is clear stays clear unless the action is claimed.                 *)
LEMMA ClearStays ==
  ASSUME TypeOK, [Next]_vars, NEW a \in Actions, Clear(a), ~Claim(a)
  PROVE  Clear(a)'
<1> USE DEF Clear, Live, TypeOK
<1>1. ASSUME NEW b \in Actions, Claim(b)
      PROVE  Clear(a)'
  <2>1. a # b
    BY <1>1
  <2>2. worker'[a] = worker[a] /\ provider'[a] = provider[a]
    BY <1>1, <2>1 DEF Claim
  <2> QED
    BY <2>2
<1>2. ASSUME NEW b \in Actions, NEW n \in Attempt,
             \/ Deliver(b, n) \/ EndWithoutResult(b, n)
             \/ \E kind \in Kind : ApplyResult(b, n, kind)
             \/ \E fate \in {"effect", "rejected"} : Arrive(b, n, fate)
      PROVE  Clear(a)'
  <2>1. worker[b][n] \in {"claimed", "delivering"} \/ provider[b][n] = "wire"
    BY <1>2 DEF Deliver, EndWithoutResult, ApplyResult, Arrive
  <2>2. a # b
    BY <2>1
  <2>3. worker'[a] = worker[a] /\ provider'[a] = provider[a]
    BY <1>2, <2>2 DEF Deliver, EndWithoutResult, ApplyResult, Arrive
  <2> QED
    BY <2>3
<1>3. CASE UNCHANGED <<worker, provider>>
  BY <1>3
<1>4. \/ UNCHANGED <<worker, provider>>
      \/ \E b \in Actions : Claim(b)
      \/ \E b \in Actions, n \in Attempt :
           \/ Deliver(b, n) \/ EndWithoutResult(b, n)
           \/ \E kind \in Kind : ApplyResult(b, n, kind)
           \/ \E fate \in {"effect", "rejected"} : Arrive(b, n, fate)
  <2>1. CASE \/ \E b \in Actions :
                  \/ Append(b) \/ MarkStale(b) \/ RefuseLapsed(b) \/ RefuseRevoked(b)
                  \/ OperatorCancel(b) \/ OperatorRetry(b) \/ Supersede(b)
             \/ \E r \in Reconcilers :
                  \/ \E b \in Actions : ReadUnknown(r, b)
                  \/ \E answer \in {"succeeded", "not_found"} : AskProvider(r, answer)
                  \/ Reconcile(r) \/ DropReading(r)
    BY <2>1 DEF Append, MarkStale, RefuseLapsed, RefuseRevoked, OperatorCancel,
                OperatorRetry, Supersede, ReadUnknown, AskProvider, Reconcile, DropReading
  <2>2. CASE \/ UNCHANGED vars \/ ChangePause
             \/ \E b \in Actions :
                  \/ \E to \in Authority : ChangeAuthority(b, to)
                  \/ (\E to \in Sendable : ChangeEligibility(b, to))
                  \/ ClaimAges(b) \/ RetryFallsDue(b)
    BY <2>2 DEF ChangeAuthority, ChangeEligibility, ClaimAges, RetryFallsDue, ChangePause, vars
  <2> QED
    BY <2>1, <2>2 DEF Next, System, Surroundings, Execute, Proceed
<1> QED
  BY <1>1, <1>2, <1>3, <1>4

-----------------------------------------------------------------------------
(* What the steps of the outbox are to OutboxPromise.                      *)

(* A write of one row shows as a change of one verdict.                    *)
LEMMA RowShowsAsVerdict ==
  ASSUME TypeOK, NEW a \in Actions, NEW s \in Status, NEW e,
         SetStatus(a, s), AuditOutcome(a, e), UNCHANGED provider
  PROVE  /\ UNCHANGED EffectBar
         /\ VerdictBar' = [VerdictBar EXCEPT ![a] = VerdictOf(a)']
         /\ status'[a] = s
         /\ audit'[a] = e
<1>1. /\ status' = [status EXCEPT ![a] = s]
      /\ audit' = [audit EXCEPT ![a] = e]
      /\ status'[a] = s
      /\ audit'[a] = e
  BY DEF SetStatus, AuditOutcome, TypeOK
<1>2. \A b \in Actions : Effects(b)' = Effects(b)
  BY DEF Effects
<1>3. \A b \in Actions : b # a => VerdictOf(b)' = VerdictOf(b)
  BY <1>1 DEF VerdictOf, RefusedForGood, TypeOK
<1> QED
  BY <1>1, <1>2, <1>3 DEF EffectBar, VerdictBar

(* A step that leaves every verdict and every effect is a stutter.         *)
LEMMA Stutters ==
  ASSUME \A a \in Actions : Effects(a)' = Effects(a) /\ VerdictOf(a)' = VerdictOf(a)
  PROVE  UNCHANGED <<EffectBar, VerdictBar>>
BY DEF EffectBar, VerdictBar

(* Refusals come from clear rows, and stay.                                *)
LEMMA RefusedStep ==
  ASSUME TypeOK, PromiseInv, [Next]_vars
  PROVE  RefusedIsClear'
<1> SUFFICES ASSUME NEW a \in Actions, RefusedForGood(a)'
             PROVE  Clear(a)'
  BY DEF RefusedIsClear
<1>1. CASE Clear(a)
  <2>1. ~Claim(a)
    BY DEF Claim, SetStatus, RefusedForGood, TypeOK
  <2> QED
    BY <1>1, <2>1, ClearStays
<1>2. CASE ~Clear(a)
  <2>1. ~RefusedForGood(a) /\ ~Deliverable(a)
    BY <1>2 DEF PromiseInv, RefusedIsClear, AttemptsDoNotOverlap, RestIsClear, Deliverable
  <2> USE DEF RefusedForGood, SetStatus, AuditOutcome, Event, TypeOK
  <2>2. ASSUME NEW b \in Actions, RefuseLapsed(b) \/ RefuseRevoked(b) \/ Supersede(b)
        PROVE  FALSE
    <3>1. b # a
      BY <2>1, <2>2 DEF RefuseLapsed, RefuseRevoked, Supersede
    <3> QED
      BY <2>1, <2>2, <3>1 DEF RefuseLapsed, RefuseRevoked, Supersede
  <2>3. ASSUME NEW b \in Actions, Append(b) \/ Claim(b) \/ MarkStale(b) \/ OperatorCancel(b) \/ OperatorRetry(b)
        PROVE  FALSE
    BY <2>1, <2>3 DEF Append, Claim, MarkStale, OperatorCancel, OperatorRetry
  <2>4. ASSUME NEW b \in Actions, NEW n \in Attempt, NEW kind \in Kind, ApplyResult(b, n, kind)
        PROVE  FALSE
    BY <2>1, <2>4 DEF ApplyResult
  <2>5. ASSUME NEW r \in Reconcilers, Reconcile(r)
        PROVE  FALSE
    BY <2>1, <2>5 DEF Reconcile, Reading
  <2>6. ASSUME UNCHANGED <<status, audit>>
        PROVE  FALSE
    BY <2>1, <2>6
  <2>7. CASE \/ \E b \in Actions, n \in Attempt : Deliver(b, n) \/ EndWithoutResult(b, n)
             \/ \E r \in Reconcilers :
                  \/ \E b \in Actions : ReadUnknown(r, b)
                  \/ \E answer \in {"succeeded", "not_found"} : AskProvider(r, answer)
                  \/ DropReading(r)
             \/ Surroundings
             \/ UNCHANGED vars
    <3>1. UNCHANGED <<status, audit>>
      BY <2>7 DEF Deliver, EndWithoutResult, ReadUnknown, AskProvider, DropReading, Surroundings,
                  ChangeAuthority, ChangeEligibility, ClaimAges, RetryFallsDue, Arrive,
                  ChangePause, vars
    <3> QED
      BY <3>1, <2>6
  <2> QED
    BY <2>2, <2>3, <2>4, <2>5, <2>7 DEF Next, System, Execute, Proceed
<1> QED
  BY <1>1, <1>2

LEMMA PromiseInvStep ==
  ASSUME Punctual = TRUE, TypeOK, PromiseInv, [Next]_vars
  PROVE  PromiseInv'
BY NoOverlapStep, EvidenceStep, RefusedStep DEF PromiseInv

LEMMA PromiseStep ==
  ASSUME TypeOK, PromiseInv, [Next]_vars, TypeOK', PromiseInv'
  PROVE  [Promise!Next]_<<EffectBar, VerdictBar>>
<1> DEFINE V(a) == VerdictOf(a)
<1>1. ASSUME NEW a \in Actions, NEW n \in Attempt, NEW fate \in {"effect", "rejected"},
             Arrive(a, n, fate)
      PROVE  [Promise!Next]_<<EffectBar, VerdictBar>>
  <2>1. /\ provider[a][n] = "wire"
        /\ provider' = [provider EXCEPT ![a][n] = fate]
        /\ UNCHANGED <<status, audit>>
    BY <1>1 DEF Arrive
  <2>2. \A b \in Actions : VerdictOf(b)' = VerdictOf(b)
    BY <2>1 DEF VerdictOf, RefusedForGood
  <2>3. \A b \in Actions : b # a => Effects(b)' = Effects(b)
    BY <2>1 DEF Effects, TypeOK
  <2>4. CASE fate = "rejected"
    <3>1. Effects(a)' = Effects(a)
      BY <2>1, <2>4 DEF Effects, TypeOK
    <3> QED
      BY <2>2, <2>3, <3>1, Stutters
  <2>5. CASE fate = "effect"
    <3>1. n = attempts[a]
      <4>1. ~(n > attempts[a]) /\ ~(n < attempts[a])
        BY <2>1 DEF PromiseInv, AttemptsDoNotOverlap, UnbegunSentNothing, EarlierAreHarmless
      <4>2. n \in Int /\ attempts[a] \in Int
        BY OutboxAssumption DEF TypeOK, Attempt
      <4> QED
        BY <4>1, <4>2
    <3>2. Effects(a) = {} /\ Cardinality(Effects(a)) = 0
      <4>1. n \notin Effects(a)
        BY <2>1 DEF Effects
      <4> QED
        BY <4>1, <3>1, CountEffects DEF PromiseInv
    <3>3. Effects(a)' # {}
      BY <2>1, <2>5 DEF Effects, TypeOK
    <3>4. Cardinality(Effects(a))' = 1
      <4>1. Effects(a)' \subseteq {attempts[a]}
        BY <3>1, <3>2, <2>1 DEF Effects, TypeOK
      <4>2. Effects(a)' = {attempts[a]}
        BY <4>1, <3>3
      <4> QED
        BY <4>2, FS_Singleton
    <3>5. VerdictOf(a) \in {"open", "cancelled"}
      <4>1. status[a] # "succeeded"
        BY <3>2 DEF PromiseInv, Evidence, SuccessHasEffect
      <4>2. ~Clear(a)
        BY <2>1 DEF Clear
      <4>3. status[a] # "dead_letter" /\ ~RefusedForGood(a)
        BY <4>2 DEF PromiseInv, AttemptsDoNotOverlap, RestIsClear, RefusedIsClear
      <4> QED
        BY <4>1, <4>3 DEF VerdictOf
    <3>6. /\ EffectBar' = [EffectBar EXCEPT ![a] = 1]
          /\ UNCHANGED VerdictBar
          /\ EffectBar[a] = 0
      BY <2>2, <2>3, <3>2, <3>4 DEF EffectBar, VerdictBar
    <3>7. Promise!TakeEffect(a)
      BY <3>5, <3>6 DEF Promise!TakeEffect, EffectBar, VerdictBar
    <3> QED
      BY <3>7 DEF Promise!Next
  <2> QED
    BY <2>4, <2>5
<1>2. ASSUME NEW a \in Actions, NEW s \in Status, NEW e,
             SetStatus(a, s), AuditOutcome(a, e), UNCHANGED provider,
             \/ VerdictOf(a)' = VerdictOf(a)
             \/ VerdictOf(a) = "open" /\ VerdictOf(a)' = "succeeded"
             \/ VerdictOf(a) = "open" /\ VerdictOf(a)' \in {"failed", "refused"}
             \/ VerdictOf(a) \in {"open", "failed"} /\ VerdictOf(a)' = "cancelled"
      PROVE  [Promise!Next]_<<EffectBar, VerdictBar>>
  <2>1. /\ UNCHANGED EffectBar
        /\ VerdictBar' = [VerdictBar EXCEPT ![a] = VerdictOf(a)']
        /\ VerdictBar[a] = VerdictOf(a)
        /\ EffectBar[a] = Cardinality(Effects(a))
        /\ Effects(a)' = Effects(a)
    BY <1>2, RowShowsAsVerdict DEF EffectBar, VerdictBar, Effects
  <2>2. CASE VerdictOf(a)' = VerdictOf(a)
    BY <2>1, <2>2 DEF VerdictBar
  <2>3. CASE VerdictOf(a) = "open" /\ VerdictOf(a)' = "succeeded"
    <3>1. status'[a] = "succeeded"
      BY <2>3 DEF VerdictOf
    <3>2. Effects(a) # {}
      BY <3>1, <2>1 DEF PromiseInv, Evidence, SuccessHasEffect
    <3>3. EffectBar[a] = 1
      BY <3>2, <2>1, CountEffects DEF PromiseInv
    <3> QED
      BY <2>1, <2>3, <3>3 DEF Promise!Next, Promise!Succeed, Promise!Decide, EffectBar, VerdictBar
  <2>4. CASE VerdictOf(a) = "open" /\ VerdictOf(a)' \in {"failed", "refused"}
    <3>1. status'[a] = "dead_letter" \/ RefusedForGood(a)'
      BY <2>4 DEF VerdictOf
    <3>2. Clear(a)'
      BY <3>1 DEF PromiseInv, AttemptsDoNotOverlap, RestIsClear, RefusedIsClear
    <3>3. Effects(a) = {}
      BY <3>2, <2>1 DEF Clear, Effects
    <3>4. EffectBar[a] = 0
      BY <3>3, <2>1, CountEffects DEF PromiseInv
    <3> QED
      BY <2>1, <2>4, <3>4
         DEF Promise!Next, Promise!Fail, Promise!Refuse, Promise!Decide, EffectBar, VerdictBar
  <2>5. CASE VerdictOf(a) \in {"open", "failed"} /\ VerdictOf(a)' = "cancelled"
    BY <2>1, <2>5 DEF Promise!Next, Promise!Cancel, Promise!Decide, EffectBar, VerdictBar
  <2> QED
    BY <1>2, <2>2, <2>3, <2>4, <2>5
<1> USE DEF VerdictOf, RefusedForGood, Event, TypeOK
<1>3. ASSUME NEW a \in Actions,
             MarkStale(a) \/ RefuseLapsed(a) \/ RefuseRevoked(a) \/ Supersede(a)
               \/ OperatorCancel(a) \/ OperatorRetry(a)
      PROVE  [Promise!Next]_<<EffectBar, VerdictBar>>
  <2>1. PICK s \in Status, c \in Cause :
          /\ SetStatus(a, s) /\ AuditOutcome(a, Event(s, c, 0)) /\ UNCHANGED provider
          /\ \/ status[a] \in {"pending", "retryable", "executing"} /\ s \in {"outcome_unknown", "retryable"}
             \/ status[a] \in {"pending", "retryable"} /\ s = "cancelled"
             \/ /\ status[a] \in {"pending", "retryable", "dead_letter", "outcome_unknown"}
                /\ s = "cancelled" /\ c = "operator"
    BY <1>3 DEF MarkStale, RefuseLapsed, RefuseRevoked, Supersede, OperatorCancel, OperatorRetry,
                Deliverable, Cancellable, SafeToRetry, ClaimIsStale, Status, Cause
  <2>2. status'[a] = s /\ audit'[a] = Event(s, c, 0)
    BY <2>1, RowShowsAsVerdict
  <2>3. \/ VerdictOf(a)' = VerdictOf(a)
        \/ VerdictOf(a) = "open" /\ VerdictOf(a)' \in {"failed", "refused"}
        \/ VerdictOf(a) \in {"open", "failed"} /\ VerdictOf(a)' = "cancelled"
    BY <2>1, <2>2
  <2> QED
    BY <2>1, <2>3, <1>2
<1>4. ASSUME NEW a \in Actions, NEW n \in Attempt, NEW kind \in Kind, ApplyResult(a, n, kind)
      PROVE  [Promise!Next]_<<EffectBar, VerdictBar>>
  <2> DEFINE s == ResultStatus(n, kind)
  <2>1. /\ SetStatus(a, s) /\ AuditOutcome(a, Event(s, "adapter", n)) /\ UNCHANGED provider
        /\ status[a] = "executing"
        /\ s \in {"succeeded", "retryable", "outcome_unknown", "dead_letter"}
    BY <1>4 DEF ApplyResult, ResultStatus, Kind
  <2>2. status'[a] = s
    BY <2>1, ResultTypes, RowShowsAsVerdict
  <2>3. \/ VerdictOf(a)' = VerdictOf(a)
        \/ VerdictOf(a) = "open" /\ VerdictOf(a)' = "succeeded"
        \/ VerdictOf(a) = "open" /\ VerdictOf(a)' \in {"failed", "refused"}
    BY <2>1, <2>2
  <2> QED
    BY <2>1, <2>3, <1>2, ResultTypes
<1>5. ASSUME NEW r \in Reconcilers, Reconcile(r)
      PROVE  [Promise!Next]_<<EffectBar, VerdictBar>>
  <2>1. PICK a \in Actions, s \in {"succeeded", "retryable"} :
          /\ SetStatus(a, s) /\ AuditOutcome(a, Event(s, "reconciliation", 0))
          /\ UNCHANGED provider
          /\ status[a] = "outcome_unknown"
          /\ s \in Status
    BY <1>5 DEF Reconcile, Reconciled, Reading, Status
  <2>2. status'[a] = s
    BY <2>1, RowShowsAsVerdict
  <2>3. \/ VerdictOf(a)' = VerdictOf(a)
        \/ VerdictOf(a) = "open" /\ VerdictOf(a)' = "succeeded"
    BY <2>1, <2>2
  <2> QED
    BY <2>1, <2>3, <1>2
<1>6. ASSUME \/ \E a \in Actions : Append(a) \/ Claim(a)
             \/ \E a \in Actions, n \in Attempt : Deliver(a, n) \/ EndWithoutResult(a, n)
             \/ \E r \in Reconcilers :
                  \/ \E a \in Actions : ReadUnknown(r, a)
                  \/ \E answer \in {"succeeded", "not_found"} : AskProvider(r, answer)
                  \/ DropReading(r)
             \/ ChangePause
             \/ \E a \in Actions :
                  \/ \E to \in Authority : ChangeAuthority(a, to)
                  \/ (\E to \in Sendable : ChangeEligibility(a, to))
                  \/ ClaimAges(a) \/ RetryFallsDue(a)
             \/ UNCHANGED vars
      PROVE  UNCHANGED <<EffectBar, VerdictBar>>
  <2>1. ASSUME NEW a \in Actions, Append(a) \/ Claim(a)
        PROVE  UNCHANGED <<EffectBar, VerdictBar>>
    <3>1. UNCHANGED <<provider, audit>>
      BY <2>1 DEF Append, Claim
    <3>2. \A b \in Actions : VerdictOf(b)' = VerdictOf(b)
      BY <2>1, <3>1 DEF Append, Claim, SetStatus, Deliverable
    <3> QED
      BY <3>1, <3>2, Stutters DEF Effects
  <2>2. ASSUME NEW a \in Actions, NEW n \in Attempt, Deliver(a, n)
        PROVE  UNCHANGED <<EffectBar, VerdictBar>>
    <3>1. \A b \in Actions : Effects(b)' = Effects(b)
      BY <2>2 DEF Deliver, Effects, PromiseInv, Evidence, ClaimedSentNothing
    <3> QED
      BY <2>2, <3>1, Stutters DEF Deliver
  <2>3. CASE UNCHANGED <<status, audit, provider>>
    BY <2>3, Stutters DEF Effects
  <2>4. CASE \/ \E a \in Actions, n \in Attempt : EndWithoutResult(a, n)
             \/ \E r \in Reconcilers :
                  \/ \E a \in Actions : ReadUnknown(r, a)
                  \/ \E answer \in {"succeeded", "not_found"} : AskProvider(r, answer)
                  \/ DropReading(r)
             \/ ChangePause
             \/ \E a \in Actions :
                  \/ \E to \in Authority : ChangeAuthority(a, to)
                  \/ (\E to \in Sendable : ChangeEligibility(a, to))
                  \/ ClaimAges(a) \/ RetryFallsDue(a)
             \/ UNCHANGED vars
    <3>1. UNCHANGED <<status, audit, provider>>
      BY <2>4 DEF EndWithoutResult, ReadUnknown, AskProvider, DropReading, ChangePause,
                  ChangeAuthority, ChangeEligibility, ClaimAges, RetryFallsDue, vars
    <3> QED
      BY <3>1, <2>3
  <2> QED
    BY <1>6, <2>1, <2>2, <2>4
<1> QED
  BY <1>1, <1>3, <1>4, <1>5, <1>6 DEF Next, System, Surroundings, Execute, Proceed

LEMMA PromiseInitial == Init => PromiseInv /\ Promise!Init
<1> SUFFICES ASSUME Init
             PROVE  PromiseInv /\ Promise!Init
  OBVIOUS
<1>1. \A a \in Actions : Effects(a) = {}
  BY DEF Init, Effects
<1>2. Promise!Init
  <2>1. \A a \in Actions : status[a] = "absent"
    BY DEF Init
  <2>2. \A a \in Actions : VerdictOf(a) = "open"
    BY <2>1 DEF VerdictOf, RefusedForGood
  <2> QED
    BY <1>1, <2>2, FS_EmptySet DEF Promise!Init
<1> QED
  BY <1>2, NoOverlapInit, EvidenceInit DEF Init, PromiseInv, RefusedIsClear, RefusedForGood

(* The outbox implements its promise: one effect at most, reported as a    *)
(* success only if it happened, and none after a refusal or a failure, if  *)
(* no execution outlives its claim.                                        *)
THEOREM PromiseKept ==
  ASSUME Punctual = TRUE
  PROVE  Spec => KeepsPromise
<1>1. TypeOK /\ PromiseInv /\ [Next]_vars => PromiseInv'
  BY PromiseInvStep
<1>2. TypeOK /\ PromiseInv /\ [Next]_vars /\ TypeOK' /\ PromiseInv'
        => [Promise!Next]_<<[a \in Actions |-> Cardinality(Effects(a))],
                            [a \in Actions |-> VerdictOf(a)]>>
  BY PromiseStep DEF EffectBar, VerdictBar
<1> QED
  BY <1>1, <1>2, PromiseInitial, TypeCorrect, PTL DEF Spec, KeepsPromise, Promise!Spec

(* Once the outbox refused an action no request sent before takes effect.  *)
THEOREM RefusedForEver ==
  ASSUME Punctual = TRUE
  PROVE  Spec => RefusalIsFinal
<1>1. TypeOK /\ PromiseInv /\ [Next]_vars => PromiseInv'
  BY PromiseInvStep
<1>2. TypeOK /\ PromiseInv /\ [Next]_vars
        => [\A a \in Actions : RefusedForGood(a) => Effects(a)' = Effects(a)]_vars
  <2> SUFFICES ASSUME TypeOK, PromiseInv, [Next]_vars, NEW a \in Actions, RefusedForGood(a)
               PROVE  Effects(a)' = Effects(a)
    OBVIOUS
  <2>1. Clear(a) /\ ~Claim(a)
    BY DEF PromiseInv, RefusedIsClear, RefusedForGood, Claim, Deliverable
  <2> QED
    BY <2>1, ClearStays DEF Clear, Effects
<1> QED
  BY <1>1, <1>2, PromiseInitial, TypeCorrect, PTL DEF Spec, RefusalIsFinal

=============================================================================
