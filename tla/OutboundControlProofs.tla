----------------------- MODULE OutboundControlProofs -----------------------
(***************************************************************************)
(* Proofs about OutboundControl, for any operators, commands and workers.  *)
(* That every resume was justified is not inductive: an approval only      *)
(* looks at the row.  The invariant says what the row stands for in the    *)
(* history: a pause in force is the latest pause, and a pending request    *)
(* was made by somebody who had seen it.  That the history explains the    *)
(* row is proved with the replay of one event more: it agrees with the     *)
(* shorter one at every number, since there is no least at which it fails. *)
(***************************************************************************)
EXTENDS OutboundControl, FiniteSetTheorems, TLAPS

LEMMA WrittenTyped ==
  ASSUME TypeOK, NEW operation \in Operation, NEW actor \in Operators, NEW command \in Commands
  PROVE  /\ Written(operation, actor, command) \in State
         /\ Written(operation, actor, command).revision = control.revision + 1
<1> DEFINE next == control.revision + 1
<1>1. control \in State /\ next \in Nat
  BY DEF TypeOK, State
<1>2. Unpaused(next) \in State /\ Unpaused(next).revision = next
  BY <1>1 DEF Unpaused, State
<1>3. CASE operation = "pause"
  BY <1>2, <1>3 DEF Written, State
<1>4. CASE operation = "request_resume"
  BY <1>1, <1>4 DEF Written, State
<1>5. CASE operation = "approve_resume"
  BY <1>2, <1>5 DEF Written
<1> QED
  BY <1>3, <1>4, <1>5 DEF Operation

(* The variables keep their types, through every step.                     *)
LEMMA StepTyped ==
  ASSUME TypeOK, [Next]_vars
  PROVE  TypeOK'
<1>1. ASSUME NEW c \in Commands, NEW o \in Operation, NEW x \in 0..control.revision,
             NEW p \in Operators, NEW q \in Commands \cup {NoRequest}, Command(c, o, x, p, q)
      PROVE TypeOK'
  <2>1. control.revision \in Nat
    BY DEF TypeOK, State
  <2>2. [command |-> c, operation |-> o, expected |-> x, actor |-> p, request |-> q,
         result |-> control.revision + 1] \in EventRow
    BY <2>1 DEF EventRow
  <2> QED BY <1>1, <2>2, WrittenTyped DEF Command, TypeOK
<1>2. ASSUME NEW q \in Commands, NEW t \in Receipts, NEW p \in Operators,
             RecordReconciliation(q, t, p)
      PROVE TypeOK'
  BY <1>2 DEF RecordReconciliation, TypeOK, Fact
<1>3. ASSUME NEW w \in Workers, OpenClaim(w) \/ EndClaim(w) PROVE TypeOK'
  BY <1>3 DEF OpenClaim, EndClaim, TypeOK
<1>4. CASE UNCHANGED vars
  BY <1>4 DEF vars, TypeOK
<1> QED
  BY <1>1, <1>2, <1>3, <1>4 DEF Next

(* The row, the history, the facts and the claims stay well typed.         *)
THEOREM TypeCorrect == Spec => []TypeOK
<1>1. Init => TypeOK
  BY DEF Init, TypeOK, Unpaused, State
<1>2. TypeOK /\ [Next]_vars => TypeOK'
  BY StepTyped
<1> QED
  BY <1>1, <1>2, PTL DEF Spec

(* No claim transaction that was told "enabled" is open under a pause.     *)
THEOREM ClaimsPrecedePauses == Spec => []NoClaimCommitsPaused
<1>1. Init => NoClaimCommitsPaused
  BY DEF Init, NoClaimCommitsPaused
<1>2. NoClaimCommitsPaused /\ [Next]_vars => NoClaimCommitsPaused'
  BY DEF NoClaimCommitsPaused, Next, Command, Locked, RecordReconciliation, OpenClaim, EndClaim, vars
<1> QED
  BY <1>1, <1>2, PTL DEF Spec

-----------------------------------------------------------------------------
(* What the row stands for in the history.                                 *)
Numbered ==
  /\ \A e \in event : e.result <= control.revision
  /\ \A e, f \in event : e.result = f.result => e = f

LatestPause(p) ==
  /\ p \in event /\ p.operation = "pause"
  /\ \A f \in event : f.operation = "pause" => f.result <= p.result

InForce(p) == LatestPause(p) /\ p.actor = control.pausedBy

PauseStands == control.paused => \E p \in event : InForce(p)

RequestStands == control.request # NoRequest =>
  /\ control.paused
  /\ \E q, p \in event :
       /\ q.operation = "request_resume" /\ q.command = control.request
       /\ q.actor = control.requestedBy
       /\ InForce(p) /\ p.result <= q.expected

HistoryStands == Numbered /\ PauseStands /\ RequestStands /\ EveryResumeIsJustified

(* A new event is later than all there are: it changes nothing that an     *)
(* earlier resume rests on.                                                *)
LEMMA JustificationStays ==
  ASSUME Numbered, NEW new, event' = event \cup {new}, new.result = control.revision + 1,
         TypeOK, reconciliation \subseteq reconciliation',
         NEW e \in event, Justified(e)
  PROVE  Justified(e)'
<1>1. e.result \in Nat /\ control.revision \in Nat /\ e.result <= control.revision
  BY DEF TypeOK, EventRow, State, Numbered
<1>2. ASSUME NEW operation PROVE Since(e, operation)' = Since(e, operation)
  BY <1>1 DEF Since
<1>3. ASSUME NEW request, Reconciled(request) PROVE Reconciled(request)'
  BY <1>3 DEF Reconciled
<1> QED
  BY <1>2, <1>3 DEF Justified

(* Of events with distinct results the latest is the one chosen.           *)
LEMMA LatestIsChosen ==
  ASSUME TypeOK, Numbered, NEW p, LatestPause(p), NEW pauses,
         pauses = {f \in event : f.operation = "pause"}
  PROVE  LatestOf(pauses) = p
<1>1. p \in pauses /\ \A f \in pauses : f.result <= p.result
  BY DEF LatestPause
<1>2. LatestOf(pauses) \in pauses /\ \A f \in pauses : f.result <= LatestOf(pauses).result
  BY <1>1 DEF LatestOf
<1>3. p.result \in Nat /\ LatestOf(pauses).result \in Nat
  BY <1>1, <1>2 DEF TypeOK, EventRow
<1> QED
  BY <1>1, <1>2, <1>3 DEF Numbered

LEMMA CommandStands ==
  ASSUME TypeOK, HistoryStands,
         NEW c \in Commands, NEW o \in Operation, NEW x \in 0..control.revision,
         NEW a \in Operators, NEW q \in Commands \cup {NoRequest}, Command(c, o, x, a, q)
  PROVE  HistoryStands'
<1> PICK new : new = [command |-> c, operation |-> o, expected |-> x, actor |-> a,
                      request |-> q, result |-> control.revision + 1]
  OBVIOUS
<1>1. control.revision \in Nat /\ \A e \in event : e.result \in Nat
  BY DEF TypeOK, State, EventRow
<1>2. /\ event' = event \cup {new} /\ control' = Written(o, a, c)
      /\ x = control.revision /\ Allowed(o, a, q) /\ UNCHANGED reconciliation
  BY DEF Command, IsCurrent
<1>3. control'.revision = control.revision + 1
  BY <1>2, WrittenTyped
<1>4. \A e \in event : e.result <= control.revision
  BY DEF HistoryStands, Numbered
<1>5. Numbered'
  BY <1>1, <1>2, <1>3, <1>4 DEF HistoryStands, Numbered
<1>6. CASE o = "pause"
  <2>1. /\ control'.paused /\ control'.pausedBy = a /\ control'.request = NoRequest
    BY <1>2, <1>6 DEF Written, Unpaused
  <2>2. LatestPause(new)'
    BY <1>1, <1>2, <1>4, <1>6 DEF LatestPause
  <2>3. PauseStands' /\ RequestStands'
    BY <1>2, <2>1, <2>2 DEF PauseStands, RequestStands, InForce
  <2>4. EveryResumeIsJustified'
    BY <1>2, <1>6, JustificationStays DEF HistoryStands, EveryResumeIsJustified
  <2> QED BY <1>5, <2>3, <2>4 DEF HistoryStands
<1>7. CASE o = "request_resume"
  <2>1. /\ control'.paused = control.paused /\ control'.pausedBy = control.pausedBy
        /\ control'.request = c /\ control'.requestedBy = a
    BY <1>2, <1>7 DEF Written, TypeOK, State
  <2>2. control.paused
    BY <1>2, <1>7 DEF Allowed
  <2>3. PICK p \in event : InForce(p)
    BY <2>2 DEF HistoryStands, PauseStands
  <2>4. InForce(p)'
    BY <1>2, <1>7, <2>1, <2>3 DEF InForce, LatestPause
  <2>5. p.result <= new.expected
    BY <1>2, <1>4
  <2>6. /\ new.operation = "request_resume" /\ new.command = control'.request
        /\ new.actor = control'.requestedBy /\ new \in event'
    BY <1>2, <1>7, <2>1
  <2>7. PauseStands' /\ RequestStands'
    BY <1>2, <2>1, <2>2, <2>4, <2>5, <2>6 DEF PauseStands, RequestStands
  <2>8. EveryResumeIsJustified'
    BY <1>2, <1>7, JustificationStays DEF HistoryStands, EveryResumeIsJustified
  <2> QED BY <1>5, <2>7, <2>8 DEF HistoryStands
<1>8. CASE o = "approve_resume"
  <2>1. /\ control.request = q /\ q # NoRequest
        /\ control.requestedBy # a /\ control.pausedBy # a /\ Reconciled(q)
    BY <1>2, <1>8 DEF Allowed, Command
  <2>2. PICK r, p \in event :
          /\ r.operation = "request_resume" /\ r.command = q
          /\ r.actor = control.requestedBy
          /\ InForce(p) /\ p.result <= r.expected
    BY <2>1 DEF HistoryStands, RequestStands
  <2>3. ~control'.paused /\ control'.request = NoRequest
    BY <1>2, <1>8 DEF Written, Unpaused
  <2>4. PauseStands' /\ RequestStands'
    BY <2>3 DEF PauseStands, RequestStands
  <2>5. Since(new, "request_resume")' = {f \in event : f.operation = "request_resume"}
        /\ Since(new, "pause")' = {f \in event : f.operation = "pause"}
    BY <1>1, <1>2, <1>4, <1>8 DEF Since
  <2>6. LatestOf(Since(new, "pause")') = p /\ Since(new, "pause")' # {}
    BY <2>2, <2>5, LatestIsChosen DEF HistoryStands, InForce, LatestPause
  <2>7. Justified(new)'
    <3>1. r \in Since(new, "request_resume")' /\ r.command = new.request /\ r.actor # new.actor
      BY <2>1, <2>2, <2>5
    <3>2. Reconciled(r.command)'
      BY <1>2, <2>1, <2>2 DEF Reconciled
    <3>3. p.result <= r.expected /\ p.actor # new.actor
      BY <2>1, <2>2 DEF InForce
    <3> QED BY <2>6, <3>1, <3>2, <3>3 DEF Justified, LatestOf
  <2>8. EveryResumeIsJustified'
    BY <1>2, <2>7, JustificationStays DEF HistoryStands, EveryResumeIsJustified
  <2> QED BY <1>5, <2>4, <2>8 DEF HistoryStands
<1> QED
  BY <1>6, <1>7, <1>8 DEF Operation

LEMMA FactStands ==
  ASSUME HistoryStands, UNCHANGED <<control, event>>, reconciliation \subseteq reconciliation'
  PROVE  HistoryStands'
<1>1. Numbered' /\ PauseStands' /\ RequestStands'
  BY DEF HistoryStands, Numbered, PauseStands, RequestStands, InForce, LatestPause
<1>2. ASSUME NEW e, Justified(e) PROVE Justified(e)'
  BY <1>2 DEF Justified, Since, Reconciled
<1> QED
  BY <1>1, <1>2 DEF HistoryStands, EveryResumeIsJustified

(* Every resume was approved by somebody who ordered neither the pause nor *)
(* the request, for a request made in view of that pause and reconciled.   *)
THEOREM ResumesAreJustified == Spec => []EveryResumeIsJustified
<1>1. Init => HistoryStands
  BY DEF Init, Unpaused, HistoryStands, Numbered, PauseStands, RequestStands, EveryResumeIsJustified
<1>2. ASSUME TypeOK, HistoryStands, [Next]_vars PROVE HistoryStands'
  BY <1>2, CommandStands, FactStands DEF Next, RecordReconciliation, OpenClaim, EndClaim, vars
<1>3. HistoryStands => EveryResumeIsJustified
  BY DEF HistoryStands
<1> QED
  BY <1>1, <1>2, <1>3, TypeCorrect, PTL DEF Spec
-----------------------------------------------------------------------------
(* The history explains the row.  A replay is a recursion over the numbers *)
(* of the events; what holds of it is proved by the least number at which  *)
(* it would fail.                                                          *)

LEMMA LeastNumber ==
  ASSUME NEW T, T \subseteq Nat, T # {}
  PROVE  \E n \in T : \A m \in T : n <= m
<1>1. PICK n \in T : \A m \in T : ~(<<m, n>> \in OpToRel(<, Nat))
  BY NatLessThanWellFounded, WFMin, Zenon
<1>2. \A m \in T : m \in Nat /\ n \in Nat
  OBVIOUS
<1>3. \A m \in T : ~(m < n)
  BY <1>1, <1>2, Zenon DEF OpToRel
<1> QED
  BY <1>2, <1>3

EventOf(events, n) == CHOOSE e \in events : e.result = n
RowAfter(e, s, n) ==
  CASE e.operation = "pause" ->
         [paused |-> TRUE, revision |-> n, pausedBy |-> e.actor,
          requestedBy |-> Nobody, request |-> NoRequest]
    [] e.operation = "request_resume" ->
         [s EXCEPT !.revision = n, !.requestedBy = e.actor, !.request = e.command]
    [] e.operation = "approve_resume" -> Unpaused(n)
Replays(after, events, N) ==
  after = [n \in 0..N |-> IF n = 0 THEN Unpaused(0)
                          ELSE RowAfter(EventOf(events, n), after[n - 1], n)]
ReplayOf(events) ==
  (CHOOSE after : Replays(after, events, Cardinality(events)))[Cardinality(events)]

LEMMA ReplayIs == Replay = ReplayOf(event) /\ Replay' = ReplayOf(event')
BY DEF Replay, ReplayOf, Replays, EventAt, EventOf, RowAfter

LEMMA ReplayRows ==
  ASSUME NEW after, NEW events, NEW N \in Nat, Replays(after, events, N)
  PROVE  /\ after[0] = Unpaused(0)
         /\ \A n \in 1..N : after[n] = RowAfter(EventOf(events, n), after[n - 1], n)
<1>1. after[0] = Unpaused(0)
  BY DEF Replays
<1>2. ASSUME NEW n \in 1..N
      PROVE  after[n] = RowAfter(EventOf(events, n), after[n - 1], n)
  <2>1. n \in 0..N /\ n # 0
    OBVIOUS
  <2> QED
    BY <2>1 DEF Replays
<1> QED
  BY <1>1, <1>2

LEMMA ReplayExists ==
  ASSUME NEW events, NEW L \in Nat
  PROVE  \E after : Replays(after, events, L)
<1> DEFINE Bad == {N \in Nat : ~ \E after : Replays(after, events, N)}
<1> SUFFICES ASSUME Bad # {} PROVE FALSE
  OBVIOUS
<1>1. PICK N \in Bad : \A m \in Bad : N <= m
  <2>1. Bad \subseteq Nat
    OBVIOUS
  <2> HIDE DEF Bad
  <2> QED
    BY <2>1, LeastNumber
<1>2. CASE N = 0
  <2>1. Replays([n \in 0..0 |-> Unpaused(0)], events, 0)
    BY DEF Replays
  <2> QED
    BY <1>1, <1>2, <2>1
<1>3. CASE N # 0
  <2>1. N \in Nat /\ N - 1 \in Nat /\ N - 1 \notin Bad
    <3>1. N \in Nat
      BY <1>1
    <3>2. N - 1 \in Nat /\ ~(N <= N - 1)
      BY <1>3, <3>1
    <3> HIDE DEF Bad
    <3> QED
      BY <1>1, <3>1, <3>2
  <2>2. PICK shorter : Replays(shorter, events, N - 1)
    BY <2>1
  <2> DEFINE after == [n \in 0..N |-> IF n < N THEN shorter[n]
                                      ELSE RowAfter(EventOf(events, N), shorter[N - 1], N)]
             replayed == [n \in 0..N |-> IF n = 0 THEN Unpaused(0)
                                         ELSE RowAfter(EventOf(events, n), after[n - 1], n)]
  <2>3. ASSUME NEW n \in 0..N
        PROVE  after[n] = replayed[n]
    <3>1. CASE n < N
      <4>1. n \in 0..(N - 1) /\ (n = 0 \/ n \in 1..(N - 1))
        BY <2>1, <3>1
      <4>2. shorter[n] = IF n = 0 THEN Unpaused(0)
                         ELSE RowAfter(EventOf(events, n), shorter[n - 1], n)
        BY <2>1, <2>2, <4>1, ReplayRows
      <4>3. n # 0 => after[n - 1] = shorter[n - 1]
        BY <2>1, <3>1
      <4> QED
        BY <3>1, <4>2, <4>3
    <3>2. CASE n = N
      <4>1. n # 0 /\ after[n - 1] = shorter[n - 1]
        BY <1>3, <2>1, <3>2
      <4>2. after[n] = RowAfter(EventOf(events, N), shorter[N - 1], N)
        BY <2>1, <3>2
      <4> QED
        BY <3>2, <4>1, <4>2
    <3> QED
      BY <2>1, <3>1, <3>2
  <2>4. Replays(after, events, N)
    <3>1. after = [n \in 0..N |-> after[n]] /\ replayed = [n \in 0..N |-> replayed[n]]
      OBVIOUS
    <3> HIDE DEF after, replayed
    <3>2. after = replayed
      BY <2>3, <3>1
    <3> QED
      BY <3>2 DEF Replays, replayed
  <2> QED
    BY <1>1, <2>4
<1> QED
  BY <1>2, <1>3

(* Histories with the same first N events replay the same first N rows.    *)
LEMMA ReplaysAgree ==
  ASSUME NEW N \in Nat, NEW M \in Nat, N <= M, NEW events, NEW others, NEW a, NEW b,
         Replays(a, events, N), Replays(b, others, M),
         \A n \in 1..N : EventOf(others, n) = EventOf(events, n)
  PROVE  b[N] = a[N]
<1> DEFINE Bad == {n \in 0..N : b[n] # a[n]}
<1> SUFFICES ASSUME Bad # {} PROVE FALSE
  OBVIOUS
<1>1. PICK n \in Bad : \A m \in Bad : n <= m
  <2>1. Bad \subseteq Nat
    OBVIOUS
  <2> HIDE DEF Bad
  <2> QED
    BY <2>1, LeastNumber
<1>2. n # 0
  BY <1>1, ReplayRows
<1>3. n \in 1..N /\ n \in 1..M /\ n - 1 \in 0..N /\ b[n - 1] = a[n - 1]
  BY <1>1, <1>2
<1>4. b[n] = a[n]
  BY <1>3, ReplayRows
<1> QED
  BY <1>1, <1>4

Explained ==
  /\ Numbered
  /\ IsFiniteSet(event) /\ Cardinality(event) = control.revision
  /\ HistoryExplainsState

LEMMA CommandIsExplained ==
  ASSUME TypeOK, Explained,
         NEW c \in Commands, NEW o \in Operation, NEW x \in 0..control.revision,
         NEW p \in Operators, NEW q \in Commands \cup {NoRequest}, Command(c, o, x, p, q)
  PROVE  Explained'
<1> DEFINE N == control.revision
           new == [command |-> c, operation |-> o, expected |-> x, actor |-> p,
                   request |-> q, result |-> N + 1]
<1>1. /\ N \in Nat /\ IsFiniteSet(event) /\ Cardinality(event) = N
      /\ \A e \in event : e.result \in 1..N
      /\ \A n \in 1..N : \E e \in event : e.result = n
      /\ \A e, f \in event : e.result = f.result => e = f
  BY DEF TypeOK, State, Explained, HistoryExplainsState, Numbered
<1>2. event' = event \cup {new} /\ control' = Written(o, p, c)
  BY DEF Command
<1>3. new.result = N + 1 /\ new.operation = o /\ new.actor = p /\ new.command = c
  OBVIOUS
<1> HIDE DEF new, N
<1>4. new \notin event
  BY <1>1, <1>3
<1>5. IsFiniteSet(event') /\ Cardinality(event') = N + 1
  BY <1>1, <1>2, <1>4, FS_AddElement
<1>6. control'.revision = N + 1
  BY <1>2, WrittenTyped DEF N
<1>7. {e.result : e \in event'} = 1..(N + 1)
  <2>1. ASSUME NEW e \in event' PROVE e.result \in 1..(N + 1)
    BY <1>1, <1>2, <1>3
  <2>2. ASSUME NEW n \in 1..(N + 1) PROVE \E e \in event' : e.result = n
    <3>1. n \in 1..N \/ n = N + 1
      BY <1>1
    <3> QED
      BY <1>1, <1>2, <1>3, <3>1
  <2> QED
    BY <2>1, <2>2
<1>8. Numbered'
  BY <1>1, <1>2, <1>3, <1>6 DEF Numbered
<1>9. \A n \in 1..N : EventOf(event', n) = EventOf(event, n)
  <2> SUFFICES ASSUME NEW n \in 1..N PROVE EventOf(event', n) = EventOf(event, n)
    OBVIOUS
  <2>1. PICK e \in event : e.result = n
    BY <1>1
  <2>2. \A f \in event' : f.result = n => f = e
    BY <1>1, <1>2, <1>3, <2>1
  <2>3. EventOf(event', n) = e
    BY <1>2, <2>1, <2>2 DEF EventOf
  <2>4. EventOf(event, n) = e
    BY <1>1, <2>1 DEF EventOf
  <2> QED
    BY <2>3, <2>4
<1>10. EventOf(event', N + 1) = new
  <2>1. \A f \in event' : f.result = N + 1 => f = new
    BY <1>1, <1>2
  <2> QED
    BY <1>2, <1>3, <2>1 DEF EventOf
<1> DEFINE a == CHOOSE after : Replays(after, event, N)
           b == CHOOSE after : Replays(after, event', N + 1)
<1>11. Replays(a, event, N) /\ Replays(b, event', N + 1)
  <2>1. \E after : Replays(after, event, N)
    BY <1>1, ReplayExists
  <2>2. \E after : Replays(after, event', N + 1)
    <3>1. N + 1 \in Nat
      BY <1>1
    <3> QED
      BY <3>1, ReplayExists
  <2> QED
    BY <2>1, <2>2, Zenon
<1>12. a[N] = control /\ Replay' = b[N + 1]
  BY <1>1, <1>5, ReplayIs DEF ReplayOf, Explained, HistoryExplainsState
<1> HIDE DEF a, b
<1>13. b[N] = control
  BY <1>1, <1>9, <1>11, <1>12, ReplaysAgree
<1>14. b[N + 1] = RowAfter(new, control, N + 1)
  <2>1. N + 1 \in 1..(N + 1) /\ (N + 1) - 1 = N
    BY <1>1
  <2> QED
    BY <1>1, <1>10, <1>11, <1>13, <2>1, ReplayRows
<1>15. RowAfter(new, control, N + 1) = Written(o, p, c)
  <2>1. CASE o = "pause"
    BY <1>3, <2>1 DEF RowAfter, Written, Unpaused, N
  <2>2. CASE o = "request_resume"
    BY <1>3, <2>2 DEF RowAfter, Written, N, TypeOK, State
  <2>3. CASE o = "approve_resume"
    BY <1>3, <2>3 DEF RowAfter, Written, N
  <2> QED
    BY <2>1, <2>2, <2>3 DEF Operation
<1>16. Replay' = control'
  BY <1>2, <1>12, <1>14, <1>15
<1> QED
  BY <1>5, <1>6, <1>7, <1>8, <1>16 DEF Explained, HistoryExplainsState

(* The results of the events are numbered without gap or repetition, and   *)
(* replayed in that order they give the row (outbound_control.command      *)
(* writes both in one transaction).                                        *)
THEOREM HistoryIsComplete == Spec => []HistoryExplainsState
<1>1. ASSUME Init PROVE Explained
  <2>1. event = {} /\ IsFiniteSet(event) /\ Cardinality(event) = 0
    BY <1>1, FS_EmptySet DEF Init
  <2>2. control = Unpaused(0) /\ control.revision = 0
    BY <1>1 DEF Init, Unpaused
  <2>3. Replay = Unpaused(0)
    <3> DEFINE a == CHOOSE after : Replays(after, event, 0)
    <3>1. Replays(a, event, 0)
      BY ReplayExists
    <3>2. Replay = a[0]
      BY <2>1, ReplayIs DEF ReplayOf
    <3> HIDE DEF a
    <3> QED
      BY <3>1, <3>2, ReplayRows
  <2> QED
    BY <2>1, <2>2, <2>3 DEF Explained, Numbered, HistoryExplainsState
<1>2. ASSUME TypeOK, Explained, [Next]_vars PROVE Explained'
  <2>1. ASSUME UNCHANGED <<control, event>> PROVE Explained'
    BY <1>2, <2>1, ReplayIs DEF Explained, Numbered, HistoryExplainsState
  <2> QED
    BY <1>2, <2>1, CommandIsExplained
       DEF Next, RecordReconciliation, OpenClaim, EndClaim, vars
<1>3. Explained => HistoryExplainsState
  BY DEF Explained
<1> QED
  BY <1>1, <1>2, <1>3, TypeCorrect, PTL DEF Spec

=============================================================================
