------------------------ MODULE RecoveryMessageProofs ------------------------
(***************************************************************************)
(* Theorems about RecoveryMessage, for any number of messages, commands,   *)
(* processes and attempts.  That a case is told once is not inductive: an  *)
(* answer is written long after the provider gave it.  The invariant says  *)
(* what is true in between of a process that delivers (Attended) and of    *)
(* one that checks (Checking); the history is true because of what the     *)
(* action was when its last event was written (Narrative).                 *)
(***************************************************************************)
EXTENDS RecoveryMessage, FiniteSetTheorems, TLAPS

Status == {"none", "pending", "executing", "succeeded", "retryable", "outcome_unknown",
           "dead_letter", "cancelled"}
Try == [outcome : {"started", "succeeded", "retryable", "outcome_unknown", "failed"},
        changed : BOOLEAN, asked : BOOLEAN]
Kinds == {"previewed", "approved", "revoked", "blocked", "started", "succeeded", "failed",
          "outcome_unknown", "retryable", "reconcile_started", "reconciled"}
By == {Nobody} \cup {CommandId(c) : c \in Commands} \cup {AttemptId(n) : n \in Nat}
Entry == [kind : Kinds, by : By]
RowType == [status : Status, attempts : Seq(Try), events : Seq(Entry), admitted : BOOLEAN]
Process == [at : {"idle", "claim", "execute", "ask", "deliver", "record", "write", "finish"},
            command : Commands \cup {Nobody}, message : Messages \cup {0}, number : Nat,
            result : {"none", "succeeded", "retryable", "outcome_unknown", "changed"}]
Processes == Procs \cup {Worker}

Tables ==
  /\ current \in 1..2 /\ content \in [Messages -> 0..2]
  /\ outbox \in [Messages -> Status]
  /\ attempts \in [Messages -> Seq(Try)] /\ events \in [Messages -> Seq(Entry)]
  /\ sink \subseteq Messages
  /\ stale \in [Messages -> BOOLEAN]
  /\ \A m \in Messages : Len(attempts[m]) <= AttemptCap /\ (stale[m] => outbox[m] # "none")
Working ==
  /\ procs \in [Processes -> Process]
  /\ \A p \in Processes : procs[p].at # "idle" => procs[p].message \in Messages

(* One message of the case has an action that may still take effect.       *)
Alone ==
  \A m, n \in Messages :
    outbox[m] \notin {"none", "cancelled"} /\ outbox[n] \notin {"none", "cancelled"} => m = n
SinkStands ==
  \A m \in Messages :
    /\ m \in sink => outbox[m] \in {"executing", "outcome_unknown", "succeeded"}
    /\ outbox[m] = "succeeded" => m \in sink

(* While a process delivers, the claim is its own.                         *)
Delivers(p) == procs[p].at \in {"deliver", "record"}
Attended ==
  \A p \in Processes : Delivers(p) =>
    LET m == procs[p].message IN
    /\ outbox[m] = "executing" /\ ~stale[m]
    /\ procs[p].number = Len(attempts[m]) /\ procs[p].number > 0
    /\ \A q \in Processes : Delivers(q) /\ procs[q].message = m => q = p
    /\ procs[p].at = "deliver" => m \notin sink
    /\ procs[p].at = "record" =>
         /\ m \in sink => procs[p].result \in {"succeeded", "outcome_unknown"}
         /\ procs[p].result = "succeeded" => m \in sink
         /\ procs[p].result # "none"

(* An answer of the provider is true as long as it may be written.         *)
Checking ==
  \A p \in Processes : procs[p].at = "write" =>
    LET m == procs[p].message IN
    /\ procs[p].number <= Len(attempts[m])
    /\ procs[p].result \in {"succeeded", "retryable"}
    /\ procs[p].result = "succeeded" => m \in sink
    /\ procs[p].result = "retryable" /\ procs[p].number = Len(attempts[m]) =>
         outbox[m] # "executing" /\ m \notin sink

(* The last event of a history binds the action.                           *)
Bound(m, r) ==
  /\ Kind(r) \in {"succeeded", "reconciled"} => r.status = "succeeded" /\ m \in sink
  /\ Kind(r) = "failed" => r.status = "dead_letter" /\ ~RefusedAsChanged(r)
  /\ Kind(r) \in {"blocked", "revoked"} => r.status = "cancelled"
  /\ Kind(r) = "reconcile_started" => r.status # "none"
Narrative == \A m \in Messages : Bound(m, Row(m))

IInv == Tables /\ Working /\ Alone /\ SinkStands /\ Attended /\ Checking /\ Narrative

-----------------------------------------------------------------------------
(* Rows: what adding an event and finishing a history make of them.        *)

LEMMA RowTyped ==
  ASSUME Tables, NEW m \in Messages
  PROVE  /\ Row(m) \in RowType
         /\ Row(m).status = outbox[m] /\ Row(m).attempts = attempts[m]
         /\ Row(m).events = events[m]
BY DEF Tables, Row, RowType

LEMMA KindTyped ==
  ASSUME NEW r \in RowType, r.events # <<>>
  PROVE  /\ Len(r.events) \in DOMAIN r.events
         /\ r.events[Len(r.events)] \in Entry
         /\ r.events[Len(r.events)].by \in By
<1>1. r.events \in Seq(Entry)
  BY DEF RowType
<1>2. Len(r.events) \in DOMAIN r.events
  BY <1>1
<1>3. \A e \in Entry : e.by \in By
  BY DEF Entry
<1> QED
  BY <1>1, <1>2, <1>3

LEMMA AddIs ==
  ASSUME NEW m, NEW r \in RowType, NEW kind \in Kinds, NEW by \in By
  PROVE  LET s == Add(m, r, kind, by)
         IN  /\ s \in RowType
             /\ s.status = r.status /\ s.attempts = r.attempts
             /\ Kind(s) = kind
<1> DEFINE e == [kind |-> kind, by |-> by]
           s == Add(m, r, kind, by)
<1>1. e \in Entry /\ e.kind = kind
  BY DEF Entry
<1>2. s = [r EXCEPT !.events = Append(r.events, e), !.admitted = s.admitted]
  BY DEF Add, RowType
<1>3. s.admitted \in BOOLEAN
  BY DEF Add, RowType
<1>4. r.events \in Seq(Entry)
  BY DEF RowType
<1> HIDE DEF s
<1>5. /\ Append(r.events, e) \in Seq(Entry) /\ Append(r.events, e) # <<>>
      /\ Append(r.events, e)[Len(Append(r.events, e))] = e
  BY <1>1, <1>4
<1>6. /\ s \in RowType /\ s.status = r.status /\ s.attempts = r.attempts
      /\ s.events = Append(r.events, e)
  BY <1>2, <1>3, <1>5 DEF RowType
<1>7. Kind(s) = kind
  BY <1>1, <1>5, <1>6 DEF Kind
<1> QED
  BY <1>6, <1>7 DEF s

LEMMA ClosedIs ==
  ASSUME NEW r \in RowType
  PROVE  LET s == Closed(r)
         IN  /\ s \in RowType /\ s.events = r.events
             /\ Len(s.attempts) = Len(r.attempts)
             /\ \/ s.status = r.status
                \/ r.status \in {"retryable", "dead_letter"} /\ s.status = "cancelled"
             /\ s.status = "dead_letter" => ~RefusedAsChanged(s)
<1>1. CASE r.status \in {"retryable", "dead_letter"} /\ RefusedAsChanged(r)
  BY <1>1 DEF Closed, RowType, Status
<1>2. CASE /\ ~(r.status \in {"retryable", "dead_letter"} /\ RefusedAsChanged(r))
           /\ r.status = "outcome_unknown" /\ Outcome(r) = "started"
  <2>1. r.attempts # <<>> /\ r.attempts \in Seq(Try)
    BY <1>2 DEF Outcome, RowType
  <2>2. Len(r.attempts) \in DOMAIN r.attempts /\ r.attempts[Len(r.attempts)] \in Try
    BY <2>1
  <2>3. [r.attempts[Len(r.attempts)] EXCEPT !.outcome = "outcome_unknown"] \in Try
    BY <2>2 DEF Try
  <2>4. LET t == [r.attempts EXCEPT ![Len(r.attempts)] = [@ EXCEPT !.outcome = "outcome_unknown"]]
        IN  t \in Seq(Try) /\ Len(t) = Len(r.attempts)
    BY <2>1, <2>2, <2>3
  <2>5. Closed(r) = [r EXCEPT !.attempts = [r.attempts EXCEPT ![Len(r.attempts)] =
                                              [@ EXCEPT !.outcome = "outcome_unknown"]]]
    BY <1>2 DEF Closed, RowType
  <2> QED
    BY <1>2, <2>4, <2>5 DEF RowType
<1>3. CASE /\ ~(r.status \in {"retryable", "dead_letter"} /\ RefusedAsChanged(r))
           /\ ~(r.status = "outcome_unknown" /\ Outcome(r) = "started")
  BY <1>3 DEF Closed, RowType
<1> QED
  BY <1>1, <1>2, <1>3

LEMMA OwnTyped ==
  ASSUME NEW r \in RowType
  PROVE  Own(r) \in {"none", "started", "succeeded", "retryable", "outcome_unknown", "failed"}
<1>1. \A i \in DOMAIN r.attempts : r.attempts[i] \in Try
  BY DEF RowType
<1> QED
  BY <1>1 DEF Own, Try

(* What a result kind says is what the action is.                          *)
LEMMA ResultIsTrue ==
  ASSUME NEW r \in RowType, ResultKind(r) # "none"
  PROVE  /\ ResultKind(r) \in {"blocked", "succeeded", "failed", "outcome_unknown", "retryable",
                               "reconciled"}
         /\ ResultKind(r) \in {"succeeded", "reconciled"} => r.status = "succeeded"
         /\ ResultKind(r) = "failed" => r.status = "dead_letter"
         /\ ResultKind(r) = "blocked" => r.status = "cancelled"
         /\ r.events # <<>>
BY OwnTyped DEF ResultKind, StatusOf, Kind

LEMMA NarratedIs ==
  ASSUME NEW m \in Messages, NEW r \in RowType
  PROVE  LET s == Narrated(m, r)
         IN  /\ s \in RowType /\ s.status = r.status /\ s.attempts = r.attempts
             /\ s = r \/ Kind(s) = "started"
<1>1. Len(r.attempts) \in Nat
  BY DEF RowType
<1>2. AttemptId(Len(r.attempts)) \in By /\ "started" \in Kinds
  BY <1>1 DEF By, Kinds
<1> QED
  BY <1>2, AddIs DEF Narrated

LEMMA ToldIs ==
  ASSUME NEW m \in Messages, NEW r \in RowType
  PROVE  LET s == Told(m, r)
         IN  /\ s \in RowType /\ s.status = r.status /\ s.attempts = r.attempts
             /\ s = r \/ (ResultKind(r) # "none" /\ Kind(s) = ResultKind(r))
<1>1. CASE ResultKind(r) = "none"
  BY <1>1 DEF Told
<1>2. CASE ResultKind(r) # "none"
  <2>1. ResultKind(r) \in Kinds /\ r.events # <<>>
    BY <1>2, ResultIsTrue DEF Kinds
  <2>2. r.events[Len(r.events)].by \in By
    BY <2>1, KindTyped
  <2> QED
    BY <1>2, <2>1, <2>2, AddIs DEF Told
<1> QED
  BY <1>1, <1>2

(* Finishing a history leaves the action alone, except that it closes a    *)
(* refusal, and the last event it writes binds the action.                 *)
LEMMA FinishedIs ==
  ASSUME NEW m \in Messages, NEW r \in RowType
  PROVE  LET s == Finished(m, r)
         IN  /\ s \in RowType
             /\ Len(s.attempts) = Len(r.attempts)
             /\ \/ s.status = r.status
                \/ r.status \in {"retryable", "dead_letter"} /\ s.status = "cancelled"
             /\ (r.status = "succeeded" => m \in sink) /\ Bound(m, r) => Bound(m, s)
<1>1. CASE r.status = "none"
  BY <1>1 DEF Finished, RowType
<1>2. CASE r.status # "none"
  <2> DEFINE c == Closed(r)
             n == Narrated(m, c)
             s == Told(m, n)
  <2>1. /\ c \in RowType /\ c.events = r.events
        /\ Len(c.attempts) = Len(r.attempts)
        /\ \/ c.status = r.status
           \/ r.status \in {"retryable", "dead_letter"} /\ c.status = "cancelled"
        /\ c.status = "dead_letter" => ~RefusedAsChanged(c)
    BY ClosedIs
  <2> HIDE DEF c
  <2>2. /\ n \in RowType /\ n.status = c.status /\ n.attempts = c.attempts
        /\ n = c \/ Kind(n) = "started"
    BY <2>1, NarratedIs
  <2> HIDE DEF n
  <2>3. /\ s \in RowType /\ s.status = n.status /\ s.attempts = n.attempts
        /\ s = n \/ (ResultKind(n) # "none" /\ Kind(s) = ResultKind(n))
    BY <2>2, ToldIs
  <2>4. Finished(m, r) = s
    BY <1>2 DEF Finished, n, c
  <2> HIDE DEF s
  <2>5. RefusedAsChanged(s) = RefusedAsChanged(c)
    BY <2>2, <2>3 DEF RefusedAsChanged
  <2>6. ASSUME r.status = "succeeded" => m \in sink, Bound(m, r)
        PROVE  Bound(m, s)
    <3>1. CASE s # n
      <4>1. /\ Kind(s) = ResultKind(n) /\ ResultKind(n) # "none"
        BY <2>3, <3>1
      <4>2. /\ Kind(s) \in {"succeeded", "reconciled"} => n.status = "succeeded"
            /\ Kind(s) = "failed" => n.status = "dead_letter"
            /\ Kind(s) = "blocked" => n.status = "cancelled"
            /\ Kind(s) \notin {"revoked", "reconcile_started"}
        BY <2>2, <4>1, ResultIsTrue
      <4> QED
        BY <2>1, <2>2, <2>3, <2>5, <2>6, <4>2 DEF Bound
    <3>2. CASE s = n /\ n # c
      BY <2>2, <3>2 DEF Bound
    <3>3. CASE s = n /\ n = c
      <4>1. Kind(s) = Kind(r)
        BY <2>1, <3>3 DEF Kind
      <4>2. Kind(r) = "failed" => c.status = "dead_letter"
        <5>1. ASSUME Kind(r) = "failed"
              PROVE  c.status = "dead_letter"
          <6>1. r.status = "dead_letter" /\ ~RefusedAsChanged(r)
            BY <2>6, <5>1 DEF Bound
          <6> QED
            BY <6>1 DEF Closed, c
        <5> QED
          BY <5>1
      <4> QED
        BY <2>1, <2>5, <2>6, <3>3, <4>1, <4>2 DEF Bound
    <3> QED
      BY <3>1, <3>2, <3>3
  <2> QED
    BY <2>1, <2>2, <2>3, <2>4, <2>6
<1> QED
  BY <1>1, <1>2
-----------------------------------------------------------------------------
(* Transactions of the case: they settle what nobody executes.             *)

Settles(m) ==
  /\ \/ outbox'[m] = outbox[m]
     \/ outbox[m] \in {"pending", "retryable", "dead_letter"} /\ outbox'[m] = "cancelled"
     \/ outbox[m] = "executing" /\ stale[m] /\ outbox'[m] = "outcome_unknown"
  /\ Len(attempts'[m]) = Len(attempts[m])
  /\ stale'[m] => stale[m]
Rests(p) == procs'[p] = procs[p] \/ procs'[p].at \notin {"deliver", "record", "write"}

LEMMA SettlingKeeps ==
  ASSUME IInv, \A m \in Messages : Settles(m), sink' = sink, \A p \in Processes : Rests(p)
  PROVE  Alone' /\ SinkStands' /\ Attended' /\ Checking'
<1>1. Alone'
  BY DEF IInv, Alone, Settles
<1>2. SinkStands'
  BY DEF IInv, SinkStands, Settles
<1>3. Attended'
  <2> SUFFICES ASSUME NEW p \in Processes, Delivers(p)'
               PROVE  LET m == procs'[p].message IN
                      /\ outbox'[m] = "executing" /\ ~stale'[m]
                      /\ procs'[p].number = Len(attempts'[m]) /\ procs'[p].number > 0
                      /\ \A q \in Processes : Delivers(q)' /\ procs'[q].message = m => q = p
                      /\ procs'[p].at = "deliver" => m \notin sink'
                      /\ procs'[p].at = "record" =>
                           /\ m \in sink' => procs'[p].result \in {"succeeded", "outcome_unknown"}
                           /\ procs'[p].result = "succeeded" => m \in sink'
                           /\ procs'[p].result # "none"
    BY DEF Attended
  <2>1. \A q \in Processes : Delivers(q)' => procs'[q] = procs[q] /\ Delivers(q)
    BY DEF Rests, Delivers
  <2>2. procs'[p] = procs[p] /\ procs[p].message \in Messages
    BY <2>1 DEF IInv, Working, Delivers
  <2> QED
    BY <2>1, <2>2 DEF IInv, Attended, Settles
<1>4. Checking'
  <2> SUFFICES ASSUME NEW p \in Processes, procs'[p].at = "write"
               PROVE  LET m == procs'[p].message IN
                      /\ procs'[p].number <= Len(attempts'[m])
                      /\ procs'[p].result \in {"succeeded", "retryable"}
                      /\ procs'[p].result = "succeeded" => m \in sink'
                      /\ procs'[p].result = "retryable" /\ procs'[p].number = Len(attempts'[m]) =>
                           outbox'[m] # "executing" /\ m \notin sink'
    BY DEF Checking
  <2>1. procs'[p] = procs[p] /\ procs[p].message \in Messages
    BY DEF Rests, IInv, Working
  <2> QED
    BY <2>1 DEF IInv, Checking, Settles
<1> QED
  BY <1>1, <1>2, <1>3, <1>4

LEMMA FinishHistoryKeeps ==
  ASSUME IInv, NEW rows,
         \A m \in Messages :
           /\ rows[m] \in RowType /\ rows[m].attempts = attempts[m]
           /\ \/ rows[m].status = outbox[m]
              \/ outbox[m] \in {"pending", "retryable", "dead_letter"} /\ rows[m].status = "cancelled"
           /\ Bound(m, rows[m]),
         FinishHistory(rows), UNCHANGED <<current, content, sink, stale>>
  PROVE  Tables' /\ Narrative' /\ \A m \in Messages : Settles(m)
<1>1. ASSUME NEW m \in Messages
      PROVE  LET s == Finished(m, rows[m])
             IN  /\ s \in RowType
                 /\ Len(s.attempts) = Len(attempts[m])
                 /\ \/ s.status = outbox[m]
                    \/ outbox[m] \in {"pending", "retryable", "dead_letter"} /\ s.status = "cancelled"
                 /\ Bound(m, s)
                 /\ outbox'[m] = s.status /\ attempts'[m] = s.attempts /\ events'[m] = s.events
  <2>1. rows[m].status = "succeeded" => m \in sink
    BY DEF IInv, SinkStands
  <2>2. LET s == Finished(m, rows[m])
        IN  outbox'[m] = s.status /\ attempts'[m] = s.attempts /\ events'[m] = s.events
    BY DEF FinishHistory
  <2> QED
    BY <2>1, <2>2, FinishedIs
<1>2. Tables'
  <2>1. ASSUME NEW m \in Messages
        PROVE  /\ outbox'[m] \in Status /\ attempts'[m] \in Seq(Try) /\ events'[m] \in Seq(Entry)
               /\ Len(attempts'[m]) <= AttemptCap /\ (stale[m] => outbox'[m] # "none")
    BY <1>1 DEF RowType, IInv, Tables
  <2>2. /\ outbox' = [m \in Messages |-> outbox'[m]]
        /\ attempts' = [m \in Messages |-> attempts'[m]]
        /\ events' = [m \in Messages |-> events'[m]]
    BY DEF FinishHistory
  <2> QED
    BY <2>1, <2>2 DEF IInv, Tables
<1>3. Narrative'
  <2> SUFFICES ASSUME NEW m \in Messages PROVE Bound(m, Row(m))'
    BY DEF Narrative
  <2> QED
    BY <1>1 DEF Bound, Row, Kind, RefusedAsChanged
<1> QED
  BY <1>1, <1>2, <1>3 DEF Settles

LEMMA CommitKeeps ==
  ASSUME IInv, NEW m \in Messages, NEW r \in RowType, Commit(m, r), Bound(m, r),
         Len(r.attempts) = Len(attempts[m]), r.status # "none" \/ outbox[m] = "none",
         UNCHANGED <<current, content, sink>>,
         stale' = stale \/ stale' = [stale EXCEPT ![m] = FALSE]
  PROVE  /\ Tables' /\ Narrative'
         /\ outbox'[m] = r.status
         /\ \A n \in Messages : n # m => outbox'[n] = outbox[n]
         /\ \A n \in Messages : Len(attempts'[n]) = Len(attempts[n]) /\ (stale'[n] => stale[n])
<1>1. r.status \in Status /\ r.attempts \in Seq(Try) /\ r.events \in Seq(Entry)
  BY DEF RowType
<1>2. /\ outbox' = [outbox EXCEPT ![m] = r.status]
      /\ attempts' = [attempts EXCEPT ![m] = r.attempts]
      /\ events' = [events EXCEPT ![m] = r.events]
  BY DEF Commit
<1>3. /\ outbox'[m] = r.status /\ attempts'[m] = r.attempts /\ events'[m] = r.events
      /\ \A n \in Messages : n # m =>
           outbox'[n] = outbox[n] /\ attempts'[n] = attempts[n] /\ events'[n] = events[n]
      /\ \A n \in Messages : stale'[n] => stale[n]
  BY <1>2 DEF IInv, Tables
<1>4. Tables'
  <2>1. stale' \in [Messages -> BOOLEAN]
    BY DEF IInv, Tables
  <2>2. \A n \in Messages : Len(attempts'[n]) <= AttemptCap /\ (stale'[n] => outbox'[n] # "none")
    BY <1>3 DEF IInv, Tables
  <2> QED
    BY <1>1, <1>2, <2>1, <2>2 DEF IInv, Tables
<1>5. Narrative'
  <2> SUFFICES ASSUME NEW n \in Messages PROVE Bound(n, Row(n))'
    BY DEF Narrative
  <2>1. CASE n = m
    BY <1>3, <2>1 DEF Bound, Row, Kind, RefusedAsChanged
  <2>2. CASE n # m
    BY <1>3, <2>2 DEF IInv, Narrative, Bound, Row, Kind, RefusedAsChanged
  <2> QED
    BY <2>1, <2>2
<1> QED
  BY <1>3, <1>4, <1>5

(* What is still under way has no final word in its history.               *)
LEMMA UntoldKeeps ==
  ASSUME IInv, UNCHANGED events, sink \subseteq sink', NEW m \in Messages,
         outbox[m] \in {"pending", "retryable", "executing", "outcome_unknown"}, outbox'[m] # "none",
         \A n \in Messages : n # m => outbox'[n] = outbox[n] /\ attempts'[n] = attempts[n]
  PROVE  Narrative'
<1> SUFFICES ASSUME NEW n \in Messages PROVE Bound(n, Row(n))'
  BY DEF Narrative
<1>1. Bound(n, Row(n))
  BY DEF IInv, Narrative
<1>2. CASE n = m
  BY <1>1, <1>2 DEF Bound, Row, Kind, RefusedAsChanged
<1>3. CASE n # m
  BY <1>1, <1>3 DEF Bound, Row, Kind, RefusedAsChanged
<1> QED
  BY <1>2, <1>3

-----------------------------------------------------------------------------
(* Processes.                                                              *)

LEMMA Moves ==
  ASSUME Working, NEW p \in Processes, NEW x \in Process,
         x.at # "idle" => x.message \in Messages,
         procs' = [procs EXCEPT ![p] = x]
  PROVE  /\ Working' /\ procs'[p] = x
         /\ \A q \in Processes : q # p => procs'[q] = procs[q]
BY DEF Working

LEMMA IdleTyped == Idle \in Process /\ Idle.at = "idle"
BY DEF Idle, Process

LEMMA GoesIs ==
  ASSUME Working, NEW p \in Processes, procs[p].at # "idle",
         NEW at \in {"claim", "execute", "ask", "deliver", "record", "write", "finish"},
         Goes(p, at)
  PROVE  /\ Working' /\ procs'[p].at = at
         /\ \A q \in Processes : q # p => procs'[q] = procs[q]
<1>1. procs[p] \in Process /\ procs[p].message \in Messages
  BY DEF Working
<1> DEFINE x == [procs[p] EXCEPT !.at = at]
<1>2. x \in Process /\ x.at = at /\ x.message = procs[p].message
  BY <1>1 DEF Process
<1>3. procs' = [procs EXCEPT ![p] = x]
  BY DEF Goes
<1> HIDE DEF x
<1> QED
  BY <1>1, <1>2, <1>3, Moves

LEMMA EndsIs ==
  ASSUME Working, NEW p \in Processes, Ends(p)
  PROVE  /\ Working' /\ procs'[p].at = "idle"
         /\ \A q \in Processes : q # p => procs'[q] = procs[q]
BY IdleTyped, Moves DEF Ends

LEMMA LeavesIs ==
  ASSUME Working, NEW p \in Processes, procs[p].at # "idle" \/ p = Worker, Leaves(p)
  PROVE  /\ Working' /\ procs'[p].at \in {"idle", "finish"}
         /\ \A q \in Processes : q # p => procs'[q] = procs[q]
<1>1. CASE p = Worker
  BY <1>1, EndsIs DEF Leaves
<1>2. CASE p # Worker
  <2>1. procs[p] \in Process /\ procs[p].message \in Messages
    BY <1>2 DEF Working
  <2> DEFINE x == [procs[p] EXCEPT !.at = "finish", !.number = 0, !.result = "none"]
  <2>2. x \in Process /\ x.at = "finish" /\ x.message = procs[p].message
    BY <2>1 DEF Process
  <2>3. procs' = [procs EXCEPT ![p] = x]
    BY <1>2 DEF Leaves
  <2> HIDE DEF x
  <2> QED
    BY <2>1, <2>2, <2>3, Moves
<1> QED
  BY <1>1, <1>2
-----------------------------------------------------------------------------
(* The invariant, step by step: first the owner's transactions.            *)

LEMMA KindNames ==
  /\ "approved" \in Kinds /\ "revoked" \in Kinds /\ "started" \in Kinds
  /\ "blocked" \in Kinds /\ "outcome_unknown" \in Kinds /\ "reconcile_started" \in Kinds
  /\ Nobody \in By
BY DEF Kinds, By

LEMMA InitInvariant == Init => IInv
<1> SUFFICES ASSUME Init PROVE IInv
  OBVIOUS
<1> USE RecoveryAssumption DEF Init
<1>1. Tables
  BY DEF Tables, Status
<1>2. Working
  BY IdleTyped DEF Working, Processes
<1>3. Attended /\ Checking
  BY IdleTyped DEF Attended, Checking, Delivers, Processes
<1>4. Alone /\ SinkStands
  BY DEF Alone, SinkStands
<1>5. Narrative
  BY DEF Narrative, Bound, Row, Kind
<1> QED
  BY <1>1, <1>2, <1>3, <1>4, <1>5 DEF IInv

(* A transaction that changes no process.                                  *)
LEMMA ReadStep ==
  ASSUME IInv, Read,
         Working', \A p \in Processes : Rests(p)
  PROVE  IInv'
<1>1. \A m \in Messages :
        /\ Rows[m] \in RowType /\ Rows[m].attempts = attempts[m]
        /\ Rows[m].status = outbox[m] /\ Bound(m, Rows[m])
  BY RowTyped DEF Rows, IInv, Narrative
<1>2. Tables' /\ Narrative' /\ \A m \in Messages : Settles(m)
  BY <1>1, FinishHistoryKeeps DEF Read
<1> QED
  BY <1>2, SettlingKeeps DEF IInv, Read

LEMMA PreviewStep ==
  ASSUME IInv, NEW m \in Messages, Preview(m)
  PROVE  IInv'
<1> USE DEF Preview
<1> DEFINE e == [kind |-> "previewed", by |-> Nobody]
<1>1. e \in Entry /\ <<e>> \in Seq(Entry)
  BY DEF Entry, Kinds, By
<1>2. Tables'
  BY <1>1 DEF IInv, Tables
<1>3. Working' /\ \A p \in Processes : Rests(p)
  BY DEF IInv, Working, Rests
<1>4. Narrative'
  <2> SUFFICES ASSUME NEW n \in Messages PROVE Bound(n, Row(n))'
    BY DEF Narrative
  <2>1. CASE n = m
    <3>1. events'[n] = <<e>>
      BY <2>1 DEF IInv, Tables
    <3> QED
      BY <3>1 DEF Bound, Row, Kind
  <2>2. CASE n # m
    BY <2>2 DEF IInv, Tables, Narrative, Bound, Row, Kind, RefusedAsChanged
  <2> QED
    BY <2>1, <2>2
<1>5. \A n \in Messages : Settles(n)
  BY DEF Settles
<1> QED
  BY <1>2, <1>3, <1>4, <1>5, SettlingKeeps DEF IInv

LEMMA ApproveStep ==
  ASSUME IInv, NEW m \in Messages, Approve(m)
  PROVE  IInv'
<1> USE DEF Approve
<1> DEFINE row == [Row(m) EXCEPT !.status = "pending"]
           r == Add(m, row, "approved", Nobody)
<1>1. row \in RowType /\ row.status = "pending" /\ row.attempts = attempts[m]
  BY RowTyped DEF IInv, RowType, Status
<1> HIDE DEF row
<1>2. r \in RowType /\ r.status = "pending" /\ r.attempts = attempts[m] /\ Kind(r) = "approved"
  BY <1>1, AddIs, KindNames
<1>3. Commit(m, r)
  BY DEF row
<1> HIDE DEF r
<1>4. Bound(m, r)
  BY <1>2 DEF Bound
<1>5. /\ Tables' /\ Narrative' /\ outbox'[m] = "pending"
      /\ \A n \in Messages : n # m => outbox'[n] = outbox[n]
      /\ \A n \in Messages : Len(attempts'[n]) = Len(attempts[n]) /\ (stale'[n] => stale[n])
  BY <1>2, <1>3, <1>4, CommitKeeps
<1>6. NoEffect /\ m \notin sink
  BY DEF NoEffect, IInv, SinkStands
<1>7. Alone'
  BY <1>5, <1>6 DEF NoEffect, Alone
<1>8. SinkStands'
  BY <1>5, <1>6 DEF IInv, SinkStands
<1>9. Attended'
  <2>1. \A p \in Processes : ~Delivers(p)
    BY <1>6 DEF NoEffect, IInv, Attended, Working, Delivers
  <2> QED
    BY <2>1 DEF Attended, Delivers
<1>10. Checking'
  BY <1>5, <1>6 DEF IInv, Checking, Working
<1> QED
  BY <1>5, <1>7, <1>8, <1>9, <1>10 DEF IInv, Working

(* A commit that writes a row as Settles allows.                           *)
LEMMA SettlingCommit ==
  ASSUME IInv, NEW m \in Messages, NEW r \in RowType, Commit(m, r), Bound(m, r),
         Len(r.attempts) = Len(attempts[m]),
         \/ r.status = outbox[m]
         \/ outbox[m] \in {"pending", "retryable", "dead_letter"} /\ r.status = "cancelled"
         \/ outbox[m] = "executing" /\ stale[m] /\ r.status = "outcome_unknown",
         UNCHANGED <<current, content, sink>>,
         stale' = stale \/ stale' = [stale EXCEPT ![m] = FALSE],
         Working', \A p \in Processes : Rests(p)
  PROVE  IInv'
<1>1. /\ Tables' /\ Narrative' /\ outbox'[m] = r.status
      /\ \A n \in Messages : n # m => outbox'[n] = outbox[n]
      /\ \A n \in Messages : Len(attempts'[n]) = Len(attempts[n]) /\ (stale'[n] => stale[n])
  BY CommitKeeps
<1>2. \A n \in Messages : Settles(n)
  BY <1>1 DEF Settles
<1> QED
  BY <1>1, <1>2, SettlingKeeps DEF IInv

LEMMA RevokeStep ==
  ASSUME IInv, NEW m \in Messages, Revoke(m)
  PROVE  IInv'
<1> USE DEF Revoke
<1> DEFINE row == [Row(m) EXCEPT !.status = "cancelled"]
           r == Add(m, row, "revoked", Nobody)
<1>1. row \in RowType /\ row.status = "cancelled" /\ row.attempts = attempts[m]
  BY RowTyped DEF IInv, RowType, Status
<1> HIDE DEF row
<1>2. r \in RowType /\ r.status = "cancelled" /\ r.attempts = attempts[m] /\ Kind(r) = "revoked"
  BY <1>1, AddIs, KindNames
<1>3. Commit(m, r)
  BY DEF row
<1> HIDE DEF r
<1>4. Bound(m, r)
  BY <1>2 DEF Bound
<1>5. Working' /\ \A p \in Processes : Rests(p)
  BY DEF IInv, Working, Rests
<1> QED
  BY <1>2, <1>3, <1>4, <1>5, SettlingCommit DEF Revocable

LEMMA BeginStep ==
  ASSUME IInv, NEW p \in Processes, NEW c \in Commands, NEW m \in Messages, Begin(p, c, m)
  PROVE  IInv'
<1> DEFINE x == [Idle EXCEPT !.at = "claim", !.command = c, !.message = m]
<1>1. x \in Process /\ x.at = "claim" /\ x.message = m
  BY DEF Idle, Process
<1>2. procs' = [procs EXCEPT ![p] = x] /\ Read
  BY DEF Begin
<1> HIDE DEF x
<1>3. Working' /\ \A q \in Processes : Rests(q)
  BY <1>1, <1>2, Moves DEF IInv, Rests
<1> QED
  BY <1>2, <1>3, ReadStep

LEMMA ClaimAdvanceStep ==
  ASSUME IInv, NEW p \in Processes, ClaimAdvance(p)
  PROVE  IInv'
<1> DEFINE m == procs[p].message
           c == procs[p].command
           r == Row(m)
<1>1. m \in Messages /\ c \in Commands /\ procs[p].at # "idle"
  BY DEF ClaimAdvance, IInv, Working, Commands
<1>2. r \in RowType /\ r.status = outbox[m] /\ r.attempts = attempts[m]
  BY <1>1, RowTyped DEF IInv
<1>3. CommandId(c) \in By
  BY <1>1 DEF By
<1>4. ASSUME Goes(p, "execute") \/ Ends(p)
      PROVE  Working' /\ \A q \in Processes : Rests(q)
  BY <1>1, <1>4, GoesIs, EndsIs DEF IInv, Rests
<1>5. CASE UNCHANGED tables /\ Goes(p, "execute")
  <2>1. /\ \A n \in Messages : Settles(n)
        /\ sink' = sink
    BY <1>5 DEF tables, Settles
  <2>2. Tables' /\ Narrative'
    BY <1>5 DEF tables, IInv, Tables, Narrative, Bound, Row, Kind, RefusedAsChanged
  <2> QED
    BY <1>4, <1>5, <2>1, <2>2, SettlingKeeps DEF IInv
<1>6. CASE /\ Commit(m, Add(m, r, "started", CommandId(c))) /\ Goes(p, "execute")
           /\ UNCHANGED <<current, content, approval, sink, stale>>
  <2> DEFINE s == Add(m, r, "started", CommandId(c))
  <2>1. s \in RowType /\ s.status = r.status /\ s.attempts = r.attempts /\ Kind(s) = "started"
    BY <1>2, <1>3, AddIs, KindNames
  <2>2. Bound(m, s)
    BY <2>1 DEF Bound
  <2> HIDE DEF r, s
  <2> QED
    BY <1>1, <1>2, <1>4, <1>6, <2>1, <2>2, SettlingCommit DEF s
<1>7. CASE /\ Queued(r)
           /\ Commit(m, Add(m, [r EXCEPT !.status = "cancelled"], "blocked", CommandId(c)))
           /\ Ends(p) /\ UNCHANGED <<current, content, approval, due, sink, stale>>
  <2> DEFINE row == [r EXCEPT !.status = "cancelled"]
             s == Add(m, row, "blocked", CommandId(c))
  <2>1. row \in RowType /\ row.status = "cancelled" /\ row.attempts = r.attempts
    BY <1>2 DEF RowType, Status
  <2> HIDE DEF row
  <2>2. s \in RowType /\ s.status = "cancelled" /\ s.attempts = r.attempts /\ Kind(s) = "blocked"
    BY <1>3, <2>1, AddIs, KindNames
  <2>3. Bound(m, s)
    BY <2>2 DEF Bound
  <2>4. Commit(m, s)
    BY <1>7 DEF row
  <2>5. outbox[m] \in {"pending", "retryable"}
    BY <1>2, <1>7 DEF Queued
  <2> HIDE DEF r, s
  <2> QED
    BY <1>1, <1>2, <1>4, <1>7, <2>2, <2>3, <2>4, <2>5, SettlingCommit
<1> QED
  BY <1>5, <1>6, <1>7 DEF ClaimAdvance

LEMMA UncertainIs ==
  ASSUME NEW t \in Seq(Try)
  PROVE  Uncertain(t) \in Seq(Try) /\ Len(Uncertain(t)) = Len(t)
<1>1. ASSUME NEW i \in DOMAIN t
      PROVE  Uncertain(t)[i] \in Try
  <2>1. t[i] \in Try
    OBVIOUS
  <2>2. Uncertain(t)[i] = IF t[i].outcome = "started"
                          THEN [t[i] EXCEPT !.outcome = "outcome_unknown"] ELSE t[i]
    BY DEF Uncertain
  <2> QED
    BY <2>1, <2>2 DEF Try
<1>2. DOMAIN Uncertain(t) = 1..Len(t)
      /\ Uncertain(t) = [i \in 1..Len(t) |-> Uncertain(t)[i]]
  BY DEF Uncertain
<1>3. Len(t) \in Nat /\ DOMAIN t = 1..Len(t)
  OBVIOUS
<1> QED
  BY <1>1, <1>2, <1>3

LEMMA ClaimCheckStep ==
  ASSUME IInv, NEW p \in Processes, ClaimCheck(p)
  PROVE  IInv'
<1> DEFINE m == procs[p].message
           c == procs[p].command
           r == Row(m)
           u == MadeUnknown(m, r, c)
           s == Add(m, u, "reconcile_started", CommandId(c))
<1>1. m \in Messages /\ c \in Commands /\ procs[p].at # "idle"
  BY DEF ClaimCheck, IInv, Working, Commands
<1>2. r \in RowType /\ r.status = outbox[m] /\ r.attempts = attempts[m]
  BY <1>1, RowTyped DEF IInv
<1>3. CommandId(c) \in By
  BY <1>1 DEF By
<1>4. Goes(p, "ask") /\ UNCHANGED <<current, content, approval, due, sink>>
  BY DEF ClaimCheck, tables
<1>5. Working' /\ \A q \in Processes : Rests(q)
  BY <1>1, <1>4, GoesIs DEF IInv, Rests
<1>6. CASE UNCHANGED tables
  <2>1. /\ \A n \in Messages : Settles(n)
        /\ sink' = sink
    BY <1>6 DEF tables, Settles
  <2>2. Tables' /\ Narrative'
    BY <1>6 DEF tables, IInv, Tables, Narrative, Bound, Row, Kind, RefusedAsChanged
  <2> QED
    BY <1>5, <2>1, <2>2, SettlingKeeps DEF IInv
<1>7. CASE /\ u.status = "outcome_unknown" /\ Commit(m, s)
           /\ stale' = [stale EXCEPT ![m] = FALSE]
  <2>1. /\ u \in RowType /\ Len(u.attempts) = Len(r.attempts)
        /\ u.status = r.status \/ (r.status = "executing" /\ stale[m])
    <3>1. CASE r.status = "executing" /\ stale[m]
      <4> DEFINE t == Uncertain(r.attempts)
                 row == [r EXCEPT !.status = "outcome_unknown", !.attempts = t]
      <4>1. t \in Seq(Try) /\ Len(t) = Len(r.attempts)
        BY <1>2, UncertainIs DEF RowType
      <4> HIDE DEF t
      <4>2. row \in RowType /\ row.status = "outcome_unknown" /\ row.attempts = t
        BY <1>2, <4>1 DEF RowType, Status
      <4>3. u = Add(m, row, "outcome_unknown", CommandId(c))
        BY <3>1 DEF MadeUnknown, t
      <4> HIDE DEF row, u, r
      <4> QED
        BY <1>3, <3>1, <4>1, <4>2, <4>3, AddIs, KindNames
    <3>2. CASE ~(r.status = "executing" /\ stale[m])
      <4>1. u = r \/ u = Add(m, r, "outcome_unknown", CommandId(c))
        BY <3>2 DEF MadeUnknown
      <4> HIDE DEF u, r
      <4> QED
        BY <1>2, <1>3, <4>1, AddIs, KindNames
    <3> QED
      BY <3>1, <3>2
  <2> HIDE DEF u
  <2>2. /\ s \in RowType /\ s.status = "outcome_unknown" /\ Len(s.attempts) = Len(attempts[m])
        /\ Kind(s) = "reconcile_started"
    BY <1>2, <1>3, <1>7, <2>1, AddIs, KindNames
  <2>3. Bound(m, s)
    BY <2>2 DEF Bound
  <2>4. \/ s.status = outbox[m]
        \/ outbox[m] = "executing" /\ stale[m] /\ s.status = "outcome_unknown"
    BY <1>2, <1>7, <2>1, <2>2
  <2> HIDE DEF s, r
  <2> QED
    BY <1>1, <1>4, <1>5, <1>7, <2>2, <2>3, <2>4, SettlingCommit
<1> QED
  BY <1>6, <1>7 DEF ClaimCheck

LEMMA RowsAre ==
  ASSUME Tables, NEW m \in Messages
  PROVE  /\ Rows[m] \in RowType /\ Rows[m].admitted
         /\ Rows[m].attempts = attempts[m] /\ Rows[m].events = events[m]
         /\ Rows[m].status = outbox[m]
<1>1. Rows[m] = Row(m) /\ Row(m).admitted
  BY DEF Rows, Row
<1> QED
  BY <1>1, RowTyped

(* The rows that a command finishes: its own may be cancelled on the way.  *)
LEMMA FinishRows ==
  ASSUME IInv, NEW p \in Processes, FinishAdvance(p) \/ FinishCheck(p)
  PROVE  \E rows :
           /\ FinishHistory(rows)
           /\ \A n \in Messages :
                /\ rows[n] \in RowType /\ rows[n].admitted
                /\ rows[n].attempts = attempts[n] /\ rows[n].events = events[n]
                /\ \/ rows[n].status = outbox[n]
                   \/ /\ rows[n].status = "cancelled"
                      /\ \/ outbox[n] = "pending"
                         \/ outbox[n] \in {"retryable", "dead_letter"} /\ RefusedAsChanged(Row(n))
<1>1. CASE FinishCheck(p)
  BY <1>1, RowsAre DEF FinishCheck, IInv
<1>2. CASE FinishAdvance(p)
  <2> DEFINE m == procs[p].message
             r == Row(m)
             refused == \/ r.status = "pending"
                        \/ r.status \in {"retryable", "dead_letter"} /\ RefusedAsChanged(r)
             status == IF refused THEN "cancelled" ELSE Rows[m].status
             rows == [Rows EXCEPT ![m].status = IF refused THEN "cancelled" ELSE @]
  <2>1. FinishHistory(rows)
    BY <1>2 DEF FinishAdvance
  <2>2. rows = [Rows EXCEPT ![m] = [Rows[m] EXCEPT !.status = status]] /\ DOMAIN Rows = Messages
    BY DEF Rows
  <2>3. \/ status = Rows[m].status
        \/ /\ status = "cancelled"
           /\ \/ outbox[m] = "pending"
              \/ outbox[m] \in {"retryable", "dead_letter"} /\ RefusedAsChanged(r)
    BY DEF Row
  <2> HIDE DEF rows, status
  <2>4. ASSUME NEW n \in Messages
        PROVE  /\ rows[n] \in RowType /\ rows[n].admitted
               /\ rows[n].attempts = attempts[n] /\ rows[n].events = events[n]
               /\ \/ rows[n].status = outbox[n]
                  \/ /\ rows[n].status = "cancelled"
                     /\ \/ outbox[n] = "pending"
                        \/ outbox[n] \in {"retryable", "dead_letter"} /\ RefusedAsChanged(Row(n))
    <3>1. /\ Rows[n] \in RowType /\ Rows[n].admitted /\ Rows[n].status = outbox[n]
          /\ Rows[n].attempts = attempts[n] /\ Rows[n].events = events[n]
      BY RowsAre DEF IInv
    <3>2. CASE n # m
      BY <2>2, <3>1, <3>2
    <3>3. CASE n = m
      <4>1. rows[n] = [Rows[n] EXCEPT !.status = status]
        BY <2>2, <3>3
      <4>2. status \in Status
        BY <2>3, <3>1, <3>3 DEF RowType, Status
      <4> HIDE DEF m, r
      <4>3. /\ rows[n] \in RowType /\ rows[n].admitted /\ rows[n].attempts = Rows[n].attempts
            /\ rows[n].events = Rows[n].events /\ rows[n].status = status
        BY <3>1, <4>1, <4>2 DEF RowType
      <4> QED
        BY <2>3, <3>1, <3>3, <4>3 DEF r
    <3> QED
      BY <3>2, <3>3
  <2> QED
    BY <2>1, <2>4
<1> QED
  BY <1>1, <1>2

LEMMA FinishStep ==
  ASSUME IInv, NEW p \in Processes, FinishAdvance(p) \/ FinishCheck(p)
  PROVE  IInv'
<1>1. Ends(p) /\ UNCHANGED <<current, content, sink, stale>>
  BY DEF FinishAdvance, FinishCheck
<1>2. Working' /\ \A q \in Processes : Rests(q)
  BY <1>1, EndsIs DEF IInv, Rests
<1>3. PICK rows :
        /\ FinishHistory(rows)
        /\ \A n \in Messages :
             /\ rows[n] \in RowType /\ rows[n].attempts = attempts[n] /\ rows[n].events = events[n]
             /\ \/ rows[n].status = outbox[n]
                \/ /\ rows[n].status = "cancelled"
                   /\ \/ outbox[n] = "pending"
                      \/ outbox[n] \in {"retryable", "dead_letter"} /\ RefusedAsChanged(Row(n))
  BY FinishRows
<1>4. ASSUME NEW n \in Messages
      PROVE  Bound(n, rows[n])
  <2>1. /\ Row(n).status = outbox[n] /\ Row(n).attempts = attempts[n] /\ Row(n).events = events[n]
        /\ Bound(n, Row(n))
    BY RowTyped DEF IInv, Narrative
  <2>2. Kind(rows[n]) = Kind(Row(n)) /\ RefusedAsChanged(rows[n]) = RefusedAsChanged(Row(n))
    BY <1>3, <2>1 DEF Kind, RefusedAsChanged
  <2> QED
    BY <1>3, <2>1, <2>2 DEF Bound
<1>5. Tables' /\ Narrative' /\ \A n \in Messages : Settles(n)
  BY <1>1, <1>3, <1>4, FinishHistoryKeeps
<1> QED
  BY <1>1, <1>2, <1>5, SettlingKeeps DEF IInv
-----------------------------------------------------------------------------
(* Then the executor, the reconciler and the world.                        *)

LEMMA ExecuteStep ==
  ASSUME IInv, NEW p \in Processes, NEW m \in Messages, Execute(p, m)
  PROVE  IInv'
<1> DEFINE k == Len(attempts[m]) + 1
           x == [procs[p] EXCEPT !.at = "deliver", !.message = m, !.number = k]
           t == [outcome |-> "started", changed |-> FALSE, asked |-> p # Worker]
<1>1. /\ outbox[m] \in {"pending", "retryable"} /\ m \notin sink
      /\ attempts[m] \in Seq(Try) /\ Len(attempts[m]) \in Nat /\ k \in Nat /\ k > 0
      /\ k <= AttemptCap
  <2>1. outbox[m] \in {"pending", "retryable"} /\ Len(attempts[m]) < AttemptCap
    BY DEF Execute, Queued, Row
  <2>2. m \notin sink
    BY <2>1 DEF IInv, SinkStands
  <2>3. attempts[m] \in Seq(Try) /\ Len(attempts[m]) \in Nat
    BY DEF IInv, Tables
  <2>4. AttemptCap \in Nat
    BY RecoveryAssumption
  <2> QED
    BY <2>1, <2>2, <2>3, <2>4
<1>2. t \in Try /\ Append(attempts[m], t) \in Seq(Try) /\ Len(Append(attempts[m], t)) = k
  <2>1. t \in Try
    BY DEF Try
  <2> HIDE DEF t
  <2> QED
    BY <1>1, <2>1
<1>3. /\ outbox' = [outbox EXCEPT ![m] = "executing"]
      /\ attempts' = [attempts EXCEPT ![m] = Append(attempts[m], t)]
      /\ stale' = [stale EXCEPT ![m] = FALSE]
      /\ procs' = [procs EXCEPT ![p] = x]
      /\ UNCHANGED <<current, content, approval, due, events, sink>>
  BY DEF Execute
<1> HIDE DEF t, k
<1>4. /\ outbox'[m] = "executing" /\ Len(attempts'[m]) = k /\ ~stale'[m]
      /\ \A n \in Messages : n # m =>
           outbox'[n] = outbox[n] /\ attempts'[n] = attempts[n] /\ stale'[n] = stale[n]
  BY <1>2, <1>3 DEF IInv, Tables
<1>5. x \in Process /\ x.at = "deliver" /\ x.message = m /\ x.number = k
  BY <1>1 DEF IInv, Working, Process
<1> HIDE DEF x
<1>6. /\ Working' /\ procs'[p] = x
      /\ \A q \in Processes : q # p => procs'[q] = procs[q]
  BY <1>3, <1>5, Moves DEF IInv
<1>7. Tables'
  BY <1>1, <1>2, <1>3, <1>4 DEF IInv, Tables, Status
<1>8. Alone' /\ SinkStands'
  BY <1>1, <1>3, <1>4 DEF IInv, Alone, SinkStands
<1>9. Attended'
  <2>1. ASSUME NEW q \in Processes, Delivers(q)', q # p
        PROVE  procs'[q].message # m /\ Delivers(q) /\ procs'[q] = procs[q] /\ procs[q].message \in Messages
    BY <1>1, <1>6, <2>1 DEF Delivers, IInv, Attended, Working
  <2>2. ASSUME NEW q \in Processes, Delivers(q)', q # p
        PROVE  LET n == procs[q].message IN
               /\ outbox'[n] = outbox[n] /\ attempts'[n] = attempts[n] /\ stale'[n] = stale[n]
    BY <1>4, <2>1, <2>2
  <2> QED
    BY <1>1, <1>3, <1>4, <1>5, <1>6, <2>1, <2>2 DEF IInv, Attended, Delivers
<1>10. Checking'
  <2> SUFFICES ASSUME NEW q \in Processes, procs'[q].at = "write"
               PROVE  LET n == procs'[q].message IN
                      /\ procs'[q].number <= Len(attempts'[n])
                      /\ procs'[q].result \in {"succeeded", "retryable"}
                      /\ procs'[q].result = "succeeded" => n \in sink'
                      /\ procs'[q].result = "retryable" /\ procs'[q].number = Len(attempts'[n]) =>
                           outbox'[n] # "executing" /\ n \notin sink'
    BY DEF Checking
  <2>1. q # p /\ procs'[q] = procs[q] /\ procs[q].message \in Messages /\ procs[q].number \in Nat
    BY <1>5, <1>6 DEF IInv, Working, Process
  <2>2. CASE procs[q].message = m
    <3>1. procs[q].number <= Len(attempts[m]) /\ Len(attempts'[m]) = Len(attempts[m]) + 1
      BY <1>4, <2>1, <2>2 DEF IInv, Checking, k
    <3> QED
      BY <1>1, <1>3, <2>1, <2>2, <3>1 DEF IInv, Checking
  <2>3. CASE procs[q].message # m
    BY <1>3, <1>4, <2>1, <2>3 DEF IInv, Checking
  <2> QED
    BY <2>2, <2>3
<1>11. Narrative'
  BY <1>1, <1>3, <1>4, UntoldKeeps
<1> QED
  BY <1>6, <1>7, <1>8, <1>9, <1>10, <1>11 DEF IInv

LEMMA DeclinesStep ==
  ASSUME IInv, NEW p \in Processes, NEW m \in Messages, Declines(p, m)
  PROVE  IInv'
<1> USE DEF Declines
<1>1. procs[p].at # "idle" \/ p = Worker
  BY DEF Executes
<1>2. Working' /\ \A q \in Processes : Rests(q)
  BY <1>1, LeavesIs DEF IInv, Rests
<1>3. CASE UNCHANGED outbox
  <2>1. \A n \in Messages : Settles(n)
    BY <1>3 DEF Settles
  <2>2. Tables' /\ Narrative'
    BY <1>3 DEF IInv, Tables, Narrative, Bound, Row, Kind, RefusedAsChanged
  <2> QED
    BY <1>2, <2>1, <2>2, SettlingKeeps DEF IInv
<1>4. ASSUME NEW s \in {"cancelled", "outcome_unknown"}, outbox' = [outbox EXCEPT ![m] = s],
             s = "cancelled" => outbox[m] \in {"pending", "retryable"},
             s = "outcome_unknown" => outbox[m] = "executing" /\ stale[m]
      PROVE  IInv'
  <2>1. outbox'[m] = s /\ \A n \in Messages : n # m => outbox'[n] = outbox[n]
    BY <1>4 DEF IInv, Tables
  <2>2. \A n \in Messages : Settles(n)
    BY <1>4, <2>1 DEF Settles
  <2>3. Tables'
    BY <1>4, <2>1 DEF IInv, Tables, Status
  <2>4. Narrative'
    BY <1>4, <2>1, UntoldKeeps
  <2> QED
    BY <1>2, <2>2, <2>3, <2>4, SettlingKeeps DEF IInv
<1> QED
  BY <1>3, <1>4 DEF Queued, Row

LEMMA DeliverStep ==
  ASSUME IInv, NEW p \in Processes, Deliver(p)
  PROVE  IInv'
<1> USE DEF Deliver
<1> DEFINE m == procs[p].message
<1>1. /\ procs[p].at = "deliver" /\ m \in Messages /\ procs[p] \in Process
      /\ outbox[m] = "executing" /\ m \notin sink /\ ~stale[m]
      /\ procs[p].number = Len(attempts[m]) /\ procs[p].number > 0
      /\ \A q \in Processes : Delivers(q) /\ procs[q].message = m => q = p
  BY DEF IInv, Attended, Delivers, Working
<1>2. PICK result \in {"succeeded", "retryable", "outcome_unknown", "changed"} :
        /\ procs' = [procs EXCEPT ![p] = [@ EXCEPT !.at = "record", !.result = result]]
        /\ \/ sink' = sink /\ result # "succeeded"
           \/ sink' = sink \cup {m} /\ result \in {"succeeded", "outcome_unknown"}
  OBVIOUS
<1> DEFINE x == [procs[p] EXCEPT !.at = "record", !.result = result]
<1>3. /\ x \in Process /\ x.at = "record" /\ x.message = m /\ x.result = result
      /\ x.number = procs[p].number
  BY <1>1 DEF Process
<1>4. procs' = [procs EXCEPT ![p] = x]
  BY <1>2
<1> HIDE DEF x
<1>5. /\ Working' /\ procs'[p] = x
      /\ \A q \in Processes : q # p => procs'[q] = procs[q]
  BY <1>1, <1>3, <1>4, Moves DEF IInv
<1>6. /\ m \in sink' => result \in {"succeeded", "outcome_unknown"}
      /\ result = "succeeded" => m \in sink'
      /\ \A n : n # m => (n \in sink' <=> n \in sink)
      /\ sink \subseteq sink' /\ sink' \subseteq Messages
  BY <1>1, <1>2 DEF IInv, Tables
<1> HIDE DEF m
<1>7. Tables' /\ Alone' /\ SinkStands'
  BY <1>1, <1>6 DEF IInv, Tables, Alone, SinkStands
<1>8. Attended'
  <2>1. ASSUME NEW q \in Processes, Delivers(q)', q # p
        PROVE  /\ procs'[q].message # m /\ Delivers(q) /\ procs'[q] = procs[q]
    BY <1>1, <1>5, <2>1 DEF Delivers
  <2> QED
    BY <1>1, <1>2, <1>3, <1>5, <1>6, <2>1 DEF IInv, Attended, Delivers
<1>9. Checking'
  <2> SUFFICES ASSUME NEW q \in Processes, procs'[q].at = "write"
               PROVE  LET n == procs'[q].message IN
                      /\ procs'[q].number <= Len(attempts'[n])
                      /\ procs'[q].result \in {"succeeded", "retryable"}
                      /\ procs'[q].result = "succeeded" => n \in sink'
                      /\ procs'[q].result = "retryable" /\ procs'[q].number = Len(attempts'[n]) =>
                           outbox'[n] # "executing" /\ n \notin sink'
    BY DEF Checking
  <2>1. q # p /\ procs'[q] = procs[q]
    BY <1>3, <1>5
  <2> QED
    BY <1>1, <1>6, <2>1 DEF IInv, Checking
<1>10. Narrative'
  <2>1. UNCHANGED <<outbox, attempts, events>>
    OBVIOUS
  <2> QED
    BY <1>6, <2>1 DEF IInv, Narrative, Bound, Row, Kind, RefusedAsChanged
<1> QED
  BY <1>5, <1>7, <1>8, <1>9, <1>10 DEF IInv

LEMMA RecordStep ==
  ASSUME IInv, NEW p \in Processes, Record(p)
  PROVE  IInv'
<1> DEFINE m == procs[p].message
           n == procs[p].number
           status == Ended(procs[p].result, n)
           t == [attempts[m][n] EXCEPT
                   !.outcome = IF status = "dead_letter" THEN "failed" ELSE status,
                   !.changed = procs[p].result = "changed"]
<1>1. /\ procs[p].at = "record" /\ m \in Messages /\ procs[p] \in Process
      /\ outbox[m] = "executing"
      /\ n = Len(attempts[m]) /\ n > 0
      /\ \A q \in Processes : Delivers(q) /\ procs[q].message = m => q = p
      /\ m \in sink => procs[p].result \in {"succeeded", "outcome_unknown"}
      /\ procs[p].result = "succeeded" => m \in sink
      /\ procs[p].result \in {"succeeded", "retryable", "outcome_unknown", "changed"}
  <2>1. procs[p].at = "record" /\ Delivers(p)
    BY DEF Record, Delivers
  <2>2. m \in Messages /\ procs[p] \in Process
    BY <2>1 DEF IInv, Working
  <2> QED
    BY <2>1, <2>2 DEF IInv, Attended, Process
<1>2. /\ status \in {"succeeded", "retryable", "outcome_unknown", "dead_letter"}
      /\ m \in sink => status \in {"succeeded", "outcome_unknown"}
      /\ status = "succeeded" => m \in sink
  BY <1>1 DEF Ended
<1>3. t \in Try
  <2>1. attempts[m] \in Seq(Try) /\ n \in DOMAIN attempts[m]
    BY <1>1 DEF IInv, Tables, Working, Process
  <2>2. attempts[m][n] \in Try
    BY <2>1
  <2>3. (IF status = "dead_letter" THEN "failed" ELSE status)
          \in {"started", "succeeded", "retryable", "outcome_unknown", "failed"}
    BY <1>2
  <2>4. (procs[p].result = "changed") \in BOOLEAN
    OBVIOUS
  <2> HIDE DEF status, n
  <2> QED
    BY <2>2, <2>3, <2>4 DEF Try
<1>4. /\ outbox' = [outbox EXCEPT ![m] = status]
      /\ attempts' = [attempts EXCEPT ![m] = [attempts[m] EXCEPT ![n] = t]]
      /\ UNCHANGED <<current, content, events, sink, stale>>
      /\ Leaves(p)
  BY <1>1 DEF Record
<1> HIDE DEF t, status
<1>5. /\ [attempts[m] EXCEPT ![n] = t] \in Seq(Try)
      /\ Len([attempts[m] EXCEPT ![n] = t]) = Len(attempts[m])
  BY <1>1, <1>3 DEF IInv, Tables
<1> HIDE DEF n
<1>6. /\ outbox'[m] = status /\ Len(attempts'[m]) = Len(attempts[m])
      /\ \A o \in Messages : o # m => outbox'[o] = outbox[o] /\ attempts'[o] = attempts[o]
  BY <1>1, <1>4, <1>5 DEF IInv, Tables
<1>7. /\ Working' /\ procs'[p].at \in {"idle", "finish"}
      /\ \A q \in Processes : q # p => procs'[q] = procs[q]
  BY <1>1, <1>4, LeavesIs DEF IInv
<1>8. Tables'
  BY <1>1, <1>2, <1>4, <1>5, <1>6 DEF IInv, Tables, Status
<1>9. Alone' /\ SinkStands'
  BY <1>1, <1>2, <1>4, <1>6 DEF IInv, Alone, SinkStands
<1>10. Attended'
  <2>1. ASSUME NEW q \in Processes, Delivers(q)'
        PROVE  /\ q # p /\ procs'[q] = procs[q] /\ Delivers(q)
               /\ procs[q].message \in Messages /\ procs[q].message # m
    BY <1>1, <1>7, <2>1 DEF Delivers, IInv, Working
  <2> QED
    BY <1>4, <1>6, <2>1 DEF IInv, Attended, Delivers
<1>11. Checking'
  <2> SUFFICES ASSUME NEW q \in Processes, procs'[q].at = "write"
               PROVE  LET o == procs'[q].message IN
                      /\ procs'[q].number <= Len(attempts'[o])
                      /\ procs'[q].result \in {"succeeded", "retryable"}
                      /\ procs'[q].result = "succeeded" => o \in sink'
                      /\ procs'[q].result = "retryable" /\ procs'[q].number = Len(attempts'[o]) =>
                           outbox'[o] # "executing" /\ o \notin sink'
    BY DEF Checking
  <2>1. q # p /\ procs'[q] = procs[q] /\ procs[q].message \in Messages
    BY <1>7 DEF IInv, Working
  <2> QED
    BY <1>1, <1>2, <1>4, <1>6, <2>1 DEF IInv, Checking
<1>12. Narrative'
  BY <1>1, <1>2, <1>4, <1>6, UntoldKeeps
<1> QED
  BY <1>7, <1>8, <1>9, <1>10, <1>11, <1>12 DEF IInv

LEMMA AskStep ==
  ASSUME IInv, NEW p \in Processes, Ask(p)
  PROVE  IInv'
<1> USE DEF Ask
<1> DEFINE m == procs[p].message
           x == [procs[p] EXCEPT !.at = "write", !.number = Len(attempts[m]),
                                 !.result = IF m \in sink THEN "succeeded" ELSE "retryable"]
<1>1. /\ procs[p] \in Process /\ m \in Messages /\ outbox[m] = "outcome_unknown"
      /\ Len(attempts[m]) \in Nat
  <2>1. procs[p] \in Process /\ m \in Messages
    BY DEF IInv, Working
  <2> QED
    BY <2>1 DEF IInv, Tables
<1>2. /\ x \in Process /\ x.at = "write" /\ x.message = m /\ x.number = Len(attempts[m])
      /\ x.result = IF m \in sink THEN "succeeded" ELSE "retryable"
  BY <1>1 DEF Process
<1>3. procs' = [procs EXCEPT ![p] = x] /\ UNCHANGED tables
  OBVIOUS
<1> HIDE DEF x, m
<1>4. /\ Working' /\ procs'[p] = x
      /\ \A q \in Processes : q # p => procs'[q] = procs[q]
  BY <1>1, <1>2, <1>3, Moves DEF IInv
<1>5. Tables' /\ Alone' /\ SinkStands' /\ Narrative'
  BY <1>3 DEF tables, IInv, Tables, Alone, SinkStands, Narrative, Bound, Row, Kind, RefusedAsChanged
<1>6. Attended'
  <2>1. \A q \in Processes : Delivers(q)' => procs'[q] = procs[q] /\ Delivers(q)
    BY <1>2, <1>4 DEF Delivers
  <2>2. UNCHANGED <<outbox, attempts, sink, stale>>
    BY <1>3 DEF tables
  <2> HIDE DEF Ask
  <2> SUFFICES ASSUME NEW q \in Processes, Delivers(q)'
               PROVE  LET o == procs'[q].message IN
                      /\ outbox'[o] = "executing" /\ ~stale'[o]
                      /\ procs'[q].number = Len(attempts'[o]) /\ procs'[q].number > 0
                      /\ \A r \in Processes : Delivers(r)' /\ procs'[r].message = o => r = q
                      /\ procs'[q].at = "deliver" => o \notin sink'
                      /\ procs'[q].at = "record" =>
                           /\ o \in sink' => procs'[q].result \in {"succeeded", "outcome_unknown"}
                           /\ procs'[q].result = "succeeded" => o \in sink'
                           /\ procs'[q].result # "none"
    BY DEF Attended
  <2>3. procs'[q] = procs[q] /\ Delivers(q)
    BY <2>1
  <2>4. \A r \in Processes : Delivers(r)' /\ procs'[r].message = procs[q].message => r = q
    BY <2>1, <2>3 DEF IInv, Attended
  <2> QED
    BY <2>2, <2>3, <2>4 DEF IInv, Attended
<1>7. Checking'
  <2> HIDE DEF Ask
  <2> SUFFICES ASSUME NEW q \in Processes, procs'[q].at = "write"
               PROVE  LET o == procs'[q].message IN
                      /\ procs'[q].number <= Len(attempts'[o])
                      /\ procs'[q].result \in {"succeeded", "retryable"}
                      /\ procs'[q].result = "succeeded" => o \in sink'
                      /\ procs'[q].result = "retryable" /\ procs'[q].number = Len(attempts'[o]) =>
                           outbox'[o] # "executing" /\ o \notin sink'
    BY DEF Checking
  <2>1. UNCHANGED <<outbox, attempts, sink>>
    BY <1>3 DEF tables
  <2>2. CASE q = p
    BY <1>1, <1>2, <1>4, <2>1, <2>2
  <2>3. CASE q # p
    <3>1. procs'[q] = procs[q] /\ procs[q].at = "write"
      BY <1>4, <2>3
    <3> QED
      BY <2>1, <3>1 DEF IInv, Checking
  <2> QED
    BY <2>2, <2>3
<1> QED
  BY <1>4, <1>5, <1>6, <1>7 DEF IInv

LEMMA WriteStep ==
  ASSUME IInv, NEW p \in Processes, Write(p)
  PROVE  IInv'
<1> USE DEF Write
<1> DEFINE m == procs[p].message
<1>1. procs[p].at = "write" /\ m \in Messages
  BY DEF IInv, Working
<1>2. /\ Working' /\ procs'[p].at \in {"idle", "finish"}
      /\ \A q \in Processes : q # p => procs'[q] = procs[q]
  BY <1>1, LeavesIs DEF IInv
<1>3. CASE ~Unmoved(p)
  <2>1. Tables' /\ Narrative' /\ \A n \in Messages : Settles(n)
    BY <1>3 DEF Settles, IInv, Tables, Narrative, Bound, Row, Kind, RefusedAsChanged
  <2>2. \A q \in Processes : Rests(q)
    BY <1>2 DEF Rests
  <2> QED
    BY <1>2, <2>1, <2>2, SettlingKeeps DEF IInv
<1>4. CASE Unmoved(p)
  <2>1. /\ outbox[m] = "outcome_unknown" /\ procs[p].number = Len(attempts[m])
        /\ procs[p].result \in {"succeeded", "retryable"}
        /\ procs[p].result = "succeeded" => m \in sink
        /\ procs[p].result = "retryable" => m \notin sink
    BY <1>1, <1>4 DEF Unmoved, IInv, Checking
  <2>2. /\ outbox' = [outbox EXCEPT ![m] = procs[p].result]
        /\ UNCHANGED <<current, content, attempts, events, sink, stale>>
    BY <1>4
  <2>3. /\ outbox'[m] = procs[p].result
        /\ \A n \in Messages : n # m => outbox'[n] = outbox[n]
    BY <1>1, <2>2 DEF IInv, Tables
  <2> HIDE DEF m
  <2>4. Tables'
    BY <1>1, <2>1, <2>2, <2>3 DEF IInv, Tables, Status
  <2>5. Alone' /\ SinkStands'
    BY <1>1, <2>1, <2>2, <2>3 DEF IInv, Alone, SinkStands
  <2>6. Attended'
    <3>1. ASSUME NEW q \in Processes, Delivers(q)'
          PROVE  /\ procs'[q] = procs[q] /\ Delivers(q)
                 /\ procs[q].message \in Messages /\ procs[q].message # m
      BY <1>2, <2>1, <3>1 DEF Delivers, IInv, Working, Attended
    <3> QED
      BY <2>2, <2>3, <3>1 DEF IInv, Attended, Delivers
  <2>7. Checking'
    <3>1. ASSUME NEW q \in Processes, procs'[q].at = "write"
          PROVE  /\ procs'[q] = procs[q] /\ procs[q].message \in Messages
                 /\ outbox'[procs[q].message] = "executing" => outbox[procs[q].message] = "executing"
      BY <1>2, <2>1, <2>3, <3>1 DEF IInv, Working
    <3> QED
      BY <2>2, <3>1 DEF IInv, Checking
  <2>8. Narrative'
    BY <1>1, <2>1, <2>2, <2>3, UntoldKeeps
  <2> QED
    BY <1>2, <2>4, <2>5, <2>6, <2>7, <2>8 DEF IInv
<1> QED
  BY <1>3, <1>4

LEMMA FiveMinutesStep ==
  ASSUME IInv, NEW m \in Messages, FiveMinutesPass(m)
  PROVE  IInv'
<1> USE DEF FiveMinutesPass
<1>1. outbox[m] # "none"
  <2>1. Row(m).status = outbox[m] /\ Bound(m, Row(m))
    BY DEF IInv, Narrative, Row
  <2> QED
    BY <2>1 DEF Bound
<1>2. Tables'
  BY <1>1 DEF IInv, Tables
<1>3. Working' /\ Alone' /\ SinkStands' /\ Checking' /\ Narrative'
  BY DEF IInv, Working, Alone, SinkStands, Checking, Narrative, Bound, Row, Kind, RefusedAsChanged
<1>4. Attended'
  <2>1. ASSUME NEW p \in Processes, Delivers(p)
        PROVE  procs[p].message # m /\ procs[p].message \in Messages
    <3>1. DOMAIN procs = Processes
      BY DEF IInv, Working
    <3> QED
      BY <2>1, <3>1 DEF Busy, Delivers, IInv, Working
  <2>2. \A n \in Messages : n # m => stale'[n] = stale[n]
    BY DEF IInv, Tables
  <2> QED
    BY <2>1, <2>2 DEF IInv, Attended, Delivers
<1> QED
  BY <1>2, <1>3, <1>4 DEF IInv

(* Steps that change neither rows, nor what a process does.                *)
LEMMA WorldStep ==
  ASSUME IInv,
         \/ CaseChanges
         \/ \E m \in Messages : Expire(m) \/ MinutePasses(m)
         \/ \E p \in Processes : Crash(p)
         \/ UNCHANGED vars
  PROVE  IInv'
<1>1. /\ UNCHANGED <<content, outbox, attempts, events, sink, stale>>
      /\ current' = current \/ (current = 1 /\ current' = current + 1)
  BY DEF CaseChanges, Expire, MinutePasses, Crash, vars, tables
<1>2. Working' /\ \A q \in Processes : Rests(q)
  <2>1. UNCHANGED procs \/ \E p \in Processes : Ends(p)
    BY DEF CaseChanges, Expire, MinutePasses, Crash, vars
  <2>2. ASSUME UNCHANGED procs PROVE Working' /\ \A q \in Processes : Rests(q)
    BY <2>2 DEF IInv, Working, Rests
  <2>3. ASSUME NEW p \in Processes, Ends(p) PROVE Working' /\ \A q \in Processes : Rests(q)
    BY <2>3, EndsIs DEF IInv, Rests
  <2> QED
    BY <2>1, <2>2, <2>3
<1>3. Tables'
  <2>1. current' \in 1..2
    BY <1>1 DEF IInv, Tables
  <2> QED
    BY <1>1, <2>1 DEF IInv, Tables
<1>4. Narrative' /\ \A m \in Messages : Settles(m)
  BY <1>1 DEF Settles, IInv, Narrative, Bound, Row, Kind, RefusedAsChanged
<1> QED
  BY <1>1, <1>2, <1>3, <1>4, SettlingKeeps DEF IInv

LEMMA Invariance == IInv /\ [Next]_vars => IInv'
<1> SUFFICES ASSUME IInv, [Next]_vars PROVE IInv'
  OBVIOUS
<1>1. CASE Read /\ UNCHANGED procs
  <2>1. Working' /\ \A p \in Processes : Rests(p)
    BY <1>1 DEF IInv, Working, Rests
  <2> QED
    BY <1>1, <2>1, ReadStep
<1>2. ASSUME NEW m \in Messages,
             \/ Preview(m) \/ Approve(m) \/ Revoke(m) \/ Expire(m)
             \/ MinutePasses(m) \/ FiveMinutesPass(m)
      PROVE  IInv'
  BY <1>2, PreviewStep, ApproveStep, RevokeStep, FiveMinutesStep, WorldStep
<1>3. ASSUME NEW p \in Procs, Serve(p)
      PROVE  IInv'
  <2>1. p \in Processes
    BY DEF Processes
  <2> QED
    BY <1>3, <2>1, BeginStep, ClaimAdvanceStep, ClaimCheckStep, FinishStep, AskStep, WriteStep
       DEF Serve
<1>4. ASSUME NEW p \in Procs \cup {Worker}, Run(p)
      PROVE  IInv'
  <2>1. p \in Processes
    BY DEF Processes
  <2> QED
    BY <1>4, <2>1, ExecuteStep, DeclinesStep, DeliverStep, RecordStep, WorldStep DEF Run
<1>5. CASE CaseChanges \/ UNCHANGED vars
  BY <1>5, WorldStep
<1> QED
  BY <1>1, <1>2, <1>3, <1>4, <1>5 DEF Next

LEMMA Invariant == Spec => []IInv
BY InitInvariant, Invariance, PTL DEF Spec

-----------------------------------------------------------------------------
(* The theorems.                                                           *)

(* The rows of the case stay well formed.                                  *)
THEOREM TypeCorrect == Spec => []TypeOK
<1>1. IInv => TypeOK
  BY DEF IInv, Tables, TypeOK, Status
<1> QED
  BY <1>1, Invariant, PTL

(* A case is told once, and a delivered message is never delivered again,  *)
(* cancelled or superseded (recovery-message-adapter.ts, SQL 0107).        *)
THEOREM ToldOnce == Spec => []DeliveredOnce
<1>1. ASSUME IInv PROVE DeliveredOnce
  <2>1. \A m, n \in sink : m = n
    BY <1>1 DEF IInv, Alone, SinkStands, Tables
  <2>2. CASE sink = {}
    <3>1. Cardinality(sink) = 0
      BY <2>2, FS_EmptySet
    <3> QED
      BY <1>1, <3>1 DEF IInv, SinkStands, Tables, DeliveredOnce
  <2>3. CASE sink # {}
    <3>1. PICK m \in sink : TRUE
      BY <2>3
    <3>2. sink = {m}
      BY <2>1, <3>1
    <3>3. Cardinality(sink) = 1
      BY <3>2, FS_Singleton
    <3> QED
      BY <1>1, <3>3 DEF IInv, SinkStands, Tables, DeliveredOnce
  <2> QED
    BY <2>2, <2>3
<1> QED
  BY <1>1, Invariant, PTL

(* What a finished history ends with is true of the action it tells about  *)
(* (SQL 0107, "History is a narrative of facts").                          *)
THEOREM HistoryTrue == Spec => []HistoryIsTrue
<1>1. ASSUME IInv PROVE HistoryIsTrue
  <2> SUFFICES ASSUME NEW m \in Messages
               PROVE  LET r == Finished(m, Row(m)) IN
                      /\ Kind(r) \in {"succeeded", "reconciled"} => r.status = "succeeded" /\ m \in sink
                      /\ Kind(r) = "failed" => r.status = "dead_letter"
                      /\ Kind(r) \in {"blocked", "revoked"} => r.status = "cancelled" /\ m \notin sink
    BY DEF HistoryIsTrue
  <2>1. /\ Row(m) \in RowType /\ Row(m).status = outbox[m] /\ Bound(m, Row(m))
        /\ outbox[m] = "succeeded" => m \in sink
        /\ m \in sink => outbox[m] \in {"executing", "outcome_unknown", "succeeded"}
    BY <1>1, RowTyped DEF IInv, Narrative, SinkStands
  <2>2. LET r == Finished(m, Row(m))
        IN  /\ Bound(m, r)
            /\ \/ r.status = outbox[m]
               \/ outbox[m] \in {"retryable", "dead_letter"} /\ r.status = "cancelled"
    BY <2>1, FinishedIs
  <2> QED
    BY <2>1, <2>2 DEF Bound
<1> QED
  BY <1>1, Invariant, PTL

=============================================================================
