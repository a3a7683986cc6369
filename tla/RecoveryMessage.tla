--------------------------- MODULE RecoveryMessage ---------------------------
(***************************************************************************)
(* Practice recovery messages of one case: the owner's commands            *)
(* (recovery-message-repository.ts), the shared executor and reconciler    *)
(* they drive (outbox.ts), the practice provider                           *)
(* (recovery-message-adapter.ts) and the database's guards (SQL 0107).     *)
(*                                                                         *)
(* A command is a chain of transactions under the case lock with work in   *)
(* between; its process may die anywhere and the command be sent again.    *)
(* A message is its sequence number; the text it would carry is the        *)
(* revision of the case it was built from.  Follow-up reminders (0112) and *)
(* loss of the owner's membership are left out.                            *)
(***************************************************************************)
EXTENDS Naturals, Sequences, FiniteSetsExt

CONSTANTS
  Last,          \* bound: messages
  Advances,      \* command ids of deliveries
  Checks,        \* command ids of reconciliations
  Procs,         \* processes that serve commands
  MaxTries,      \* attempts before a retryable failure is final (5)
  AttemptCap,    \* bound: attempts of one message
  WorkerCap,     \* bound: attempts that a worker made without a command
  MaxChanges,    \* bound: approvals that expire and changes of the case
  Nobody

ASSUME RecoveryAssumption ==
  /\ Last \in Nat /\ MaxTries \in Nat /\ AttemptCap \in Nat /\ WorkerCap \in Nat
  /\ MaxChanges \in Nat
  /\ Nobody \notin Advances \cup Checks

Messages == 1..Last

VARIABLES
  current,    \* revision of the case
  content,    \* the revision a message was built from, 0 before its preview
  approval,   \* "live", "revoked" or "expired"
  outbox,     \* status of the message's action, "none" before the approval
  due,        \* its next_attempt_at has passed
  attempts,   \* its attempts: outcome, and whether refused as changed
  events,     \* its history: kind and command
  sink,       \* messages the provider has recorded
  stale,      \* the claim, or the check, is older than five minutes
  procs       \* processes at work

tables == <<current, content, approval, outbox, due, attempts, events, sink, stale>>
vars == <<tables, procs>>

Commands == Advances \cup Checks
AttemptId(n) == <<"attempt", n>>

Idle == [at |-> "idle", command |-> Nobody, message |-> 0, number |-> 0,
         result |-> "none"]
Worker == "worker"

Init ==
  /\ current = 1
  /\ content = [m \in Messages |-> 0]
  /\ approval = [m \in Messages |-> "live"]
  /\ outbox = [m \in Messages |-> "none"]
  /\ due = [m \in Messages |-> TRUE]
  /\ attempts = [m \in Messages |-> <<>>]
  /\ events = [m \in Messages |-> <<>>]
  /\ sink = {}
  /\ stale = [m \in Messages |-> FALSE]
  /\ procs = [p \in Procs \cup {Worker} |-> Idle]

-----------------------------------------------------------------------------
(* A message as a transaction sees it, and what the database admits into   *)
(* its history: the transition, the fact, and one event of a kind for each *)
(* command (guard_recovery_message_event).                                 *)

Row(m) == [status |-> outbox[m], attempts |-> attempts[m], events |-> events[m], admitted |-> TRUE]
Kind(r) == IF r.events = <<>> THEN "none" ELSE r.events[Len(r.events)].kind
Outcome(r) == IF r.attempts = <<>> THEN "none" ELSE r.attempts[Len(r.attempts)].outcome
Starts(r) == {i \in DOMAIN r.events : r.events[i].kind = "started"}
StartGroups(r) == {i \in Starts(r) : i = 1 \/ r.events[i - 1].kind # "started"}

After(kind) ==
  CASE kind = "approved"          -> {"previewed"}
    [] kind = "revoked"           -> {"approved", "retryable"}
    [] kind \in {"started", "blocked"} -> {"approved", "retryable", "started"}
    [] kind \in {"succeeded", "failed"} -> {"started"}
    [] kind = "outcome_unknown"   -> {"started", "reconcile_started"}
    [] kind = "retryable"         -> {"started", "reconcile_started", "outcome_unknown"}
    [] kind = "reconcile_started" -> {"outcome_unknown"}
    [] kind = "reconciled"        -> {"reconcile_started", "outcome_unknown"}

Fact(m, r, kind) ==
  CASE kind = "approved"            -> r.status = "pending"
    [] kind \in {"revoked", "blocked"} -> r.status = "cancelled"
    [] kind = "started"             -> \/ Len(r.attempts) > Cardinality(Starts(r))
                                       \/ r.status \in {"pending", "retryable"} /\ approval[m] = "live"
    [] kind = "succeeded"           -> r.status = "succeeded" /\ Outcome(r) = kind /\ m \in sink
    [] kind = "failed"              -> r.status = "dead_letter" /\ Outcome(r) = kind
    [] kind \in {"outcome_unknown", "retryable"} ->
         r.status = kind /\ (Kind(r) = "started" => Outcome(r) = kind)
    [] kind = "reconcile_started"   -> r.status = "outcome_unknown"
    [] kind = "reconciled"          -> r.status = "succeeded" /\ m \in sink

Add(m, r, kind, by) ==
  LET e == [kind |-> kind, by |-> by] IN
  [r EXCEPT !.events = Append(@, e),
            !.admitted = @ /\ Kind(r) \in After(kind) /\ Fact(m, r, kind)
                           /\ \A i \in DOMAIN r.events : r.events[i] # e]

Commit(m, r) ==
  /\ r.admitted
  /\ outbox' = [outbox EXCEPT ![m] = r.status]
  /\ attempts' = [attempts EXCEPT ![m] = r.attempts]
  /\ events' = [events EXCEPT ![m] = r.events]

-----------------------------------------------------------------------------
(* finishHistory: tell in the history what the executor did.               *)

RefusedAsChanged(r) == r.attempts # <<>> /\ r.attempts[Len(r.attempts)].changed

(* A refusal because the facts changed is closed; so is the attempt of a   *)
(* claim that is known to be unknown.                                      *)
Closed(r) ==
  IF r.status \in {"retryable", "dead_letter"} /\ RefusedAsChanged(r)
  THEN [r EXCEPT !.status = "cancelled"]
  ELSE IF r.status = "outcome_unknown" /\ Outcome(r) = "started"
  THEN [r EXCEPT !.attempts[Len(r.attempts)].outcome = "outcome_unknown"]
  ELSE r

(* The start of an attempt that no command asked for.                      *)
Narrated(m, r) ==
  IF Kind(r) \in {"approved", "retryable"} /\ Len(r.attempts) > Cardinality(Starts(r))
  THEN Add(m, r, "started", AttemptId(Len(r.attempts)))
  ELSE r

(* The result of the open start is that of the attempt in its position.    *)
Own(r) ==
  LET n == Cardinality(StartGroups(r)) IN
  IF n \in DOMAIN r.attempts THEN r.attempts[n].outcome ELSE "none"
StatusOf(outcome) == IF outcome = "failed" THEN "dead_letter" ELSE outcome
ResultKind(r) ==
  CASE Kind(r) = "started" /\ r.status = "cancelled" -> "blocked"
    [] Kind(r) = "started" /\ Own(r) \notin {"none", "started"} /\ StatusOf(Own(r)) = r.status -> Own(r)
    [] Kind(r) = "reconcile_started" /\ Own(r) # "none" /\ r.status = "succeeded" -> "reconciled"
    [] Kind(r) = "reconcile_started" /\ Own(r) # "none" /\ r.status = "retryable" -> "retryable"
    [] OTHER -> "none"
Told(m, r) ==
  IF ResultKind(r) = "none" THEN r
  ELSE Add(m, r, ResultKind(r), r.events[Len(r.events)].by)

Finished(m, r) ==
  IF r.status = "none" THEN r
  ELSE LET n == Narrated(m, Closed(r)) IN Told(m, n)

FinishHistory(rows) ==   \* rows: the messages as the transaction has them
  LET done == [m \in Messages |-> Finished(m, rows[m])] IN
  /\ \A m \in Messages : done[m].admitted
  /\ outbox' = [m \in Messages |-> done[m].status]
  /\ attempts' = [m \in Messages |-> done[m].attempts]
  /\ events' = [m \in Messages |-> done[m].events]
Rows == [m \in Messages |-> Row(m)]

Read == FinishHistory(Rows) /\ UNCHANGED <<current, content, approval, due, sink, stale>>

-----------------------------------------------------------------------------
(* Preview, approve and revoke are one transaction each.                   *)

Shown == {m \in Messages : content[m] # 0}
NoEffect == \A m \in Messages : outbox[m] \in {"none", "cancelled"}
Unasked == UNION {{m} \X {i \in DOMAIN attempts[m] : ~attempts[m][i].asked} : m \in Messages}

Preview(m) ==
  /\ Shown = 1..(m - 1)
  /\ NoEffect
  /\ content' = [content EXCEPT ![m] = current]
  /\ events' = [events EXCEPT ![m] = <<[kind |-> "previewed", by |-> Nobody]>>]
  /\ UNCHANGED <<current, approval, outbox, due, attempts, sink, stale, procs>>

Approve(m) ==
  /\ Kind(Row(m)) = "previewed" /\ m = Max(Shown)
  /\ content[m] = current
  /\ NoEffect
  /\ Commit(m, Add(m, [Row(m) EXCEPT !.status = "pending"], "approved", Nobody))
  /\ UNCHANGED <<current, content, approval, due, sink, stale, procs>>

Revocable(m) == outbox[m] \in {"pending", "retryable"}
Revoke(m) ==
  /\ Revocable(m)
  /\ approval' = [approval EXCEPT ![m] = "revoked"]
  /\ Commit(m, Add(m, [Row(m) EXCEPT !.status = "cancelled"], "revoked", Nobody))
  /\ UNCHANGED <<current, content, due, sink, stale, procs>>

-----------------------------------------------------------------------------
(* Deliver and reconcile: a command first reads the case.  One about a     *)
(* message that is settled ends with that, as a replay or as an error.     *)

Open == {"pending", "executing", "retryable", "outcome_unknown"}
CommandId(c) == <<"command", c>>
Known(r, c) == \E i \in DOMAIN r.events : r.events[i].by = CommandId(c)

Goes(p, at) == procs' = [procs EXCEPT ![p].at = at]
Ends(p) == procs' = [procs EXCEPT ![p] = Idle]

Begin(p, c, m) ==
  /\ procs[p] = Idle
  /\ outbox[m] \in Open
  /\ \A n \in Messages \ {m} : ~Known(Row(n), c)
  /\ Read
  /\ procs' = [procs EXCEPT ![p] = [Idle EXCEPT !.at = "claim", !.command = c, !.message = m]]

(* A command sent again resumes the start it made, while that is the last  *)
(* event and nothing was claimed for it.                                   *)
Queued(r) == r.status \in {"pending", "retryable"}
AsApproved(m) == approval[m] = "live" /\ content[m] = current

ClaimAdvance(p) ==
  LET m == procs[p].message
      c == procs[p].command
      r == Row(m)
  IN
  /\ procs[p].at = "claim" /\ c \in Advances
  /\ \/ /\ Known(r, c) /\ Kind(r) = "started" /\ Queued(r)
        /\ Goes(p, "execute") /\ UNCHANGED tables
     \/ /\ ~Known(r, c) /\ Queued(r) /\ AsApproved(m)
        /\ Commit(m, Add(m, r, "started", CommandId(c)))
        /\ due' = [due EXCEPT ![m] = TRUE]
        /\ Goes(p, "execute")
        /\ UNCHANGED <<current, content, approval, sink, stale>>
     \/ /\ ~Known(r, c) /\ Queued(r) /\ ~AsApproved(m)
        /\ Commit(m, Add(m, [r EXCEPT !.status = "cancelled"], "blocked", CommandId(c)))
        /\ Ends(p)
        /\ UNCHANGED <<current, content, approval, due, sink, stale>>

Uncertain(t) == [i \in DOMAIN t |-> IF t[i].outcome = "started"
                                    THEN [t[i] EXCEPT !.outcome = "outcome_unknown"] ELSE t[i]]
(* A claim that was abandoned becomes unknown; so does the answer of a     *)
(* check that was.                                                         *)
MadeUnknown(m, r, c) ==
  IF r.status = "executing" /\ stale[m]
  THEN Add(m, [r EXCEPT !.status = "outcome_unknown", !.attempts = Uncertain(@)],
           "outcome_unknown", CommandId(c))
  ELSE IF Kind(r) = "reconcile_started" /\ stale[m]
  THEN Add(m, r, "outcome_unknown", CommandId(c))
  ELSE r
ClaimCheck(p) ==
  LET m == procs[p].message
      c == procs[p].command
      r == Row(m)
  IN
  /\ procs[p].at = "claim" /\ c \in Checks
  /\ \/ /\ Known(r, c) /\ r.status = "outcome_unknown"
        /\ Kind(r) = "reconcile_started" /\ r.events[Len(r.events)].by = CommandId(c)
        /\ Goes(p, "ask") /\ UNCHANGED tables
     \/ /\ ~Known(r, c)
        /\ LET u == MadeUnknown(m, r, c) IN
             u.status = "outcome_unknown" /\ Commit(m, Add(m, u, "reconcile_started", CommandId(c)))
        /\ Goes(p, "ask")
        /\ stale' = [stale EXCEPT ![m] = FALSE]
        /\ UNCHANGED <<current, content, approval, due, sink>>

-----------------------------------------------------------------------------
(* The executor (ActionExecutor.execute), driven by a command or a worker. *)

Executes(p, m) ==
  \/ procs[p].at = "execute" /\ procs[p].message = m
  \/ p = Worker /\ procs[p] = Idle /\ outbox[m] # "none"

Leaves(p) ==
  IF p = Worker THEN Ends(p)
  ELSE procs' = [procs EXCEPT ![p] = [@ EXCEPT !.at = "finish", !.number = 0, !.result = "none"]]

Execute(p, m) ==
  /\ Executes(p, m)
  /\ Queued(Row(m)) /\ due[m] /\ approval[m] = "live"
  /\ Len(attempts[m]) < AttemptCap
  /\ p = Worker => Cardinality(Unasked) < WorkerCap
  /\ outbox' = [outbox EXCEPT ![m] = "executing"]
  /\ attempts' = [attempts EXCEPT ![m] = Append(@, [outcome |-> "started", changed |-> FALSE,
                                                  asked |-> p # Worker])]
  /\ stale' = [stale EXCEPT ![m] = FALSE]
  /\ procs' = [procs EXCEPT ![p].at = "deliver", ![p].message = m,
                            ![p].number = Len(attempts[m]) + 1]
  /\ UNCHANGED <<current, content, approval, due, events, sink>>

(* Nothing to claim, or not now, or the tenant is paused; an approval that *)
(* expired cancels the action; a claim past five minutes is unknown.       *)
Declines(p, m) ==
  /\ Executes(p, m)
  /\ \/ UNCHANGED outbox
     \/ /\ Queued(Row(m)) /\ due[m] /\ approval[m] = "expired"
        /\ outbox' = [outbox EXCEPT ![m] = "cancelled"]
     \/ /\ outbox[m] = "executing" /\ stale[m]
        /\ outbox' = [outbox EXCEPT ![m] = "outcome_unknown"]
  /\ Leaves(p)
  /\ UNCHANGED <<current, content, approval, due, attempts, events, sink, stale>>

(* The adapter, under the case lock, and the sink's guard.                 *)
Deliverable(m) == outbox[m] = "executing" /\ AsApproved(m)
Deliver(p) ==
  LET m == procs[p].message
      Answers(result) == procs' = [procs EXCEPT ![p].at = "record", ![p].result = result]
  IN
  /\ procs[p].at = "deliver"
  /\ \/ /\ \E result \in {"retryable", "outcome_unknown"} : Answers(result)
        /\ UNCHANGED sink
     \/ /\ Deliverable(m)
        /\ sink' = sink \cup {m}
        /\ \E result \in {"succeeded", "outcome_unknown"} : Answers(result)
     \/ /\ ~Deliverable(m)
        /\ Answers("changed")
        /\ UNCHANGED sink
  /\ UNCHANGED <<current, content, approval, outbox, due, attempts, events, stale>>

MutEnded(result, n) ==     \* the provider's word kept as it is
  IF result = "retryable" /\ n >= MaxTries THEN "dead_letter" ELSE result
Ended(result, n) ==
  IF result \notin {"retryable", "changed"} THEN result
  ELSE IF n >= MaxTries THEN "dead_letter" ELSE "retryable"

Record(p) ==
  LET m == procs[p].message
      n == procs[p].number
      status == Ended(procs[p].result, n)
  IN
  /\ procs[p].at = "record"
  /\ IF outbox[m] = "executing"
     THEN /\ outbox' = [outbox EXCEPT ![m] = status]
          /\ due' = [due EXCEPT ![m] = status # "retryable"]
          /\ attempts' = [attempts EXCEPT ![m][n] =
               [@ EXCEPT !.outcome = IF status = "dead_letter" THEN "failed" ELSE status,
                         !.changed = procs[p].result = "changed"]]
     ELSE UNCHANGED <<outbox, due, attempts>>
  /\ Leaves(p)
  /\ UNCHANGED <<current, content, approval, events, sink, stale>>

(* What was declined or refused as changed is cancelled; then the history. *)
FinishAdvance(p) ==
  LET m == procs[p].message
      r == Row(m)
      refused == r.status = "pending" \/ (r.status \in {"retryable", "dead_letter"} /\ RefusedAsChanged(r))
  IN
  /\ procs[p].at = "finish" /\ procs[p].command \in Advances
  /\ FinishHistory([Rows EXCEPT ![m].status = IF refused THEN "cancelled" ELSE @])
  /\ Ends(p)
  /\ UNCHANGED <<current, content, approval, due, sink, stale>>

-----------------------------------------------------------------------------
(* The reconciler (reconcileOutbox): read the action, ask the provider,    *)
(* write if the action is as it was.  The practice provider knows what it  *)
(* recorded.  An action is unknown once for each of its attempts, whose    *)
(* number stands for updated_at.                                           *)

Ask(p) ==
  LET m == procs[p].message IN
  /\ procs[p].at = "ask"
  /\ outbox[m] = "outcome_unknown"
  /\ procs' = [procs EXCEPT ![p].at = "write", ![p].number = Len(attempts[m]),
                            ![p].result = IF m \in sink THEN "succeeded" ELSE "retryable"]
  /\ UNCHANGED tables

MutUnmoved(p) == TRUE
MutUnmovedStatus(p) == outbox[procs[p].message] = "outcome_unknown"
Unmoved(p) ==
  LET m == procs[p].message
  IN outbox[m] = "outcome_unknown" /\ Len(attempts[m]) = procs[p].number
Write(p) ==
  LET m == procs[p].message IN
  /\ procs[p].at = "write"
  /\ IF Unmoved(p)
     THEN /\ outbox' = [outbox EXCEPT ![m] = procs[p].result]
          /\ due' = [due EXCEPT ![m] = TRUE]
     ELSE UNCHANGED <<outbox, due>>
  /\ Leaves(p)
  /\ UNCHANGED <<current, content, approval, attempts, events, sink, stale>>

FinishCheck(p) ==
  /\ procs[p].at = "finish" /\ procs[p].command \in Checks
  /\ FinishHistory(Rows)
  /\ Ends(p)
  /\ UNCHANGED <<current, content, approval, due, sink, stale>>

-----------------------------------------------------------------------------
(* A process dies, or its command ends with an error.                      *)
Crash(p) ==
  /\ procs[p] # Idle
  /\ Ends(p)
  /\ UNCHANGED tables

(* The world.  A claimed execution is over within five minutes, and a      *)
(* command reaches the executor within a minute; a check may take longer.  *)
(* An approval that expires once its action is settled, and a minute that  *)
(* passes for an action that is not queued, would change nothing.          *)
MayChange == Cardinality({m \in Messages : approval[m] = "expired"}) + current - 1 < MaxChanges   \* bound

CaseChanges ==
  /\ current = 1 /\ MayChange
  /\ current' = current + 1
  /\ UNCHANGED <<content, approval, outbox, due, attempts, events, sink, stale, procs>>

Expire(m) ==
  /\ outbox[m] \in Open /\ approval[m] = "live" /\ MayChange
  /\ approval' = [approval EXCEPT ![m] = "expired"]
  /\ UNCHANGED <<current, content, outbox, due, attempts, events, sink, stale, procs>>

Busy(m, ats) == \E p \in DOMAIN procs : procs[p].message = m /\ procs[p].at \in ats

MinutePasses(m) ==
  /\ ~due[m] /\ Queued(Row(m)) /\ ~Busy(m, {"claim", "execute"})
  /\ due' = [due EXCEPT ![m] = TRUE]
  /\ UNCHANGED <<current, content, approval, outbox, attempts, events, sink, stale, procs>>

FiveMinutesPass(m) ==
  /\ ~stale[m] /\ ~Busy(m, {"execute", "deliver", "record"})
  /\ outbox[m] = "executing" \/ Kind(Row(m)) = "reconcile_started"
  /\ stale' = [stale EXCEPT ![m] = TRUE]
  /\ UNCHANGED <<current, content, approval, outbox, due, attempts, events, sink, procs>>

-----------------------------------------------------------------------------
Serve(p) ==
  \/ \E c \in Commands, m \in Messages : Begin(p, c, m)
  \/ ClaimAdvance(p) \/ ClaimCheck(p) \/ FinishAdvance(p)
  \/ Ask(p) \/ Write(p) \/ FinishCheck(p)

Run(p) ==
  \/ \E m \in Messages : Execute(p, m) \/ Declines(p, m)
  \/ Deliver(p) \/ Record(p) \/ Crash(p)

Next ==
  \/ Read /\ UNCHANGED procs
  \/ \E m \in Messages :
       \/ Preview(m) \/ Approve(m) \/ Revoke(m) \/ Expire(m)
       \/ MinutePasses(m) \/ FiveMinutesPass(m)
  \/ \E p \in Procs : Serve(p)
  \/ \E p \in Procs \cup {Worker} : Run(p)
  \/ CaseChanges

Spec == Init /\ [][Next]_vars

-----------------------------------------------------------------------------
(* Properties.                                                             *)

TypeOK ==
  /\ current \in 1..2
  /\ \A m \in Messages :
       /\ content[m] \in 0..2
       /\ outbox[m] \in {"none", "pending", "executing", "succeeded", "retryable",
                         "outcome_unknown", "dead_letter", "cancelled"}
       /\ Len(attempts[m]) <= AttemptCap
       /\ stale[m] => outbox[m] # "none"
  /\ sink \subseteq Messages

(* The case is told once: a delivered message is never delivered again,    *)
(* cancelled or superseded, whatever was answered late or checked twice    *)
(* (recovery-message-adapter.ts:33-38, 0107:326-340).                      *)
DeliveredOnce ==
  /\ Cardinality(sink) <= 1
  /\ \A m \in sink : outbox[m] \in {"executing", "outcome_unknown", "succeeded"}

(* The end of a history is true of the action it tells about: no success   *)
(* or failure that did not happen, and none that is taken back (0107       *)
(* "History is a narrative of facts").                                     *)
HistoryIsTrue ==
  \A m \in Messages :
    LET r == Finished(m, Row(m)) IN
    /\ Kind(r) \in {"succeeded", "reconciled"} => r.status = "succeeded" /\ m \in sink
    /\ Kind(r) = "failed" => r.status = "dead_letter"
    /\ Kind(r) \in {"blocked", "revoked"} => r.status = "cancelled" /\ m \notin sink

(* Once finished, the history tells what became of the action.             *)
HistoryTells ==
  \A m \in Messages :
    LET r == Finished(m, Row(m)) IN
    /\ r.status = "succeeded" => Kind(r) \in {"succeeded", "reconciled"}
    /\ r.status = "outcome_unknown" => Kind(r) \in {"outcome_unknown", "reconcile_started"}
    /\ r.status = "dead_letter" => Kind(r) = "failed"

=============================================================================
