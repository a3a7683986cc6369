--------------------------- MODULE OutboundControl ---------------------------
(***************************************************************************)
(* The commercial outbound pause: the singleton outbound_control.state,    *)
(* the append-only history outbound_control.event, the reconciliation      *)
(* facts, and the lock that orders operators against open claims           *)
(* (migrations 0552 and 0581, packages/db/src/commercial-outbound-pause).  *)
(*                                                                         *)
(* Operators work through their own connections from what they last read,  *)
(* so a command may arrive late, twice, or with another operator's id.     *)
(***************************************************************************)
EXTENDS Naturals, FiniteSets

CONSTANTS
  Operators,   \* members of jobguard_outbound_operator
  Commands,    \* command ids the operators use
  Receipts,    \* independently retained reconciliation receipts
  Workers,     \* claim transactions of business workers
  Enabled,     \* those deployed with JOBGUARD_COMMERCIAL_OUTBOUND enabled
  Nobody,
  NoRequest

ASSUME ControlAssumption ==
  /\ Enabled \subseteq Workers
  /\ Nobody \notin Operators
  /\ NoRequest \notin Commands

VARIABLES
  control,         \* outbound_control.state
  event,           \* outbound_control.event
  reconciliation,  \* outbound_control.reconciliation
  open             \* claim transactions that read "enabled" and hold FOR SHARE

vars == <<control, event, reconciliation, open>>

Operation == {"pause", "request_resume", "approve_resume"}

State == [paused : BOOLEAN, revision : Nat, pausedBy : Operators \cup {Nobody},
          requestedBy : Operators \cup {Nobody}, request : Commands \cup {NoRequest}]
EventRow == [command : Commands, operation : Operation, expected : Nat,
             actor : Operators, request : Commands \cup {NoRequest}, result : Nat]
Fact == [request : Commands, receipt : Receipts, actor : Operators]

TypeOK ==
  /\ control \in State
  /\ event \subseteq EventRow
  /\ reconciliation \subseteq Fact
  /\ open \subseteq Workers

Unpaused(revision) ==
  [paused |-> FALSE, revision |-> revision, pausedBy |-> Nobody,
   requestedBy |-> Nobody, request |-> NoRequest]

Init ==
  /\ control = Unpaused(0)
  /\ event = {}
  /\ reconciliation = {}
  /\ open = {}

-----------------------------------------------------------------------------
Reconciled(request) == \E f \in reconciliation : f.request = request

(* Operators named Mut... are mutations of the definition they precede.    *)

(* The state after an operation, as its UPDATE writes it.                  *)
MutWrittenPause(operation, actor, command) ==     \* a pause keeps the request
  CASE operation = "pause" ->
         [control EXCEPT !.revision = @ + 1, !.paused = TRUE, !.pausedBy = actor]
    [] operation = "request_resume" ->
         [control EXCEPT !.revision = @ + 1, !.requestedBy = actor, !.request = command]
    [] operation = "approve_resume" -> Unpaused(control.revision + 1)
Written(operation, actor, command) ==
  CASE operation = "pause" ->
         [Unpaused(control.revision + 1) EXCEPT !.paused = TRUE, !.pausedBy = actor]
    [] operation = "request_resume" ->
         [control EXCEPT !.revision = @ + 1, !.requestedBy = actor, !.request = command]
    [] operation = "approve_resume" -> Unpaused(control.revision + 1)

(* What each operation requires; require_reconciliation is the trigger.    *)
Allowed(operation, actor, request) ==
  \/ operation = "pause"
  \/ operation = "request_resume" /\ control.paused
  \/ /\ operation = "approve_resume"
     /\ control.paused
     /\ control.request = request
     /\ control.requestedBy \notin {Nobody, actor}
     /\ control.pausedBy # actor
     /\ Reconciled(control.request)

(* The row lock FOR UPDATE is free, and the revision is the one expected.  *)
MutLocked == TRUE
Locked == open = {}
MutIsCurrent(expected) == TRUE
IsCurrent(expected) == expected = control.revision

(* outbound_control.command.  The row lock waits for open claims.  A known *)
(* command id is a replay or a conflict, a stale revision is refused, and  *)
(* neither changes anything.                                               *)
Command(command, operation, expected, actor, request) ==
  /\ (operation = "approve_resume") <=> (request # NoRequest)
  /\ Locked
  /\ \A e \in event : e.command # command
  /\ IsCurrent(expected)
  /\ Allowed(operation, actor, request)
  /\ control' = Written(operation, actor, command)
  /\ event' = event \cup
       {[command |-> command, operation |-> operation, expected |-> expected,
         actor |-> actor, request |-> request, result |-> control.revision + 1]}
  /\ UNCHANGED <<reconciliation, open>>

(* outbound_control.record_reconciliation: for the current request only,   *)
(* one fact per request and per receipt; an exact replay changes nothing.  *)
RecordReconciliation(request, receipt, actor) ==
  /\ Locked
  /\ control.paused
  /\ control.request = request
  /\ \A f \in reconciliation : f.request # request /\ f.receipt # receipt
  /\ reconciliation' = reconciliation \cup
       {[request |-> request, receipt |-> receipt, actor |-> actor]}
  /\ UNCHANGED <<control, event, open>>

(* commercialOutboundClaimsEnabled inside a claim transaction: the shared  *)
(* lock is held from the answer "enabled" to the end of the transaction.   *)
OpenClaim(w) ==
  /\ w \in Enabled \ open
  /\ ~control.paused
  /\ open' = open \cup {w}
  /\ UNCHANGED <<control, event, reconciliation>>

EndClaim(w) ==
  /\ w \in open
  /\ open' = open \ {w}
  /\ UNCHANGED <<control, event, reconciliation>>

(* Any operator may send any command at any time from a revision it read   *)
(* then or earlier.                                                        *)
Next ==
  \/ \E c \in Commands, o \in Operation, x \in 0..control.revision,
        p \in Operators, q \in Commands \cup {NoRequest} : Command(c, o, x, p, q)
  \/ \E q \in Commands, t \in Receipts, p \in Operators : RecordReconciliation(q, t, p)
  \/ \E w \in Workers : OpenClaim(w) \/ EndClaim(w)

Spec == Init /\ [][Next]_vars

-----------------------------------------------------------------------------
(* Properties.                                                             *)

(* Pause serializes with claims: a claim transaction that was told         *)
(* "enabled" commits before any pause does.                                *)
NoClaimCommitsPaused == open # {} => ~control.paused

(* The history explains the state: replaying the events in the order of    *)
(* their result revisions, with no gap and no repetition, gives the row.   *)
EventAt(n) == CHOOSE e \in event : e.result = n
Replay ==
  LET after[n \in 0..Cardinality(event)] ==
        IF n = 0 THEN Unpaused(0)
        ELSE LET e == EventAt(n)
                 s == after[n - 1]
             IN CASE e.operation = "pause" ->
                       [paused |-> TRUE, revision |-> n, pausedBy |-> e.actor,
                        requestedBy |-> Nobody, request |-> NoRequest]
                  [] e.operation = "request_resume" ->
                       [s EXCEPT !.revision = n, !.requestedBy = e.actor,
                                 !.request = e.command]
                  [] e.operation = "approve_resume" -> Unpaused(n)
  IN after[Cardinality(event)]
HistoryExplainsState ==
  /\ {e.result : e \in event} = 1..Cardinality(event)
  /\ Replay = control

(* Every resume in the history stands on its own: the approved request was *)
(* made by somebody else, who had seen the pause it lifts; no pause came   *)
(* between the request and the approval; the approver did not order that   *)
(* pause; and a reconciliation is on record for exactly that request.      *)
Since(e, operation) ==
  {f \in event : f.operation = operation /\ f.result < e.result}
LatestOf(events) == CHOOSE e \in events : \A f \in events : f.result <= e.result
Justified(e) ==
  \E q \in Since(e, "request_resume") :
    /\ q.command = e.request
    /\ q.actor # e.actor
    /\ Reconciled(q.command)
    /\ Since(e, "pause") # {}
    /\ LET p == LatestOf(Since(e, "pause")) IN
         p.result <= q.expected /\ p.actor # e.actor
EveryResumeIsJustified ==
  \A e \in event : e.operation = "approve_resume" => Justified(e)

=============================================================================
