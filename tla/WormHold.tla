------------------------------- MODULE WormHold -------------------------------
(***************************************************************************)
(* Durable WORM commands of one tenant (worm-command-repository.ts, SQL    *)
(* 0577 and 0578): owners submit holds, releases and time-stamp anchors;   *)
(* an executor claims a command in one transaction, writes to the object   *)
(* store outside any transaction, and finishes in another; operators read  *)
(* the object back and reconcile what an executor left unknown.            *)
(*                                                                         *)
(* A write that was sent may land, be denied or be lost at any later time, *)
(* whatever became of the process that sent it.  The tenant's advisory     *)
(* lock makes each SQL function one step.  Command id and idempotency key  *)
(* are one identity here.  The deployment switch is on.                    *)
(***************************************************************************)
EXTENDS Naturals

CONSTANTS
  Evidence,      \* admitted object versions
  Anchorable,    \* those that are manifests or checkpoints
  Members,       \* owner memberships
  Person,        \* the identity behind each membership
  Revocable,     \* bound: memberships that may be revoked
  Commands,      \* command ids
  Operators,     \* reconciliations that may be under way at once
  MaxAttempts,   \* bound: claims of one anchor
  NoCommand

ASSUME WormAssumption ==
  /\ Anchorable \subseteq Evidence
  /\ NoCommand \notin Commands
  /\ MaxAttempts \in Nat

VARIABLES
  active,    \* memberships in force
  request,   \* the immutable columns of worm_command
  status,    \* worm_command.status; "none" before the row exists
  attempts,  \* worm_command.attempts
  executor,  \* the process that claimed the command
  recovery,  \* an operator's reconciliation under way
  writes,    \* commands whose write is on its way to the object store
  held       \* the object's legal hold

vars == <<active, request, status, attempts, executor, recovery, writes, held>>

Action == {"apply_hold", "release_hold", "request_anchor"}
Status == {"none", "queued", "executing", "applied", "pending",
           "outcome_unknown", "refused", "cancelled"}
Outcome == {"none", "applied", "pending", "outcome_unknown", "refused"}
Observation == {"unread", "on", "off", "unavailable"}

Request == [action : Action, by : Members, evidence : Evidence,
            releaseOf : Commands \cup {NoCommand}]
Executor == [at : {"gone", "send", "await", "read", "finish"},
             attempt : Nat, outcome : Outcome]
Recovery == [command : Commands \cup {NoCommand}, attempt : Nat,
             observed : Observation]

NoRequest == [action |-> "none"]
Gone == [at |-> "gone", attempt |-> 0, outcome |-> "none"]
Idle == [command |-> NoCommand, attempt |-> 0, observed |-> "unread"]

TypeOK ==
  /\ active \subseteq Members
  /\ request \in [Commands -> Request \cup {NoRequest}]
  /\ \A c \in Commands : status[c] # "none" => request[c] \in Request
  /\ status \in [Commands -> Status]
  /\ attempts \in [Commands -> Nat]
  /\ executor \in [Commands -> Executor]
  /\ recovery \in [Operators -> Recovery]
  /\ writes \subseteq Commands
  /\ held \in [Evidence -> BOOLEAN]

Init ==
  /\ active = Members
  /\ request = [c \in Commands |-> NoRequest]
  /\ status = [c \in Commands |-> "none"]
  /\ attempts = [c \in Commands |-> 0]
  /\ executor = [c \in Commands |-> Gone]
  /\ recovery = [o \in Operators |-> Idle]
  /\ writes = {}
  /\ held = [e \in Evidence |-> FALSE]

-----------------------------------------------------------------------------
Dead == {"none", "cancelled", "refused"}

IsHold(c) == status[c] # "none" /\ request[c].action = "apply_hold"
IsRelease(c) == status[c] # "none" /\ request[c].action = "release_hold"
IsHoldOrRelease(c) == IsHold(c) \/ IsRelease(c)
ReleaseOf(h) == {r \in Commands : IsRelease(r) /\ request[r].releaseOf = h}
HoldsOf(e) == {h \in Commands : IsHold(h) /\ request[h].evidence = e}

(* A hold in the way of another: not dead, and not released.               *)
Live(h) == status[h] \notin Dead /\ \A r \in ReleaseOf(h) : status[r] # "applied"

(* What worm_submit asks of each action.                                   *)
MutSubmittable(q) ==       \* the same membership instead of the same person
  \/ /\ q.action = "apply_hold" /\ q.releaseOf = NoCommand
     /\ \A h \in HoldsOf(q.evidence) : ~Live(h)
  \/ /\ q.action = "release_hold"
     /\ \E h \in HoldsOf(q.evidence) :
          /\ h = q.releaseOf
          /\ status[h] = "applied"
          /\ request[h].by # q.by
          /\ \A r \in ReleaseOf(h) : status[r] \in Dead
  \/ /\ q.action = "request_anchor" /\ q.releaseOf = NoCommand
     /\ q.evidence \in Anchorable
Submittable(q) ==
  \/ /\ q.action = "apply_hold" /\ q.releaseOf = NoCommand
     /\ \A h \in HoldsOf(q.evidence) : ~Live(h)
  \/ /\ q.action = "release_hold"
     /\ \E h \in HoldsOf(q.evidence) :
          /\ h = q.releaseOf
          /\ status[h] = "applied"
          /\ Person[request[h].by] # Person[q.by]
          /\ \A r \in ReleaseOf(h) : status[r] \in Dead
  \/ /\ q.action = "request_anchor" /\ q.releaseOf = NoCommand
     /\ q.evidence \in Anchorable

(* worm_submit.  A known id is a replay or a conflict and changes nothing. *)
Submit(c, q) ==
  /\ q.by \in active
  /\ status[c] = "none"
  /\ Submittable(q)
  /\ request' = [request EXCEPT ![c] = q]
  /\ status' = [status EXCEPT ![c] = "queued"]
  /\ UNCHANGED <<active, attempts, executor, recovery, writes, held>>

Revoke(m) ==
  /\ m \in active \cap Revocable
  /\ active' = active \ {m}
  /\ UNCHANGED <<request, status, attempts, executor, recovery, writes, held>>

-----------------------------------------------------------------------------
(* The executor.                                                           *)

Moves(c, at, outcome) ==
  executor' = [executor EXCEPT ![c] =
    [at |-> at, attempt |-> @.attempt, outcome |-> outcome]]

(* worm_claim: an owner who is no longer one cancels the command.          *)
Claimable(s) == s \in {"queued", "pending"}
Claim(c) ==
  /\ Claimable(status[c])
  /\ request[c].by \in active
  /\ attempts[c] < MaxAttempts
  /\ status' = [status EXCEPT ![c] = "executing"]
  /\ attempts' = [attempts EXCEPT ![c] = @ + 1]
  /\ executor' = [executor EXCEPT ![c] =
       [at |-> "send", attempt |-> attempts[c] + 1, outcome |-> "none"]]
  /\ UNCHANGED <<active, request, recovery, writes, held>>
ClaimRevoked(c) ==
  /\ Claimable(status[c])
  /\ request[c].by \notin active
  /\ status' = [status EXCEPT ![c] = "cancelled"]
  /\ UNCHANGED <<active, request, attempts, executor, recovery, writes, held>>

(* storage.hold: the preflight refuses before anything was sent, or the    *)
(* write goes out.                                                         *)
Send(c) ==
  /\ executor[c].at = "send"
  /\ IsHoldOrRelease(c)
  /\ \/ Moves(c, "finish", "refused") /\ UNCHANGED writes
     \/ Moves(c, "await", "none") /\ writes' = writes \cup {c}
  /\ UNCHANGED <<active, request, status, attempts, recovery, held>>

(* tsa.anchor: a token, or no usable answer.                               *)
Anchor(c) ==
  /\ executor[c].at = "send"
  /\ request[c].action = "request_anchor"
  /\ \E outcome \in {"applied", "pending"} : Moves(c, "finish", outcome)
  /\ UNCHANGED <<active, request, status, attempts, recovery, writes, held>>

(* The object store performs the write; its answer may get lost.           *)
Wanted(c) == request[c].action = "apply_hold"
Land(c) ==
  /\ c \in writes
  /\ writes' = writes \ {c}
  /\ held' = [held EXCEPT ![request[c].evidence] = Wanted(c)]
  /\ IF executor[c].at = "await"
     THEN Moves(c, "read", "none") \/ Moves(c, "finish", "outcome_unknown")
     ELSE UNCHANGED executor
  /\ UNCHANGED <<active, request, status, attempts, recovery>>

(* AccessDenied proves that nothing was written.                           *)
Deny(c) ==
  /\ c \in writes
  /\ writes' = writes \ {c}
  /\ IF executor[c].at = "await" THEN Moves(c, "finish", "refused")
                                 ELSE UNCHANGED executor
  /\ UNCHANGED <<active, request, status, attempts, recovery, held>>

(* Every other error leaves the outcome unknown: the write may be lost or  *)
(* still be on its way.                                                    *)
MutErrorOutcome == "refused"
MutErrorOutcomeUntyped == "timed_out"
ErrorOutcome == "outcome_unknown"
GiveUp(c) ==
  /\ executor[c].at = "await"
  /\ Moves(c, "finish", ErrorOutcome)
  /\ \/ UNCHANGED writes
     \/ writes' = writes \ {c}
  /\ UNCHANGED <<active, request, status, attempts, recovery, held>>

(* The readback decides, when it succeeds.                                 *)
Readback(c) ==
  /\ executor[c].at = "read"
  /\ \/ held[request[c].evidence] = Wanted(c) /\ Moves(c, "finish", "applied")
     \/ Moves(c, "finish", "outcome_unknown")
  /\ UNCHANGED <<active, request, status, attempts, recovery, writes, held>>

(* worm_finish: refused unless the claim is still open; then the executor  *)
(* ends with an error.                                                     *)
Finishable(c) == status[c] = "executing" /\ attempts[c] = executor[c].attempt
Finish(c) ==
  /\ executor[c].at = "finish"
  /\ status' = [status EXCEPT ![c] =
       IF Finishable(c) THEN executor[c].outcome ELSE @]
  /\ executor' = [executor EXCEPT ![c] = Gone]
  /\ UNCHANGED <<active, request, attempts, recovery, writes, held>>

Crash(c) ==
  /\ executor[c].at # "gone"
  /\ executor' = [executor EXCEPT ![c] = Gone]
  /\ UNCHANGED <<active, request, status, attempts, recovery, writes, held>>

-----------------------------------------------------------------------------
(* The operator's recovery: read the target, then the object, then         *)
(* reconcile the attempt that was read.                                    *)

MutRecoverable(c) ==       \* crashed claims forgotten
  IsHoldOrRelease(c) /\ status[c] = "outcome_unknown" /\ attempts[c] >= 1
Recoverable(c) ==
  /\ IsHoldOrRelease(c)
  /\ status[c] \in {"executing", "outcome_unknown"}
  /\ attempts[c] >= 1

Target(o, c) ==
  /\ recovery[o] = Idle
  /\ Recoverable(c)
  /\ recovery' = [recovery EXCEPT ![o] =
       [command |-> c, attempt |-> attempts[c], observed |-> "unread"]]
  /\ UNCHANGED <<active, request, status, attempts, executor, writes, held>>

Observe(o) ==
  /\ recovery[o].command # NoCommand
  /\ recovery[o].observed = "unread"
  /\ \E seen \in {IF held[request[recovery[o].command].evidence] THEN "on" ELSE "off",
                  "unavailable"} :
       recovery' = [recovery EXCEPT ![o] =
         [command |-> @.command, attempt |-> @.attempt, observed |-> seen]]
  /\ UNCHANGED <<active, request, status, attempts, executor, writes, held>>

Confirms(observed, c) == observed = (IF Wanted(c) THEN "on" ELSE "off")

(* worm_reconcile, or nothing when another reconciliation was first.       *)
MutReconciled(observed, c) ==       \* any readback counts
  IF observed # "unavailable" THEN "applied" ELSE "outcome_unknown"
Reconciled(observed, c) ==
  IF Confirms(observed, c) THEN "applied" ELSE "outcome_unknown"
Reconcile(o) ==
  /\ recovery[o].observed # "unread"
  /\ LET c == recovery[o].command IN
       status' = [status EXCEPT ![c] =
         IF Recoverable(c) /\ attempts[c] = recovery[o].attempt
         THEN Reconciled(recovery[o].observed, c) ELSE @]
  /\ recovery' = [recovery EXCEPT ![o] = Idle]
  /\ UNCHANGED <<active, request, attempts, executor, writes, held>>

Abandon(o) ==
  /\ recovery[o] # Idle
  /\ recovery' = [recovery EXCEPT ![o] = Idle]
  /\ UNCHANGED <<active, request, status, attempts, executor, writes, held>>

-----------------------------------------------------------------------------
Execution(c) ==
  \/ Claim(c) \/ ClaimRevoked(c) \/ Send(c) \/ Anchor(c) \/ Land(c) \/ Deny(c)
  \/ GiveUp(c) \/ Readback(c) \/ Finish(c) \/ Crash(c)

Next ==
  \/ \E c \in Commands, q \in Request : Submit(c, q)
  \/ \E m \in Members : Revoke(m)
  \/ \E c \in Commands : Execution(c)
  \/ \E o \in Operators, c \in Commands : Target(o, c)
  \/ \E o \in Operators : Observe(o) \/ Reconcile(o) \/ Abandon(o)

Spec == Init /\ [][Next]_vars

(* Operators recover every blocked command again and again, and do not     *)
(* abandon every recovery of it; executors promise nothing.                *)
FairSpec ==
  /\ Spec
  /\ \A c \in Commands :
       /\ SF_vars(\E o \in Operators : Target(o, c))
       /\ \A o \in Operators :
            /\ SF_vars(recovery[o].command = c /\ Observe(o))
            /\ SF_vars(recovery[o].command = c /\ Reconcile(o))

-----------------------------------------------------------------------------
(* Properties.                                                             *)

(* A hold recorded as applied holds the object for as long as no release   *)
(* of it got as far as an executor.                                        *)
Undisturbed(h) ==
  \A r \in ReleaseOf(h) : status[r] \in Dead \cup {"queued"}
AppliedHoldHolds ==
  \A h \in Commands :
    IsHold(h) /\ status[h] = "applied" /\ Undisturbed(h)
      => held[request[h].evidence]

(* A command that is settled has no write left on its way: nothing the     *)
(* receipts say is undone later by a late write.                           *)
NoLateWrite ==
  \A c \in writes : status[c] \in {"executing", "outcome_unknown"}

(* An object lets go of its hold only for a release, asked for by another  *)
(* person than the hold's, of the one hold that was applied to it.         *)
SecondPersonReleases ==
  \A e \in Evidence :
    held[e] /\ ~held'[e] =>
      \E r \in Commands :
        /\ IsRelease(r) /\ request[r].evidence = e
        /\ status[r] \in {"executing", "outcome_unknown"}
        /\ LET h == request[r].releaseOf IN
             /\ h \in HoldsOf(e) /\ status[h] = "applied"
             /\ Person[request[h].by] # Person[request[r].by]
ReleasedByAnother == [][SecondPersonReleases]_vars

(* "A crashed executing claim requires explicit reconciliation"            *)
(* (worm-command-repository.ts:142): no hold or release stays executing.    *)
(* Operators can take no other command (0578:21,38): a crashed anchor does *)
(* stay.                                                                   *)
NoHoldStaysExecuting ==
  \A c \in Commands :
    IsHoldOrRelease(c) /\ status[c] = "executing" ~> status[c] # "executing"

=============================================================================
