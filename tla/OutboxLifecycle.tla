--------------------------- MODULE OutboxLifecycle ---------------------------
(***************************************************************************)
(* What the database allows the status of an outbox row to do: the edges   *)
(* of the trigger app.outbox_status_forward_only (migration 0661), which   *)
(* refuses every other update with INVALID_TRANSITION.  A program that     *)
(* implements this specification is never refused.                         *)
(***************************************************************************)
CONSTANT Actions
VARIABLE status

Edges ==
  ({"pending", "retryable"} \X {"executing", "cancelled"})
    \cup ({"executing"} \X {"succeeded", "retryable", "outcome_unknown", "dead_letter"})
    \cup ({"outcome_unknown"} \X {"succeeded", "retryable", "cancelled"})
    \cup ({"dead_letter"} \X {"cancelled"})

Init == status = [a \in Actions |-> "absent"]

Insert(a) ==
  /\ status[a] = "absent"
  /\ status' = [status EXCEPT ![a] = "pending"]

Update(a) ==
  \E e \in Edges : status[a] = e[1] /\ status' = [status EXCEPT ![a] = e[2]]

Next == \E a \in Actions : Insert(a) \/ Update(a)

Spec == Init /\ [][Next]_status

=============================================================================
