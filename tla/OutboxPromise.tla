---------------------------- MODULE OutboxPromise ----------------------------
(***************************************************************************)
(* What the outbox promises to whoever authorized an action, with no       *)
(* attempts, claims or reconcilers in sight: the action takes effect at    *)
(* the provider at most once, it is reported a success only if it did, and *)
(* once it is refused or given up for failed it never will.  Only a        *)
(* cancellation by an operator, who may cancel an action whose outcome is  *)
(* unknown, leaves open whether it takes effect.                           *)
(***************************************************************************)
EXTENDS Naturals

CONSTANT Actions
VARIABLES
  effect,   \* how many times the action took effect
  verdict   \* what the outbox says of it

Verdict == {"open", "succeeded", "failed", "refused", "cancelled"}

Init ==
  /\ effect = [a \in Actions |-> 0]
  /\ verdict = [a \in Actions |-> "open"]

TakeEffect(a) ==
  /\ effect[a] = 0
  /\ verdict[a] \in {"open", "cancelled"}
  /\ effect' = [effect EXCEPT ![a] = 1]
  /\ UNCHANGED verdict

Decide(a, v) ==
  /\ verdict' = [verdict EXCEPT ![a] = v]
  /\ UNCHANGED effect

Succeed(a) == verdict[a] = "open" /\ effect[a] = 1 /\ Decide(a, "succeeded")
Refuse(a) == verdict[a] = "open" /\ effect[a] = 0 /\ Decide(a, "refused")
Fail(a) == verdict[a] = "open" /\ effect[a] = 0 /\ Decide(a, "failed")
Cancel(a) == verdict[a] \in {"open", "failed"} /\ Decide(a, "cancelled")

Next == \E a \in Actions :
          TakeEffect(a) \/ Succeed(a) \/ Refuse(a) \/ Fail(a) \/ Cancel(a)

Spec == Init /\ [][Next]_<<effect, verdict>>

=============================================================================
