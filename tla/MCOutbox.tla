------------------------------ MODULE MCOutbox ------------------------------
(* Instances of Outbox for TLC.                                            *)
EXTENDS Outbox

CONSTANTS a1, r1, r2

OneAction == {a1}
TwoReconcilers == {r1, r2}
OneReconciler == {r1}

=============================================================================
