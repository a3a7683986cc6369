--------------------------- MODULE MCOfflineQueue ---------------------------
(* Instances of OfflineQueue for TLC: two commands of one job, of which    *)
(* the second may be a commercial intent.                                  *)
EXTENDS OfflineQueue

CONSTANTS c1, c2

SameJob == [c \in {c1, c2} |-> "job"]
OneJobTwo == {c1, c2}
OneCommercial == {c2}

=============================================================================
