------------------------------ MODULE MCWormHold ------------------------------
(* An instance of WormHold for TLC: memberships 1 and 2 are one person's.  *)
EXTENDS WormHold

PersonOf == [m \in Members |-> IF m = 3 THEN "second" ELSE "first"]

=============================================================================
