--------------------------- MODULE MCOutboundControl ---------------------------
(* An instance of OutboundControl for TLC: three operators, five commands. *)
EXTENDS OutboundControl, TLC

Interchangeable ==
  Permutations(Operators) \cup Permutations(Commands) \cup Permutations(Receipts)

=============================================================================
