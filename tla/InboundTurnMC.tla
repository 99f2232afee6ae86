---------------------------- MODULE InboundTurnMC ----------------------------
(* Small instances of InboundTurn for TLC. *)
EXTENDS InboundTurn, TLC

Symmetry == Permutations(Msgs) \cup Permutations(Turns)

=============================================================================
