---------------------------- MODULE EdgeAgentMC ----------------------------
(* Small instances of EdgeAgent for TLC. *)
EXTENDS EdgeAgent, TLC

\* Commands differ only in whether they are a disconnect (safety runs only).
SameKind == Permutations(Cmds \ Disconnects)

=============================================================================
