------------------------------ MODULE ChatPathMC ------------------------------
(* Small instances of ChatPath for TLC. *)
EXTENDS ChatPath

=============================================================================
