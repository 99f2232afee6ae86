--------------------------- MODULE WhatsappSessionMC ---------------------------
(* Small instances of WhatsappSession for TLC. *)
EXTENDS WhatsappSession
=============================================================================
