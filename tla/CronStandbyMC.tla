--------------------------- MODULE CronStandbyMC ---------------------------
(* Small instances of CronStandby for TLC. *)
EXTENDS CronStandby, TLC

\* Handlers are interchangeable: safety runs only, symmetry is not sound for liveness.
Interchangeable == Permutations(Handlers)

=============================================================================
