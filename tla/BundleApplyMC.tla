---------------------------- MODULE BundleApplyMC ----------------------------
(* Small instances of BundleApply for TLC. *)
EXTENDS BundleApply

\* The second version changes everything, its proxy included.
EveryPartChanges == [v \in 1 .. 2 |-> [config |-> v, files |-> v, proxy |-> v]]

\* The second version changes the workspaces only.
FilesChange == [v \in 1 .. 2 |-> [config |-> 1, files |-> v, proxy |-> 1]]

\* What OpenClaw read last no longer counts once it stopped: the next boot replaces it.
LiveInUse ==
    <<latest, saved, staged, env, template, gateway, applied, job, settled, faults,
      IF gateway = "running" \/ template.config = None THEN live ELSE NoBundle>>

=============================================================================
