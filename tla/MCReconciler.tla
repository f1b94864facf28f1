---------------------------- MODULE MCReconciler ----------------------------
(* Small instances of Reconciler for TLC: the specs users write, and symmetry. *)
EXTENDS Reconciler, TLC

PolicySpecOf(autoUpgrade, paused, cron, startAfter) ==
  [autoUpgrade |-> autoUpgrade, paused |-> paused, cron |-> cron,
   startAfter |-> startAfter]

Nightly  == PolicySpecOf(TRUE, FALSE, TRUE, "unset")    \* on a cron schedule
Halted   == PolicySpecOf(TRUE, TRUE, TRUE, "unset")     \* the same, paused
Watching == PolicySpecOf(FALSE, FALSE, TRUE, "unset")   \* autoUpgrade off
Garbled  == PolicySpecOf(TRUE, FALSE, TRUE, "malformed")
Daily    == PolicySpecOf(TRUE, FALSE, FALSE, "unset")   \* on an interval
Later    == PolicySpecOf(TRUE, FALSE, FALSE, "set")     \* the same, from startAfter on

CoreSpecs == {Nightly, Halted}
IntervalSpecs == {Daily}
SteadySpecs == {Daily, Nightly, Watching, Garbled}
MixedSpecs == {Halted, Later}

Replicas == Permutations(Replica)
=============================================================================
