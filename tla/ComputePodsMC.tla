----------------------------- MODULE ComputePodsMC -----------------------------
(* Instances of ComputePods for TLC. *)
EXTENDS ComputePods, TLC

\* Names of pods, tasks and calls mean nothing to the properties.
Symmetric == Permutations(Pods) \cup Permutations(Tasks) \cup Permutations(Calls)

=============================================================================
