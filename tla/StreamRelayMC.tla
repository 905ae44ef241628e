----------------------------- MODULE StreamRelayMC -----------------------------
(* Instances of StreamRelay for TLC. *)
EXTENDS StreamRelay, TLC

Symmetric == Permutations(Streams) \cup Permutations(Workers)

=============================================================================
