------------------------- MODULE RequestDispatchMC -------------------------
(* Instances of RequestDispatch for TLC. *)
EXTENDS RequestDispatch, TLC

\* Requests, workers and readers are interchangeable in the safety runs.
Symmetric ==
  Permutations(Requests) \cup Permutations(Workers) \cup Permutations(Readers)

=============================================================================
