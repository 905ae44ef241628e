---------------------------- MODULE BenchmarksMC ----------------------------
(* Instances of Benchmarks for TLC. *)
EXTENDS Benchmarks, TLC
=============================================================================
