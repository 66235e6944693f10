---------------------------- MODULE MCBenchmark ----------------------------
(***************************************************************************)
(* Instances of Benchmark for TLC.                                         *)
(***************************************************************************)
EXTENDS Benchmark, TLC

\* The workers run the same code and are never compared.
WorkerSymmetry == Permutations(Workers)
=============================================================================
