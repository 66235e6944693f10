----------------------------- MODULE SweepPoints -----------------------------
(* The points, workload by concurrency, of one scaling sweep. *)
EXTENDS Naturals

CONSTANTS Points

ASSUME SweepPointsConstants == Points \in Nat
=============================================================================
