----------------------------- MODULE RoutedCalls -----------------------------
(* The LLM calls of one run and the inference replicas that may answer them. *)
EXTENDS Naturals, FiniteSets

CONSTANTS
  Calls,     \* LLM nodes of the tasks of one run
  Replicas,  \* number of inference replicas
  Home       \* the replica of the frontend worker that runs the task

ASSUME RoutedCallsConstants ==
    /\ IsFiniteSet(Calls) /\ Replicas \in Nat \ {0}
    /\ Home \in [Calls -> 0 .. Replicas - 1]
=============================================================================
