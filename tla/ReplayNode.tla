----------------------------- MODULE ReplayNode -----------------------------
(* The replay processes of one user on one node, and what they share there. *)
EXTENDS Naturals, FiniteSets

CONSTANTS
  Replays,  \* replay processes, each with one executor
  Ports,    \* the ephemeral ports of the loopback interface
  Polls,    \* health polls of a gateway within startup_timeout
  Limit,    \* max_parallel_sandbox_builds; 0 means unbounded
  Start,    \* a process id modulo Limit: where its scan of the slots begins
  None,     \* no port, no holder, no listener
  Other     \* any program that is not a gateway of a replay

ASSUME ReplayNodeConstants ==
    /\ IsFiniteSet(Replays)
    /\ Polls \in Nat /\ Limit \in Nat /\ Start \in [Replays -> Nat]
    /\ None \notin Ports /\ None \notin Replays
    /\ Other \notin Replays /\ Other # None
=============================================================================
