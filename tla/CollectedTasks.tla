--------------------------- MODULE CollectedTasks ---------------------------
(* The selection of tasks that trace collectors work through. *)
EXTENDS Naturals

CONSTANTS
  Collectors,  \* collector processes on one OpenClaw state directory
  Planned,     \* tasks of the selection
  NoOne        \* nobody holds collector.lock

ASSUME CollectedTasksConstants == Planned \in Nat /\ NoOne \notin Collectors
=============================================================================
