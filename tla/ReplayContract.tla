--------------------------- MODULE ReplayContract ---------------------------
(***************************************************************************)
(* What replay_trace promises its caller, whatever its executors do: a     *)
(* node is attempted at most once and only after its parents completed;    *)
(* after the replay stops nothing is attempted or recorded; the caller     *)
(* gets a report of every node or a failure, with no node left active.     *)
(***************************************************************************)
CONSTANTS Nodes, Parents

VARIABLES attempted,  \* nodes an attempt was made at
          active,     \* attempts in progress
          done,       \* nodes with a recorded result
          verdict     \* "open", "stopping", then "report" or "failed"

vars == <<attempted, active, done, verdict>>

Init == attempted = {} /\ active = {} /\ done = {} /\ verdict = "open"

Ready(n) == verdict = "open" /\ n \notin attempted /\ Parents[n] \subseteq done

Attempt(n) ==
  /\ Ready(n)
  /\ attempted' = attempted \cup {n}
  /\ active' = active \cup {n}
  /\ UNCHANGED <<done, verdict>>

\* An attempt whose result is a copy.
Copy(n) ==
  /\ Ready(n)
  /\ attempted' = attempted \cup {n}
  /\ done' = done \cup {n}
  /\ UNCHANGED <<active, verdict>>

Record(n) ==
  /\ verdict = "open" /\ n \in active
  /\ active' = active \ {n}
  /\ done' = done \cup {n}
  /\ UNCHANGED <<attempted, verdict>>

Abandon(n) ==
  /\ n \in active
  /\ active' = active \ {n}
  /\ UNCHANGED <<attempted, done, verdict>>

Stop == verdict = "open" /\ verdict' = "stopping" /\ UNCHANGED <<attempted, active, done>>

Report ==
  /\ verdict \in {"open", "stopping"}
  /\ done = Nodes
  /\ verdict' = "report"
  /\ UNCHANGED <<attempted, active, done>>

Fail ==
  /\ verdict \in {"open", "stopping"}
  /\ active = {}
  /\ verdict' = "failed"
  /\ UNCHANGED <<attempted, active, done>>

Next ==
  \/ \E n \in Nodes : Attempt(n) \/ Copy(n) \/ Record(n) \/ Abandon(n)
  \/ Stop \/ Report \/ Fail

Spec == Init /\ [][Next]_vars
=============================================================================
