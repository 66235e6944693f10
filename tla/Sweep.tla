-------------------------------- MODULE Sweep --------------------------------
(***************************************************************************)
(* The single-node scaling sweep (experiments/scale.py): for one point     *)
(* after the other a dedicated inference service behind ssh, a benchmark   *)
(* guarded against the service's end, the service's end within 30 seconds, *)
(* the point's validation and an export of everything measured so far.     *)
(* Each action runs from one await of run() to the next; the extra         *)
(* single-trace replay of a smoke run is left out.                         *)
(***************************************************************************)
EXTENDS Naturals, SweepPoints

VARIABLES at,       \* where run() is
          point,    \* the point it works on
          signals,  \* cancellations delivered to run()
          failed,   \* an exception is on its way out
          service,  \* a point's inference service, seen through its ssh client
          stdin,    \* the pipe to the current service is open
          replay,   \* the task that runs the point's benchmark
          summary,  \* a point's benchmark/summary.json: [valid, checked] or Missing
          csv       \* the rows of summary.csv

vars == <<at, point, signals, failed, service, stdin, replay, summary, csv>>

Summaries == [valid : BOOLEAN, checked : BOOLEAN, written : BOOLEAN]
Missing == [valid |-> FALSE, checked |-> FALSE, written |-> FALSE]
Row(valid, checked) == [valid |-> valid, checked |-> checked, written |-> TRUE]
Over == at \in {"returned", "raised", "killed"}
Exited(p) == service[p] \in {"zero", "nonzero"}
Alive(p) == service[p] \in {"starting", "ready"}

TypeOK ==
    /\ at \in {"point", "starting", "replay", "cancel", "leave", "closing", "validate", "final",
               "returned", "raised", "killed"}
    /\ point \in 1 .. Points + 1 /\ signals \in 0 .. 2 /\ failed \in BOOLEAN /\ stdin \in BOOLEAN
    /\ service \in [1 .. Points -> {"none", "starting", "ready", "zero", "nonzero"}]
    /\ replay \in {"none", "running", "completed", "failed", "cancelled"}
    /\ summary \in [1 .. Points -> Summaries]
    /\ csv \in [1 .. Points -> Summaries]

Init ==
    /\ at = "point" /\ point = 1 /\ signals = 0 /\ failed = FALSE
    /\ service = [p \in 1 .. Points |-> "none"] /\ stdin = FALSE /\ replay = "none"
    /\ summary = [p \in 1 .. Points |-> Missing]
    /\ csv = [p \in 1 .. Points |-> Missing]

Write(row) == summary' = [summary EXCEPT ![point] = row]
Raise(label) == at' = label /\ failed' = TRUE

-----------------------------------------------------------------------------
(* run() and inference_service *)

\* The last point is done, the allocation's time is too short for another one,
\* or ssh cannot be started; otherwise the point's own service is launched.
StartPoint ==
    /\ at = "point"
    /\ \/ point > Points /\ at' = "final" /\ UNCHANGED <<failed, service, stdin, replay>>
       \/ point <= Points /\ Raise("final") /\ UNCHANGED <<service, stdin, replay>>
       \/ /\ point <= Points /\ at' = "starting"
          /\ service' = [service EXCEPT ![point] = "starting"]
          /\ stdin' = TRUE /\ replay' = "none"
          /\ UNCHANGED failed
    /\ UNCHANGED <<point, signals, summary, csv>>

\* ready.json is there; or the service ended, or did not get ready in 930 s.
ServiceStarts ==
    /\ at = "starting"
    /\ \/ service[point] = "ready" /\ at' = "replay" /\ replay' = "running" /\ UNCHANGED failed
       \/ service[point] # "ready" /\ Raise("leave") /\ UNCHANGED replay
    /\ UNCHANGED <<point, signals, service, stdin, summary, csv>>

\* guarded_benchmark wakes up: a service that has ended is an error even if the
\* benchmark has its result by then.
Guard ==
    /\ at = "replay" /\ (replay = "running" => Exited(point))
    /\ IF Exited(point) \/ replay = "failed"
       THEN Raise("cancel") ELSE at' = "leave" /\ UNCHANGED failed
    /\ UNCHANGED <<point, signals, service, stdin, replay, summary, csv>>

\* Its finally clause cancels the benchmark, which writes what it has.
CancelReplay ==
    /\ at = "cancel" /\ at' = "leave"
    /\ IF replay = "running"
       THEN replay' = "cancelled" /\ summary' \in {summary, [summary EXCEPT ![point] = Row(FALSE, FALSE)]}
       ELSE UNCHANGED <<replay, summary>>
    /\ UNCHANGED <<point, signals, failed, service, stdin, csv>>

Leave ==
    /\ at = "leave" /\ at' = "closing"
    /\ stdin' = FALSE
    /\ UNCHANGED <<point, signals, failed, service, replay, summary, csv>>

\* Mutant: a service that does not end in time is no error.
ClosingTolerant ==
    /\ at = "closing"
    /\ at' = IF failed THEN "final" ELSE "validate"
    /\ UNCHANGED <<point, signals, failed, service, stdin, replay, summary, csv>>

\* The service's exit code, or 30 seconds without one.
Closing ==
    /\ at = "closing"
    /\ \/ service[point] = "zero" /\ at' = (IF failed THEN "final" ELSE "validate") /\ UNCHANGED failed
       \/ service[point] # "zero" /\ Raise("final")
    /\ UNCHANGED <<point, signals, service, stdin, replay, summary, csv>>

\* The benchmark's verdict is replaced by the verdict of all checks, and all
\* points so far are exported; an invalid point ends the sweep, and so do metrics
\* that cannot be read.
Validate ==
    /\ at = "validate"
    /\ \/ \E ok \in BOOLEAN :
            /\ Write(Row(summary[point].valid /\ ok, TRUE))
            /\ IF summary[point].valid /\ ok
               THEN at' = "point" /\ point' = point + 1 /\ UNCHANGED failed
               ELSE Raise("final") /\ UNCHANGED point
            /\ csv' = summary'
       \/ Raise("final") /\ UNCHANGED <<point, summary, csv>>
    /\ UNCHANGED <<signals, service, stdin, replay>>

\* export_summary of the outer finally clause.
Final ==
    /\ at = "final"
    /\ csv' = summary
    /\ at' = IF failed THEN "raised" ELSE "returned"
    /\ UNCHANGED <<point, signals, failed, service, stdin, replay, summary>>

\* A signal cancels run() at the await it is in.
Signal ==
    /\ signals < 2 /\ at \in {"starting", "replay", "cancel", "closing"}
    /\ signals' = signals + 1
    /\ Raise(CASE at = "starting" -> "leave"
               [] at \in {"replay", "cancel"} -> "cancel"
               [] at = "closing" -> "final")
    /\ UNCHANGED <<point, service, stdin, replay, summary, csv>>

Kill ==
    /\ ~Over
    /\ at' = "killed" /\ stdin' = FALSE
    /\ UNCHANGED <<point, signals, failed, service, replay, summary, csv>>

-----------------------------------------------------------------------------
(* The benchmark and the service beside run() *)

\* The benchmark ends: its window is valid or not, or it raises, in each case
\* with a summary.
ReplayEnds ==
    /\ replay = "running" /\ ~Over
    /\ \/ replay' = "completed" /\ \E valid \in BOOLEAN : Write(Row(valid, FALSE))
       \/ replay' = "failed" /\ Write(Row(FALSE, FALSE))
    /\ UNCHANGED <<at, point, signals, failed, service, stdin, csv>>

ServiceReady ==
    /\ point <= Points /\ service[point] = "starting" /\ stdin
    /\ service' = [service EXCEPT ![point] = "ready"]
    /\ UNCHANGED <<at, point, signals, failed, stdin, replay, summary, csv>>

\* A service ends with an error at any moment, or after its stdin was closed.
ServiceEnds ==
    /\ point <= Points /\ Alive(point)
    /\ \E code \in IF stdin THEN {"nonzero"} ELSE {"zero", "nonzero"} :
         service' = [service EXCEPT ![point] = code]
    /\ UNCHANGED <<at, point, signals, failed, stdin, replay, summary, csv>>

Run == StartPoint \/ ServiceStarts \/ Guard \/ CancelReplay \/ Leave \/ Closing \/ Validate \/ Final

Next == Run \/ Signal \/ Kill \/ ReplayEnds \/ ServiceReady \/ ServiceEnds

\* run() takes its steps: only a benchmark has no timeout.  A service ends when
\* its stdin is closed (module MultiNode).
Spec == Init /\ [][Next]_vars /\ WF_vars(Run) /\ WF_vars(ServiceEnds /\ ~stdin)

-----------------------------------------------------------------------------
(* Properties *)

\* No two services of a sweep are ever alive together, so each point has its
\* GPUs for itself; all points before the current one are validated, by a
\* service that ended well; and when run() has ended, the exported table is
\* what the summaries say.
SweepSound ==
    /\ \A p, q \in 1 .. Points : p # q => ~(Alive(p) /\ Alive(q))
    /\ \A p \in 1 .. point - 1 : summary[p] = Row(TRUE, TRUE) /\ service[p] = "zero"
    /\ at \in {"returned", "raised"} => csv = summary

\* A row of the exported table says "valid" only of a point that was validated
\* and whose service ended well.
ValidRowsAreChecked ==
    Over => \A p \in 1 .. Points : csv[p].valid => csv[p].checked /\ service[p] = "zero"

\* A signal, an error or the coordinator's death ends the sweep and the service
\* it runs.
Stopping == signals > 0 \/ failed \/ at = "killed"
Stopped == Over /\ \A p \in 1 .. Points : ~Alive(p)
SweepStops == Stopping ~> Stopped
=============================================================================
