----------------------------- MODULE SweCollect -----------------------------
(***************************************************************************)
(* The SWE-bench trace collector (examples/minisweagent_swebench/          *)
(* collect_traces.py): one process whose signal handlers raise, SIGALRM at *)
(* a task's deadline and SIGINT at Ctrl-C, between any two instructions.   *)
(* Its files are written in place: opening one empties it, and Ctrl-C or a *)
(* full disk cuts the write short.                                         *)
(***************************************************************************)
EXTENDS Naturals, Sequences, CollectedTasks

VARIABLES at,          \* where main() and run_agent() are
          armed,       \* signal.alarm() is set
          interrupts,  \* SIGINTs delivered
          trajectory,  \* the current task's trajectory.json exists
          sandboxes,   \* tasks whose sandbox is on the node
          trace,       \* each task's trace.json
          state,       \* status["status"] of the current task
          statuses,    \* the list of the recorded tasks, kept in memory
          listed,      \* whole rows of statuses.jsonl
          result       \* summary.json

vars == <<at, armed, interrupts, trajectory, sandboxes, trace, state, statuses, listed, result>>

Current == Len(statuses) + 1
Over == at \in {"returned", "raised"}
InTask == at \in {"run", "cleanup", "ran", "except", "disarm"}

States == {"running", "agent_complete", "agent_error", "trace_complete"}

TypeOK ==
    /\ at \in {"loop", "run", "cleanup", "ran", "except", "disarm", "trace", "tracing",
               "record", "rewrite", "lines", "finally", "stopping", "interrupted",
               "summary", "summing", "returned", "raised"}
    /\ armed \in BOOLEAN /\ trajectory \in BOOLEAN
    /\ interrupts \in 0 .. 2
    /\ sandboxes \subseteq 1 .. Planned
    /\ trace \in [1 .. Planned -> {"none", "torn", "whole"}]
    /\ state \in States
    /\ statuses \in Seq(States) /\ Len(statuses) <= Planned
    /\ listed \in 0 .. Planned
    /\ result \in {"none", "torn", "complete", "incomplete", "interrupted"}

Init ==
    /\ at = "loop" /\ armed = FALSE /\ interrupts = 0
    /\ trajectory = FALSE /\ sandboxes = {}
    /\ trace = [i \in 1 .. Planned |-> "none"]
    /\ state = "running" /\ statuses = <<>> /\ listed = 0 /\ result = "none"

-----------------------------------------------------------------------------
\* The selection or the run's time is at its end, a directory is refused, or a
\* task begins; without a task timeout the alarm stays off.
Loop ==
    /\ at = "loop"
    /\ \/ at' \in {"finally", "stopping"} /\ UNCHANGED <<armed, state, trajectory>>
       \/ /\ Current <= Planned
          /\ at' = "run" /\ armed' \in BOOLEAN
          /\ state' = "running" /\ trajectory' = FALSE
    /\ UNCHANGED <<interrupts, sandboxes, trace, statuses, listed, result>>

\* run_agent: the sandbox may not come up; otherwise the agent runs, saving its
\* trajectory, until it completes or raises.
RunAgent ==
    /\ at = "run"
    /\ \/ at' = "except" /\ UNCHANGED <<sandboxes, trajectory, state>>
       \/ /\ at' = "cleanup"
          /\ sandboxes' = sandboxes \cup {Current}
          /\ trajectory' \in BOOLEAN
          /\ state' \in {"running", "agent_complete"}
    /\ UNCHANGED <<armed, interrupts, trace, statuses, listed, result>>

\* The finally clause of run_agent removes the sandbox, or raises.
Cleanup ==
    /\ at = "cleanup"
    /\ \/ /\ sandboxes' = sandboxes \ {Current}
          /\ at' = IF state = "agent_complete" THEN "ran" ELSE "except"
       \/ UNCHANGED sandboxes /\ at' = "except"
    /\ UNCHANGED <<armed, interrupts, trajectory, trace, state, statuses, listed, result>>

Ran ==
    /\ at = "ran" /\ at' = "disarm"
    /\ UNCHANGED <<armed, interrupts, trajectory, sandboxes, trace, state, statuses, listed, result>>

Except ==
    /\ at = "except" /\ at' = "disarm" /\ state' = "agent_error"
    /\ UNCHANGED <<armed, interrupts, trajectory, sandboxes, trace, statuses, listed, result>>

Disarm ==
    /\ at = "disarm" /\ at' = "trace" /\ armed' = FALSE
    /\ UNCHANGED <<interrupts, trajectory, sandboxes, trace, state, statuses, listed, result>>

\* SIGALRM raises TaskDeadline where it is delivered: inside the try it is the
\* task's error, in its except or finally clause it leaves the loop.
Alarm ==
    /\ armed /\ InTask
    /\ armed' = FALSE
    /\ at' \in CASE at = "run" -> {"cleanup", "except"}
                 [] at \in {"cleanup", "ran"} -> {"except"}
                 [] OTHER -> {"stopping"}
    /\ sandboxes' \in {sandboxes} \cup
         IF at # "run" THEN {} ELSE {sandboxes \cup {Current}}
    /\ trajectory' \in {trajectory} \cup IF at = "run" /\ at' = "cleanup" THEN {TRUE} ELSE {}
    /\ state' = IF at = "run" THEN "running" ELSE state
    /\ UNCHANGED <<interrupts, trace, statuses, listed, result>>

\* What the summary is to say.
Complete == \A i \in 1 .. Planned : i \in DOMAIN statuses /\ statuses[i] = "trace_complete"
Outcome == IF interrupts > 0 THEN "interrupted"
           ELSE IF Complete THEN "complete" ELSE "incomplete"

\* SIGINT: the sandbox stays, a task not yet recorded gets no status, the file
\* being written is cut short or just done, and the handlers are reset.  After
\* that, or in the except clause itself, the process ends by it.
Interrupt ==
    /\ ~Over /\ interrupts < 2
    /\ interrupts' = interrupts + 1
    /\ armed' = FALSE
    /\ at' \in CASE at \in {"finally", "stopping", "summary", "summing"} -> {"raised"}
                 [] at = "interrupted" -> {"raised", "interrupted"}
                 [] OTHER -> {"interrupted"}
    /\ sandboxes' \in IF at = "run" THEN {sandboxes, sandboxes \cup {Current}} ELSE {sandboxes}
    /\ trace' \in {trace} \cup IF at = "tracing" THEN {[trace EXCEPT ![Current] = "whole"]} ELSE {}
    /\ statuses' \in {statuses} \cup IF at = "record" THEN {Append(statuses, state)} ELSE {}
    /\ listed' \in IF at = "lines" THEN 0 .. Len(statuses) ELSE {listed}
    /\ result' \in {result} \cup IF at = "summing" THEN {Outcome} ELSE {}
    /\ UNCHANGED <<trajectory, state>>

\* wait_idle and the building of the trace: every error is noted in the status
\* and goes no further; a trajectory is worth a trace even if its agent failed.
Trace ==
    /\ at = "trace"
    /\ \/ at' = "record" /\ UNCHANGED trace
       \/ trajectory /\ at' = "tracing" /\ trace' = [trace EXCEPT ![Current] = "torn"]
    /\ UNCHANGED <<armed, interrupts, trajectory, sandboxes, state, statuses, listed, result>>

\* write_trace, into the file that is open: a refused write is one more error
\* for the status, and its file stays.
WriteTrace ==
    /\ at = "tracing" /\ at' = "record"
    /\ \/ trace' = [trace EXCEPT ![Current] = "whole"] /\ state' = "trace_complete"
       \/ UNCHANGED <<trace, state>>
    /\ UNCHANGED <<armed, interrupts, trajectory, sandboxes, statuses, listed, result>>

\* status.json, which a full disk refuses, and the row.
Record ==
    /\ at = "record"
    /\ \/ at' = "rewrite" /\ statuses' = Append(statuses, state)
       \/ at' = "stopping" /\ UNCHANGED statuses
    /\ UNCHANGED <<armed, interrupts, trajectory, sandboxes, trace, state, listed, result>>

\* statuses.jsonl is opened, which empties it ...
Rewrite ==
    /\ at = "rewrite"
    /\ \/ at' = "lines" /\ listed' = 0
       \/ at' = "stopping" /\ UNCHANGED listed
    /\ UNCHANGED <<armed, interrupts, trajectory, sandboxes, trace, state, statuses, result>>

\* ... and written with all rows, or with the first ones that the disk takes.
Lines ==
    /\ at = "lines"
    /\ \/ at' = "loop" /\ listed' = Len(statuses)
       \/ at' = "stopping" /\ listed' \in 0 .. Len(statuses)
    /\ UNCHANGED <<armed, interrupts, trajectory, sandboxes, trace, state, statuses, result>>

\* The outer finally clause resets the handlers and closes the proxy.
Finally ==
    /\ \/ at \in {"finally", "interrupted"} /\ at' = "summary"
       \/ at = "stopping" /\ at' = "raised"
    /\ UNCHANGED <<armed, interrupts, trajectory, sandboxes, trace, state, statuses, listed, result>>

\* summary.json is opened, and written.
Summary ==
    /\ \/ at = "summary" /\ at' = "summing" /\ result' = "torn"
       \/ at = "summary" /\ at' = "raised" /\ UNCHANGED result
       \/ at = "summing" /\ at' = "returned" /\ result' = Outcome
       \/ at = "summing" /\ at' = "raised" /\ UNCHANGED result
    /\ UNCHANGED <<armed, interrupts, trajectory, sandboxes, trace, state, statuses, listed>>

Main ==
    \/ Loop \/ RunAgent \/ Cleanup \/ Ran \/ Except \/ Disarm \/ Trace \/ WriteTrace
    \/ Record \/ Rewrite \/ Lines \/ Finally \/ Summary

Next == Main \/ Alarm \/ Interrupt

Spec == Init /\ [][Next]_vars

-----------------------------------------------------------------------------
(* Properties *)

\* Wherever a deadline, Ctrl-C or a full disk strikes: no deadline stays armed
\* outside its task; a recorded task is complete exactly when its trace.json is
\* whole, and only recorded tasks and the current one have one, whole or torn;
\* rows are missing from statuses.jsonl only while it is rewritten, after Ctrl-C
\* and in a run that ends without a summary; and "complete" means all traces.
DeadlinesLoseNothing ==
    /\ armed => InTask
    /\ \A i \in DOMAIN statuses : statuses[i] = "trace_complete" <=> trace[i] = "whole"
    /\ \A i \in 1 .. Planned : trace[i] # "none" => i <= Current
    /\ listed # Len(statuses) =>
          interrupts > 0 \/ (at \in {"rewrite", "lines", "stopping", "raised"} /\ result = "none")
    /\ result \in {"complete", "incomplete"} => listed = Len(statuses)
    /\ result = "complete" => listed = Planned /\ \A i \in 1 .. Planned : trace[i] = "whole"
=============================================================================
