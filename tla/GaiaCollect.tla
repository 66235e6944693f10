----------------------------- MODULE GaiaCollect -----------------------------
(***************************************************************************)
(* The GAIA trace collector (examples/openclaw_gaia/collect_traces.py):    *)
(* collectors run their tasks one after the other, and report in files     *)
(* that a reader may open while they run, or after they died.  Those whose *)
(* OPENCLAW_STATE_DIR names the one state directory followed here exclude  *)
(* each other; one that names none locks a file of its own run.            *)
(***************************************************************************)
EXTENDS Naturals, Sequences, CollectedTasks

VARIABLES pc,          \* where main() is
          mode,        \* with the capture proxy, without it, or a dry run
          named,       \* OPENCLAW_STATE_DIR names the state directory
          index,       \* tasks of the selection that are behind it
          lock,        \* who holds collector.lock of the state directory
          agent,       \* the OpenClaw agent the collector started runs
          copied,      \* a trajectory was copied and its trace is to be built
          traces,      \* tasks with a whole trace.json
          status,      \* the current task's status
          predictions, \* predictions.jsonl: the statuses in the tasks' order
          summary      \* summary.json

vars == <<pc, mode, named, index, lock, agent, copied, traces, status, predictions, summary>>

Statuses == {"success", "trace_missing", "trace_incomplete", "dry_run", "skipped_run_budget"}
RunSummaries == [recorded : 0 .. Planned, all_tasks_successful : BOOLEAN, complete : BOOLEAN]
NoSummary == [recorded |-> 0, all_tasks_successful |-> FALSE, complete |-> FALSE]

TypeOK ==
    /\ pc \in [Collectors -> {"lock", "task", "agent", "trace", "predictions", "summary",
                              "skip", "final", "returned", "raised", "killed"}]
    /\ mode \in [Collectors -> {"capture", "plain", "dry"}]
    /\ named \in [Collectors -> BOOLEAN]
    /\ index \in [Collectors -> 0 .. Planned]
    /\ lock \in Collectors \cup {NoOne}
    /\ agent \in [Collectors -> BOOLEAN] /\ copied \in [Collectors -> BOOLEAN]
    /\ traces \in [Collectors -> SUBSET (1 .. Planned)]
    /\ status \in [Collectors -> Statuses]
    /\ predictions \in [Collectors -> Seq(Statuses)]
    /\ \A c \in Collectors : Len(predictions[c]) <= Planned
    /\ summary \in [Collectors -> RunSummaries]

Init ==
    /\ pc = [c \in Collectors |-> "lock"]
    /\ mode \in [Collectors -> {"capture", "plain", "dry"}]
    /\ named \in [Collectors -> BOOLEAN]
    /\ index = [c \in Collectors |-> 0]
    /\ lock = NoOne
    /\ agent = [c \in Collectors |-> FALSE]
    /\ copied = [c \in Collectors |-> FALSE]
    /\ traces = [c \in Collectors |-> {}]
    /\ status = [c \in Collectors |-> "dry_run"]
    /\ predictions = [c \in Collectors |-> <<>>]
    /\ summary = [c \in Collectors |-> NoSummary]

Goto(c, label) == pc' = [pc EXCEPT ![c] = label]
Leave(c, label) == Goto(c, label) /\ lock' = IF lock = c THEN NoOne ELSE lock

-----------------------------------------------------------------------------
\* A second collector of the named state stops here; the lock in a run's own new
\* directory is always free.
Lock(c) ==
    /\ pc[c] = "lock"
    /\ \/ ~named[c] /\ Goto(c, "task") /\ UNCHANGED lock
       \/ named[c] /\ lock = NoOne /\ Goto(c, "task") /\ lock' = c
       \/ named[c] /\ lock # NoOne /\ Goto(c, "raised") /\ UNCHANGED lock
    /\ UNCHANGED <<mode, named, index, agent, copied, traces, status, predictions, summary>>

\* The run's budget no longer holds another task with its margin, a dry run ends
\* here, or the agent is started.
Task(c) ==
    /\ pc[c] = "task"
    /\ \/ index[c] = Planned /\ Leave(c, "final") /\ UNCHANGED <<agent, status>>
       \/ /\ index[c] < Planned /\ mode[c] # "dry" /\ Goto(c, "skip")
          /\ UNCHANGED <<agent, lock, status>>
       \/ /\ index[c] < Planned /\ mode[c] = "dry" /\ Goto(c, "predictions")
          /\ status' = [status EXCEPT ![c] = "dry_run"]
          /\ UNCHANGED <<agent, lock>>
       \/ /\ index[c] < Planned /\ mode[c] # "dry" /\ Goto(c, "agent")
          /\ agent' = [agent EXCEPT ![c] = TRUE]
          /\ UNCHANGED <<lock, status>>
    /\ UNCHANGED <<mode, named, index, copied, traces, predictions, summary>>

\* The agent exits by itself or is killed at its timeout; its session file is
\* found inside the state directory and copied, or not.
AgentEnds(c) ==
    /\ pc[c] = "agent"
    /\ agent' = [agent EXCEPT ![c] = FALSE]
    /\ copied' \in {[copied EXCEPT ![c] = found] : found \in BOOLEAN}
    /\ Goto(c, "trace")
    /\ UNCHANGED <<mode, named, index, lock, traces, status, predictions, summary>>

\* With the proxy and a trajectory a trace is built, which fails when a call is
\* still open or unmatched.
Trace(c) ==
    /\ pc[c] = "trace" /\ Goto(c, "predictions")
    /\ copied' = [copied EXCEPT ![c] = FALSE]
    /\ IF mode[c] = "capture" /\ copied[c]
       THEN \/ /\ traces' = [traces EXCEPT ![c] = @ \cup {index[c] + 1}]
               /\ status' = [status EXCEPT ![c] = "success"]
            \/ status' = [status EXCEPT ![c] = "trace_incomplete"] /\ UNCHANGED traces
       ELSE /\ status' = [status EXCEPT ![c] = IF copied[c] THEN "success" ELSE "trace_missing"]
            /\ UNCHANGED traces
    /\ UNCHANGED <<mode, named, index, lock, agent, predictions, summary>>

WritePredictions(c) ==
    /\ pc[c] = "predictions"
    /\ predictions' = [predictions EXCEPT ![c] = Append(@, status[c])]
    /\ Goto(c, "summary")
    /\ UNCHANGED <<mode, named, index, lock, agent, copied, traces, status, summary>>

\* Mutant of build_run_summary: rows are counted, not read.
RunSummaryByCount(rows, complete) ==
    [recorded |-> Len(rows), all_tasks_successful |-> Len(rows) = Planned, complete |-> complete]

\* build_run_summary
RunSummary(rows, complete) ==
    [recorded |-> Len(rows),
     all_tasks_successful |-> Len(rows) = Planned /\ \A i \in DOMAIN rows : rows[i] = "success",
     complete |-> complete]

WriteSummary(c) ==
    /\ pc[c] = "summary"
    /\ summary' = [summary EXCEPT ![c] = RunSummary(predictions[c], FALSE)]
    /\ index' = [index EXCEPT ![c] = @ + 1]
    /\ Goto(c, "task")
    /\ UNCHANGED <<mode, named, lock, agent, copied, traces, status, predictions>>

\* The tasks the budget left out get a row each.
Skip(c) ==
    /\ pc[c] = "skip"
    /\ predictions' = [predictions EXCEPT ![c] =
                         @ \o [i \in 1 .. Planned - Len(@) |-> "skipped_run_budget"]]
    /\ Leave(c, "final")
    /\ UNCHANGED <<mode, named, index, agent, copied, traces, status, summary>>

Final(c) ==
    /\ pc[c] = "final"
    /\ summary' = [summary EXCEPT ![c] = RunSummary(predictions[c], TRUE)]
    /\ Goto(c, "returned")
    /\ UNCHANGED <<mode, named, index, lock, agent, copied, traces, status, predictions>>

\* Every other error ends the run wherever it strikes: a workspace that cannot be
\* prepared, a full disk, Ctrl-C.  The agent is killed, and the reports stay as
\* they were last put in place.
Fail(c) ==
    /\ pc[c] \notin {"returned", "raised", "killed"}
    /\ Leave(c, "raised")
    /\ agent' = [agent EXCEPT ![c] = FALSE]
    /\ UNCHANGED <<mode, named, index, copied, traces, status, predictions, summary>>

\* A killed collector loses its lock and leaves its agent running.
Kill(c) ==
    /\ pc[c] \notin {"returned", "raised", "killed"}
    /\ Leave(c, "killed")
    /\ UNCHANGED <<mode, named, index, agent, copied, traces, status, predictions, summary>>

OrphanEnds(c) ==
    /\ pc[c] = "killed" /\ agent[c]
    /\ agent' = [agent EXCEPT ![c] = FALSE]
    /\ UNCHANGED <<pc, mode, named, index, lock, copied, traces, status, predictions, summary>>

Main(c) ==
    \/ Lock(c) \/ Task(c) \/ AgentEnds(c) \/ Trace(c)
    \/ WritePredictions(c) \/ WriteSummary(c) \/ Skip(c) \/ Final(c)

Next == \E c \in Collectors : Main(c) \/ Fail(c) \/ Kill(c) \/ OrphanEnds(c)

Spec == Init /\ [][Next]_vars

-----------------------------------------------------------------------------
(* Properties *)

\* Whenever a reader opens the two reports, after an error or a kill as well: the
\* summary is at most one task behind the predictions or the skipped rest,
\* "complete" means a row for every task, and "all successful" with the proxy a
\* trace of every task.
ReportsAgree ==
    \A c \in Collectors :
        LET s == summary[c]  rows == predictions[c] IN
        /\ s.recorded <= Len(rows)
        /\ Len(rows) > s.recorded + 1 =>
              \A i \in s.recorded + 1 .. Len(rows) : rows[i] = "skipped_run_budget"
        /\ s.complete => Len(rows) = Planned /\ s.recorded = Planned
        /\ s.all_tasks_successful /\ mode[c] = "capture" => traces[c] = 1 .. Planned
        /\ \A i \in DOMAIN rows : mode[c] = "capture" => (rows[i] = "success" <=> i \in traces[c])

\* Only one agent of a living collector works on the named state directory.
OneAgent ==
    \A c, d \in Collectors :
        /\ named[c] /\ agent[c] /\ pc[c] # "killed"
        /\ named[d] /\ agent[d] /\ pc[d] # "killed"
        => c = d
=============================================================================
