------------------------------ MODULE Benchmark ------------------------------
(***************************************************************************)
(* benchmark(): a pool of workers that admits task rows and replays each   *)
(* in a child process with a session, and so a process group, of its own.  *)
(*                                                                         *)
(* A worker and the main coroutine are asyncio tasks of one event loop; a  *)
(* step of one runs from an await to the next.  The children are processes *)
(* and move on their own.  A finite run takes its rows from a queue; a     *)
(* steady one makes them up until the deadline.                            *)
(***************************************************************************)
EXTENDS Integers, FiniteSets

CONSTANTS
  Workers,     \* the worker tasks: the run's concurrency
  NTraces,     \* length of the trace list
  NRows,       \* rows of a finite run; bound on the rows of a steady run
  MaxSignals,  \* bound on the SIGINT and SIGTERM signals the run receives
  MaxRefused,  \* bound on the tasks of the run that a file operation fails
  Main         \* the main coroutine, where it is named beside the workers

ASSUME BenchmarkAssumption ==
  /\ IsFiniteSet(Workers) /\ Workers # {}
  /\ {NTraces, NRows} \subseteq Nat \ {0}
  /\ {MaxSignals, MaxRefused} \subseteq Nat
  /\ Main \notin Workers

Rows   == 1 .. NRows
Traces == 1 .. NTraces

VARIABLES
  args,       \* steady: a deadline instead of a queue; tolerate:
              \* continue_on_http_error
  mpc,        \* where the main coroutine is suspended
  pc,         \* where each worker is suspended
  row,        \* the row each worker works on, 0 before its first
  cancelReq,  \* workers with a cancellation not yet delivered
  status,     \* each row's status
  admitted,   \* rows taken so far; the next one is admitted + 1
  cycle,      \* traces left in the current pass over the trace list
  used,       \* rows admitted of each trace
  failed,     \* the failed event
  expired,    \* the deadline has passed; not followed once the workers have ended
  leader,     \* each row's child: none, up, or how it ended
  strays,     \* rows whose group has live members besides an ended leader
  sig,        \* strongest signal sent to each row's group
  gatherErr,  \* the exception gather(*workers) holds
  runStatus,  \* the summary's status
  signals,    \* signals received
  summary,    \* summary.json has been written, whole
  refused     \* the workers, and Main, that the system refused a file, a
              \* directory or a process

poolVars  == <<status, admitted, cycle, used, failed>>
childVars == <<leader, strays, sig>>
mainVars  == <<args, mpc, runStatus, signals, summary, expired>>
vars == <<poolVars, childVars, mainVars, pc, row, cancelReq, gatherErr, refused>>

-----------------------------------------------------------------------------
MainStates   == {"starting", "waiting", "gather", "drain", "final", "sampler",
                 "ended"}
WorkerStates == {"new", "spawn", "spawnKill", "wait", "term", "reap",
                 "done", "failed", "cancelled"}
ExitCodes    == {"ok", "http", "error"}
Args         == [steady : BOOLEAN, tolerate : BOOLEAN]

WorkerEnded(w) == pc[w] \in {"done", "failed", "cancelled"}
Live           == {w \in Workers : ~WorkerEnded(w)}
GroupAlive(t)  == leader[t] = "up" \/ t \in strays

Init ==
  /\ args \in Args
  /\ mpc = "starting"
  /\ pc = [w \in Workers |-> "new"]
  /\ row = [w \in Workers |-> 0]
  /\ cancelReq = {}
  /\ status = [t \in Rows |-> "pending"]
  /\ admitted = 0
  /\ cycle = {} /\ used = [x \in Traces |-> 0]
  /\ failed = FALSE /\ expired = FALSE
  /\ leader = [t \in Rows |-> "none"] /\ strays = {}
  /\ sig = [t \in Rows |-> "none"]
  /\ gatherErr = "none" /\ runStatus = "none"
  /\ signals = 0
  /\ summary = FALSE /\ refused = {}

-----------------------------------------------------------------------------
(* Workers *)

\* Mutant: the failed event is not consulted.
NoRowIgnoresFailure == IF args.steady THEN expired ELSE admitted = NRows

\* next_row: no await separates its tests from the admission.
NoRow == \/ failed
         \/ IF args.steady THEN expired ELSE admitted = NRows

\* A steady run is followed for NRows rows: a worker asking for more is held
\* until the deadline.
HasRow == ~NoRow /\ (args.steady => admitted < NRows)

\* A finite run repeats the list in order; a steady one shuffles every pass.
TakeTrace ==
  LET pool == IF cycle = {} THEN Traces ELSE cycle IN
  \E x \in pool :
    /\ ~args.steady => \A y \in pool : x <= y
    /\ cycle' = pool \ {x}
    /\ used' = [used EXCEPT ![x] = @ + 1]

\* The system refuses a file, a directory or a process to x.
Refuse(x) == /\ Cardinality(refused \cup {x}) <= MaxRefused
             /\ refused' = refused \cup {x}

\* A worker task ends with an exception; gather() keeps the first.
Raise(w, how) ==
  /\ pc' = [pc EXCEPT ![w] = how]
  /\ gatherErr' = IF gatherErr = "none" THEN how ELSE gatherErr

\* The way out of the try: its finally clause writes the row's status.json, and
\* a write that is refused takes the place of the exception.
LeaveTry(w, how) == \/ Raise(w, how) /\ UNCHANGED refused
                    \/ Raise(w, "failed") /\ Refuse(w)

\* The child of row t is started, in a session of its own.
Launch(w, t, st) ==
  /\ status' = [st EXCEPT ![t] = "running"]
  /\ leader' = [leader EXCEPT ![t] = "up"]
  /\ pc' = [pc EXCEPT ![w] = "spawn"]
  /\ UNCHANGED <<gatherErr, refused>>

\* A directory, a file or the child of row t is refused: no exception handler
\* before the try sees that the row is pending (the task's directory) or running
\* (its files); in the try it is cancelled.  The failed event is not set.
RefuseRow(w, t, st) ==
  /\ \E s \in {"pending", "running", "cancelled"} : status' = [st EXCEPT ![t] = s]
  /\ Raise(w, "failed") /\ Refuse(w)
  /\ UNCHANGED leader

\* The worker's loop from next_row to the await of create_subprocess_exec,
\* which has started the child by then, or to its end.  st is the rows' status
\* as the worker left it.
Advance(w, st) ==
  \/ /\ NoRow
     /\ pc' = [pc EXCEPT ![w] = "done"]
     /\ status' = st
     /\ UNCHANGED <<row, admitted, cycle, used, leader, gatherErr, refused>>
  \/ /\ HasRow
     /\ admitted' = admitted + 1
     /\ row' = [row EXCEPT ![w] = admitted + 1]
     /\ TakeTrace
     /\ Launch(w, admitted + 1, st) \/ RefuseRow(w, admitted + 1, st)

\* A row that is over: its status.json is written and the worker goes on, or it
\* is refused and the worker ends.
GoOn(w, st) ==
  \/ Advance(w, st)
  \/ /\ status' = st /\ Raise(w, "failed") /\ Refuse(w)
     /\ UNCHANGED <<row, admitted, cycle, used, leader>>

Start(w) ==
  /\ mpc = "gather"
  /\ pc[w] = "new" /\ w \notin cancelReq
  /\ Advance(w, status)
  /\ UNCHANGED <<mainVars, cancelReq, failed, strays, sig>>

Spawned(w) ==
  /\ pc[w] = "spawn" /\ w \notin cancelReq
  /\ pc' = [pc EXCEPT ![w] = "wait"]
  /\ UNCHANGED <<mainVars, row, cancelReq, poolVars, childVars, gatherErr, refused>>

\* Mutants of stop_process: nothing is signalled; the child is only waited for.
LeaveProcess(w, how) == Raise(w, how) /\ UNCHANGED <<sig, refused>>
WaitWithoutSignal(w, how) ==
  pc' = [pc EXCEPT ![w] = "reap"] /\ UNCHANGED <<sig, gatherErr, refused>>

\* stop_process: SIGTERM to the group and half a second of grace, or nothing
\* if the group is gone.  how is the exception it runs under.
StopProcess(w, how) ==
  LET t == row[w] IN
  IF GroupAlive(t)
  THEN /\ sig' = [sig EXCEPT ![t] = "term"]
       /\ pc' = [pc EXCEPT ![w] = "term"]
       /\ UNCHANGED <<gatherErr, refused>>
  ELSE LeaveTry(w, how) /\ UNCHANGED sig

\* Mutant: every failure is tolerated.
ReapedTolerant(w) ==
  /\ pc[w] = "wait" /\ w \notin cancelReq
  /\ leader[row[w]] \in ExitCodes
  /\ GoOn(w, [status EXCEPT ![row[w]] =
                IF leader[row[w]] = "ok" THEN "completed" ELSE "failed"])
  /\ UNCHANGED <<failed, sig, mainVars, cancelReq, strays>>

\* The child's exit is noticed: a failure is recorded and the next row is
\* taken if it is an HTTP failure the run tolerates, or it ends the run.  The
\* events of a child that crashed may end in a torn line: task_failure raises,
\* and the failed event is not set.
Reaped(w) ==
  LET t == row[w] IN
  /\ pc[w] = "wait" /\ w \notin cancelReq
  /\ leader[t] \in ExitCodes
  /\ \/ /\ leader[t] = "ok"
        /\ GoOn(w, [status EXCEPT ![t] = "completed"])
        /\ UNCHANGED <<failed, sig>>
     \/ /\ leader[t] = "http" /\ args.tolerate
        /\ GoOn(w, [status EXCEPT ![t] = "failed"])
        /\ UNCHANGED <<failed, sig>>
     \/ /\ leader[t] # "ok" /\ ~(leader[t] = "http" /\ args.tolerate)
        /\ \/ failed' = TRUE
           \/ leader[t] # "http" /\ UNCHANGED failed
        /\ status' = [status EXCEPT ![t] = "failed"]
        /\ StopProcess(w, "failed")
        /\ UNCHANGED <<row, admitted, cycle, used, leader>>
  /\ UNCHANGED <<mainVars, cancelReq, strays>>

\* Half a second later: SIGKILL, if anything is left to kill.
Kill(w) ==
  LET t == row[w] IN
  /\ pc[w] = "term" /\ w \notin cancelReq
  /\ IF GroupAlive(t)
     THEN /\ sig' = [sig EXCEPT ![t] = "kill"]
          /\ pc' = [pc EXCEPT ![w] = "reap"]
          /\ UNCHANGED <<gatherErr, refused>>
     ELSE LeaveTry(w, status[t]) /\ UNCHANGED sig
  /\ UNCHANGED <<mainVars, row, cancelReq, poolVars, leader, strays>>

\* process.wait() returns and the exception goes on.
Reap(w) ==
  /\ pc[w] = "reap" /\ w \notin cancelReq
  /\ leader[row[w]] # "up"
  /\ LeaveTry(w, status[row[w]])
  /\ UNCHANGED <<mainVars, row, cancelReq, poolVars, childVars>>

\* Mutant: a cancelled worker leaves its row as it is.
CancelledSilently(w) ==
  /\ w \in cancelReq
  /\ cancelReq' = cancelReq \ {w}
  /\ Raise(w, "cancelled")
  /\ UNCHANGED <<mainVars, row, poolVars, childVars, refused>>

\* The cancellation reaches the worker at its await.  One that never ran just
\* ends; in create_subprocess_exec the library kills the new child; in
\* process.wait() the row is cancelled and its group stopped; and in
\* stop_process the rest of stop_process is skipped.
Cancelled(w) ==
  LET t == row[w] IN
  /\ w \in cancelReq
  /\ cancelReq' = cancelReq \ {w}
  /\ \/ /\ pc[w] = "new"
        /\ Raise(w, "cancelled")
        /\ UNCHANGED <<status, sig, refused>>
     \/ /\ pc[w] \in {"term", "reap", "spawnKill"}
        /\ LeaveTry(w, "cancelled")
        /\ UNCHANGED <<status, sig>>
     \/ /\ pc[w] = "spawn"
        /\ pc' = [pc EXCEPT ![w] = "spawnKill"]
        /\ sig' = [sig EXCEPT ![t] = "kill"]
        /\ status' = [status EXCEPT ![t] = "cancelled"]
        /\ UNCHANGED <<gatherErr, refused>>
     \/ /\ pc[w] = "wait"
        /\ status' = [status EXCEPT ![t] = "cancelled"]
        /\ StopProcess(w, "cancelled")
  /\ UNCHANGED <<mainVars, row, admitted, cycle, used, failed, leader, strays>>

\* The library has reaped the child it killed.
SpawnKilled(w) ==
  /\ pc[w] = "spawnKill" /\ w \notin cancelReq
  /\ leader[row[w]] # "up"
  /\ LeaveTry(w, "cancelled")
  /\ UNCHANGED <<mainVars, row, cancelReq, poolVars, childVars>>

WorkerStep(w) ==
  \/ Start(w) \/ Spawned(w) \/ Reaped(w) \/ Kill(w) \/ Reap(w)
  \/ Cancelled(w) \/ SpawnKilled(w)

-----------------------------------------------------------------------------
(* Children and time *)

childOnly == <<mainVars, poolVars, pc, row, cancelReq, gatherErr, sig, refused>>

\* The replay ends by itself, with a tool process still running or not; only a
\* run that tolerates them tells HTTP failures from others.  The interpreter
\* starts tools only well after the spawn handshake.
ChildExits(t) ==
  /\ leader[t] = "up"
  /\ \E code \in ExitCodes :
       /\ code = "http" => args.tolerate
       /\ leader' = [leader EXCEPT ![t] = code]
  /\ \/ UNCHANGED strays
     \/ /\ \E w \in Workers : row[w] = t /\ pc[w] # "spawn"
        /\ sig[t] # "kill"
        /\ strays' = strays \cup {t}
  /\ UNCHANGED childOnly

\* The replay command does not handle SIGTERM; the tools it started may.
SignalKills(t) ==
  /\ sig[t] # "none"
  /\ \/ /\ leader[t] = "up"
        /\ leader' = [leader EXCEPT ![t] = "error"]
        /\ \/ UNCHANGED strays
           \/ sig[t] = "term" /\ strays' = strays \cup {t}
     \/ /\ leader[t] # "up" /\ t \in strays
        /\ strays' = strays \ {t}
        /\ UNCHANGED leader
  /\ UNCHANGED childOnly

Expire ==
  /\ args.steady /\ ~expired
  /\ mpc \in {"waiting", "gather", "drain"}
  /\ expired' = TRUE
  /\ UNCHANGED <<args, mpc, runStatus, signals, summary, poolVars,
                 childVars, pc, row, cancelReq, gatherErr, refused>>

-----------------------------------------------------------------------------
(* The main coroutine *)

GoTo(state) ==
  /\ mpc' = state
  /\ UNCHANGED <<args, signals, expired, poolVars, childVars, pc, row>>

quiet == <<runStatus, summary, refused, cancelReq, gatherErr>>

\* The sampler took its first sample, or died first.  A steady run may be told
\* to wait for a common start (control_dir).
SamplerReady ==
  /\ mpc = "starting"
  /\ \/ GoTo("gather")
     \/ args.steady /\ GoTo("waiting")
     \/ GoTo("ended")
  /\ UNCHANGED quiet

\* start.json appears.  A run whose window is over gives up, as does one that is
\* refused its manifest.
StartPublished ==
  /\ mpc = "waiting"
  /\ (~expired /\ GoTo("gather")) \/ GoTo("ended")
  /\ UNCHANGED quiet

\* gather(*workers) raised: every worker is cancelled and awaited.
RunFails ==
  /\ mpc = "gather" /\ gatherErr # "none"
  /\ runStatus' = gatherErr
  /\ cancelReq' = Live
  /\ GoTo("drain")
  /\ UNCHANGED <<summary, refused, gatherErr>>

\* Mutant: the summary is written on success only.
DrainedWithoutSummary ==
  /\ mpc = "drain" /\ Live = {}
  /\ GoTo("ended")
  /\ UNCHANGED <<runStatus, summary, refused, cancelReq, gatherErr>>

Drained ==
  /\ mpc = "drain" /\ Live = {}
  /\ GoTo("final")
  /\ UNCHANGED <<runStatus, summary, refused, cancelReq, gatherErr>>

RunCompletes ==
  /\ mpc = "gather" /\ gatherErr = "none" /\ Live = {}
  /\ runStatus' = IF \E t \in Rows : status[t] = "failed"
                  THEN "completed_with_errors" ELSE "completed"
  /\ GoTo("final")
  /\ UNCHANGED <<summary, refused, cancelReq, gatherErr>>

\* The phase task is joined and admissions.jsonl closed, which flushes what an
\* earlier write left in its buffer.
PhaseJoined ==
  /\ mpc = "final"
  /\ \/ GoTo("sampler") /\ UNCHANGED refused
     \/ GoTo("ended") /\ Refuse(Main)
  /\ UNCHANGED <<runStatus, summary, cancelReq, gatherErr>>

\* The reports are read and summary.json is written, or refused.
Summarize == \/ summary' = TRUE /\ UNCHANGED refused
             \/ Refuse(Main) /\ UNCHANGED summary

WriteSummary ==
  /\ mpc = "sampler"
  /\ Summarize
  /\ GoTo("ended")
  /\ UNCHANGED <<runStatus, cancelReq, gatherErr>>

MainStep ==
  \/ SamplerReady \/ StartPublished \/ RunFails \/ Drained \/ RunCompletes
  \/ PhaseJoined \/ WriteSummary

\* SIGTERM, or a first Ctrl-C, cancels the main task at its await.  gather()
\* passes the cancellation on to every worker still running, unless it already
\* holds a result, which it learns of a little after the worker has ended; in
\* the finally clause the await of the phase task takes the summary with it,
\* and the await of the sampler does not.
Signal ==
  /\ signals < MaxSignals
  /\ signals' = signals + 1
  /\ \/ /\ mpc \in {"starting", "waiting", "final"}
        /\ mpc' = "ended"
        /\ UNCHANGED quiet
     \/ /\ mpc = "gather"
        /\ \/ /\ gatherErr # "none" \/ Live = {}
              /\ gatherErr' = "cancelled" /\ UNCHANGED cancelReq
           \/ Live # {} /\ cancelReq' = Live /\ UNCHANGED gatherErr
        /\ UNCHANGED <<mpc, runStatus, summary, refused>>
     \/ /\ mpc = "drain"
        /\ cancelReq' = Live
        /\ UNCHANGED <<mpc, runStatus, summary, refused, gatherErr>>
     \/ /\ mpc = "sampler"
        /\ mpc' = "ended" /\ Summarize
        /\ UNCHANGED <<runStatus, cancelReq, gatherErr>>
  /\ UNCHANGED <<args, expired, poolVars, childVars, pc, row>>

Next ==
  \/ \E w \in Workers : WorkerStep(w)
  \/ \E t \in Rows : ChildExits(t) \/ SignalKills(t)
  \/ Expire \/ MainStep \/ Signal

Spec == Init /\ [][Next]_vars

\* The event loop runs every task that can run, a signal that cannot be caught
\* takes effect, and the deadline passes.  Nothing promises that a child ends.
LoopFairness ==
  /\ WF_vars(MainStep) /\ WF_vars(Expire)
  /\ \A w \in Workers : WF_vars(WorkerStep(w))
  /\ \A t \in Rows : WF_vars(leader[t] = "up" /\ SignalKills(t))
LoopSpec == Spec /\ LoopFairness

-----------------------------------------------------------------------------
(* Properties *)

\* Type invariant.
TypeOK ==
  /\ args \in Args
  /\ mpc \in MainStates
  /\ pc \in [Workers -> WorkerStates]
  /\ row \in [Workers -> 0 .. NRows]
  /\ cancelReq \subseteq Workers
  /\ status \in [Rows -> {"pending", "running", "completed", "failed", "cancelled"}]
  /\ admitted \in 0 .. NRows
  /\ cycle \subseteq Traces
  /\ used \in [Traces -> Nat]
  /\ failed \in BOOLEAN /\ expired \in BOOLEAN
  /\ leader \in [Rows -> ExitCodes \cup {"none", "up"}]
  /\ strays \subseteq Rows
  /\ sig \in [Rows -> {"none", "term", "kill"}]
  /\ gatherErr \in {"none", "failed", "cancelled"}
  /\ runStatus \in {"none", "failed", "cancelled", "completed",
                    "completed_with_errors"}
  /\ summary \in BOOLEAN /\ refused \subseteq Workers \cup {Main}
  /\ signals \in 0 .. MaxSignals

\* No row is handed out twice.  A row is running while its worker waits for the
\* child, and stays so for ever only if the worker ended, with an error of its
\* own, before there was a child.
RowOwnership ==
  \A t \in Rows :
    /\ Cardinality({w \in Workers : row[w] = t}) <= 1
    /\ \A w \in Workers : row[w] = t /\ pc[w] \in {"spawn", "wait"} => status[t] = "running"
    /\ status[t] = "running" =>
         \E w \in Workers :
           row[w] = t /\ (pc[w] \in {"spawn", "wait"} \/ (pc[w] = "failed" /\ leader[t] = "none"))

\* The summary's rows tell how the children ended: a completed row's child
\* exited with 0, a failed one's did not, and a row still pending or running
\* never had a child.
RowsTellTheTruth ==
  \A t \in Rows :
    /\ status[t] = "completed" => leader[t] = "ok"
    /\ status[t] = "failed" => leader[t] \in ExitCodes \ {"ok"}
    /\ summary /\ status[t] \in {"pending", "running"} => leader[t] = "none"

\* No child that the run started is left without at least a SIGTERM once the
\* main coroutine stops waiting for its workers, however many signals arrive.
ChildrenSignalled ==
  mpc \in {"final", "sampler", "ended"} =>
    \A t \in Rows : leader[t] = "up" => sig[t] # "none"

\* After Ctrl-C or SIGTERM the process group of every task the run cancelled is
\* gone, or has been sent SIGKILL, when the command ends (stop_process escalates
\* after half a second).
InterruptStopsGroups ==
  mpc = "ended" =>
    \A t \in Rows : status[t] = "cancelled" /\ GroupAlive(t) => sig[t] = "kill"

\* A run that failed, or was cancelled by one signal while its workers ran,
\* leaves its summary unless the file itself, or the close of admissions.jsonl,
\* is refused: only a second signal can take it away.
SummaryWritten ==
  (/\ mpc = "ended" /\ runStatus # "none" /\ Main \notin refused
   /\ signals = IF runStatus = "cancelled" THEN 1 ELSE 0) => summary

\* A run that says it completed replayed every row of a finite list, or lasted
\* its whole window; each row it admitted was replayed to its end, and only
\* failures it was told to tolerate are among them.
HonestCompletion ==
  runStatus \in {"completed", "completed_with_errors"} =>
    /\ ~args.steady => admitted = NRows
    /\ \A t \in 1 .. admitted : status[t] \in {"completed", "failed"}
    /\ args.steady => expired
    /\ \A t \in Rows :
         status[t] = "failed" => leader[t] = "http" /\ args.tolerate

\* The traces are admitted evenly: no trace is a full pass ahead of another.
BalancedLoad == \A x, y \in Traces : used[x] <= used[y] + 1

\* The books of the pool: its variables have their types, rows have one owner
\* and tell how their children ended, and the traces are used evenly.
RowsSound == TypeOK /\ RowOwnership /\ RowsTellTheTruth /\ BalancedLoad

\* Once a task failed the run, the deadline passed, the workers are being
\* cancelled, or a signal reached workers none of which had ended with an error,
\* no row is admitted any more.
NoAdmissionAfterStop ==
  [][failed \/ expired \/ mpc = "drain" \/ (signals > 0 /\ gatherErr = "none")
       => admitted' = admitted]_vars

\* A signal, the failure of a task the run does not tolerate, and a worker that
\* ends with an error end the command even if the children never would by
\* themselves.
StopEndsRun == signals > 0 \/ failed \/ gatherErr # "none" ~> mpc = "ended"
=============================================================================
