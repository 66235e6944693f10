# Verification of AgentTrace

TLA+ modules for AgentTrace: its concurrent parts as state machines, its pure
computations as operators, TLC configurations that check them on small
instances, and TLAPS proofs of the safety of every state machine for every
instance. Paths below are relative to `src/src/agenttrace/` unless they
start with `examples/`, `reports/`, `docs/` or `tests/`.

Run `tlc -config X.cfg M` for a row of the table of runs, `tlapm M.tla` for a
proof module.

## 1. Inventory

AgentTrace captures what an agent did (its LLM calls and tool calls) as a DAG
of nodes, and replays such DAGs, many at a time, to measure a serving system.

| Component | State it keeps | Operations | Hard behaviour | What makes it correct |
|---|---|---|---|---|
| Replay engine `replay/engine.py` | one asyncio task per node, results, bindings, which executors were set up | `replay_trace` | a failing node while others run, cancellation, cleanup that fails | parents first; every ancestor's bindings seen; nothing runs when executors are closed; a report is complete; the failure named is the root cause |
| Bindings `replay/bindings.py` | recorded value -> replayed value | `add`, `rewrite`, `learn_from_results` | learning order of siblings, overlapping values | longest value first, one pass |
| LLM executor `replay/llm.py` | an HTTP client | `setup`, `execute`, `close` | no retry, exact token count | one POST per node |
| Tool executors `adapters/*.py` | gateway process, port lease; sandbox | `setup`, `execute`, `close` | cancellation while a thread or process works | nothing owned outlives `close` |
| Benchmark `replay/benchmark.py` | rows, workers, child processes, failed event | admission, `stop_process`, summary | signals, second cancellation, deadline, tolerated failures, refused files and processes | each row has one owner; rows tell how children ended; no child is left unsignalled; the summary is written |
| Capture proxy `capture/openai.py` | counters, sequence number, capture file | `do_POST`, `wait_idle` | threads, dying clients and upstreams | what the agent consumed is recorded before `wait_idle` returns |
| Image caches `miniswe_images.py` | index, images, partial files, lock files | `prepare`, `stage_images`, `cached_image`, `sandbox_build_slot` | kill between two steps, two commands at once, retries | only checked images under final names; entries never lost; reruns go on |
| Request path `replay/llm.py`, `experiments/multi/proxy.py`, `routing_envelope.py` | sequence, ledger file, connections | `execute`, the router's handler, the middleware | truncated streams, cancelled handlers, a backend that dies | one ledger row per request, never a retry; a result is a whole answer; a valid report is right |
| Multi-node run `experiments/multi/{runtime,frontend}.py`, `experiments/service.py` | ready/start/complete files, stdin pipes, owned process groups | `run`, `work`, `serve_frontend`, `serve` | any service dies at any time; timeouts of owner and owned | a common window for all or for none; nothing owned survives |
| Scaling sweep `experiments/scale.py` | one summary per point, the exported table | `run`, `guarded_benchmark`, `export_summary` | a service that outlives its timeout, an interrupt between summary and validation | one service at a time; every point before the current one is validated; the table is what the summaries say |
| Packed experiments `experiments/multi/packed.py` | one ssh client and status file per member | `run_pack`, `run_member`, `until_disconnect` | a second cancellation during cleanup | status files tell the truth; nothing is left unless cut |
| Trace collectors `examples/openclaw_gaia`, `examples/minisweagent_swebench` | lock, traces, predictions, summaries | `main`, `run_agent` | kills between files, exceptions of signal handlers anywhere, files written in place | reports agree with the traces whenever they are read |
| Scheduler diagnostics `vllm_diagnostics.py` | pending lookups, counts of the interval, event file | lookups, admissions, refusals, steps, shutdown | preemption, aborts, requests refused after a lookup | the file is exact per request and interval |
| Metrics `metrics.py` | a JSONL file | the monitor's loop | stop during a sample | accounts are backed by samples |
| Pure computations `schema.py`, `replay/{window,bindings}.py`, `vllm_backend.py`, `experiments/multi/{config,report}.py`, `experiments/pbs.py`, the builders of `adapters/` | none | `validate_trace`, `timeline`, `union_seconds`, `summarize_*`, `node_layout`, `matrix`, `render`, pairing of calls | boundaries, ties, counters that restart, duplicates | equal to a reference definition |

How they interact: `benchmark()` starts one child process per row, in a session
of its own; the child runs `replay_trace` and leaves an event file, from whose
last failure event the benchmark decides whether the run goes on. The engine
calls executors through `interfaces.py`. A multi-node run starts one frontend
service per node over ssh; each frontend runs one `benchmark()` per replica and
a router; files in a shared directory publish readiness, the common start and
completion; closing stdin ends a service. The adapters' collection runs an agent
against the capture proxy and waits for the proxy to be idle before it reads the
capture file. Replays look images up in the caches.

`PROJECT.json` lists the components with their status and every hazard at its
line, with the properties that cover it.

## 2. Modules

### ReplayEngine, ReplayContract

One `replay_trace` call. A step is what the event loop runs between two awaits.
`phase` is where the main coroutine is suspended, `node` where each dispatch
task is; `started` is `node_starts`; `cancelReq` holds the cancellations asked
for and not delivered yet; `error` is the exception `gather` holds; `failure` is
the kind of the last `task_failed` or `cleanup_failed` event, the one
`task_failure` in the benchmark reads. `args` ranges over dry runs and missing
executors. Executors are environment: each call completes or raises, a
transport error or anything else. `Restore`, `LLMReady`, `ToolReady` and
`SetupFails` are the setup; `StartNode`, `DryNode`, `CompleteNode`, `FailNode`,
`InheritFailure` and `CancelNode` the tasks; `ReplayFails`, `Drained`,
`ReplayCompletes`, `CloseTool` and `CloseLLM` the main coroutine; `Interrupt` is
one SIGINT at any of its awaits.

`ReplayContract` is the abstract specification: a node is attempted once, after
its parents; nothing is attempted or recorded after the replay stops; the
verdict is a full report, or a failure with nothing in progress.
`ReplayEngine!ImplementsContract` is the refinement, with the mapping in
`Contract`.

### Benchmark

`benchmark()` and its children. `mpc` and `pc` are the awaits of the main
coroutine and the workers, `row` and `status` the rows, `leader` and `strays`
what is alive of each child's process group (its leader, and the tools it
started), `sig` the strongest signal the group was sent. `Advance` is
`next_row` with the way to the spawn, in one step because no await separates them;
`Cancelled` is a cancellation at each await of a worker, `spawn` included, where
the library kills the child it has just started. `Signal` is SIGINT or SIGTERM
at each await of the main coroutine.

The system may refuse a file, a directory or a process (`Refuse`), and the worker
it strikes ends with the error: on the way to the row's child (`RefuseRow`), where
the row is left pending, running or cancelled, depending on whether `task_root`,
something between it and the `try`, or the `try` itself is refused; at the row's
`status.json` after a tolerated or a good end (`GoOn`), or on the way out of the `try`
(`LeaveTry`), where the refusal replaces the exception. None of them sets the failed
event. `Summarize` may be refused too, and leaves no summary. A task whose child
crashed may leave an event file that `task_failure` cannot parse (`Reaped`).
Standard output is assumed to take what is printed.

Constants: the workers, the traces, the rows (of a finite run; a bound on those of a
steady one), the signals (`MaxSignals`), and the tasks of the event loop, workers and
`Main`, to which something is refused (`MaxRefused`).

### CaptureProxy

The threads of `do_POST`, the agents and the `wait_idle` calls. A `with` block
on the lock or the condition is one step; between such blocks everything
interleaves. `client` is what the agent has seen of a call, so that "the agent
consumed the answer" and "the record is written" are separate events. Agents are
modelled from `adapters/openclaw.py` (`collect_case`), whose `wait_idle` call
follows the agent's end.

### ImageCache

`prepare` and `stage_images` as processes that take a lock file, read the index
once, and for each source transfer, check, save the index and rename, in the
order of the code: index first in `prepare`, rename first in `stage_images`.
Any process may be killed at any point with its transfer; the kernel frees its
lock. `Rerun` is the operator running the command again. A partial file may be
torn; a pulled image may lack the benchmark's workspace. An index entry without
an image is possible and not `Cached`.

### MultiNode

One `runtime.run`: the coordinator, one `service.serve` per replica, one
`serve_frontend` per node, and the benchmark of each replica, reduced from the
module above to its phases (prepare, ready, run, end). `cpc` is the coordinator's
phase: `backends` and `fronts` are the two task groups of `enter_services`,
`allocation` the `qstat` between the guarded waits, `drain` the wait for
`complete.json`, `settle` the last scrape and clock check, `unwind` the exit of
the `AsyncExitStack`. `ctx` is the state of each service's context manager, `ssh`
the local process whose stdin is the remote's leash, `remote` the process at the
other end, `groups` the vLLM process groups. `ready`, `complete`, `start` and
`benchReady` are the files of the shared directory. `failing` is an exception on
its way to `status.json`; `cut` remembers whose exit the coordinator stopped
waiting for, because of a timeout (30 s for a service, 60 s for a frontend) or a
second cancellation.

`Watched` gives the processes `guarded()` polls in each phase: none while the
backends start (each startup looks after its own ssh process), only the backends
while a frontend is not up, nobody during `qstat`, all in the later phases. A
failed phase (`Fail`) cancels the startups that are not up, whose `finally` closes
their stdin; the task group joins them (`Joined`) before the stack is unwound
(`CloseNext`). A remote sees the end of its stdin (`Eof`) when its context closes,
its connection is lost, or the coordinator is gone. Faults, bounded by `MaxFaults`:
a lost connection, SIGKILL of a remote or of the coordinator, a vLLM process that
outlives SIGKILL.

Simplified: a spawn is one step with the context that makes it; frontends, and
backends, close in any order among themselves, of which the code's order (last
entered first) is one; the frontend's staging, precache, sampler and router are one
step that may fail; an exception of a sampler while its owner already stops is not
told apart from a clean stop; `qstat` always answers.

### Gateway, Sandbox (constants in ReplayNode)

The two tool executors of the adapters, as the replay processes of one node.
`Gateway` is `OpenClawToolExecutor`: `FreePort`, `LockPort`, `Spawn`, `Health`,
`Probe` and `Sleep` are `setup()`, `Close` to `Reap` are `close()`; `lease` is the
port's lock file, `bound` who listens, `gateway` the child. Other programs take
ports, gateways exit, an await is cancelled, a process dies without its gateway.
`Sandbox` is `MiniSWEAgentToolExecutor` with `sandbox_build_slot`: `pc` is the
coroutine, `build`, `command` and `cleanup` the threads that `asyncio.to_thread`
starts and nobody stops, `slot` the lock files; `Start` is the process id with
which a scan of the slots begins.

### Packed (PackMembers), Sweep (SweepPoints)

`Packed` is `run_pack`: a member is an ssh client whose stdin is the leash of the
experiment at the other end; signals cancel the members, a second one cancels
them again in their cleanup. `Sweep` is `scale.run`: per point a service, a
benchmark that is guarded against the service's end, its provisional summary, the
service's end, the validation, and `export_summary` on every way out. A summary is
a row [valid, checked]; `checked` says that the point's own validation ran.

### GaiaCollect, SweCollect (CollectedTasks)

`GaiaCollect` is the GAIA collector: the lock, a task's agent, the copied session, the
trace, predictions and summary. `named` are the collectors whose `OPENCLAW_STATE_DIR`
names the state directory followed here: they share its lock, on which a second one
stops; the lock of the others is in the directory of their own run. `Kill` may come
between any two writes and leaves the agent running; `Fail` is any other error, at any
point: the agent is killed, the lock freed, and the reports, which are renamed into
place, stay. `SweCollect` is the SWE-bench collector: one thread in which SIGALRM and
SIGINT raise wherever it is (`at`), through `except` and `finally`. Its files are
written in place: `trace.json`, `statuses.jsonl` and `summary.json` are opened, which
empties them, in one step and written in the next, so that Ctrl-C or a full disk leaves
a torn trace, any number of whole rows (`listed`), or a torn summary. `statuses` is the
list in memory; `Outcome` is what the summary is to say. Simplified: `status.json` and
the trajectory are not followed as files.

### Routing (RoutedCalls)

One LLM call from executor to replica and the records it leaves, in the four ways
a run may route it: direct, through the streaming router by round robin or by the
frontend's own replica, or through the official router with the middleware at the
backend. `client`, `hop` and `backend` are the three programs' views, `seen` what
the client's connection showed, `data` and `log` what the replica produced and
logged, `rows` the ledger. `SummarizeRun` is the report's verdict once all is quiet.

### Diagnostics

`DiagnosticAsyncScheduler`: what it notes while the native scheduler looks up,
admits, refuses and preempts, and what it writes. `truth` and `queried` are
history variables: what really happened, and what the written rows add up to.

### Window, BackendLog, Resources, TraceBuild, Layout

The pure computations, one operator per function, each beside a reference
definition written independently (counting second by second, summing over sets,
reachability instead of depth-first search). `Window`: concurrency time lines, busy
time, cohorts, percentiles. `BackendLog`: the hook's events and the three readers of
them. `Resources`: deltas, energy, coverage, CPU shares. `TraceBuild`: pairing of
captured calls with turns, dependencies, `validate_trace`, `Bindings`. `Layout`:
`matrix`, `render`, `node_layout`, `partition`.

### MC modules

`Components` composes the components that share nothing with each other; its
initial state chooses in `which` the one a behaviour is about, the others keep an
initial value, so the states add up instead of multiplying. It extends `Routing`,
instantiates the others and is as general as they are; its own constants are
`Leasers` (the replays whose gateways are followed), `Requests` and `MaxSteps` (the
diagnosed scheduler's). `MCComponents` gives it its values and states the fairness.
`Algorithms` instantiates the pure modules; a step chooses one input, of any kind,
and the invariants evaluate the operators on it. Its constants are the sets of
inputs, with assumptions that say what the program has already parsed
(`LayoutConstants`, `TextConstants`) or written (`MetricConstants`: samples in the
order of time, which holds as long as a node's wall clock does not step back, and an
`EnergyScale` in which every trapezoid is a whole number; `WindowConstants`: windows
that begin before they end, over tasks that end no earlier than they begin, as the
benchmark's monotonic clock gives them, and sorted values; `LogConstants`: a bin of at
least a second, windows that begin before they end, and logs in which the chunks of a
request come in the order of the engine's monotonic clock, `vllm_backend.py:180`;
`TraceConstants`: a captured call carries the id of a response only if it is the call
that got this response, as the ids a server gives are its own);
`MCAlgorithms` enumerates small ones.
`MCReplayEngine`, `MCBenchmark`, `MCCaptureProxy`, `MCImageCache`,
`MCMultiNode` and `MCSweep` are instances of one component.

### The proof modules

`X_proof` has the theorems about `X`, see section 5; `Components_proof` those about
the components it composes, a section for each, and `Algorithms_proof` those about
`Layout`, `TraceBuild`, `Resources` and `Window`. `Foundations` has the lemmas they
share: induction given as a set, sums, folds, sorted lists, intervals on a line and
depth-first search.

## 3. Runs

| Run | Instance | What it shows |
|---|---|---|
| engine | 5 nodes: an LLM call, two sibling tools, a join, a chain; all argument combinations; one interrupt; event loop fairness | what an ancestor learned is seen, quiescent close, root cause, the failure the benchmark may tolerate, the refinement of ReplayContract, and that a failure ends the replay while other calls hang |
| benchmark | 2 workers, 3 rows, 2 traces, 2 signals, 1 task that is refused something | sound rows, honest completion, admission, children signalled, summary |
| benchmark_loop | 2 workers, 2 rows, 1 signal, 1 task that is refused something; children may never end | a signal, a failure or a worker's own error ends the run |
| benchmark_interrupt | 2 workers | a group survives an interrupt: see section 6 |
| capture | 3 calls, 2 traces, a waiter for one trace and one for all | order of records; consumed is recorded |
| capture_fair | 2 calls | waiters are woken without their deadline |
| images | 2 images, 2 prepare, 1 stage, 1 kill, 2 network failures | only good images, success stays true |
| multinode | 2 replicas on 2 frontends, 1 signal; startups, benchmarks, vLLM may fail, end or hang at any moment | a common window for all or none; backends outlive the replay; nothing left behind |
| multinode_loop | 1 replica, 1 frontend, 2 signals, 2 faults | completed means over everywhere, without an error; the coordinator ends; an exit ends the run; the leash holds |
| components | 2 gateways on 2 ports; 3 builders on 2 slots; a pack of 2; 2 GAIA collectors, one of which may name no state directory, and the SWE-bench collector with 2 tasks; 2 routed calls, 2 replicas; a sweep of 2 points; 1 prepare and 2 stage with a kill; 2 diagnosed requests, 3 steps | one property per component, and that setups, closes, waits for a slot or a cache, interrupted packs and sweeps end |
| algorithms | every input of small sets, by kind | each computation equals its reference |
| sweep_valid | 2 points | an exported row is called valid without its checks: see section 6 |

Why the bounds are enough. The engine's DAG has every relation the properties
speak of (parent, sibling, join, grandchild through a tool), and the proofs
remove the bound for safety. Two workers and three rows let one worker go
through two rows, with a tolerated and a fatal failure, while the other is in
any state; two signals reach every await twice, and what is refused to one worker meets
every state of the other, or of a summary whose workers did well. Two calls of one trace and one
of another separate the two counters. Two `prepare` processes are needed to lose
an index entry, one kill to leave a torn file, two network failures to
distinguish a tolerated one from the last (the code's limit is 5:
`MaxFailures`). Two replicas on two frontends are what a common window, a startup
that fails beside one that is up, and an order of closing need; two signals cut
two of the exits of one run; two faults combine, say, a killed coordinator with a
vLLM that cannot be killed. Three builders on two slots are the least for which
somebody waits; two gateways on two ports let a chosen port be taken by the other
replay or by another program; two points of a sweep let one overlap or spoil the
next; two tasks of a collector separate a report's current task from the finished
ones (of two collectors one names the state directory, `Instance` in `MCComponents`,
and the other does or does not); three steps of the diagnosed scheduler let a request be refused, admitted and
preempted, and admitted again. The inputs of the algorithms hold touching,
overlapping, empty and equal intervals, resets and gaps, duplicate ids, cycles and
self-loops, and configurations on both sides of each limit. The proofs remove the bounds for safety, two replicas
on one frontend included. Deadlock is not checked where a system really stops: every
replay, run and command ends, and an idle proxy waits.

Symmetry is declared only for interchangeable workers, sources and processes,
and never in a run with a liveness property.

## 4. Fairness

* `ReplayEngine!LoopSpec`: weak fairness of the main coroutine and of each
  task's own steps, which is what an event loop gives. Nothing is assumed of the
  executors' calls: `FailureEnds` holds although they hang.
* `Benchmark!LoopSpec`: event loop, deadline, and that a signal which cannot be
  ignored takes effect on the replay child; also that a coordinated worker's
  `start.json` is published. Nothing promises that a child ends: `StopEndsRun`
  does without.
* `CaptureProxy!FairSpec`: threads run and upstream answers end; no fairness of
  deadlines, since a `wait_idle` that needs its own timeout to return is the
  failure the property is about.
* `MultiNode!LoopSpec`: the coordinator's and each remote's event loop. Nothing is
  assumed of preparations, benchmarks, servers or faults. `CoordinatorEnds` adds
  only that timers fire (`TimersFire`), `ExitEndsRun` and `LeashHolds` only that a
  cleanup which was started comes to its end (`CleanupsEnd`): SIGKILL after the
  grace period ends a process, or `GroupSurvives` reports it.
* Images in `MCComponents` (and `ImageCache!FairSpec`): a running command goes on;
  strong fairness of taking the staging lock, because the kernel wakes the waiters
  of `flock` in turn. Nothing is assumed of the registry: a `prepare` may be rate
  limited for ever.
* `MCComponents!Fairness` states again, behind `which`, the fairness of the
  components' own `Spec`s: a gateway executor's coroutine runs (each of its awaits
  in `setup()` and `close()` has a timeout; a call has none and may hang); a
  sandbox's building thread runs, whose subprocesses have timeouts; a pack's
  coordinator and members run, ssh ends with its remote and forwards the end of
  stdin, upon which an experiment stops (module `MultiNode`); the sweep's `run()`
  takes its steps and a service ends once its stdin is closed. Experiments and
  benchmarks may run for ever.

## 5. What is proved

`ReplayEngine_proof` proves, for every set of nodes, every choice of node types
and every parent function (`EngineAssumption`; not even acyclicity is needed for
safety): `TypeCorrect`, `DependenciesFirst`, `BindingsReachDescendants`,
`CloseIsQuiescent`, `ReportIsComplete`, `ToleratedIsClean`, `FailureStops`,
`FailureIsRootCause` and `EngineImplementsContract`. `DependencyOrder` and
`FailureStopsDispatch` are in no run: the contract, which the run engine checks,
implies them.

The properties are not inductive as they stand. The invariant `IInv` adds what
the main coroutine relies on without saying so: nothing is dispatched during
setup (`SetupInv`); the flags `llm_started` and `tool_started` agree with the
phase (`FlagInv`); a task that has begun is in `node_starts` and the other way
round (`StartInv`); what a completed tool returned is in the bindings and stays
there (`LearnInv`), from which a child's view contains its parents'; after
`replay_failed` every unfinished task has a cancellation pending (`DrainInv`),
so that none can start or record; and the reported failure follows the body's
exception until a `close()` raises (`CloseInv`). `RootInv` adds, separately, that
without an interrupt a cancellation is only asked for after an error, and that
the first error is that of a node whose own execution raised it. Each lemma
treats one group of actions; `FailureStops` and the refinement use `IInv` on
both sides of a step.

`CaptureProxy_proof` proves, for any finite set of calls, any traces and waiters
(`CaptureAssumption`): `TypeCorrect` (no counter goes negative), `CountersAgree`,
`FileInOrder` and `ConsumedCallsRecorded`. The counters are compared with the
cardinality of the set of active handlers, which a step either leaves alone or
changes by the one call it is about. `ConsumedIsRecorded` needs three facts: an
agent that is over has no waiting call (`ClientInv`), a collector waits only for
such an agent (`WaitInv`), and a handler past its append has settled its call
unless the client had left before the answer was complete (`SettledInv`); then a
counter that is zero leaves no consumed call before its append.

`ImageCache_proof` proves, for any images and any numbers of processes, kills and
reruns (`CacheAssumption`): `TypeCorrect`, `FinalNamesAreGood`,
`SharedImagesIndexed`, `SuccessLasts` and `CacheMonotone`. The invariant is one
conjunct per process: whoever works holds its cache's lock, so the index it has
in memory is the index on disk (`ProcInv`), `prepare` saves and renames only what
it has checked, in this order (`PrepareInv`), and `stage_images` copies only
images the shared cache has (`StageInv`). `Frame` and `LockFrame` say what a step
leaves to the other processes, `CacheGrows` that the caches only grow;
`OthersKept` and `OwnKept` then preserve each conjunct.

`MultiNode_proof` proves, for any replicas, frontends and layout and any number of
signals and faults (`MultiNodeAssumption`): `TypeCorrect`, `WindowIsCommon`,
`BackendsLast`, `CompletedMeansClean` and `EndLeavesNothing`. The invariant says
what a context, its ssh process and its remote know of each other (`ProcInv`: a
context left without an error means status 0, hence a remote that ended without
one), to which service a vLLM group belongs (`GroupInv`), what a frontend's files
tell of its benchmarks (`BenchInv`), and what each phase of the coordinator implies
for the contexts (`CoordInv`: once the window is published every context was
entered, and a backend is let go only after every frontend). Steps of one kind share
a lemma: `FailKeeps`, `PhaseKeeps`, `EnterKeeps`, `ContextKeeps` for the
coordinator, `LifeKeeps`, `BenchKeeps`, `SshKeeps`, `KillKeeps` for the remotes.

`Benchmark_proof` proves, for any finite non-empty set of workers, any traces, rows,
signals and refusals (`BenchmarkAssumption`), finite and steady runs: `RowsAreSound`,
`CompletionIsHonest`, `AllSignalled`, `SummaryIsWritten` and `AdmissionStops`. A
worker at work has a row of its own (`WorkerInv`, `Distinct`), from which the one
owner of a row follows; a row that is running is one whose worker waits for its child,
or one whose worker ended with an error before there was a child, and a child that is
up is one somebody waits for or one that was signalled (`RowInv`); all traces of a pass
that are used have been used once more (`TraceInv`). What a reader of the code has to
work out is that the failed event is not what ends every bad run, because a refused
file or process does not set it: what does is the exception. `Trouble` says that
`gather` holds one or that a worker is on its way out of its `try`; every row that did
not end well, or with a tolerated failure, implies it, hence `RunCompletes` finds
nothing failed. `StopInv` says that after a signal every worker that could admit a row
has its cancellation pending, unless `gather` had been given an error before, in which
case the main coroutine cancels them itself (`mpc = "drain"`). `Quits` is what all ways
out of a worker have in common; `TakeKeeps` treats the way to the next row and
`GoOnKeeps` the end of a row once for `Start` and `Reaped`.

`Components_proof` proves the safety of the composition's parts, for any constants
that satisfy the modules' assumptions (`ComponentsConstants` adds that the diagnosed
requests are finitely many). A step of the composition is a step of one part or
leaves it alone, so each theorem is about `ComponentsSpec` and has the part's own
invariant.

* `GatewaysStayApart`, for any replays, ports and other programs. A gateway that runs
  under a live replay has its port leased by that replay until it is reaped
  (`Covered`), whichever await of `setup()` or `close()` is cancelled.
* `SandboxesStayBounded`, for any replays, limit and starting offsets. A builder holds
  a slot (`Slotted`), so builders inject into slots, and the cardinality of the slots
  bounds them; a live executor that knows of no environment has no sandbox (`Known`).
* `OneRowEach`, `ResultsAreWhole` and `ValidMeansTrue`, for any calls, replicas and
  every routing. The handler that owns a call's row writes it when it ends, so that a
  row exists exactly when the handler has ended (`RowInv`); a result, once there, stays
  what it was (`ResultInv`); a report is made when nothing moves (`ReportInv`).
* `PacksTell`, for any members. What a member's status file says is what its remote
  did, and its ssh client's stdin is closed in every place a cancelled member can be
  (`MemberInv`); the pack joins only members that are done (`PackPlaces`), and its
  status follows the files (`StatusInv`).
* `SweepIsSound`, for any number of points and signals. Every point behind the current
  one is validated with its service ended, every point ahead has none (`PointsBehind`,
  `PointsAhead`), and validation begins without a fault (`SweepPlaces`), which is why
  only a validated point lets the sweep go on.
* `CollectionsDoAgree`, for any collectors and number of tasks. `Held`: who works on the
  named state directory holds its lock, and an agent outlives only a killed collector; `Told` and
  `Traced` say at each place between two writes by how much the summary may lag behind
  predictions and traces. For the SWE-bench collector, `SweTasks`, `SweTraces`
  and `SweRows` say at each place an exception may strike what is armed, torn or whole, and
  recorded, and `SweResult` when the rows of the file are those of the memory; `InterruptKeeps`
  treats Ctrl-C once.
* `EventsAreExact`, for any finite set of requests and number of steps. The property's
  sum over the requests changes by one lookup at a time (`Added`); inside a call only
  running requests are scheduled, all those among them that were looked up
  (`Scheduling`), and a running request that was not has nothing pending (`Admitted`),
  so a row is due for exactly the admitted ones (`Rowed`) and the pending lookups are
  those since the last row (`Looked`, `Forgotten`).

`Foundations` makes that sum reasonable: the library's induction theorems take the property
as an operator, which the provers cannot instantiate, so `SubsetInduction` takes the
*set* of the subsets that have it, and follows from the well-foundedness of the
naturals. With it `SumsExist` shows that the recursion by which a fold is defined has a
solution, and `SumTakesOut` that the element the fold happens to choose does not matter.

`Algorithms_proof` is about functions, not steps: nothing disturbs an input once it is
chosen (`Chosen`), so each theorem is that the property holds of every input the
assumptions allow. What the functions compute is a fold or a recursion over a
sequence. The provers cannot instantiate an induction over data, but they can take
natural numbers from `NatSetInduction` with a *set* of those that are good, and a fold
is a recursive function over the sets of positions: `FoldsExist` shows that it has a
solution, `Segments` that the solution is reached one element at a time.

* `LayoutsAreSound`, for any configuration, allocation and pack. `Nodes` lists each
  host once (`GrownOneEach`, by which a host is appended only if it is new), so what
  is cut out of it at different places is disjoint (`IsPart`); the members' offsets
  add up (`OffsetsAdd`, from `Foundations`) and increase, so every place belongs to one
  member or to none (`Blocks`). Of the replicas dealt out by `i % f` each frontend gets
  the quotient or one more (`ServedBalanced`: an injection from one frontend's replicas
  but the first to another's). The names of points are injective on a matrix
  (`PointsNamed`), so every ready one is listed once (`ListedOnce`), and `PbsTakes`
  says that a job's queue is one whose limits hold its nodes.
* `RewritesAreExact`, for anything a replay has learned and any text of words between
  separators, each of which is a recorded value or holds none. A match that begins
  within a word ends within it, because no recorded value contains the separator
  (`MatchesWithinWord`); where a bound word begins, it is the longest match
  (`BoundWordMatches`); where nothing recorded begins, the text stays
  (`UnboundWordStays`). So one pass from left to right replaces word by word
  (`WordRewritten`) and never looks at what it has written, and induction over the
  words gives the whole text (`TextRewritten`). `LearnedBinds` shows that whatever
  `add` has been given, the values are of this kind. `WalksExist` is what makes
  `from[i]`, whose next place depends on a match, a function.
* `SamplesAreSound`, for any samples in the order of time. What is filtered out of a
  sequence is a subsequence (`SelectedTakes`), so the readings of a window are among
  the run's (`ReadingsEmbed`); a series that is nowhere invalid is in all readings or in
  none and never falls (`Progress`), hence every delta is progress and the window's no
  more than the run's. For the energy, exactly one interval of the power line lies over
  a second (`BeforeIs`), only its share grows as the end of the window moves by that
  second, and it grows by the second's area (`SharesGrow`, from the identity
  `Expands`); induction over the end of the window adds them up (`SharesAdd`). A second
  of a covered window lies between two samples that are close (`CoverageNear`).

* `WindowsAreExact`, for any tasks that end no earlier than they begin, any window and
  any sorted values. Sorting lists every element once and in order (`RankedInOrder`), so
  a fold over it takes what it lists step by step (`SweepStepwise`, `UnionStepwise`,
  `PeakStepwise`). Between two points where the sweep stops nothing opens or closes
  (`OpenBetween`), and at a point what is open changes by what opens and closes there
  (`OpenChanges`); so after each point the sweep knows how many intervals are open,
  their seconds so far and the greatest number (`SweptTo`), and every second of the
  window lies between two points (`PointBefore`). `union_seconds` adds, for the next
  interval in order, just the seconds that no earlier one covers, because they all begin
  no later (`UnionGrows`). The peak of a whole run is that of its time line
  (`PeaksAgree`): after a mark no more tasks are under way than cover a second
  (`MarkCovered`, where ends come before starts), and after the last mark up to a second
  just those that cover it (`CoveredMark`).
* `LogsAgree`, for any log and any window. Summed request by request, the events give
  the totals of the run (`FibersAdd`, `RunTotals`); of each request exactly one chunk
  with tokens has none before it (`FirstGenerated`), so the hook's decoded tokens are the
  rows' outputs less one (`RequestTotals`), and every event lies between the first token
  and the end of its request, so a window around the run leaves none out
  (`EventsInside`, `CoveredTotals`). Whichever requests a reader selects, clipped to the
  window they cover the same seconds (`SelectedBusy`). Every time of the window has one
  bin and one half, and the bins' lengths add up to the window's (`BinsShareOut`,
  `LengthsAdd`).

* `TracesSound`, for any session and any nodes. The search of `validate_trace` calls
  itself with the state it has reached, so that it is a function at all (`SearchExists`)
  needs an induction over the nodes that are not being visited, of which each visit has
  one fewer. A visit, whatever the state it starts from, either finds a cycle or ends
  with everything it reached visited and closed under `depends_on` (`VisitReaches`,
  `SearchReaches`); hence no cycle is found if, and only if, every set of nodes has one
  that waits for no other of the set (`SinksApart`, `SearchDecides`). In the pairing, the
  calls taken and those left are always all the calls; a turn with an id finds its own
  call, which no turn before it can have taken, and calls in the order of the turns
  are taken from the front (`Paired`, `PairedOn`). In a trace being built, `InBuildOrder`
  is inductive: nodes wait for earlier ones only, a node that none of the nodes so far
  waits for is among those the next LLM node will wait for, and everything before an LLM
  node has a node that waits for it no later than this one (`InBuildOrder`, `Standing`).
  The last two give the LLM node all earlier nodes, one round of `Before` for each place
  it goes back (`BeforeLlm`).

Each proof module about steps has its `Invariance` and, but for the benchmark's, whose
types are part of `RowsAreSound`, a `TypeCorrect`. `TypeCorrect`, `ReportIsComplete`,
`CountersAgree`, `SharedImagesIndexed` and `CacheMonotone` state what no run lists
any more, because the proofs cover every instance.

Only model-checked: liveness (`FailureEnds`, `StopEndsRun`, `WaitersWake`,
`CoordinatorEnds`, `ExitEndsRun`, `LeashHolds`, `ComponentsEnd`), because the prover
has no ENABLED. The six theorems about the pure modules needed inductions over data,
each written out as one over a set of numbers or of subsets, since the provers cannot
instantiate the library's induction theorems.

## 6. Findings

`docs/concurrent-replay.md:232` promises that Ctrl-C or SIGTERM stops the
benchmark's child process groups. `benchmark.py:288-290` cancels every worker
again when `gather()` raises, which is as soon as the first cancelled worker
ends. A worker still in `stop_process`'s half second of grace is cut there and
never sends SIGKILL, so a group member that survives SIGTERM outlives the
command. The run benchmark_interrupt shows it with two workers; with
`Workers = {w1}` in its configuration TLC finds no violation: one worker is what
`tests/test_benchmark.py` runs. `experiments/multi/packed.py:180` avoids the same
hazard on purpose.

`docs/single-backend-scaling.md:223-224` says that missing backend events or count
mismatches invalidate the point. `scale.py:178-197` compares them only after the
inference service has been left; `benchmark.py:332` has by then written a
provisional `measurement.valid`. If the service does not end in time, ends with an
error, or a signal arrives meanwhile, the checks never run and `export_summary` in
the `finally` clause (line 203) exports the point as valid. The run sweep_valid
shows it.

Seen while modelling, in no run: the comment at `metrics.py:273` speaks of a final
boundary sample after stop is requested, but the loop leaves at line 267 when stop
is set while a collection is under way, and then takes none.

## 7. What is not modelled, and the plan

Not modelled: formatting, logging, and pure I/O (plots, the sampler's loop and its
parsing of `/proc` and of Prometheus text), the inside of vLLM, the capture of its
native details in `vllm_diagnostics.py`, the patching in `vllm_backend.py`, the
official router's own program (`official_router.py` starts it), argument parsing,
JSON shape checks, trace preparation (`experiments/prepare.py`, a sequential script),
the example scripts that select data, and the analyses under `reports/`, each run
once on data that does not change.

Left out of modelled components: the parsing of answers in the proxy, timings, a
second Ctrl-C, which `asyncio.run` turns into an immediate KeyboardInterrupt (a
repeated SIGTERM is modelled), what the benchmark prints, the smoke run's extra replay
in `scale.py`, a collector's preparation of a task's files, and `prepare_run`'s checks,
which are part of one step of a frontend that may fail.

Where a property says less than its name:

* `ValidReportIsTrue`: the usage a client was given is that of the replica's log by
  construction, so the report's comparison of the two totals only ever finds requests
  that one side lacks, never two accounts of one request that differ.
* `CompletedIsWhole`: an error the backend sends inside a stream of status 200 is not
  modelled; a stream ends whole, breaks, or is cut.
* `LogAccountsAgree`: of the throughput reader of `vllm_backend.py` only the reading of
  the whole run is compared; its filter by start and end, with the error for a request
  that crosses the benchmark's start (lines 41-46), is left out.
* `SamplesAreBacked`: the CPU share is that of the code per CPU with its guard
  (`metrics.py:154-157`); the aggregate at lines 139-144 has none.
* `TracesAreSound`: a session in which only some turns carry response ids and the calls
  are out of order is outside its hypothesis; there `openclaw.py:203-204` may give a turn
  the call of a later one.
* `RewriteIsExact`: in the texts every word between two separators is a recorded value or
  holds none; a text in which one is only a part of a word is not considered.
* `NoAdmissionAfterStop`: a worker that ends with an error of its own does not set the
  failed event, so others may take a row until the main coroutine, which `gather` wakes,
  cancels them.

Two hazards no property covers. A connection the agent opened just before it died
may reach `do_POST` (`capture/openai.py:86`) after `wait_idle` returned and append its
record late: the model has these steps (a queued handler whose agent is over), but the
code promises nothing about a call nobody consumed, and `ConsumedIsRecorded` is about
the others. And `kill -9` of `prepare` alone (`miniswe_images.py:160`) leaves its `pull`
child writing the partial file; the model kills both together, as Ctrl-C and the batch
system do.

What the plan has left, in this order:

1. The proxy's `_response_metadata`, and a pull that survives its `prepare`.
2. The sampler's loop beside its coordinator's stop.
3. The router and gateway under the engine: executors that refine the calls
   `ReplayEngine` assumes.
