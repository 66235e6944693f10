------------------------------ MODULE MultiNode ------------------------------
(***************************************************************************)
(* One multi-node experiment: the coordinator (runtime.run), one owned     *)
(* inference service per replica and one frontend per node, each reached   *)
(* through an ssh process whose stdin is its leash, and the coordinated    *)
(* benchmark of every replica (Benchmark.tla) on its frontend.             *)
(*                                                                         *)
(* The parties share a file system: ready.json and complete.json are       *)
(* written by the remote side and polled by the coordinator, start.json    *)
(* goes the other way.                                                     *)
(***************************************************************************)
EXTENDS Integers, FiniteSets

CONSTANTS
  Replicas,    \* the inference replicas, each with its benchmark worker
  Hosts,       \* the frontends
  FrontOf,     \* the frontend of each replica
  MaxSignals,  \* bound on the signals the coordinator receives
  MaxFaults    \* bound on kills, lost connections, unstoppable groups

ASSUME MultiNodeAssumption ==
  /\ Replicas # {} /\ Hosts # {} /\ Replicas \cap Hosts = {}
  /\ FrontOf \in [Replicas -> Hosts]
  /\ \A h \in Hosts : \E r \in Replicas : FrontOf[r] = h
  /\ MaxSignals \in Nat /\ MaxFaults \in Nat

Procs == Replicas \cup Hosts

VARIABLES
  cpc,        \* where the coordinator is
  failing,    \* it holds an exception that will end the run
  cancelReq,  \* a cancellation of its task is not yet delivered
  ctx,        \* the state of each service's context manager
  cut,        \* services whose exit it stopped waiting for
  ssh,        \* each ssh process and its exit status
  remote,     \* each service or frontend process
  sick,       \* remotes that hold an exception: their exit status is not 0
  ready,      \* remotes whose ready.json exists
  groups,     \* replicas with a live vLLM process group
  bench,      \* the benchmark of each replica
  benchReady, \* replicas whose benchmark wrote its ready.json
  start,      \* control/start.json exists
  complete,   \* frontends whose complete.json exists
  runStatus,  \* status.json
  lost,       \* remotes killed, and services whose group outlived SIGKILL
  signals, faults

coordVars  == <<cpc, failing, cancelReq, ctx, cut, start, runStatus>>
fileVars   == <<ready, complete>>
benchVars  == <<bench, benchReady>>
remoteVars == <<remote, sick, groups, fileVars, benchVars>>
envVars    == <<lost, signals, faults>>
vars       == <<coordVars, ssh, remoteVars, envVars>>

-----------------------------------------------------------------------------
CoordStates  == {"begin", "backends", "fronts", "allocation", "drain", "settle",
                 "unwind", "ended", "killed"}
CtxStates    == {"none", "starting", "up", "closing", "left"}
RemoteStates == {"none", "boot", "working", "ready", "complete", "stopping", "gone"}
BenchStates  == {"none", "prepare", "ready", "run", "done", "failed", "orphan"}

Init ==
  /\ cpc = "begin" /\ failing = FALSE /\ cancelReq = FALSE
  /\ ctx = [p \in Procs |-> "none"] /\ cut = {}
  /\ ssh = [p \in Procs |-> "none"]
  /\ remote = [p \in Procs |-> "none"] /\ sick = {} /\ ready = {}
  /\ groups = {}
  /\ bench = [r \in Replicas |-> "none"] /\ benchReady = {}
  /\ start = FALSE /\ complete = {}
  /\ runStatus = "none"
  /\ lost = {} /\ signals = 0 /\ faults = 0

Exited(p) == ssh[p] \in {"ok", "bad"}
Over      == cpc \in {"ended", "killed"}

\* The remote's stdin is at its end: the context closed it, the connection is
\* gone, or nobody is left who holds the other end.
Eof(p) == ctx[p] \in {"closing", "left"} \/ Exited(p) \/ cpc = "killed"

Lively       == {"prepare", "ready", "run"}
Live(r)      == bench[r] \in Lively
BenchesOf(h) == {r \in Replicas : FrontOf[r] = h}

-----------------------------------------------------------------------------
(* The coordinator *)

\* The contexts of ps are entered side by side: their ssh processes start.
Enter(ps) ==
  /\ ctx' = [p \in Procs |-> IF p \in ps THEN "starting" ELSE ctx[p]]
  /\ ssh' = [p \in Procs |-> IF p \in ps THEN "up" ELSE ssh[p]]
  /\ remote' = [p \in Procs |-> IF p \in ps THEN "boot" ELSE remote[p]]
  /\ UNCHANGED <<sick, groups, fileVars, benchVars>>

\* One context moves on; the coordinator changes phase.
Context(p, from, to) ==
  /\ ctx[p] = from
  /\ ctx' = [ctx EXCEPT ![p] = to]
  /\ UNCHANGED <<cpc, start, runStatus, ssh, remoteVars, envVars>>
Phase(from, to) ==
  /\ cpc = from /\ cpc' = to
  /\ UNCHANGED <<ctx, cut, ssh, remoteVars, envVars>>
noError == <<failing, cancelReq, start, runStatus>>

\* The run ends before any service has been started.
Refused ==
  /\ Phase("begin", "ended")
  /\ failing' = TRUE /\ runStatus' = "failed"
  /\ UNCHANGED start

\* The allocation is long enough, or too short for the run.
Begin ==
  /\ cpc = "begin" /\ ~cancelReq
  /\ \/ /\ cpc' = "backends"
        /\ Enter(Replicas)
        /\ UNCHANGED <<failing, cut, start, runStatus, envVars>>
     \/ Refused
  /\ UNCHANGED cancelReq

\* A startup found ready.json.  A frontend's is guarded: its ssh process must
\* still be there; a backend's loop stops at the file.
Started(p) ==
  /\ Context(p, "starting", "up")
  /\ p \in ready /\ (p \in Hosts => ~Exited(p))
  /\ UNCHANGED <<failing, cancelReq, cut>>

\* Mutant: only the frontends are watched during the drain.
WatchedFronts == IF cpc \in {"drain", "settle"} THEN Hosts ELSE {}

\* The processes guarded() polls: the backends while the frontends start, and
\* everything from the clock check that follows.
Watched ==
  IF cpc = "fronts" /\ \E h \in Hosts : ctx[h] # "up" THEN Replicas
  ELSE IF cpc \in {"fronts", "drain", "settle"} THEN Procs ELSE {}

\* The first error of a phase: unfinished startups are cancelled, and close.
\* The task group then joins them; after it, or outside one, the stack unwinds.
Fail ==
  /\ failing' = TRUE
  /\ ctx' = [p \in Procs |-> IF ctx[p] = "starting" THEN "closing" ELSE ctx[p]]
  /\ cpc' = IF cpc \in {"backends", "fronts"} THEN cpc ELSE "unwind"
  /\ UNCHANGED <<cut, start, runStatus, ssh, remoteVars, envVars>>

\* A startup raises because its process ended, or ended too early.
StartupFails(p) ==
  /\ ctx[p] = "starting" /\ Exited(p)
  /\ p \in Hosts \/ p \notin ready
  /\ Fail /\ UNCHANGED cancelReq

GuardTrips ==
  /\ ~failing /\ \E p \in Watched : Exited(p)
  /\ Fail /\ UNCHANGED cancelReq

\* A wait of the coordinator reaches its timeout: a startup, or the drain.
WorkTimesOut ==
  /\ ~failing
  /\ cpc = "drain" \/ \E p \in Procs : ctx[p] = "starting"
  /\ Fail /\ UNCHANGED cancelReq

\* The coordinator stops waiting for the exit of p.
Abandon(p) ==
  /\ Context(p, "closing", "left")
  /\ cut' = cut \cup {p} /\ failing' = TRUE

\* A cancellation is delivered at the await the coordinator is suspended in.  A
\* task group that is aborting already swallows it.
CancelDelivered ==
  /\ cancelReq /\ cancelReq' = FALSE
  /\ \/ Refused
     \/ cpc \in {"backends", "fronts", "allocation", "drain", "settle"} /\ Fail
     \/ cpc = "unwind" /\ \E p \in Procs : Abandon(p)

\* The ssh process ended: the context manager raises if its status is not 0.
Left(p) ==
  /\ Context(p, "closing", "left") /\ Exited(p)
  /\ failing' = (failing \/ ssh[p] = "bad")
  /\ UNCHANGED <<cancelReq, cut>>

\* Mutant: the wait for the remote's end has no limit.
CloseHangs(p) == FALSE /\ UNCHANGED vars

\* wait_for(process.wait(), ...) gives up: 60 s for a frontend, 30 for a service.
CloseTimesOut(p) == ~Exited(p) /\ Abandon(p) /\ UNCHANGED cancelReq

\* Mutant: the task group does not join the startups it cancelled.
Unjoined ==
  /\ cpc \in {"backends", "fronts"} /\ failing
  /\ cpc' = "unwind"
  /\ ctx' = [p \in Procs |-> IF ctx[p] = "closing" THEN "left" ELSE ctx[p]]
  /\ UNCHANGED <<noError, cut, ssh, remoteVars, envVars>>

Joined ==
  /\ Phase("backends", "unwind") \/ Phase("fronts", "unwind")
  /\ failing /\ \A p \in Procs : ctx[p] # "closing"
  /\ UNCHANGED noError

BackendsUp ==
  /\ cpc = "backends" /\ ~failing
  /\ \A r \in Replicas : ctx[r] = "up"
  /\ cpc' = "fronts"
  /\ Enter(Hosts)
  /\ UNCHANGED <<noError, cut, envVars>>

\* Mutant: one frontend is enough.
FirstFrontUp ==
  /\ Phase("fronts", "allocation")
  /\ ~failing /\ \E h \in Hosts : ctx[h] = "up"
  /\ UNCHANGED noError

FrontsUp ==
  /\ Phase("fronts", "allocation")
  /\ ~failing /\ \A h \in Hosts : ctx[h] = "up"
  /\ \A p \in Procs : ~Exited(p)
  /\ UNCHANGED noError

\* qstat answered in a thread, unguarded: the run is refused or the common
\* window is published with one rename.
Publish ==
  /\ cpc = "allocation" /\ UNCHANGED cancelReq
  /\ \/ Fail
     \/ Phase("allocation", "drain") /\ start' = TRUE /\ UNCHANGED <<failing, runStatus>>

DrainDone ==
  /\ Phase("drain", "settle")
  /\ complete = Hosts /\ \A p \in Procs : ~Exited(p)
  /\ UNCHANGED noError

Settled ==
  /\ Phase("settle", "unwind")
  /\ \A p \in Procs : ~Exited(p)
  /\ UNCHANGED noError

\* Mutant: the stack is unwound in any order.
CloseAny(p) ==
  /\ cpc = "unwind" /\ Context(p, "up", "closing")
  /\ \A q \in Procs : ctx[q] # "closing"
  /\ UNCHANGED <<failing, cancelReq, cut>>

\* The exit stack closes one context at a time, the last entered first: every
\* frontend before any backend.
CloseNext(p) ==
  /\ cpc = "unwind" /\ Context(p, "up", "closing")
  /\ \A q \in Procs : ctx[q] # "closing"
  /\ p \in Replicas => \A h \in Hosts : ctx[h] # "up"
  /\ UNCHANGED <<failing, cancelReq, cut>>

Unwound == \A p \in Procs : ctx[p] \in {"none", "left"}

\* summarize_run accepts the collected data or not; status.json is written.
Report ==
  /\ Phase("unwind", "ended") /\ Unwound
  /\ runStatus' \in IF failing THEN {"failed"} ELSE {"completed", "failed"}
  /\ UNCHANGED <<failing, cancelReq, start>>

Signal ==
  /\ ~Over /\ signals < MaxSignals
  /\ signals' = signals + 1
  /\ cancelReq' = TRUE
  /\ UNCHANGED <<cpc, failing, ctx, cut, start, runStatus, ssh, remoteVars, lost,
                 faults>>

CoordStep ==
  /\ cpc # "killed"
  /\ \/ Begin \/ GuardTrips \/ CancelDelivered \/ Joined \/ BackendsUp \/ FrontsUp
     \/ Publish \/ DrainDone \/ Settled \/ Report
     \/ \E p \in Procs : Started(p) \/ StartupFails(p) \/ Left(p) \/ CloseNext(p)

Timer == cpc # "killed" /\ (WorkTimesOut \/ \E p \in Procs : CloseTimesOut(p))

-----------------------------------------------------------------------------
(* The inference service: service.serve *)

\* A remote process moves on in its life; raising, it begins its own cleanup.
Life(p, from, to) ==
  /\ remote[p] \in from
  /\ remote' = [remote EXCEPT ![p] = to]
  /\ UNCHANGED <<coordVars, ssh, benchVars>>
Sick(p) == sick' = sick \cup {p}
noFault == <<lost, signals, faults>>

\* The connection is refused, the port is taken, the shell fails.
BootFails(p) ==
  /\ Life(p, {"boot"}, "gone") /\ Sick(p)
  /\ UNCHANGED <<groups, fileVars, noFault>>

\* The service starts vLLM in a session, and a process group, of its own.
Launch(r) ==
  /\ Life(r, {"boot"}, "working")
  /\ groups' = groups \cup {r}
  /\ UNCHANGED <<sick, fileVars, noFault>>

\* /health answers and the sampler has its first sample.
ServiceReady(r) ==
  /\ Life(r, {"working"}, "ready") /\ r \in groups
  /\ ready' = ready \cup {r}
  /\ UNCHANGED <<sick, groups, complete, noFault>>

VllmExits(r) ==
  /\ remote[r] \in {"working", "ready"} /\ r \in groups
  /\ groups' = groups \ {r}
  /\ UNCHANGED <<coordVars, ssh, remote, sick, fileVars, benchVars, noFault>>

\* Mutant: stdin is read only once the server is ready.
ServiceLeavesWhenReady(r) ==
  /\ Life(r, {"ready"}, "stopping") /\ Eof(r)
  /\ sick' = IF r \in groups THEN sick ELSE sick \cup {r}
  /\ UNCHANGED <<groups, fileVars, noFault>>

\* Stdin is at its end.  During startup the service returns; later it raises if
\* vLLM has exited as well.
ServiceLeaves(r) ==
  /\ Life(r, {"working", "ready"}, "stopping") /\ Eof(r)
  /\ sick' = IF remote[r] = "working" \/ r \in groups THEN sick ELSE sick \cup {r}
  /\ UNCHANGED <<groups, fileVars, noFault>>

\* The service raises: vLLM has exited, the startup exceeds 900 s, the sampler
\* stops.  Only the first is noticed for certain.
ServiceGivesUp(r) ==
  /\ Life(r, {"working", "ready"}, "stopping") /\ Sick(r)
  /\ UNCHANGED <<groups, fileVars, noFault>>
ServiceBreaks(r) == r \notin groups /\ ServiceGivesUp(r)

\* stop_process_group has waited for every member of the group.
ServiceGone(r) ==
  /\ Life(r, {"stopping"}, "gone")
  /\ groups' = groups \ {r}
  /\ UNCHANGED <<sick, fileVars, noFault>>

Fault == faults < MaxFaults /\ faults' = faults + 1 /\ UNCHANGED signals

\* Mutant: stop_process_group does not look whether anything is left.
GroupSurvivesSilently(r) ==
  /\ Life(r, {"stopping"}, "gone") /\ r \in groups
  /\ Fault /\ lost' = lost \cup {r}
  /\ UNCHANGED <<sick, groups, fileVars>>

\* A member outlives SIGKILL: the service raises and leaves it.
GroupSurvives(r) ==
  /\ Life(r, {"stopping"}, "gone") /\ r \in groups
  /\ Fault /\ lost' = lost \cup {r} /\ Sick(r)
  /\ UNCHANGED <<groups, fileVars>>

-----------------------------------------------------------------------------
(* The frontend: serve_frontend and work *)

\* One benchmark moves on, inside a frontend that does not.
Bench(r, from, to) ==
  /\ bench[r] \in from
  /\ bench' = [bench EXCEPT ![r] = to]
  /\ UNCHANGED <<coordVars, ssh, remote, sick, groups, fileVars, noFault>>

\* Images are staged, the precache and the sampler have run, the router is up:
\* one benchmark per replica starts.
FrontStarts(h) ==
  /\ remote[h] = "boot"
  /\ remote' = [remote EXCEPT ![h] = "working"]
  /\ bench' = [r \in Replicas |->
                 IF r \in BenchesOf(h) THEN "prepare" ELSE bench[r]]
  /\ UNCHANGED <<coordVars, ssh, sick, groups, fileVars, benchReady, noFault>>

\* A benchmark has written workers/<id>/ready.json and polls for the start.
BenchReady(r) ==
  /\ remote[FrontOf[r]] \in {"working", "ready"}
  /\ Bench(r, {"prepare"}, "ready")
  /\ benchReady' = benchReady \cup {r}

BenchStarts(r) == start /\ Bench(r, {"ready"}, "run") /\ UNCHANGED benchReady

\* The benchmark completes after its deadline and drain, or raises.
BenchEnds(r)  == Bench(r, {"run"}, "done") /\ UNCHANGED benchReady
BenchFails(r) == Bench(r, Lively, "failed") /\ UNCHANGED benchReady

FrontReady(h) ==
  /\ Life(h, {"working"}, "ready") /\ BenchesOf(h) \subseteq benchReady
  /\ ready' = ready \cup {h}
  /\ UNCHANGED <<sick, groups, complete, noFault>>

\* The preparation exceeds its timeout, the sampler or the router ends.
FrontGivesUp(h) ==
  /\ Life(h, {"boot", "working", "ready", "complete"}, "stopping") /\ Sick(h)
  /\ UNCHANGED <<groups, fileVars, noFault>>

\* A benchmark that ended before readiness, or failed at any time, ends work().
FrontBreaks(h) ==
  /\ \/ remote[h] = "working" /\ ~ BenchesOf(h) \subseteq benchReady
     \/ remote[h] = "ready"
  /\ \E r \in BenchesOf(h) : bench[r] = "failed"
  /\ FrontGivesUp(h)

FrontComplete(h) ==
  /\ Life(h, {"ready"}, "complete")
  /\ \A r \in BenchesOf(h) : bench[r] = "done"
  /\ complete' = complete \cup {h}
  /\ UNCHANGED <<sick, groups, ready, noFault>>

\* Stdin is at its end: work() is cancelled, at whatever await it is.
FrontLeaves(h) ==
  /\ Life(h, {"boot", "working", "ready", "complete"}, "stopping") /\ Eof(h)
  /\ UNCHANGED <<sick, groups, fileVars, noFault>>

\* work()'s finally: every benchmark is cancelled and awaited.  "failed" stands
\* for every end without completion.
BenchCancelled(r) ==
  /\ remote[FrontOf[r]] = "stopping"
  /\ BenchFails(r)

FrontGone(h) ==
  /\ Life(h, {"stopping"}, "gone") /\ \A r \in BenchesOf(h) : ~Live(r)
  /\ UNCHANGED <<sick, groups, fileVars, noFault>>

-----------------------------------------------------------------------------
(* Processes and connections *)

\* ssh ends with the status of the remote command.
SshExits(p) ==
  /\ ssh[p] = "up" /\ remote[p] = "gone"
  /\ ssh' = [ssh EXCEPT ![p] = IF p \in sick THEN "bad" ELSE "ok"]
  /\ UNCHANGED <<coordVars, remoteVars, envVars>>

ConnectionLost(p) ==
  /\ ssh[p] = "up" /\ Fault
  /\ ssh' = [ssh EXCEPT ![p] = "bad"]
  /\ UNCHANGED <<coordVars, remoteVars, lost>>

\* SIGKILL: no cleanup runs.  A killed frontend's replay children go on.
RemoteKilled(p) ==
  /\ remote[p] \notin {"none", "gone"} /\ Fault
  /\ remote' = [remote EXCEPT ![p] = "gone"]
  /\ Sick(p) /\ lost' = lost \cup {p}
  /\ bench' = [r \in Replicas |->
                 IF p = FrontOf[r] /\ Live(r)
                 THEN IF bench[r] = "run" THEN "orphan" ELSE "failed"
                 ELSE bench[r]]
  /\ UNCHANGED <<coordVars, ssh, groups, fileVars, benchReady>>

CoordKilled ==
  /\ ~Over /\ Fault
  /\ cpc' = "killed"
  /\ UNCHANGED <<noError, ctx, cut, ssh, remoteVars, lost>>

\* What a remote's event loop does by itself, and how its cleanup ends.
Reaction(p) ==
  \/ SshExits(p)
  \/ /\ p \in Replicas
     /\ \/ Launch(p) \/ ServiceLeaves(p) \/ ServiceBreaks(p)
        \/ BenchStarts(p) \/ BenchCancelled(p)
  \/ /\ p \in Hosts
     /\ FrontLeaves(p) \/ FrontBreaks(p) \/ FrontReady(p) \/ FrontComplete(p)

Cleanup(p) == \/ p \in Replicas /\ ServiceGone(p)
              \/ p \in Hosts /\ FrontGone(p)

Environment(p) ==
  \/ BootFails(p) \/ ConnectionLost(p) \/ RemoteKilled(p)
  \/ /\ p \in Replicas
     /\ \/ ServiceReady(p) \/ VllmExits(p) \/ ServiceGivesUp(p) \/ GroupSurvives(p)
        \/ BenchReady(p) \/ BenchEnds(p) \/ BenchFails(p)
  \/ p \in Hosts /\ (FrontStarts(p) \/ FrontGivesUp(p))

Next ==
  \/ CoordStep \/ Timer \/ Signal \/ CoordKilled
  \/ \E p \in Procs : Reaction(p) \/ Cleanup(p) \/ Environment(p)

Spec == Init /\ [][Next]_vars

\* Event loops run what can run.  That preparations, benchmarks, servers and
\* cleanups end is not promised, nor, here, that a timer fires.
LoopSpec ==
  /\ Spec
  /\ WF_vars(CoordStep)
  /\ \A p \in Procs : WF_vars(Reaction(p))

\* Assumptions of single properties: timers fire; a cleanup comes to its end.
TimersFire  == WF_vars(Timer)
CleanupsEnd == \A p \in Procs : WF_vars(Cleanup(p))

-----------------------------------------------------------------------------
(* Properties *)

\* Type invariant.
TypeOK ==
  /\ cpc \in CoordStates /\ failing \in BOOLEAN /\ cancelReq \in BOOLEAN
  /\ ctx \in [Procs -> CtxStates] /\ cut \subseteq Procs
  /\ ssh \in [Procs -> {"none", "up", "ok", "bad"}]
  /\ remote \in [Procs -> RemoteStates]
  /\ sick \subseteq Procs /\ ready \subseteq Procs /\ lost \subseteq Procs
  /\ groups \subseteq Replicas /\ benchReady \subseteq Replicas
  /\ bench \in [Replicas -> BenchStates]
  /\ start \in BOOLEAN /\ complete \subseteq Hosts
  /\ runStatus \in {"none", "completed", "failed"}
  /\ signals \in 0 .. MaxSignals /\ faults \in 0 .. MaxFaults

\* No replica enters the common window before the benchmarks of every replica,
\* on every frontend, have said that they are ready.
CommonWindow ==
  \A r \in Replicas : bench[r] \in {"run", "done", "orphan"} => benchReady = Replicas

\* While a replica replays on a frontend the coordinator has let go of no
\* backend, because frontends close first.  Exempt are a frontend whose
\* connection broke and one whose exit the coordinator stopped waiting for.
BackendsOutliveReplay ==
  ~Over =>
    \A r \in Replicas :
      bench[r] = "run" /\ FrontOf[r] \notin cut /\ ssh[FrontOf[r]] # "bad" =>
        \A b \in Replicas : ctx[b] = "up"

\* A run that is reported completed is over everywhere: every benchmark reached
\* its end, every owned process exited with status 0, and no vLLM is left.
CompletedIsClean ==
  runStatus = "completed" =>
    /\ \A r \in Replicas : bench[r] = "done"
    /\ \A p \in Procs : ssh[p] = "ok" /\ remote[p] = "gone"
    /\ groups = {}

\* However the run ends, unless it is killed, it leaves no remote process behind
\* but those it stopped waiting for or lost the connection to, and never a live
\* vLLM group or benchmark without one of these reasons.
NothingLeftBehind ==
  cpc = "ended" =>
    /\ \A p \in Procs \ cut :
         ssh[p] # "bad" => remote[p] \in {"none", "gone"}
    /\ \A r \in groups : r \in lost \cup cut \/ ssh[r] = "bad"
    /\ \A r \in Replicas :
         Live(r) => FrontOf[r] \in cut \/ ssh[FrontOf[r]] = "bad"

\* The coordinator ends although remotes, preparations and cleanups may all
\* hang: every one of its waits has a limit.
CoordinatorEnds == TimersFire => <>Over

\* An owned process that exits, a backend once all backends are up and anybody
\* once the window is published, ends the run without the help of a timer,
\* although the replay on the frontends may never end.
ExitEndsRun ==
  CleanupsEnd =>
    \A p \in Procs :
      (/\ Exited(p)
       /\ cpc \in {"drain", "settle"} \/ (cpc = "fronts" /\ p \in Replicas)) ~> Over

\* The leash: once the coordinator is gone, also by SIGKILL, every remote
\* process it started goes, and takes its vLLM group and its benchmarks along,
\* unless it was itself killed.
LeashHolds ==
  CleanupsEnd =>
    (Over ~> /\ \A p \in Procs : remote[p] \in {"none", "gone"}
             /\ groups \subseteq lost
             /\ \A r \in Replicas : ~Live(r))
=============================================================================
