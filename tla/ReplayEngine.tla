---------------------------- MODULE ReplayEngine ----------------------------
(***************************************************************************)
(* replay_trace: one trace's DAG replayed by one asyncio event loop.       *)
(*                                                                         *)
(* The main coroutine restores the workspace, sets the executors up,       *)
(* creates one dispatch task per node, gathers them, and closes the        *)
(* executors on every way out.  Each dispatch task gathers the tasks of    *)
(* its parents, then executes its node.  A step of this module is a run of *)
(* the event loop from one await to the next.                              *)
(***************************************************************************)
CONSTANTS
  Nodes,       \* ids of the trace's nodes
  LLMNodes,    \* the nodes of type "llm"; the others are tool nodes
  Parents      \* Parents[n]: the ids in n's depends_on

ASSUME EngineAssumption ==
  /\ LLMNodes \subseteq Nodes
  /\ Parents \in [Nodes -> SUBSET Nodes]

ToolNodes == Nodes \ LLMNodes

VARIABLES
  args,         \* the call's arguments: dry_run, and which executors it has
  phase,        \* where the main coroutine is suspended
  llmStarted,   \* llm_started
  toolStarted,  \* tool_started
  node,         \* state of each node's dispatch task
  started,      \* keys of node_starts: the nodes whose execution began
  kind,         \* failure kind of the exception a task ended with
  cancelReq,    \* tasks with a cancellation not yet delivered
  bindings,     \* tool nodes whose result has been learned
  seen,         \* the bindings known when a node's execution began, which a
                \* tool node's arguments are rewritten with
  error,        \* kind of the exception leaving the main body
  failure,      \* failure_kind of the last task_failed or cleanup_failed event
  closed,       \* executors whose close() returned
  closeError,   \* a close() raised
  interrupted   \* SIGINT has cancelled the main task

vars == <<args, phase, llmStarted, toolStarted, node, started, kind, cancelReq,
          bindings, seen, error, failure, closed, closeError, interrupted>>

-----------------------------------------------------------------------------
Phases == {"restore", "llmSetup", "toolSetup", "running", "draining",
           "toolClose", "llmClose", "closed"}

\* A transport error or a gateway status, which the load driver may tolerate;
\* and every other exception, a cancellation included.
Kinds == {"http", "execution"}

NodeStates == {"new", "waiting", "running", "completed", "failed", "cancelled"}

Raised(n)    == node[n] \in {"failed", "cancelled"}
Ended(n)     == node[n] = "completed" \/ Raised(n)
\* Mutant: the gather over the parents has return_exceptions=True.
ParentsEnded(n) == \A p \in Parents[n] : Ended(p)
ParentsDone(n) == \A p \in Parents[n] : node[p] = "completed"
Unended      == {n \in Nodes : ~Ended(n)}

\* dry_run copies the recorded results and uses no executor.
Args == [dryRun : BOOLEAN, hasLLM : BOOLEAN, hasTool : BOOLEAN]
NeedLLM  == ~args.dryRun /\ LLMNodes # {}
NeedTool == ~args.dryRun /\ ToolNodes # {}

Init ==
  /\ args \in Args
  /\ phase = "restore"
  /\ llmStarted = FALSE /\ toolStarted = FALSE
  /\ node = [n \in Nodes |-> "new"]
  /\ started = {}
  /\ kind = [n \in Nodes |-> "none"]
  /\ cancelReq = {}
  /\ bindings = {}
  /\ seen = [n \in Nodes |-> {}]
  /\ error = "none" /\ failure = "none"
  /\ closed = {} /\ closeError = FALSE
  /\ interrupted = FALSE

taskVars  == <<args, node, started, kind, cancelReq, bindings, seen>>
closeVars == <<closed, closeError>>

-----------------------------------------------------------------------------
\* Leaving the try body: task_failed is emitted for an exception, then the
\* finally clause awaits the first close() that is due.
Leave(err, llm, tool) ==
  /\ error' = err
  /\ failure' = err
  /\ phase' = CASE tool -> "toolClose"
                [] llm /\ ~tool -> "llmClose"
                [] OTHER -> "closed"

\* Every dispatch task is created and the start gate opened in one step.
StartAll ==
  /\ phase' = "running"
  /\ node' = [n \in Nodes |-> "waiting"]
  /\ UNCHANGED <<args, started, kind, cancelReq, bindings, seen, error, failure>>

BeginToolSetup(llm) ==
  \/ /\ NeedTool /\ args.hasTool
     /\ toolStarted' = TRUE
     /\ phase' = "toolSetup"
     /\ UNCHANGED <<taskVars, error, failure>>
  \/ /\ NeedTool /\ ~args.hasTool
     /\ Leave("execution", llm, FALSE)
     /\ UNCHANGED <<toolStarted, taskVars>>
  \/ /\ ~NeedTool
     /\ StartAll
     /\ UNCHANGED toolStarted

\* _restore_workspace, and the step up to the first setup() or the dispatch.
Restore ==
  /\ phase = "restore"
  /\ \/ /\ NeedLLM /\ args.hasLLM
        /\ llmStarted' = TRUE
        /\ phase' = "llmSetup"
        /\ UNCHANGED <<toolStarted, taskVars, error, failure>>
     \/ /\ NeedLLM /\ ~args.hasLLM
        /\ Leave("execution", FALSE, FALSE)
        /\ UNCHANGED <<llmStarted, toolStarted, taskVars>>
     \/ /\ ~NeedLLM
        /\ BeginToolSetup(FALSE)
        /\ UNCHANGED llmStarted
  /\ UNCHANGED <<closeVars, interrupted>>

\* A missing seed or artifact.
RestoreFails ==
  /\ phase = "restore"
  /\ Leave("execution", FALSE, FALSE)
  /\ UNCHANGED <<llmStarted, toolStarted, taskVars, closeVars, interrupted>>

LLMReady ==
  /\ phase = "llmSetup"
  /\ BeginToolSetup(TRUE)
  /\ UNCHANGED <<llmStarted, closeVars, interrupted>>

ToolReady ==
  /\ phase = "toolSetup"
  /\ StartAll
  /\ UNCHANGED <<llmStarted, toolStarted, closeVars, interrupted>>

SetupFails(k) ==
  /\ phase \in {"llmSetup", "toolSetup"}
  /\ Leave(k, llmStarted, toolStarted)
  /\ UNCHANGED <<llmStarted, toolStarted, taskVars, closeVars, interrupted>>

-----------------------------------------------------------------------------
engineVars == <<args, phase, llmStarted, toolStarted, failure, closeVars, interrupted>>

\* Mutant: the last exception wins instead of the first.
LastError(n, state, k) ==
  /\ node' = [node EXCEPT ![n] = state]
  /\ kind' = [kind EXCEPT ![n] = k]
  /\ error' = k
  /\ cancelReq' = cancelReq \ {n}
  /\ UNCHANGED <<started, bindings, seen, engineVars>>

\* A task ends with an exception.  gather() hands the first one to the main
\* coroutine; the later ones are dropped.
EndRaised(n, state, k) ==
  /\ node' = [node EXCEPT ![n] = state]
  /\ kind' = [kind EXCEPT ![n] = k]
  /\ error' = IF error = "none" THEN k ELSE error
  /\ cancelReq' = cancelReq \ {n}
  /\ UNCHANGED <<started, bindings, seen, engineVars>>

\* gather(parents) returned: node_started, and the request goes out.  A tool's
\* arguments are rewritten with the bindings known at this moment.
StartNode(n) ==
  /\ node[n] = "waiting" /\ n \notin cancelReq
  /\ ParentsDone(n)
  /\ ~args.dryRun
  /\ started' = started \cup {n}
  /\ node' = [node EXCEPT ![n] = "running"]
  /\ seen' = [seen EXCEPT ![n] = bindings]
  /\ UNCHANGED <<kind, cancelReq, bindings, error, engineVars>>

\* A dry run copies the recorded result without an await in between.
DryNode(n) ==
  /\ node[n] = "waiting" /\ n \notin cancelReq
  /\ ParentsDone(n)
  /\ args.dryRun
  /\ started' = started \cup {n}
  /\ node' = [node EXCEPT ![n] = "completed"]
  /\ UNCHANGED <<kind, cancelReq, bindings, seen, error, engineVars>>

\* Mutant: a result replaces the bindings instead of adding to them.
ForgetBindings(n) ==
  /\ node[n] = "running" /\ n \notin cancelReq
  /\ node' = [node EXCEPT ![n] = "completed"]
  /\ bindings' = IF n \in ToolNodes THEN {n} ELSE bindings
  /\ UNCHANGED <<started, kind, cancelReq, seen, error, engineVars>>

\* The executor answered; a tool's own error is a result like any other.
CompleteNode(n) ==
  /\ node[n] = "running" /\ n \notin cancelReq
  /\ node' = [node EXCEPT ![n] = "completed"]
  /\ bindings' = IF n \in ToolNodes THEN bindings \cup {n} ELSE bindings
  /\ UNCHANGED <<started, kind, cancelReq, seen, error, engineVars>>

\* The executor raised: also possible while it unwinds from a cancellation.
FailNode(n, k) ==
  /\ node[n] = "running"
  /\ EndRaised(n, "failed", k)

\* A parent's exception leaves the child's gather and becomes the child's own.
InheritFailure(n) ==
  /\ node[n] = "waiting" /\ n \notin cancelReq
  /\ \E p \in Parents[n] :
       /\ Raised(p)
       /\ EndRaised(n, node[p], kind[p])

\* A requested cancellation is delivered at the task's await.
CancelNode(n) ==
  /\ n \in cancelReq
  /\ node[n] \in {"waiting", "running"}
  /\ EndRaised(n, "cancelled", "execution")

-----------------------------------------------------------------------------
\* Mutant: the tasks are awaited but not cancelled.
FailWithoutCancel ==
  /\ phase = "running"
  /\ error # "none"
  /\ phase' = "draining"
  /\ UNCHANGED <<taskVars, llmStarted, toolStarted, error, failure, closeVars,
                 interrupted>>

\* The main coroutine resumes from gather() with an exception: replay_failed,
\* and every task is cancelled and awaited.
ReplayFails ==
  /\ phase = "running"
  /\ error # "none"
  /\ phase' = "draining"
  /\ cancelReq' = Unended
  /\ UNCHANGED <<args, llmStarted, toolStarted, node, started, kind, bindings,
                 seen, error, failure, closeVars, interrupted>>

\* Mutant: the cancelled tasks are not awaited.
NotDrained ==
  /\ phase = "draining"
  /\ Leave(error, llmStarted, toolStarted)
  /\ UNCHANGED <<llmStarted, toolStarted, taskVars, closeVars, interrupted>>

Drained ==
  /\ phase = "draining"
  /\ Unended = {}
  /\ Leave(error, llmStarted, toolStarted)
  /\ UNCHANGED <<llmStarted, toolStarted, taskVars, closeVars, interrupted>>

ReplayCompletes ==
  /\ phase = "running"
  /\ error = "none"
  /\ \A n \in Nodes : node[n] = "completed"
  /\ Leave("none", llmStarted, toolStarted)
  /\ UNCHANGED <<llmStarted, toolStarted, taskVars, closeVars, interrupted>>

FirstFailureWins(ok) ==
  /\ phase = "llmClose"
  /\ phase' = "closed"
  /\ closed' = IF ok THEN closed \cup {"llm"} ELSE closed
  /\ closeError' = (closeError \/ ~ok)
  /\ failure' = IF failure = "none" /\ (closeError \/ ~ok) THEN "cleanup" ELSE failure
  /\ UNCHANGED <<llmStarted, toolStarted, taskVars, error>>

\* close() of the tool executor, then of the LLM executor whatever the first
\* one did; an exception of either ends in cleanup_failed.
CloseTool(ok) ==
  /\ phase = "toolClose"
  /\ phase' = IF llmStarted THEN "llmClose" ELSE "closed"
  /\ closed' = IF ok THEN closed \cup {"tool"} ELSE closed
  /\ closeError' = ~ok
  /\ failure' = IF ~ok /\ ~llmStarted THEN "cleanup" ELSE failure
  /\ UNCHANGED <<llmStarted, toolStarted, taskVars, error>>

CloseLLM(ok) ==
  /\ phase = "llmClose"
  /\ phase' = "closed"
  /\ closed' = IF ok THEN closed \cup {"llm"} ELSE closed
  /\ closeError' = (closeError \/ ~ok)
  /\ failure' = IF closeError \/ ~ok THEN "cleanup" ELSE failure
  /\ UNCHANGED <<llmStarted, toolStarted, taskVars, error>>

-----------------------------------------------------------------------------
\* SIGINT cancels the main task at whatever it awaits: a setup(), gather(),
\* which passes the cancellation on to every task that has not ended unless it
\* already holds a result, the second gather(), or a close().
InterruptGather ==
  /\ phase = "running"
  /\ IF error # "none" \/ Unended = {}
     THEN error' = "execution" /\ UNCHANGED cancelReq
     ELSE cancelReq' = Unended /\ UNCHANGED error
  /\ UNCHANGED <<phase, failure, llmStarted, toolStarted, closeVars,
                 args, node, started, kind, bindings, seen>>

Interrupt ==
  /\ ~interrupted
  /\ interrupted' = TRUE
  /\ \/ /\ phase \in {"llmSetup", "toolSetup"}
        /\ Leave("execution", llmStarted, toolStarted)
        /\ UNCHANGED <<llmStarted, toolStarted, taskVars, closeVars>>
     \/ InterruptGather
     \/ /\ phase = "draining"
        /\ error' = "execution"
        /\ cancelReq' = Unended
        /\ UNCHANGED <<phase, failure, llmStarted, toolStarted, closeVars,
                       args, node, started, kind, bindings, seen>>
     \/ CloseTool(FALSE)
     \/ CloseLLM(FALSE)

NodeStep(n) ==
  \/ StartNode(n) \/ DryNode(n) \/ CompleteNode(n)
  \/ \E k \in Kinds : FailNode(n, k)
  \/ InheritFailure(n) \/ CancelNode(n)

CloseStep ==
  /\ \E ok \in BOOLEAN : CloseTool(ok) \/ CloseLLM(ok)
  /\ UNCHANGED interrupted

MainStep ==
  \/ Restore \/ RestoreFails \/ LLMReady \/ ToolReady
  \/ \E k \in Kinds : SetupFails(k)
  \/ ReplayFails \/ Drained \/ ReplayCompletes
  \/ CloseStep

Next == MainStep \/ (\E n \in Nodes : NodeStep(n)) \/ Interrupt

Spec == Init /\ [][Next]_vars

\* Fairness of the event loop alone: it runs every task that can run.  Nothing
\* is promised of an executor's call.
LoopStep(n) == StartNode(n) \/ DryNode(n) \/ InheritFailure(n) \/ CancelNode(n)
LoopSpec == Spec /\ WF_vars(MainStep) /\ \A n \in Nodes : WF_vars(LoopStep(n))

-----------------------------------------------------------------------------
(* Properties *)

\* Type invariant of the engine's state.
TypeOK ==
  /\ args \in Args
  /\ phase \in Phases
  /\ llmStarted \in BOOLEAN /\ toolStarted \in BOOLEAN
  /\ node \in [Nodes -> NodeStates]
  /\ started \subseteq Nodes
  /\ kind \in [Nodes -> Kinds \cup {"none"}]
  /\ cancelReq \subseteq Nodes
  /\ bindings \subseteq ToolNodes
  /\ seen \in [Nodes -> SUBSET ToolNodes]
  /\ error \in Kinds \cup {"none"}
  /\ failure \in Kinds \cup {"none", "cleanup"}
  /\ closed \subseteq {"tool", "llm"}
  /\ closeError \in BOOLEAN
  /\ interrupted \in BOOLEAN

\* A node whose execution began, however it ended, has only completed parents,
\* whatever failed or was cancelled in the meantime (the inner gather of
\* execute).
DependencyOrder ==
  \A n \in started : \A p \in Parents[n] : node[p] = "completed"

\* A tool call's arguments are rewritten with what every tool among the node's
\* ancestors returned: the bindings known to a parent, and the parent's own if
\* it is a tool, are known to the child (execute learns from a result before
\* the task completes and its children can start).
AncestorsLearned ==
  ~args.dryRun =>
    \A n \in started : \A p \in Parents[n] :
      seen[p] \cup ({p} \cap ToolNodes) \subseteq seen[n]

\* The executors are closed only once no dispatch task can use them: the main
\* coroutine awaits every cancelled task before it leaves the try body.
QuiescentClose ==
  phase \in {"toolClose", "llmClose", "closed"} =>
    \A n \in Nodes : node[n] \notin {"waiting", "running"}

\* A returned report covers every node: replay_trace returns only when every
\* node completed, no exception was swallowed, and every executor that was
\* started was closed.
Returned == phase = "closed" /\ failure = "none"
ReportComplete ==
  Returned => /\ \A n \in Nodes : node[n] = "completed"
              /\ llmStarted => "llm" \in closed
              /\ toolStarted => "tool" \in closed

\* The load driver continues after an "http" failure: such a child has closed
\* every executor it started, because cleanup_failed replaces task_failed as
\* the last failure event.
ToleratedFailureIsClean ==
  (phase = "closed" /\ failure = "http") =>
    /\ llmStarted => "llm" \in closed
    /\ toolStarted => "tool" \in closed

\* The failure a finished replay reports is that of a node whose own execution
\* raised, never only of a dependent that inherited it; an interrupt, a setup
\* or a restore failure has no such node.
RootCause ==
  (failure \in Kinds /\ ~interrupted /\ \E n \in Nodes : node[n] # "new") =>
    \E n \in started : node[n] = "failed" /\ kind[n] = failure

\* After replay_failed no node is started and no result is recorded.
FailureStopsDispatch ==
  [][phase = "draining" =>
       /\ started' = started
       /\ \A n \in Nodes : node[n] # "completed" => node'[n] # "completed"]_vars

\* Once a node failed the replay ends even if other nodes' calls never would:
\* the cancellation reaches each of them.
FailureEnds == (phase = "running" /\ error # "none") ~> (phase = "closed")

-----------------------------------------------------------------------------
\* The engine as its callers see it: attempts, results and a verdict.
Verdict ==
  CASE phase = "closed" /\ failure = "none" -> "report"
    [] phase = "closed" /\ failure # "none" -> "failed"
    [] phase \in {"draining", "toolClose", "llmClose"} -> "stopping"
    [] OTHER -> "open"

Contract == INSTANCE ReplayContract WITH
  attempted <- started,
  active    <- {n \in Nodes : node[n] = "running"},
  done      <- {n \in Nodes : node[n] = "completed"},
  verdict   <- Verdict

\* Every step of replay_trace is a step of ReplayContract: at most one attempt
\* per node, parents first, nothing recorded after the replay stops, and a
\* verdict that is a full report, or a failure with no attempt in progress.
ImplementsContract == Contract!Spec
=============================================================================
