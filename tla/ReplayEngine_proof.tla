------------------------ MODULE ReplayEngine_proof ------------------------
(***************************************************************************)
(* Safety of ReplayEngine for every DAG, every choice of node types and    *)
(* every way of calling replay_trace: the inductive invariant IInv and     *)
(* what follows from it.                                                   *)
(***************************************************************************)
EXTENDS ReplayEngine, TLAPS

Setup   == {"restore", "llmSetup", "toolSetup"}
Closing == {"toolClose", "llmClose", "closed"}

\* Nothing has been dispatched while the executors are set up.
SetupInv ==
  phase \in Setup =>
    /\ \A n \in Nodes : node[n] = "new"
    /\ started = {}
    /\ bindings = {}
    /\ \A n \in Nodes : seen[n] = {}
    /\ cancelReq = {}
    /\ error = "none"

\* The flags that say which close() is due agree with the setups entered.
FlagInv ==
  /\ phase = "restore" => ~llmStarted /\ ~toolStarted
  /\ phase = "llmSetup" => llmStarted /\ ~toolStarted
  /\ phase \in {"toolSetup", "toolClose"} => toolStarted
  /\ phase = "llmClose" => llmStarted

\* node_starts and the task states agree.
StartInv ==
  \A n \in Nodes :
    /\ n \in started => node[n] \notin {"new", "waiting"}
    /\ node[n] \in {"running", "completed"} => n \in started

\* What a completed tool returned stays learned, and what a node saw was known.
LearnInv ==
  ~args.dryRun =>
    /\ \A n \in ToolNodes : node[n] = "completed" => n \in bindings
    /\ \A n \in Nodes : seen[n] \subseteq bindings

\* Once the replay failed, every task still running has a cancellation pending.
DrainInv == phase = "draining" => error # "none" /\ Unended \subseteq cancelReq

\* The failure reported follows the exception of the body until a close()
\* raises, and then says so for good.
CloseInv ==
  /\ phase \notin Closing => failure = "none" /\ closed = {} /\ ~closeError
  /\ phase = "toolClose" => failure = error /\ closed = {} /\ ~closeError
  /\ phase = "llmClose" =>
       /\ failure = error
       /\ closeError \/ (toolStarted => "tool" \in closed)
  /\ phase = "closed" =>
       \/ failure = "cleanup"
       \/ /\ failure = error
          /\ toolStarted => "tool" \in closed
          /\ llmStarted => "llm" \in closed
  /\ (phase \in Closing /\ error = "none") =>
       \A n \in Nodes : node[n] = "completed"

IInv ==
  /\ TypeOK
  /\ SetupInv
  /\ FlagInv
  /\ StartInv
  /\ DependencyOrder
  /\ LearnInv
  /\ AncestorsLearned
  /\ DrainInv
  /\ QuiescentClose
  /\ CloseInv

\* Every initial state satisfies the invariant.
LEMMA InitInv == Init => IInv
  BY EngineAssumption DEF Init, IInv, TypeOK, SetupInv, FlagInv, StartInv,
     DependencyOrder, LearnInv, AncestorsLearned, DrainInv, QuiescentClose,
     CloseInv, Setup, Closing, Phases, NodeStates, Kinds, ToolNodes, Args

\* The three ways on from a setup: the tool executor's setup, its absence, and
\* the dispatch of every node.
LEMMA ToolSetupInv ==
  ASSUME IInv, NEW llm \in BOOLEAN, BeginToolSetup(llm),
         phase \in {"restore", "llmSetup"},
         llmStarted' = (phase = "llmSetup"), llm = llmStarted',
         UNCHANGED <<closeVars, interrupted>>
  PROVE  IInv'
<1> USE EngineAssumption DEF IInv, TypeOK, SetupInv, FlagInv, StartInv,
      DependencyOrder, LearnInv, AncestorsLearned, DrainInv, QuiescentClose,
      CloseInv, Setup, Closing, Phases, NodeStates, Kinds, ToolNodes, Args,
      taskVars, closeVars
<1>1. CASE /\ toolStarted' = TRUE
           /\ phase' = "toolSetup"
           /\ UNCHANGED <<taskVars, error, failure>>
  BY <1>1
<1>2. CASE /\ Leave("execution", llm, FALSE)
           /\ UNCHANGED <<toolStarted, taskVars>>
  BY <1>2 DEF Leave
<1>3. CASE StartAll /\ UNCHANGED toolStarted
  BY <1>3 DEF StartAll
<1> QED BY <1>1, <1>2, <1>3 DEF BeginToolSetup

\* A step of the setup phases: nothing is dispatched yet, or everything is.
LEMMA SetupStepInv ==
  ASSUME IInv,
         Restore \/ RestoreFails \/ LLMReady \/ ToolReady
           \/ \E k \in Kinds : SetupFails(k)
  PROVE  IInv'
<1>1. CASE Restore
  <2>1. CASE /\ llmStarted' = TRUE
             /\ phase' = "llmSetup"
             /\ UNCHANGED <<toolStarted, taskVars, error, failure>>
    BY <1>1, <2>1, EngineAssumption DEF Restore, IInv, TypeOK, SetupInv, FlagInv,
       StartInv, DependencyOrder, LearnInv, AncestorsLearned, DrainInv,
       QuiescentClose, CloseInv, Setup, Closing, Phases, taskVars, closeVars
  <2>2. CASE /\ Leave("execution", FALSE, FALSE)
             /\ UNCHANGED <<llmStarted, toolStarted, taskVars>>
    BY <1>1, <2>2, EngineAssumption DEF Restore, Leave, IInv, TypeOK, SetupInv,
       FlagInv, StartInv, DependencyOrder, LearnInv, AncestorsLearned, DrainInv,
       QuiescentClose, CloseInv, Setup, Closing, Phases, Kinds, taskVars, closeVars
  <2>3. CASE BeginToolSetup(FALSE) /\ UNCHANGED llmStarted
    <3>1. /\ phase = "restore" /\ llmStarted' = FALSE
          /\ UNCHANGED <<closeVars, interrupted>>
      BY <1>1, <2>3 DEF Restore, IInv, FlagInv, TypeOK
    <3> QED BY <2>3, <3>1, ToolSetupInv
  <2> QED BY <1>1, <2>1, <2>2, <2>3 DEF Restore
<1>2. CASE LLMReady
  <2>1. /\ phase = "llmSetup" /\ llmStarted' = TRUE
        /\ BeginToolSetup(TRUE) /\ UNCHANGED <<closeVars, interrupted>>
    BY <1>2 DEF LLMReady, IInv, FlagInv, TypeOK
  <2> QED BY <2>1, ToolSetupInv
<1> USE EngineAssumption DEF IInv, TypeOK, SetupInv, FlagInv, StartInv,
      DependencyOrder, LearnInv, AncestorsLearned, DrainInv, QuiescentClose,
      CloseInv, Setup, Closing, Phases, NodeStates, Kinds, ToolNodes, Args,
      taskVars, closeVars
<1>3. CASE RestoreFails
  BY <1>3 DEF RestoreFails, Leave
<1>4. CASE ToolReady
  BY <1>4 DEF ToolReady, StartAll
<1>5. ASSUME NEW k \in Kinds, SetupFails(k) PROVE IInv'
  BY <1>5 DEF SetupFails, Leave
<1> QED BY <1>1, <1>2, <1>3, <1>4, <1>5

\* A step of a dispatch task.
LEMMA NodeStepInv ==
  ASSUME IInv, NEW n \in Nodes, NodeStep(n)
  PROVE  IInv'
<1> USE EngineAssumption DEF IInv, TypeOK, SetupInv, FlagInv, StartInv,
      DependencyOrder, LearnInv, AncestorsLearned, DrainInv, QuiescentClose,
      CloseInv, Setup, Closing, Phases, NodeStates, Kinds, ToolNodes, Args,
      engineVars, closeVars, Unended, Ended, Raised, ParentsDone
<1>1. CASE StartNode(n)
  BY <1>1 DEF StartNode
<1>2. CASE DryNode(n)
  BY <1>2 DEF DryNode
<1>3. CASE CompleteNode(n)
  BY <1>3 DEF CompleteNode
<1>4. ASSUME NEW k \in Kinds, FailNode(n, k) PROVE IInv'
  BY <1>4 DEF FailNode, EndRaised
<1>5. CASE InheritFailure(n)
  BY <1>5 DEF InheritFailure, EndRaised
<1>6. CASE CancelNode(n)
  BY <1>6 DEF CancelNode, EndRaised
<1> QED BY <1>1, <1>2, <1>3, <1>4, <1>5, <1>6 DEF NodeStep

\* A step of the main coroutine once the nodes are dispatched.
LEMMA MainStepInv ==
  ASSUME IInv, MainStep
  PROVE  IInv'
<1>1. CASE Restore \/ RestoreFails \/ LLMReady \/ ToolReady
             \/ \E k \in Kinds : SetupFails(k)
  BY <1>1, SetupStepInv
<1> USE EngineAssumption DEF IInv, TypeOK, SetupInv, FlagInv, StartInv,
      DependencyOrder, LearnInv, AncestorsLearned, DrainInv, QuiescentClose,
      CloseInv, Setup, Closing, Phases, NodeStates, Kinds, ToolNodes, Args,
      taskVars, closeVars, Unended, Ended, Raised
<1>2. CASE ReplayFails
  BY <1>2 DEF ReplayFails
<1>3. CASE Drained
  BY <1>3 DEF Drained, Leave
<1>4. CASE ReplayCompletes
  BY <1>4 DEF ReplayCompletes, Leave
<1>5. ASSUME NEW ok \in BOOLEAN, CloseTool(ok), UNCHANGED interrupted PROVE IInv'
  BY <1>5 DEF CloseTool
<1>6. ASSUME NEW ok \in BOOLEAN, CloseLLM(ok), UNCHANGED interrupted PROVE IInv'
  BY <1>6 DEF CloseLLM
<1> QED BY <1>1, <1>2, <1>3, <1>4, <1>5, <1>6 DEF MainStep, CloseStep

\* SIGINT, at each await of the main coroutine.
LEMMA InterruptInv ==
  ASSUME IInv, Interrupt
  PROVE  IInv'
<1> USE EngineAssumption DEF IInv, TypeOK, SetupInv, FlagInv, StartInv,
      DependencyOrder, LearnInv, AncestorsLearned, DrainInv, QuiescentClose,
      CloseInv, Setup, Closing, Phases, NodeStates, Kinds, ToolNodes, Args,
      taskVars, closeVars, Unended, Ended, Raised
<1>1. CASE /\ phase \in {"llmSetup", "toolSetup"}
           /\ Leave("execution", llmStarted, toolStarted)
           /\ UNCHANGED <<llmStarted, toolStarted, taskVars, closeVars>>
  BY <1>1, Interrupt DEF Interrupt, Leave
<1>2. CASE InterruptGather
  BY <1>2, Interrupt DEF Interrupt, InterruptGather
<1>3. CASE /\ phase = "draining"
           /\ error' = "execution"
           /\ cancelReq' = Unended
           /\ UNCHANGED <<phase, failure, llmStarted, toolStarted, closeVars,
                          args, node, started, kind, bindings, seen>>
  BY <1>3, Interrupt DEF Interrupt
<1>4. CASE CloseTool(FALSE)
  BY <1>4, Interrupt DEF Interrupt, CloseTool
<1>5. CASE CloseLLM(FALSE)
  BY <1>5, Interrupt DEF Interrupt, CloseLLM
<1> QED BY <1>1, <1>2, <1>3, <1>4, <1>5 DEF Interrupt

\* Every step of the engine, or a stutter, keeps the invariant.
LEMMA StepInv == IInv /\ [Next]_vars => IInv'
<1> SUFFICES ASSUME IInv, [Next]_vars PROVE IInv'
  OBVIOUS
<1>1. CASE MainStep
  BY <1>1, MainStepInv
<1>2. ASSUME NEW n \in Nodes, NodeStep(n) PROVE IInv'
  BY <1>2, NodeStepInv
<1>3. CASE Interrupt
  BY <1>3, InterruptInv
<1>4. CASE UNCHANGED vars
  BY <1>4 DEF vars, IInv, TypeOK, SetupInv, FlagInv, StartInv, DependencyOrder,
     LearnInv, AncestorsLearned, DrainInv, QuiescentClose, CloseInv, Unended,
     Ended, Raised
<1> QED BY <1>1, <1>2, <1>3, <1>4 DEF Next

\* The inductive invariant holds in every reachable state of replay_trace.
THEOREM Invariance == Spec => []IInv
BY InitInv, StepInv, PTL DEF Spec

\* The types of the engine's variables, on every reachable state.
THEOREM TypeCorrect == Spec => []TypeOK
<1>1. IInv => TypeOK
  BY DEF IInv
<1> QED BY <1>1, Invariance, PTL

\* No node is executed before every node it depends on has completed, for
\* every DAG and whatever fails or is cancelled.
THEOREM DependenciesFirst == Spec => []DependencyOrder
<1>1. IInv => DependencyOrder
  BY DEF IInv
<1> QED BY <1>1, Invariance, PTL

\* A tool call is rewritten with what every tool among its ancestors returned.
THEOREM BindingsReachDescendants == Spec => []AncestorsLearned
<1>1. IInv => AncestorsLearned
  BY DEF IInv
<1> QED BY <1>1, Invariance, PTL

\* No executor is closed while a dispatch task could still use it.
THEOREM CloseIsQuiescent == Spec => []QuiescentClose
<1>1. IInv => QuiescentClose
  BY DEF IInv
<1> QED BY <1>1, Invariance, PTL

\* replay_trace returns a report only of a replay in which every node
\* completed and every executor that was started was closed.
THEOREM ReportIsComplete == Spec => []ReportComplete
<1>1. IInv => ReportComplete
  BY DEF IInv, TypeOK, CloseInv, ReportComplete, Returned, Closing, Kinds
<1> QED BY <1>1, Invariance, PTL

\* A child whose failure the load driver tolerates has closed its executors.
THEOREM ToleratedIsClean == Spec => []ToleratedFailureIsClean
<1>1. IInv => ToleratedFailureIsClean
  BY DEF IInv, TypeOK, CloseInv, ToleratedFailureIsClean, Closing, Kinds
<1> QED BY <1>1, Invariance, PTL

\* After replay_failed no node is started and no result recorded.
THEOREM FailureStops == Spec => FailureStopsDispatch
<1>1. IInv /\ [Next]_vars =>
        [phase = "draining" =>
           /\ started' = started
           /\ \A n \in Nodes : node[n] # "completed" => node'[n] # "completed"]_vars
  <2> SUFFICES ASSUME IInv, Next, phase = "draining"
               PROVE  /\ started' = started
                      /\ \A n \in Nodes :
                           node[n] # "completed" => node'[n] # "completed"
    BY DEF vars
  <2>1. CASE MainStep
    BY <2>1 DEF MainStep, Restore, RestoreFails, LLMReady, ToolReady, SetupFails,
       ReplayFails, Drained, ReplayCompletes, CloseStep, CloseTool, CloseLLM,
       taskVars
  <2>2. ASSUME NEW n \in Nodes, NodeStep(n)
        PROVE  /\ started' = started
               /\ \A m \in Nodes : node[m] # "completed" => node'[m] # "completed"
    <3>1. node[n] \in {"waiting", "running"} => n \in cancelReq
      BY DEF IInv, DrainInv, Unended, Ended, Raised
    <3> QED BY <2>2, <3>1 DEF NodeStep, StartNode, DryNode, CompleteNode, FailNode,
          InheritFailure, CancelNode, EndRaised, Raised, IInv, TypeOK
  <2>3. CASE Interrupt
    BY <2>3 DEF Interrupt, InterruptGather, CloseTool, CloseLLM, taskVars
  <2> QED BY <2>1, <2>2, <2>3 DEF Next
<1> QED BY <1>1, Invariance, PTL DEF Spec, FailureStopsDispatch

-----------------------------------------------------------------------------
(* Root cause *)

\* Without an interrupt, a task ends by itself with an exception, or inherits
\* one, or is cancelled because of one: the first exception is that of a node
\* whose own execution raised.
RootInv ==
  /\ cancelReq # {} /\ ~interrupted => error # "none"
  /\ \A n \in Nodes : Raised(n) => error # "none"
  /\ (error # "none" /\ ~interrupted /\ \E n \in Nodes : node[n] # "new") =>
       \E n \in started : node[n] = "failed" /\ kind[n] = error

\* Each step keeps the failure's root: a task that ends with an exception either
\* raised it in its own execution or inherited it from a task that did.
LEMMA RootStep == IInv /\ RootInv /\ [Next]_vars => RootInv'
<1> SUFFICES ASSUME IInv, RootInv, [Next]_vars PROVE RootInv'
  OBVIOUS
<1> USE DEF IInv, TypeOK, RootInv, SetupInv, StartInv, Setup, Raised, taskVars,
      closeVars, engineVars
<1>1. CASE MainStep
  <2>1. CASE Restore \/ RestoreFails \/ LLMReady \/ ToolReady
               \/ \E k \in Kinds : SetupFails(k)
    <3>1. \/ node' = node /\ cancelReq' = cancelReq
          \/ StartAll
      BY <2>1 DEF Restore, RestoreFails, LLMReady, ToolReady, SetupFails,
         BeginToolSetup
    <3>2. /\ phase \in Setup
          /\ interrupted' = interrupted
      BY <2>1 DEF Restore, RestoreFails, LLMReady, ToolReady, SetupFails
    <3>3. CASE node' = node /\ cancelReq' = cancelReq
      BY <3>2, <3>3
    <3>4. CASE StartAll
      BY <3>2, <3>4 DEF StartAll
    <3> QED BY <3>1, <3>3, <3>4
  <2>2. CASE ReplayFails
    BY <2>2 DEF ReplayFails
  <2>3. CASE Drained
    BY <2>3 DEF Drained, Leave
  <2>4. CASE ReplayCompletes
    BY <2>4 DEF ReplayCompletes, Leave
  <2>5. CASE CloseStep
    BY <2>5 DEF CloseStep, CloseTool, CloseLLM
  <2> QED BY <1>1, <2>1, <2>2, <2>3, <2>4, <2>5 DEF MainStep
<1>2. ASSUME NEW n \in Nodes, NodeStep(n) PROVE RootInv'
  <2>1. CASE StartNode(n)
    BY <2>1 DEF StartNode
  <2>2. CASE DryNode(n)
    BY <2>2 DEF DryNode
  <2>3. CASE CompleteNode(n)
    BY <2>3 DEF CompleteNode
  <2>4. ASSUME NEW k \in Kinds, FailNode(n, k) PROVE RootInv'
    BY <2>4 DEF FailNode, EndRaised, Kinds
  <2>5. CASE InheritFailure(n)
    <3>1. PICK p \in Parents[n] : Raised(p) /\ EndRaised(n, node[p], kind[p])
      BY <2>5 DEF InheritFailure
    <3>2. p \in Nodes
      BY EngineAssumption
    <3>3. error' = error /\ error # "none"
      BY <3>1, <3>2 DEF EndRaised
    <3>4. \A m \in Nodes : m # n => node'[m] = node[m] /\ kind'[m] = kind[m]
      BY <3>1 DEF EndRaised
    <3>5. ASSUME ~interrupted
          PROVE  \E m \in started : node'[m] = "failed" /\ kind'[m] = error
      <4>1. PICK m \in started : node[m] = "failed" /\ kind[m] = error
        BY <2>5, <3>3, <3>5 DEF InheritFailure
      <4>2. m # n
        BY <2>5, <4>1 DEF InheritFailure
      <4> QED BY <3>4, <4>1, <4>2
    <3>6. started' = started /\ interrupted' = interrupted
      BY <3>1 DEF EndRaised
    <3> QED BY <3>3, <3>5, <3>6
  <2>6. CASE CancelNode(n)
    BY <2>6 DEF CancelNode, EndRaised
  <2> QED BY <1>2, <2>1, <2>2, <2>3, <2>4, <2>5, <2>6 DEF NodeStep
<1>3. CASE Interrupt
  BY <1>3 DEF Interrupt, InterruptGather, Leave, CloseTool, CloseLLM
<1>4. CASE UNCHANGED vars
  BY <1>4 DEF vars
<1> QED BY <1>1, <1>2, <1>3, <1>4 DEF Next

\* The failure's root is kept in every reachable state.
THEOREM RootInvariance == Spec => []RootInv
<1>1. Init => RootInv
  BY DEF Init, RootInv, Raised
<1> QED BY <1>1, RootStep, Invariance, PTL DEF Spec

\* The failure kind a replay reports is that of a node whose own execution
\* raised it, never only of a dependent that inherited it.
THEOREM FailureIsRootCause == Spec => []RootCause
<1>1. IInv /\ RootInv => RootCause
  BY DEF IInv, TypeOK, RootInv, RootCause, CloseInv, Closing, Phases, Kinds
<1> QED BY <1>1, Invariance, RootInvariance, PTL

-----------------------------------------------------------------------------
(* Refinement *)

\* The initial state of the engine is that of the contract.
LEMMA RefineInit == Init => Contract!Init
BY DEF Init, Contract!Init, Verdict

\* Every step of the engine is a step of the contract or changes nothing in it.
LEMMA RefineStep == IInv /\ IInv' /\ [Next]_vars => [Contract!Next]_Contract!vars
<1> SUFFICES ASSUME IInv, IInv', [Next]_vars PROVE [Contract!Next]_Contract!vars
  OBVIOUS
<1> DEFINE active == {n \in Nodes : node[n] = "running"}
           done   == {n \in Nodes : node[n] = "completed"}
<1> USE DEF IInv, TypeOK, taskVars, closeVars, engineVars, Verdict
<1>1. CASE MainStep
  <2>1. started' = started /\ active' = active /\ done' = done
    BY <1>1 DEF MainStep, Restore, RestoreFails, LLMReady, ToolReady, SetupFails,
       BeginToolSetup, StartAll, ReplayFails, Drained, ReplayCompletes,
       CloseStep, CloseTool, CloseLLM, SetupInv, Setup
  <2>2. \/ Verdict' = Verdict
        \/ Verdict = "open" /\ Verdict' = "stopping"
        \/ Verdict \in {"open", "stopping"} /\ phase' = "closed"
    BY <1>1 DEF MainStep, Restore, RestoreFails, LLMReady, ToolReady, SetupFails,
       BeginToolSetup, StartAll, ReplayFails, Drained, ReplayCompletes, Leave,
       CloseStep, CloseTool, CloseLLM
  <2>3. CASE Verdict' = Verdict
    BY <2>1, <2>3 DEF Contract!vars
  <2>4. CASE Verdict = "open" /\ Verdict' = "stopping"
    BY <2>1, <2>4 DEF Contract!Next, Contract!Stop
  <2>5. CASE Verdict \in {"open", "stopping"} /\ phase' = "closed"
    <3>1. active = {}
      BY <2>1, <2>5 DEF QuiescentClose
    <3>2. CASE failure' = "none"
      <4>1. done = Nodes
        BY <2>1, <2>5, <3>2 DEF CloseInv, Closing
      <4> QED BY <2>1, <2>5, <3>2, <4>1 DEF Contract!Next, Contract!Report
    <3>3. CASE failure' # "none"
      BY <2>1, <2>5, <3>1, <3>3 DEF Contract!Next, Contract!Fail
    <3> QED BY <3>2, <3>3
  <2> QED BY <2>2, <2>3, <2>4, <2>5
<1>2. ASSUME NEW n \in Nodes, NodeStep(n)
      PROVE  [Contract!Next]_Contract!vars
  <2>1. Verdict' = Verdict
    BY <1>2 DEF NodeStep, StartNode, DryNode, CompleteNode, FailNode,
       InheritFailure, CancelNode, EndRaised
  <2>2. CASE StartNode(n)
    <3>1. n \notin started /\ Parents[n] \subseteq done /\ Verdict = "open"
      BY <2>2, EngineAssumption DEF StartNode, ParentsDone, StartInv, DrainInv,
         Unended, Ended, Raised, QuiescentClose, SetupInv, Setup, Phases
    <3>2. active' = active \cup {n} /\ done' = done
      BY <2>2 DEF StartNode
    <3> QED BY <2>1, <2>2, <3>1, <3>2 DEF StartNode, Contract!Next,
          Contract!Attempt, Contract!Ready
  <2>3. CASE DryNode(n)
    <3>1. n \notin started /\ Parents[n] \subseteq done /\ Verdict = "open"
      BY <2>3, EngineAssumption DEF DryNode, ParentsDone, StartInv, DrainInv,
         Unended, Ended, Raised, QuiescentClose, SetupInv, Setup, Phases
    <3>2. active' = active /\ done' = done \cup {n}
      BY <2>3 DEF DryNode
    <3> QED BY <2>1, <2>3, <3>1, <3>2 DEF DryNode, Contract!Next,
          Contract!Copy, Contract!Ready
  <2>4. CASE CompleteNode(n)
    <3>1. n \in active /\ Verdict = "open"
      BY <2>4 DEF CompleteNode, DrainInv, Unended, Ended, Raised,
         QuiescentClose, SetupInv, Setup, Phases
    <3>2. active' = active \ {n} /\ done' = done \cup {n} /\ started' = started
      BY <2>4 DEF CompleteNode
    <3> QED BY <2>1, <3>1, <3>2 DEF Contract!Next, Contract!Record
  <2>5. CASE (\E k \in Kinds : FailNode(n, k)) \/ InheritFailure(n) \/ CancelNode(n)
    <3>1. PICK st \in {"failed", "cancelled"} :
            node' = [node EXCEPT ![n] = st] /\ started' = started
      BY <2>5 DEF FailNode, InheritFailure, CancelNode, EndRaised, Raised
    <3>2. node[n] # "completed"
      BY <2>5 DEF FailNode, InheritFailure, CancelNode
    <3>3. done' = done /\ active' = active \ {n}
      BY <3>1, <3>2
    <3>4. CASE n \in active
      BY <2>1, <3>1, <3>3, <3>4 DEF Contract!Next, Contract!Abandon
    <3>5. CASE n \notin active
      BY <2>1, <3>1, <3>3, <3>5 DEF Contract!vars
    <3> QED BY <3>4, <3>5
  <2> QED BY <1>2, <2>2, <2>3, <2>4, <2>5 DEF NodeStep
<1>3. CASE Interrupt
  <2>1. started' = started /\ active' = active /\ done' = done
    BY <1>3 DEF Interrupt, InterruptGather, CloseTool, CloseLLM
  <2>2. \/ Verdict' = Verdict
        \/ Verdict = "open" /\ Verdict' = "stopping"
        \/ /\ Verdict \in {"open", "stopping"}
           /\ phase' = "closed" /\ failure' # "none"
    BY <1>3 DEF Interrupt, InterruptGather, Leave, CloseTool, CloseLLM
  <2>3. CASE Verdict' = Verdict
    BY <2>1, <2>3 DEF Contract!vars
  <2>4. CASE Verdict = "open" /\ Verdict' = "stopping"
    BY <2>1, <2>4 DEF Contract!Next, Contract!Stop
  <2>5. CASE /\ Verdict \in {"open", "stopping"}
             /\ phase' = "closed" /\ failure' # "none"
    <3>1. active = {}
      BY <2>1, <2>5 DEF QuiescentClose
    <3> QED BY <2>1, <2>5, <3>1 DEF Contract!Next, Contract!Fail
  <2> QED BY <2>2, <2>3, <2>4, <2>5
<1>4. CASE UNCHANGED vars
  BY <1>4 DEF vars, Contract!vars
<1> QED BY <1>1, <1>2, <1>3, <1>4 DEF Next

\* replay_trace implements ReplayContract.
THEOREM EngineImplementsContract == Spec => ImplementsContract
BY RefineInit, RefineStep, Invariance, PTL DEF Spec, ImplementsContract,
   Contract!Spec

=============================================================================
