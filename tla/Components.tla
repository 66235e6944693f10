----------------------------- MODULE Components -----------------------------
(***************************************************************************)
(* The components that run beside each other and share nothing: the        *)
(* initial state chooses the one whose behaviours are followed, the        *)
(* variables of the others keep an initial value.  Routing is extended,    *)
(* with its properties; the others are instantiated.                       *)
(***************************************************************************)
EXTENDS Routing, ReplayNode, PackMembers, CollectedTasks, SweepPoints

CONSTANTS
  Leasers,   \* the replays whose gateways are followed
  Requests,  \* request ids of the inference engine
  MaxSteps   \* bound on the calls of its schedule()

ASSUME ComponentsConstants == Leasers \subseteq Replays /\ IsFiniteSet(Requests) /\ MaxSteps \in Nat

VARIABLES which

VARIABLES
  g_pc, g_port, g_tries, g_client, g_logs, g_lease, g_bound, g_gateway
VARIABLES
  s_pc, s_build, s_offset, s_slot, s_command, s_cleanup, s_environment,
  s_sandbox
VARIABLES
  p_pack, p_cancels, p_status, p_pc, p_file, p_ssh, p_stdin, p_remote
VARIABLES
  a_pc, a_mode, a_named, a_index, a_lock, a_agent, a_copied, a_traces, a_status,
  a_predictions, a_summary
VARIABLES
  b_at, b_armed, b_interrupts, b_trajectory, b_sandboxes, b_trace, b_state,
  b_statuses, b_listed, b_result
VARIABLES
  w_at, w_point, w_signals, w_failed, w_service, w_stdin, w_replay, w_summary,
  w_csv
VARIABLES
  i_image, i_partial, i_index, i_lock, i_pc, i_todo, i_pool, i_current, i_mem,
  i_failures, i_crashes
VARIABLES
  d_phase, d_request, d_scheduled, d_tried, d_pending, d_counts, d_written,
  d_rows, d_queried, d_truth

G == INSTANCE Gateway WITH Replays <- Leasers,
                           pc <- g_pc, port <- g_port, tries <- g_tries,
                           client <- g_client, logs <- g_logs,
                           lease <- g_lease, bound <- g_bound,
                           gateway <- g_gateway
S == INSTANCE Sandbox WITH pc <- s_pc, build <- s_build, offset <- s_offset,
                           slot <- s_slot, command <- s_command,
                           cleanup <- s_cleanup, environment <- s_environment,
                           sandbox <- s_sandbox
P == INSTANCE Packed WITH pack <- p_pack, cancels <- p_cancels,
                          status <- p_status, pc <- p_pc, file <- p_file,
                          ssh <- p_ssh, stdin <- p_stdin, remote <- p_remote
A == INSTANCE GaiaCollect WITH pc <- a_pc, mode <- a_mode, named <- a_named,
                               index <- a_index,
                               lock <- a_lock, agent <- a_agent,
                               copied <- a_copied, traces <- a_traces,
                               status <- a_status,
                               predictions <- a_predictions,
                               summary <- a_summary
B == INSTANCE SweCollect WITH at <- b_at, armed <- b_armed,
                              interrupts <- b_interrupts,
                              trajectory <- b_trajectory,
                              sandboxes <- b_sandboxes, trace <- b_trace,
                              state <- b_state, statuses <- b_statuses,
                              listed <- b_listed, result <- b_result
W == INSTANCE Sweep WITH at <- w_at, point <- w_point, signals <- w_signals,
                         failed <- w_failed, service <- w_service,
                         stdin <- w_stdin, replay <- w_replay,
                         summary <- w_summary, csv <- w_csv

I == INSTANCE ImageCache WITH Sources <- {"image"}, Preparers <- {"prepare"},
                              Stagers <- {"stage 1", "stage 2"},
                              MaxFailures <- 2, MaxCrashes <- 1,
                              image <- i_image, partial <- i_partial,
                              index <- i_index, lock <- i_lock, pc <- i_pc,
                              todo <- i_todo, pool <- i_pool,
                              current <- i_current, mem <- i_mem,
                              failures <- i_failures, crashes <- i_crashes
D == INSTANCE Diagnostics WITH phase <- d_phase, request <- d_request,
                               scheduled <- d_scheduled, tried <- d_tried,
                               pending <- d_pending, counts <- d_counts,
                               written <- d_written, rows <- d_rows,
                               queried <- d_queried, truth <- d_truth

gVars == <<g_pc, g_port, g_tries, g_client, g_logs, g_lease, g_bound, g_gateway>>
sVars == <<s_pc, s_build, s_offset, s_slot, s_command, s_cleanup,
           s_environment, s_sandbox>>
pVars == <<p_pack, p_cancels, p_status, p_pc, p_file, p_ssh, p_stdin, p_remote>>
aVars == <<a_pc, a_mode, a_named, a_index, a_lock, a_agent, a_copied, a_traces,
           a_status, a_predictions, a_summary>>
bVars == <<b_at, b_armed, b_interrupts, b_trajectory, b_sandboxes, b_trace,
           b_state, b_statuses, b_listed, b_result>>
rVars == <<setup, sequence, client, seen, hop, dest, served, backend, data, log,
           rows, report>>
wVars == <<w_at, w_point, w_signals, w_failed, w_service, w_stdin, w_replay,
           w_summary, w_csv>>
iVars == <<i_image, i_partial, i_index, i_lock, i_pc, i_todo, i_pool, i_current,
           i_mem, i_failures, i_crashes>>
dVars == <<d_phase, d_request, d_scheduled, d_tried, d_pending, d_counts,
           d_written, d_rows, d_queried, d_truth>>

-----------------------------------------------------------------------------
ComponentsInit ==
    /\ which \in {"gateway", "sandbox", "pack", "gaia", "swe", "routing", "sweep", "images",
                 "diagnostics"}
    /\ G!Init /\ S!Init /\ P!Init /\ A!Init /\ B!Init /\ Init /\ W!Init /\ I!Init
    /\ D!Init
    /\ which # "gaia" => a_mode = [c \in Collectors |-> "dry"]
    /\ which # "gaia" => a_named = [c \in Collectors |-> TRUE]
    /\ which # "routing" => setup = "direct"
    /\ which # "images" => i_pool = [p \in I!Procs |-> {"image"}]

GatewayStep(Act) ==
    /\ which = "gateway" /\ Act
    /\ UNCHANGED <<which, sVars, pVars, aVars, bVars, rVars, wVars, iVars, dVars>>
SandboxStep(Act) ==
    /\ which = "sandbox" /\ Act
    /\ UNCHANGED <<which, gVars, pVars, aVars, bVars, rVars, wVars, iVars, dVars>>
PackStep(Act) ==
    /\ which = "pack" /\ Act
    /\ UNCHANGED <<which, gVars, sVars, aVars, bVars, rVars, wVars, iVars, dVars>>
GaiaStep(Act) ==
    /\ which = "gaia" /\ Act
    /\ UNCHANGED <<which, gVars, sVars, pVars, bVars, rVars, wVars, iVars, dVars>>
SweStep(Act) ==
    /\ which = "swe" /\ Act
    /\ UNCHANGED <<which, gVars, sVars, pVars, aVars, rVars, wVars, iVars, dVars>>
RoutingStep(Act) ==
    /\ which = "routing" /\ Act
    /\ UNCHANGED <<which, gVars, sVars, pVars, aVars, bVars, wVars, iVars, dVars>>
SweepStep(Act) ==
    /\ which = "sweep" /\ Act
    /\ UNCHANGED <<which, gVars, sVars, pVars, aVars, bVars, rVars, iVars, dVars>>
ImagesStep(Act) ==
    /\ which = "images" /\ Act
    /\ UNCHANGED <<which, gVars, sVars, pVars, aVars, bVars, rVars, wVars, dVars>>
DiagnosticsStep(Act) ==
    /\ which = "diagnostics" /\ Act
    /\ UNCHANGED <<which, gVars, sVars, pVars, aVars, bVars, rVars, wVars, iVars>>

ComponentsNext ==
    \/ GatewayStep(G!Next) \/ SandboxStep(S!Next) \/ PackStep(P!Next) \/ GaiaStep(A!Next)
    \/ SweStep(B!Next) \/ RoutingStep(Next) \/ SweepStep(W!Next) \/ ImagesStep(I!Next)
    \/ DiagnosticsStep(D!Next)

allVars == <<which, gVars, sVars, pVars, aVars, bVars, rVars, wVars, iVars, dVars>>

\* The fairness of the components' own specifications.
Fairness ==
    /\ \A r \in Leasers : WF_allVars(GatewayStep(G!Executor(r)))
    /\ \A r \in Replays : WF_allVars(SandboxStep(S!Thread(r)))
    /\ WF_allVars(PackStep(P!Coordinator))
    /\ \A m \in Members :
         /\ WF_allVars(PackStep(P!Member(m)))
         /\ WF_allVars(PackStep(P!RemoteStops(m)))
         /\ WF_allVars(PackStep(P!SshEnds(m)))
    /\ WF_allVars(SweepStep(W!Run))
    /\ WF_allVars(SweepStep(W!ServiceEnds /\ ~w_stdin))
    /\ \A p \in {"prepare", "stage 1", "stage 2"} : WF_allVars(ImagesStep(I!Step(p)))
    /\ \A p \in {"stage 1", "stage 2"} : SF_allVars(ImagesStep(I!Begin(p)))

ComponentsSpec == ComponentsInit /\ [][ComponentsNext]_allVars /\ Fairness

-----------------------------------------------------------------------------
(* Live replays never run gateways on one port, and a closed executor holds  *)
(* nothing (OpenClawToolExecutor).                                           *)
GatewaysApart == G!GatewaysApart

(* At most Limit sandboxes are built at once, and a closed executor leaves   *)
(* only what a cancelled setup() lost (MiniSWEAgentToolExecutor).            *)
SandboxesBounded == S!SandboxesBounded

(* A pack's status files are so, and a pack leaves an ssh client running     *)
(* only if it was cut short (run_pack).                                      *)
PackTells == P!PackTells

(* A collector's reports agree with its traces wherever an error, Ctrl-C, a  *)
(* deadline or a kill stops it, and one agent at a time works on a state     *)
(* directory that collectors name (collect_traces.py).                       *)
CollectionsAgree == A!ReportsAgree /\ A!OneAgent /\ B!DeadlinesLoseNothing

(* One service at a time, validated points, an exact table (scale.py).       *)
SweepSound == W!SweepSound

(* The event file is exact about every request and interval                  *)
(* (vllm_diagnostics.py).                                                    *)
DiagnosticsExact == D!DiagnosticsExact
=============================================================================
