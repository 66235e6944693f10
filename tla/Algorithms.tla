----------------------------- MODULE Algorithms -----------------------------
(***************************************************************************)
(* The pure modules on sets of inputs: a step chooses an algorithm and an  *)
(* input for it, and the properties are about what is chosen.              *)
(***************************************************************************)
EXTENDS Integers, Sequences, FiniteSets

CONSTANTS
  BinSeconds,                                              \* of BackendLog,
  MaxGap, GPUs, QueryKeys, HitKeys, CounterKeys, EnergyScale,  \* Resources,
  NoId,                                                    \* TraceBuild,
  Workloads, StartupCost, SmokeWindow, PackNodes, PackWalltime  \* and Layout

CONSTANTS
  Windows,      \* records [llm, tool, status, start, middle, end]
  Values,       \* sorted sequences of numbers
  Logs,         \* records [requests, start, end]
  Samplings,    \* records [samples, start, end]
  Ticks,        \* records [old, new]
  Sessions,     \* records [turns, calls, failed]
  Graphs,       \* sequences of nodes
  Symbols,      \* what texts are made of, and the symbol
  Separator,    \* that no recorded value contains
  Texts,        \* records [learned, words]
  Configs,      \* records [config, smoke, group]
  Hosts,
  Allocations,  \* records [replicas, frontends, hosts, batch]
  Packs         \* records [members, size, hosts, batch]

L == INSTANCE BackendLog
M == INSTANCE Resources
T == INSTANCE TraceBuild
P == INSTANCE Layout

\* What a text binds, from what is recorded to what is replayed.
Learned(text) == T!FoldLeft(LAMBDA v, p : T!Add(v, p.recorded, p.replayed), <<>>, text.learned)

\* The inputs are those the program takes: configurations with the limits that
\* read_config has parsed, members with a positive number of nodes, recorded
\* paths without separators between them, and samples in the order in which the
\* sampler wrote them, with a scale in which every trapezoid is a whole number;
\* windows that begin before they end, over tasks that do so too, and sorted values;
\* logs in which a request's chunks come in the order of the engine's monotonic clock.
QueueRoutes == [queue : STRING, min_nodes : Nat, max_nodes : Nat, walltime : Nat, drain : Nat]
Members == [id : STRING, replicas : Nat \ {0}, frontends : Nat \ {0}, window : Nat, drain : Nat]
ASSUME LayoutConstants ==
  /\ Workloads \subseteq STRING /\ {StartupCost, SmokeWindow, PackNodes, PackWalltime} \subseteq Nat
  /\ \A c \in Configs :
       /\ \A w \in Workloads : c.config.window[w] \in Nat
       /\ {c.config.pbs.max_nodes, c.config.pbs.walltime, c.config.pbs.drain} \subseteq Nat
       /\ c.config.pbs.routes \in Seq(QueueRoutes)
       /\ c.config.inference \cup c.config.router.inference \subseteq Nat
       /\ c.smoke \in BOOLEAN /\ c.group \in P!Groups \cup {"all", "routing"}
  /\ Allocations \subseteq [replicas : Nat, frontends : Nat \ {0}, hosts : Seq(Hosts), batch : Hosts]
  /\ Packs \subseteq [members : Seq(Members), size : Nat, hosts : Seq(Hosts), batch : Hosts]
ASSUME TextConstants ==
  /\ Separator \in Symbols
  /\ Texts \subseteq [learned : Seq([recorded : Seq(Symbols \ {Separator}), replayed : Seq(Symbols)]),
                      words : Seq(Seq(Symbols))]
Spans == {i \in [left : Nat, right : Nat] : i.left <= i.right}
ASSUME WindowConstants ==
  /\ \A w \in Windows :
       /\ w.llm \in Seq(Spans) /\ w.tool \in Seq(Spans)
       /\ {w.start, w.middle, w.end} \subseteq Nat /\ w.start <= w.middle /\ w.middle <= w.end /\ w.start < w.end
  /\ \A v \in Values : v \in Seq(Int) /\ v # <<>> /\ \A i, j \in DOMAIN v : i <= j => v[i] <= v[j]
LoggedRequests ==
  [scheduled : Nat, chunks : Seq([at : Nat, count : Nat]), reason : STRING, prompt : Nat, cached : Nat]
ASSUME LogConstants ==
  /\ BinSeconds \in Nat \ {0}
  /\ \A g \in Logs :
       /\ g.requests \in Seq(LoggedRequests) /\ {g.start, g.end} \subseteq Nat /\ g.start < g.end
       /\ \A k \in DOMAIN g.requests : \A i, j \in DOMAIN g.requests[k].chunks :
            i <= j => g.requests[k].chunks[i].at <= g.requests[k].chunks[j].at
ASSUME MetricConstants ==
  /\ MaxGap \in Nat /\ EnergyScale \in Nat /\ \A gap \in 1 .. MaxGap : EnergyScale % (2 * gap) = 0
  /\ \A g \in Samplings :
       /\ {g.start, g.end} \subseteq Int /\ g.samples \in Seq(M!ToSet(g.samples))
       /\ \A i \in DOMAIN g.samples :
            /\ g.samples[i].at \in Int /\ g.samples[i].gpus \in Seq(Int)
            /\ \A k \in DOMAIN g.samples[i].series : g.samples[i].series[k] \in Int
       /\ \A i \in 1 .. Len(g.samples) - 1 : g.samples[i].at <= g.samples[i + 1].at
  /\ \A t \in Ticks : t.old \in Seq(Int) /\ t.new \in Seq(Int) /\ Len(t.old) = Len(t.new) /\ Len(t.new) >= 5
ASSUME TraceConstants ==
  /\ \A s \in Sessions :
       /\ s.turns \in Seq(T!ToSet(s.turns)) /\ s.calls \in Seq(T!ToSet(s.calls))
       /\ \A i \in DOMAIN s.turns : s.turns[i].tools \in Seq(T!Asked(s.turns))
       /\ \A c \in T!ToSet(s.calls) : /\ c.sequence \in Nat
                                     /\ \A i \in DOMAIN s.turns : c.id = s.turns[i].id => c.id = NoId \/ c.turn = i
  /\ \A g \in Graphs : /\ g \in Seq(T!ToSet(g))
                       /\ \A i \in DOMAIN g : g[i].depends_on \in Seq(T!ToSet(g[i].depends_on))

VARIABLES kind, input

Init == kind = "none" /\ input = <<>>

Choose(name, inputs) == kind = "none" /\ kind' = name /\ input' \in inputs
ChooseWindow == Choose("window", Windows)
ChooseValues == Choose("values", Values)
ChooseLog == Choose("log", Logs)
ChooseSamples == Choose("samples", Samplings)
ChooseTicks == Choose("ticks", Ticks)
ChooseTurns == Choose("turns", Sessions)
ChooseNodes == Choose("nodes", Graphs)
ChooseText == Choose("text", Texts)
ChooseConfig == Choose("config", Configs)
ChooseAllocation == Choose("allocation", Allocations)
ChoosePack == Choose("pack", Packs)

Next ==
  \/ ChooseWindow \/ ChooseValues \/ ChooseLog \/ ChooseSamples \/ ChooseTicks \/ ChooseTurns
  \/ ChooseNodes \/ ChooseText \/ ChooseConfig \/ ChooseAllocation \/ ChoosePack

Spec == Init /\ [][Next]_<<kind, input>>

-----------------------------------------------------------------------------
(* Window: peaks, areas, unions and percentiles are what counting second by *)
(* second gives (window.timeline, union_seconds, execution_breakdown).      *)
WindowIsExact ==
  /\ kind = "window" =>
       LET all == input.llm \o input.tool
           rows == [k \in DOMAIN all |-> [left |-> all[k].left, right |-> all[k].right,
                                          status |-> input.status[k]]]
           last == L!Max({input.end} \cup {all[k].right : k \in DOMAIN all})
       IN /\ L!TimelineExact(all, input.start, input.end) /\ L!UnionExact(input.llm, input.tool, last)
          /\ L!WindowsAdd(rows, input.start, input.middle, input.end)
  /\ kind = "values" => L!PercentilesOrdered(input)

(* The three readers of a backend log agree on what they accept (summarize_ *)
(* backend, summarize_event_window, backend_counts), and an incomplete or   *)
(* aborted log is no measurement.                                           *)
LogAccountsAgree ==
  kind = "log" => /\ L!AccountsAgree(input.requests, input.start, input.end)
                  /\ L!OnlyCompleteLogs(input.requests, input.start, input.end)

(* Metric accounts are backed by the samples: deltas without resets, energy *)
(* as the integral, coverage without holes, CPU shares between 0 and 1      *)
(* (summarize_metrics, resource_counts, HardwareSampler).                   *)
SamplesAreBacked ==
  /\ kind = "samples" => /\ M!DeltasAreProgress(input.samples, input.start, input.end)
                         /\ M!EnergyIsIntegral(input.samples, input.start, input.end)
                         /\ M!CoverageIsClose(input.samples, input.start, input.end)
  /\ kind = "ticks" => M!CpuBusySane(input.old, input.new)

(* Captured calls are paired with their own turns and the traces built from *)
(* them are valid and ordered; validate_trace accepts acyclic graphs and no *)
(* others (openclaw and minisweagent builders, schema.validate_trace).      *)
TracesAreSound ==
  /\ kind = "turns" =>
       LET extra == [id |-> NoId, turn |-> 0, sequence |-> 0, usable |-> FALSE]
           calls == IF input.failed THEN Append(input.calls, extra) ELSE input.calls
           results == T!FlattenSeq([i \in DOMAIN input.turns |-> input.turns[i].tools])
       IN /\ T!PairedRight(input.turns, input.calls)
          /\ T!PairedRight(input.turns, T!UsableCalls(calls))
          /\ T!BuiltInOrder(input.turns, T!BuildOpenclaw(input.turns, calls, results))
          /\ T!BuiltInOrder(input.turns, T!BuildMiniswe(input.turns, calls))
  /\ kind = "nodes" => T!ValidIsDag(input)

(* Recorded paths are rewritten value by value, also when one begins        *)
(* another, and nothing else is (Bindings.add and rewrite).                 *)
RewriteIsExact == kind = "text" => T!RewriteExact(Learned(input), input.words, Separator)

(* Rendered jobs fit their queue and walltime, the roles of a layout share  *)
(* out the allocation and packed members never share a node (config.py,     *)
(* packed.partition and render).                                            *)
LayoutIsSound ==
  /\ kind = "config" => P!JobsFit(input.config, input.smoke, input.group)
  /\ kind = "allocation" => P!RolesPartition(input.replicas, input.frontends, input.hosts, input.batch)
  /\ kind = "pack" => P!PacksDisjoint(input.members, input.size, input.hosts, input.batch)
=============================================================================
