------------------------------- MODULE Layout -------------------------------
(***************************************************************************)
(* From a multi-node configuration to jobs and from an allocation to nodes *)
(* (experiments/multi/config.py, partition and render of packed.py,        *)
(* experiments/pbs.py).  A configuration is a record                       *)
(*   [inference, router, pbs, window]                                      *)
(* with the set of inference node counts, the official router's counts and *)
(* policies (both empty without one), the batch system's limits and, per   *)
(* workload, the seconds of warmup and measurement.  Seconds are given in  *)
(* units of the configuration; an operator that may raise a ValueError     *)
(* returns Error then.                                                     *)
(***************************************************************************)
EXTENDS Integers, Sequences, FiniteSets, FiniteSetsExt, SequencesExt

CONSTANTS Workloads,   \* "openclaw", "minisweagent"
          StartupCost, \* 930 s for a service to become ready
          SmokeWindow, \* 30 + 60 s
          PackNodes,   \* 10 nodes of a packed allocation
          PackWalltime \* three hours

Error == [error |-> "ValueError"]
NoLimit == 0

-----------------------------------------------------------------------------
(* Queue routes *)

\* read_config: routes are increasing and do not overlap.
RoutesValid(pbs) ==
    /\ pbs.routes # <<>> => pbs.max_nodes # NoLimit
    /\ \A i \in DOMAIN pbs.routes :
         /\ pbs.routes[i].min_nodes <= pbs.routes[i].max_nodes
         /\ pbs.routes[i].min_nodes > (IF i = 1 THEN pbs.max_nodes ELSE pbs.routes[i - 1].max_nodes)

ReadConfig(config) ==
    /\ 1 \in config.inference /\ \A n \in config.inference : n >= 1
    /\ RoutesValid(config.pbs)
    /\ config.router.policies # {} <=> config.router.inference # {}

\* The queue, the walltime and the drain budget of a job; a route may have its own.
\* <<>> means that no route takes so many nodes.
PbsForPoint(pbs, nodes) ==
    LET covering == {i \in DOMAIN pbs.routes :
                       pbs.routes[i].min_nodes <= nodes /\ nodes <= pbs.routes[i].max_nodes}
        route == pbs.routes[Min(covering)]
    IN CASE pbs.max_nodes = NoLimit \/ nodes <= pbs.max_nodes ->
              <<[queue |-> pbs.queue, walltime |-> pbs.walltime, drain |-> pbs.drain]>>
         [] pbs.max_nodes # NoLimit /\ nodes > pbs.max_nodes /\ covering # {} ->
              <<[queue |-> route.queue, walltime |-> route.walltime,
                 drain |-> IF route.drain = NoLimit THEN pbs.drain ELSE route.drain]>>
         [] OTHER -> <<>>

-----------------------------------------------------------------------------
(* The matrix of experiments *)

Groups == {"weak-scaling", "fixed-frontend", "mechanism"}
Spec(n, layout, routing, reuse, proxy) ==
    [replicas |-> n, layout |-> layout, routing |-> routing, reuse |-> reuse, proxy |-> proxy]

ScalingSpecs(config) ==
    {Spec(n, layout, "sticky", "normal", FALSE) : n \in config.inference, layout \in {"balanced", "fixed_frontend"}}
      \ {Spec(1, "fixed_frontend", "sticky", "normal", FALSE)}
MechanismSpecs ==
    {Spec(4, "balanced", routing, reuse, TRUE) : routing \in {"sticky", "round_robin"}, reuse \in {"normal", "none"}}
RoutingSpecs(config) ==
    {Spec(n, "fixed_frontend", policy, "normal", TRUE) :
        n \in config.router.inference, policy \in config.router.policies}

FrontendNodes(p) == IF p.layout = "balanced" THEN p.replicas ELSE 1
PhysicalNodes(p) == p.replicas + FrontendNodes(p)

InGroup(p, group) ==
    CASE group = "all" -> TRUE
      [] group = "weak-scaling" -> p.layout = "balanced" /\ ~p.proxy
      [] group = "fixed-frontend" -> p.layout = "fixed_frontend"
      [] group = "mechanism" -> p.proxy
      [] group = "routing" -> p.official

Kind(p) == CASE p.official -> (IF p.smoke THEN "routing-smoke" ELSE "routing")
             [] p.smoke /\ ~p.official -> "smoke"
             [] p.proxy /\ ~p.smoke /\ ~p.official -> "mechanism"
             [] OTHER -> p.layout

\* The name of a point, and so of its files, keeps only what its kind varies.
PointId(p) ==
    <<p.workload, Kind(p), p.replicas,
      CASE p.official -> <<p.routing>>
        [] Kind(p) = "mechanism" -> <<p.routing, p.reuse>>
        [] OTHER -> <<>> >>

SpecsOf(config, smoke, official) ==
    CASE official -> RoutingSpecs(config)
      [] smoke /\ ~official -> {Spec(2, "balanced", "round_robin", "none", TRUE)}
      [] OTHER -> ScalingSpecs(config) \cup MechanismSpecs

PointOf(s, w, config, smoke, official) ==
    [workload |-> w, replicas |-> s.replicas, layout |-> s.layout, routing |-> s.routing, reuse |-> s.reuse,
     proxy |-> s.proxy, official |-> official, smoke |-> smoke,
     window |-> IF smoke THEN SmokeWindow ELSE config.window[w]]

Matrix(config, smoke, group) ==
    LET official == group = "routing"
        points == {PointOf(s, w, config, smoke, official) : s \in SpecsOf(config, smoke, official), w \in Workloads}
    IN IF \/ smoke /\ group \notin {"all", "routing"}
          \/ official /\ config.router.policies = {}
       THEN Error
       ELSE [points |-> {p \in points : InGroup(p, group)}]

\* check: a point without a route is deferred; one that does not fit is an error.
CheckMatrix(config, smoke, group) ==
    LET planned == Matrix(config, smoke, group)
        pbs(p) == PbsForPoint(config.pbs, PhysicalNodes(p))
        deferred == {p \in planned.points : pbs(p) = <<>>}
        fits(p) == p.window + pbs(p)[1].drain + StartupCost <= pbs(p)[1].walltime
    IN IF \/ planned = Error \/ planned.points = {}
          \/ \E p \in planned.points \ deferred : ~fits(p)
       THEN Error
       ELSE [planned |-> planned.points, deferred |-> deferred, ready |-> deferred # planned.points]

Listed(p, group) ==
    CASE group = "weak-scaling" -> p.layout = "balanced" /\ ~p.proxy
      [] group = "fixed-frontend" -> p.layout = "fixed_frontend" /\ ~p.proxy
      [] group = "mechanism" -> p.proxy /\ ~p.official
      [] group = "routing" -> p.official

\* render: one job per point that has a route, and the lists to submit by group.
Render(config, smoke, group) ==
    LET status == CheckMatrix(config, smoke, group)
        jobs == status.planned \ status.deferred
    IN IF status = Error \/ ~status.ready THEN Error
       ELSE [jobs |-> {[id |-> PointId(p), point |-> p, pbs |-> PbsForPoint(config.pbs, PhysicalNodes(p))[1]] :
                         p \in jobs},
             submit |-> [g \in IF smoke THEN {} ELSE Groups \cup {"routing"} |->
                          {PointId(p) : p \in {q \in jobs : Listed(q, g)}}]]

-----------------------------------------------------------------------------
(* Nodes of an allocation *)

\* Mutant: the order of the node file is kept.
NodesInOrder(allocated, batch) ==
    FoldLeft(LAMBDA s, h : IF h \in ToSet(s) THEN s ELSE Append(s, h), <<>>, allocated)

\* The batch host first, the others once each in the order of the node file.
Nodes(allocated, batch) ==
    FoldLeft(LAMBDA s, h : IF h \in ToSet(s) THEN s ELSE Append(s, h), <<batch>>, allocated)

NodeLayout(replicas, frontends, allocated, batch) ==
    LET nodes == Nodes(allocated, batch)
    IN IF batch \notin ToSet(allocated) \/ Cardinality(ToSet(allocated)) # replicas + frontends
       THEN Error
       ELSE [frontends |-> SubSeq(nodes, 1, frontends),
             inference |-> SubSeq(nodes, frontends + 1, Len(nodes)),
             frontend_of |-> [i \in 0 .. replicas - 1 |-> nodes[(i % frontends) + 1]]]

\* partition: a pack's members take their nodes one after the other.
Offset(sizes, i) == MapThenSumSet(LAMBDA j : sizes[j].replicas + sizes[j].frontends, 1 .. i - 1)
Partition(members, size, allocated, batch) ==
    LET nodes == Nodes(allocated, batch)
        subset(i) == SubSeq(nodes, Offset(members, i) + 1, Offset(members, i + 1))
    IN IF \/ batch \notin ToSet(allocated) \/ Cardinality(ToSet(allocated)) # size
          \/ Offset(members, Len(members) + 1) > size
       THEN Error
       ELSE [nodes |-> [i \in DOMAIN members |-> subset(i)],
             mapping |-> [i \in DOMAIN members |->
                            NodeLayout(members[i].replicas, members[i].frontends, subset(i), subset(i)[1])],
             unused |-> SubSeq(nodes, Offset(members, Len(members) + 1) + 1, Len(nodes))]

\* packed.render: each experiment in one pack, each pack within its nodes and time.
RenderPacks(packs) ==
    LET placed == {<<i, j>> : i \in DOMAIN packs, j \in 1 .. 9}
        members == {x \in placed : x[2] <= Len(packs[x[1]])}
        member(x) == packs[x[1]][x[2]]
    IN IF \/ \E x, y \in members : x # y /\ member(x).id = member(y).id
          \/ \E x \in members : member(x).window + member(x).drain + StartupCost > PackWalltime
          \/ \E i \in DOMAIN packs : packs[i] = <<>> \/ Offset(packs[i], Len(packs[i]) + 1) > PackNodes
       THEN Error ELSE [packs |-> packs]

-----------------------------------------------------------------------------
(* What jobs and layouts promise *)

\* Every job that is rendered goes to a queue that takes its nodes and leaves
\* time for startup, window and drain; no two have the same files; and a job is
\* in exactly one list to submit.
JobsFit(config, smoke, group) ==
    LET out == Render(config, smoke, group)
        takes(nodes, queue) ==
            \/ queue = config.pbs.queue /\ (config.pbs.max_nodes = NoLimit \/ nodes <= config.pbs.max_nodes)
            \/ \E r \in ToSet(config.pbs.routes) : r.queue = queue /\ r.min_nodes <= nodes /\ nodes <= r.max_nodes
    IN (ReadConfig(config) /\ out # Error) =>
         /\ \A j \in out.jobs : /\ takes(PhysicalNodes(j.point), j.pbs.queue)
                                /\ j.pbs.walltime - j.pbs.drain - StartupCost >= j.point.window
         /\ \A j, k \in out.jobs : j.id = k.id => j = k
         /\ ~smoke => \A j \in out.jobs : Cardinality({g \in DOMAIN out.submit : j.id \in out.submit[g]}) = 1

\* The roles share out the allocation: every node has one, the coordinator's is
\* the first frontend, every replica has a node of its own, and no frontend has
\* two replicas more than another.
RolesPartition(replicas, frontends, allocated, batch) ==
    LET l == NodeLayout(replicas, frontends, allocated, batch)
        load(f) == Cardinality({i \in DOMAIN l.frontend_of : l.frontend_of[i] = f})
    IN l # Error =>
         /\ IsInjective(l.frontends \o l.inference) /\ ToSet(l.frontends \o l.inference) = ToSet(allocated)
         /\ l.frontends[1] = batch /\ Len(l.inference) = replicas
         /\ \A f, g \in ToSet(l.frontends) : load(f) <= load(g) + 1

\* The members of a pack have nodes of their own, whatever their number, and
\* each of them gets the layout it asked for; a rendered pack fits.
PacksDisjoint(members, size, allocated, batch) ==
    LET p == Partition(members, size, allocated, batch)
    IN /\ p # Error =>
            /\ \A h \in ToSet(allocated) :
                 Cardinality({i \in DOMAIN members : h \in ToSet(p.nodes[i])})
                   + (IF h \in ToSet(p.unused) THEN 1 ELSE 0) = 1
            /\ \A i \in DOMAIN members : p.mapping[i] # Error /\ p.mapping[i].frontends[1] = p.nodes[i][1]
       /\ (RenderPacks(<<members>>) # Error /\ size = PackNodes
             /\ batch \in ToSet(allocated) /\ Cardinality(ToSet(allocated)) = size) => p # Error
=============================================================================
