---------------------------- MODULE MCAlgorithms ----------------------------
(* The inputs of module Algorithms for TLC. *)
EXTENDS Algorithms, TLC

MCIntervals == {i \in [left : 0 .. 5, right : 0 .. 5] : i.left <= i.right}
MCWindows == {[llm |-> <<i, j>>, tool |-> <<k>>, status |-> <<"completed", "failed", "completed">>,
               start |-> 1, middle |-> 3, end |-> 4] : i, j, k \in MCIntervals}
MCValues == {v \in UNION {[1 .. n -> 0 .. 3] : n \in 1 .. 5} : \A i \in 1 .. Len(v) - 1 : v[i] <= v[i + 1]}

Chunk(t, n) == [at |-> t, count |-> n]
Chunks == {<<>>} \cup {<<Chunk(t, n)>> : t \in {1, 3, 4}, n \in 0 .. 2}
            \cup {<<Chunk(x[1], 1), Chunk(x[2], n)>> : x \in {<<1, 3>>, <<1, 4>>, <<3, 4>>}, n \in {0, 2}}
Requests == [scheduled : {0, 2}, chunks : Chunks, reason : {"length", "abort", "none"},
             prompt : {2}, cached : {1}]
MCLogs == {[requests |-> <<r, s>>, start |-> w[1], end |-> w[2]] :
             r \in Requests, s \in Requests, w \in {<<1, 4>>, <<0, 6>>}}

Times == {t \in [1 .. 4 -> 0 .. 6] : \A i \in 1 .. 3 : t[i] < t[i + 1]}
Series == {M!NoSeries, [queries |-> 0], [queries |-> 2], [queries |-> 1, hits |-> 1], [hits |-> 2]}
Gpus == {<<1, 1>>, <<3, 1>>, <<4, M!None>>, <<4>>}
Sample(t, s, g) == [at |-> t, series |-> s, gpus |-> g, io |-> [disk |-> t]]
Shown == [1 .. 4 -> Series \X {<<1, 1>>}] \cup [1 .. 4 -> {M!NoSeries} \X Gpus]
MCSamplings ==
    {[samples |-> [i \in 1 .. 4 |-> Sample(t[i], x[i][1], x[i][2])], start |-> 1, end |-> 5] :
       t \in Times, x \in Shown}
MCTicks == {[old |-> <<0, 1, 0, 1, 1>>, new |-> new] : new \in [1 .. 5 -> 0 .. 2]}

Permutations3 == {p \in [1 .. 3 -> 1 .. 3] : \A i, j \in 1 .. 3 : p[i] = p[j] => i = j}
ToolLists(i) == {<<>>, <<<<i, 1>>>>, <<<<i, 1>>, <<i, 2>>>>}
MCSessions ==
    {[turns |-> [i \in 1 .. 3 |-> [id |-> IF named[i] THEN i ELSE NoId, tools |-> <<a, b, c>>[i]]],
      calls |-> [i \in 1 .. 3 |-> [id |-> IF seen[i] THEN order[i] ELSE NoId, turn |-> order[i],
                                   sequence |-> i, usable |-> TRUE]],
      failed |-> failed] :
        order \in Permutations3, named \in [1 .. 3 -> BOOLEAN], seen \in [1 .. 3 -> BOOLEAN],
        failed \in BOOLEAN, a \in ToolLists(1), b \in ToolLists(2), c \in ToolLists(3)}
Parents == {<<>>, <<1>>, <<2>>, <<3>>, <<1, 2>>, <<2, 3>>, <<3, 1>>, <<4>>, <<1, 1>>}
MCGraphs == {<<[id |-> 1, depends_on |-> a], [id |-> 2, depends_on |-> b], [id |-> third, depends_on |-> c]>> :
               a \in Parents, b \in Parents, c \in Parents, third \in {2, 3}}

Recorded == {<<"a">>, <<"a", "b">>, <<"b">>}
Pairs == [recorded : Recorded, replayed : {<<"x">>, <<"b", "a">>, <<"a">>}]
MCTexts == {[learned |-> <<x, y>>, words |-> w] : x, y \in Pairs, w \in [1 .. 2 -> Recorded \cup {<<"c">>, <<"c", "a">>}]}

Route(x, w, d) == [queue |-> "large", min_nodes |-> x[1], max_nodes |-> x[2], walltime |-> w, drain |-> d]
RouteLists == {<<>>} \cup {<<Route(x, w, d)>> : x \in {<<3, 4>>, <<5, 8>>, <<2, 3>>}, w \in {4, 8}, d \in {0, 3}}
                \cup {<<Route(<<3, 4>>, 8, 0), Route(<<5, 8>>, 9, 3)>>}
Files == [inference : {{1}, {1, 2}, {1, 2, 4}},
          router : {[inference |-> {}, policies |-> {}],
                    [inference |-> {1, 2}, policies |-> {"round_robin", "cache_aware"}]},
          pbs : [queue : {"prod"}, max_nodes : {0, 2, 4}, walltime : {5, 8}, drain : {1, 3}, routes : RouteLists],
          window : {[openclaw |-> 2, minisweagent |-> 3]}]
MCConfigs == [config : Files, smoke : BOOLEAN, group : P!Groups \cup {"all", "routing"}]
Shapes == {<<1, 1>>, <<2, 1>>, <<2, 2>>, <<3, 1>>}
Four == {"h1", "h2", "h3", "h4"}
MCAllocations ==
    {[replicas |-> shape[1], frontends |-> shape[2], hosts |-> hosts, batch |-> batch] :
       shape \in Shapes, hosts \in UNION {[1 .. n -> Four] : n \in 1 .. 4}, batch \in Four}
Experiments == {m \in [id : {"p", "q"}, replicas : 1 .. 2, frontends : 1 .. 2, window : {2, 4}, drain : {1}] :
                  m.frontends <= m.replicas}
MCPacks == {[members |-> <<m, n>>, size |-> size, hosts |-> <<"h1", "h2", "h1", "h3", "h4", "h5">>, batch |-> batch] :
              m, n \in Experiments, size \in {4, 5}, batch \in Four \cup {"h5"}}
=============================================================================
