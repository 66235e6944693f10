----------------------------- MODULE TraceBuild -----------------------------
(***************************************************************************)
(* From a captured session to a trace: the pairing of captured LLM calls   *)
(* with the turns of the trajectory, the dependencies of the nodes         *)
(* (adapters/openclaw.py, adapters/minisweagent.py), the validation of a   *)
(* trace (schema.py) and the rewriting of recorded values in a replay      *)
(* (replay/bindings.py).                                                   *)
(*                                                                         *)
(* A turn is a record [id, tools]: its response id and the ids of the tool *)
(* calls it asks for.  A captured call is a record [id, turn, sequence,    *)
(* usable]; "turn" is the turn it really answered, which no builder sees.  *)
(* A node is a record [id, depends_on].  Error stands for a ValueError.    *)
(***************************************************************************)
EXTENDS Integers, Sequences, FiniteSets, SequencesExt, Ordering

CONSTANT NoId   \* a response without an id

Error == <<"error">>

-----------------------------------------------------------------------------
(* Pairing *)

\* Mutant: turns take the calls in the order of their capture.
TakeNext(s, turn) ==
    [s EXCEPT !.unused = Tail(@), !.ordered = Append(@, Head(s.unused))]

\* Each turn takes the unused call with its id, the last one captured if there
\* are several, or else the first that is unused.
TakeCall(s, turn) ==
    LET same == {i \in DOMAIN s.all : s.all[i].id = turn.id /\ turn.id # NoId}
        named == IF same = {} THEN {} ELSE {s.all[CHOOSE i \in same : \A j \in same : j <= i]}
        call == IF named # {} /\ named \subseteq ToSet(s.unused)
                THEN CHOOSE c \in named : TRUE ELSE s.unused[1]
    IN [s EXCEPT !.unused = RemoveFirst(@, call), !.ordered = Append(@, call)]

\* The calls by their sequence number.
Captured(calls) ==
    LET K == DOMAIN calls
        earlier == {p \in K \X K : \/ calls[p[1]].sequence < calls[p[2]].sequence
                                  \/ /\ calls[p[1]].sequence = calls[p[2]].sequence
                                     /\ p[1] < p[2]}
    IN [i \in K |-> calls[Ranked(K, earlier)[i]]]

OrderedCalls(turns, calls) ==
    LET sorted == Captured(calls)
    IN IF Len(calls) # Len(turns) THEN Error
       ELSE FoldLeft(TakeCall, [all |-> sorted, unused |-> sorted, ordered |-> <<>>], turns).ordered

\* mini-SWE-agent: calls without a token count or with an error status are not
\* answers of the trajectory.
UsableCalls(calls) ==
    LET K == {i \in DOMAIN calls : calls[i].usable}
    IN [i \in 1 .. Cardinality(K) |-> calls[Ranked(K, Less(K))[i]]]

-----------------------------------------------------------------------------
(* Nodes *)

Llm(i) == <<"llm", i>>
Tool(i) == <<"tool", i>>
PreviousTurn(s) ==
    CASE s.pending # <<>> -> s.pending
      [] s.pending = <<>> /\ s.llms > 0 -> <<Llm(s.llms)>>
      [] OTHER -> <<>>

\* A turn's LLM node waits for every tool of the turn before.
AddLlm(s) ==
    [s EXCEPT !.nodes = Append(@, [id |-> Llm(s.llms + 1), depends_on |-> PreviousTurn(s)]),
              !.llms = @ + 1, !.pending = <<>>]

\* OpenClaw: tools of one turn wait for its LLM node only.
AddSibling(s, call) ==
    [s EXCEPT !.nodes = Append(@, [id |-> Tool(s.tools + 1), depends_on |-> <<Llm(s.llms)>>]),
              !.tools = @ + 1, !.pending = Append(@, Tool(s.tools + 1))]

\* mini-SWE-agent: commands of one turn run one after the other.
AddChained(s, call) ==
    [s EXCEPT !.nodes = Append(@, [id |-> Tool(s.tools + 1),
                                   depends_on |-> IF s.pending = <<>> THEN <<Llm(s.llms)>> ELSE s.pending]),
              !.tools = @ + 1, !.pending = <<Tool(s.tools + 1)>>]

AddTool(s, call, chained) == IF chained THEN AddChained(s, call) ELSE AddSibling(s, call)
AddTurn(s, turn, chained) == FoldLeft(LAMBDA t, call : AddTool(t, call, chained), AddLlm(s), turn.tools)
Built(turns, chained) ==
    FoldLeft(LAMBDA s, turn : AddTurn(s, turn, chained),
             [nodes |-> <<>>, llms |-> 0, tools |-> 0, pending |-> <<>>], turns).nodes

\* Results are a sequence of tool call ids, as the trajectory has them.
Asked(turns) == UNION {ToSet(turns[i].tools) : i \in DOMAIN turns}
BuildOpenclaw(turns, calls, results) ==
    IF \/ OrderedCalls(turns, calls) = Error
       \/ \E c \in ToSet(calls) : ~c.usable
       \/ Cardinality(ToSet(results)) # Len(results)
       \/ ToSet(results) # Asked(turns)
    THEN Error ELSE Built(turns, FALSE)

BuildMiniswe(turns, calls) ==
    IF OrderedCalls(turns, UsableCalls(calls)) = Error THEN Error ELSE Built(turns, TRUE)

\* mini-SWE-agent's last command ends the run: its result is the exit message
\* that follows the turn, if there is one; where = turns before the message.
RecordedResult(call, turn, results, exits) ==
    LET after == {e \in exits : e >= turn}
    IN CASE call \in results -> <<"tool", call>>
         [] call \notin results /\ after # {} -> <<"exit", CHOOSE e \in after : \A f \in after : e <= f>>
         [] OTHER -> <<"missing">>

\* Spilled tool outputs: each recorded path once, if its file still exists.
SpillArtifacts(paths, existing) ==
    LET take(s, p) == IF p \in s.seen THEN s
                      ELSE [seen |-> s.seen \cup {p},
                            artifacts |-> IF p \in existing THEN Append(s.artifacts, p) ELSE s.artifacts]
    IN FoldLeft(take, [seen |-> {}, artifacts |-> <<>>], paths).artifacts

-----------------------------------------------------------------------------
(* validate_trace: duplicate and unknown ids, then a depth-first search *)

\* One depth-first search after another, from every node; visit[<<n, s>>] is
\* the state of the search after the visit of n in state s.
CycleFound(ids, parents, roots) ==
    LET States == [visiting : SUBSET ids, visited : SUBSET ids, cycle : BOOLEAN]
        visit[x \in ids \X States] ==
            LET n == x[1]
                s == x[2]
                inner == FoldLeft(LAMBDA acc, p : visit[<<p, acc>>],
                                  [s EXCEPT !.visiting = @ \cup {n}], parents[n])
            IN IF s.cycle THEN s
               ELSE IF n \in s.visiting THEN [s EXCEPT !.cycle = TRUE]
               ELSE IF n \in s.visited THEN s
               ELSE IF inner.cycle THEN inner
               ELSE [inner EXCEPT !.visiting = @ \ {n}, !.visited = @ \cup {n}]
    IN FoldLeft(LAMBDA acc, p : visit[<<p, acc>>],
                [visiting |-> {}, visited |-> {}, cycle |-> FALSE], roots).cycle

ValidTrace(nodes) ==
    LET ids == {nodes[i].id : i \in DOMAIN nodes}
        parents == [n \in ids |-> (CHOOSE x \in ToSet(nodes) : x.id = n).depends_on]
    IN /\ nodes # <<>> /\ Cardinality(ids) = Len(nodes)
       /\ \A i \in DOMAIN nodes : /\ Cardinality(ToSet(nodes[i].depends_on)) = Len(nodes[i].depends_on)
                                  /\ ToSet(nodes[i].depends_on) \subseteq ids
       /\ ~CycleFound(ids, parents, [i \in DOMAIN nodes |-> nodes[i].id])

-----------------------------------------------------------------------------
(* Bindings: values is a function from recorded to replayed strings; a string *)
(* is a sequence of path segments and separators                             *)

Add(values, recorded, replayed) ==
    IF recorded # <<>> /\ replayed # <<>> /\ recorded # replayed
    THEN [v \in DOMAIN values \cup {recorded} |-> IF v = recorded THEN replayed ELSE values[v]]
    ELSE values

\* Mutant: the alternatives of the pattern are not sorted by length.
FirstMatch(matching) == CHOOSE v \in matching : \A w \in matching : Len(v) <= Len(w)
LongestMatch(matching) == CHOOSE v \in matching : \A w \in matching : Len(w) <= Len(v)

\* One pass from left to right; at each place the longest recorded value that
\* matches is replaced, and what replaces it is not looked at again.
Rewrite(values, text) ==
    LET end == Len(text) + 1
        matching(i) == {v \in DOMAIN values : IsPrefix(v, SubSeq(text, i, Len(text)))}
        from[i \in 1 .. end] ==
            IF i = end THEN <<>>
            ELSE IF matching(i) = {} THEN <<text[i]>> \o from[i + 1]
            ELSE LET longest == LongestMatch(matching(i)) IN values[longest] \o from[i + Len(longest)]
    IN from[1]

-----------------------------------------------------------------------------
(* What they promise *)

\* Every turn is paired with the call that answered it if both carry ids, or if
\* the calls were captured in the order of the turns; and no call is used twice.
PairedRight(turns, calls) ==
    LET paired == OrderedCalls(turns, calls)
        sorted == Captured(calls)
    IN paired # Error =>
         /\ ToSet(paired) = ToSet(calls)
         /\ \/ \A i \in DOMAIN turns : turns[i].id # NoId /\ \E c \in ToSet(calls) : c.id = turns[i].id
            \/ \A i \in DOMAIN sorted : sorted[i].turn = i
            => \A i \in DOMAIN paired : paired[i].turn = i

\* The nodes of a trace form a graph without cycles that ends in its roots, no
\* id is given twice, and validate_trace accepts no other.
ValidIsDag(nodes) ==
    LET ids == {nodes[i].id : i \in DOMAIN nodes}
        parents(n) == UNION {ToSet(nodes[i].depends_on) : i \in {j \in DOMAIN nodes : nodes[j].id = n}}
        sound == /\ nodes # <<>> /\ \A i, j \in DOMAIN nodes : nodes[i].id = nodes[j].id => i = j
                 /\ \A n \in ids : parents(n) \subseteq ids
                 /\ \A i \in DOMAIN nodes : IsInjective(nodes[i].depends_on)
                 /\ \A S \in SUBSET ids : S # {} => \E n \in S : parents(n) \cap S = {}
    IN ValidTrace(nodes) <=> sound

\* Everything before a node, along depends_on.
Before(nodes, ids) ==
    LET steps[k \in 0 .. Len(nodes)] ==
            IF k = 0 THEN ids
            ELSE LET known == steps[k - 1]
                 IN known \cup UNION {ToSet(nodes[i].depends_on) : i \in {j \in DOMAIN nodes : nodes[j].id \in known}}
    IN steps[Len(nodes)]

\* A trace that is built is valid, and an LLM node comes after every node of
\* the turns before it: the request it replays contains their results.
BuiltInOrder(turns, nodes) ==
    nodes # Error =>
        /\ turns # <<>> => ValidTrace(nodes)
        /\ \A i \in DOMAIN nodes : nodes[i].id[1] = "llm" =>
              Before(nodes, {nodes[i].id}) = {nodes[j].id : j \in 1 .. i}

\* Where nothing that was recorded begins.
Unbound(values, word) ==
    \A v \in DOMAIN values : \A i \in DOMAIN word : ~IsPrefix(v, SubSeq(word, i, Len(word)))

\* A text of recorded values, and of words without any, between separators that
\* occur in none of them is rewritten value by value, also when one value begins
\* another.
Joined(words, separator) == FoldLeft(LAMBDA acc, w : acc \o w \o <<separator>>, <<>>, words)
Replayed(values, words) == [i \in DOMAIN words |-> IF words[i] \in DOMAIN values THEN values[words[i]] ELSE words[i]]
RewriteExact(values, words, separator) ==
    (\A i \in DOMAIN words : /\ words[i] \in DOMAIN values \/ Unbound(values, words[i])
                             /\ separator \notin ToSet(words[i])) =>
      Rewrite(values, Joined(words, separator)) = Joined(Replayed(values, words), separator)
=============================================================================
